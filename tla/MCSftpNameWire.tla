---------------------------- MODULE MCSftpNameWire --------------------------
(***************************************************************************)
(* NAME responses as the server marshals them (sshFxpNamePacket) and as    *)
(* the peer decodes them.  The state is the packet handed to MarshalBinary: *)
(* up to MaxEntries entries, with or without a long name, whose Attrs are drawn *)
(* from NameAttrChoices: one os.FileInfo per entry (what a directory       *)
(* listing sends), or any handled values of marshal.                       *)
(***************************************************************************)
EXTENDS SftpAttrs

VARIABLE pkt

\* An entry whose Attrs is one os.FileInfo, what a directory listing sends.
IsFileInfoEntry(na) == Len(na.Attrs) = 1 /\ na.Attrs[1].t = "fileinfo"

FileInfos == {Val("fileinfo", [size |-> s, mode |-> 420]) :
                 s \in {[hi |-> 0, lo |-> 0], [hi |-> 1, lo |-> 3]}}
U32Of(n) == Val("uint32", n)

\* Attrs of one os.FileInfo, or any two values marshal handles.
FileInfoAttrs == {<<fi>> : fi \in FileInfos}
AnyAttrs == BoundedSeq(FileInfos \cup {U32Of(0), U32Of(4), NilVal}, 2)
NameAttrChoices == FileInfoAttrs

\* Entries per NAME: three for one os.FileInfo each, two for any values.
MaxEntries == 3
MaxAnyEntries == 2

Entries == {[Name |-> n, LongName |-> l, Attrs |-> a] : n \in {<<>>, <<47>>},
               l \in {<<>>, <<120>>}, a \in NameAttrChoices}
Packets == {[kind |-> "Name", Id |-> 9, NameAttrs |-> nas] : nas \in BoundedSeq(Entries, MaxEntries)}

Init == pkt \in Packets
Next == \E p \in Packets : pkt' = p
Spec == Init /\ [][Next]_pkt

-----------------------------------------------------------------------------
\* The attributes an entry means: those of its os.FileInfo, SIZE and
\* PERMISSIONS set.
Meant(na) == [flags |-> 5, size |-> na.Attrs[1].v.size, perms |-> na.Attrs[1].v.mode]

Encoded == MarshalName(pkt)

\* Entry i of the peer's decode d was read as the server wrote it.
ReadAs(d, i) ==
    LET e == d.v.NameAttrs[i]
        p == pkt.NameAttrs[i]
    IN  /\ e.Name = p.Name /\ e.LongName = p.LongName
        /\ IsFileInfoEntry(p) => e.Attrs = Meant(p)

\* The peer's decode d holds exactly the entries the server wrote.
SameEntries(d) ==
    /\ Len(d.v.NameAttrs) = Len(pkt.NameAttrs)
    /\ \A i \in DOMAIN pkt.NameAttrs : ReadAs(d, i)

\* The peer decodes d without error to the packet, with no byte left over.
ReadBack(d) == d.err = NoErr /\ d.rest = <<>> /\ d.v.Id = pkt.Id /\ SameEntries(d)

(* Every NAME the server marshals is read back by the peer entry by entry:  *)
(* the Id, the count, each name and long name, and the size and            *)
(* permissions of each entry's os.FileInfo, with no byte left over; the    *)
(* attribute bytes of one entry never run into the next.                    *)
NameReadBack == ReadBack(UnmarshalName(Encoded.v))

(* A NAME the peer does decode without error is never misread: it has the  *)
(* entries the server wrote, with their names and, for an os.FileInfo, its *)
(* attributes.                                                             *)
NameNeverMisread == LET d == UnmarshalName(Encoded.v) IN d.err = NoErr => SameEntries(d)
=============================================================================
