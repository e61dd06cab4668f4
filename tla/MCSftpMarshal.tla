---------------------------- MODULE MCSftpMarshal ---------------------------
(***************************************************************************)
(* The reflective marshal, NAME and typed SETSTAT / FSETSTAT attributes.   *)
(* The state is the packet a responder or client hands to MarshalBinary;   *)
(* every step picks another.  Values are nested up to two levels of        *)
(* struct / slice with up to two fields, over every case of marshal's type *)
(* switch, the nil interface, and two kinds it cannot handle.             *)
(***************************************************************************)
EXTENDS SftpMarshal, FiniteSets

VARIABLE pkt

U8   == Val("uint8", 7)
U32  == Val("uint32", 16909060)
U64  == Val("uint64", [hi |-> 16909060, lo |-> 84281096])
Str  == Val("string", <<47, 120>>)
FI   == Val("fileinfo", [size |-> [hi |-> 0, lo |-> 3], mode |-> 420])
Mode == Val("FileMode", 420)   \* os.FileMode: a named uint32
GoInt == Val("int", 1)

LeafValues == {U8, U32, U64, Str, FI, NilVal, Mode, GoInt}
Level1 == {Val(t, s) : t \in {"struct", "slice"}, s \in BoundedSeq(LeafValues, 2)}
Level2 == {Val("struct", <<a, c>>) : a \in {NilVal, U32, Mode},
                                     c \in {RawBytes(<<7, 9>>), Val("struct", <<Str, NilVal>>),
                                            Val("slice", <<GoInt>>)}}
AttrValues == LeafValues \cup Level1 \cup Level2

SetstatPackets ==
    {[kind |-> "Setstat", Id |-> 1, Path |-> <<47>>, Flags |-> 4, Attrs |-> a] : a \in AttrValues}
    \cup
    {[kind |-> "Fsetstat", Id |-> 1, Handle |-> <<47>>, Flags |-> 4, Attrs |-> a] : a \in AttrValues}

Entries == {[Name |-> <<47>>, LongName |-> l, Attrs |-> a] :
               l \in {<<>>, <<120>>}, a \in BoundedSeq({U32, U64, FI, NilVal, Mode}, 2)}
NamePackets == {[kind |-> "Name", Id |-> 1, NameAttrs |-> nas] : nas \in BoundedSeq(Entries, 2)}

Packets == SetstatPackets \cup NamePackets

Init == pkt \in Packets
Next == \E p \in Packets : pkt' = p
Spec == Init /\ [][Next]_pkt

-----------------------------------------------------------------------------
(* Reference: marshal writes the leaves of a value, depth first, each in   *)
(* its wire form, and panics if and only if some leaf has a type it cannot *)
(* handle; the nil interface writes nothing.                               *)
Encodable == {"uint8", "uint32", "uint64", "string", "fileinfo"}

RECURSIVE Leaves(_)
Leaves(x) ==
    IF x.t = "nil" THEN <<>>
    ELSE IF x.t \in {"struct", "slice"}
         THEN FoldLeft(LAMBDA acc, y : acc \o Leaves(y), <<>>, x.v)
         ELSE <<x>>

LeafBytes(l) ==
    CASE l.t = "uint8"    -> <<l.v>>
      [] l.t = "uint32"   -> MarshalUint32(<<>>, l.v)
      [] l.t = "uint64"   -> MarshalUint32(MarshalUint32(<<>>, l.v.hi), l.v.lo)
      [] l.t = "string"   -> MarshalString(<<>>, l.v)
      [] l.t = "fileinfo" -> MarshalFileInfo(<<>>, l.v)

Handled(x) == \A l \in ToSet(Leaves(x)) : l.t \in Encodable

ExpectedBytes(x) == FlattenSeq([i \in DOMAIN Leaves(x) |-> LeafBytes(Leaves(x)[i])])

ExpectedMarshal(b, x) == IF Handled(x) THEN Ok(b \o ExpectedBytes(x), <<>>) ELSE Err(Panic)

ExpectedName(p) ==
    LET attrs(na) == Val("slice", na.Attrs)
        entry(na) == MarshalString(MarshalString(<<>>, na.Name), na.LongName)
                     \o ExpectedBytes(attrs(na))
    IN  IF \A i \in DOMAIN p.NameAttrs : Handled(attrs(p.NameAttrs[i]))
        THEN Ok(MarshalUint32(MarshalUint32(<<Registry.Name>>, p.Id), Len(p.NameAttrs))
                \o FlattenSeq([i \in DOMAIN p.NameAttrs |-> entry(p.NameAttrs[i])]), <<>>)
        ELSE Err(Panic)

\* Two results agree: the same outcome, and the same bytes when it is Ok.
SameResult(r1, r2) == r1.err = r2.err /\ (r1.err = NoErr => r1.v = r2.v)

-----------------------------------------------------------------------------
(* marshal, and the NAME and SETSTAT/FSETSTAT MarshalBinary built on it,   *)
(* write exactly the leaves of the value depth first in wire form, skip a  *)
(* nil interface, and panic exactly when a leaf is of a type the switch    *)
(* does not handle: a named integer type such as os.FileMode, or an int.   *)
MarshalMatchesReference ==
    /\ pkt.kind = "Name" => SameResult(MarshalName(pkt), ExpectedName(pkt))
    /\ pkt.kind # "Name" =>
          SameResult(MarshalAttrsPacket(pkt),
                     ExpectedMarshal(Marshal([pkt EXCEPT !.Attrs = <<>>]), pkt.Attrs))

(* A SETSTAT/FSETSTAT that marshals is forwarded unchanged: its            *)
(* UnmarshalBinary gives back every fixed field and keeps the attribute    *)
(* bytes as a []byte, and marshalling that packet again writes the same    *)
(* bytes the typed Attrs produced.                                         *)
ForwardStable ==
    pkt.kind # "Name" =>
      LET e == MarshalAttrsPacket(pkt)
          d == DecodePayload(e.v)
      IN  e.err = NoErr =>
            /\ d.err = NoErr
            /\ \A x \in DOMAIN pkt \ {"Attrs"} : d.v[x] = pkt[x]
            /\ SameResult(MarshalAttrsPacket([d.v EXCEPT !.Attrs = RawBytes(@)]), e)
=============================================================================
