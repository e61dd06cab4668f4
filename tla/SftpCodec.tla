----------------------------- MODULE SftpCodec -----------------------------
(***************************************************************************)
(* The primitive codec and the packet catalog of pkg/sftp (packet.go).     *)
(*                                                                         *)
(* A byte string is a sequence of naturals in 0..255.  A Go uint32 is a    *)
(* natural; TLC's integers are 32-bit signed, so the models only use       *)
(* values below 2^31 (byte order, not the sign bit, is what is checked).   *)
(* A Go uint64 is the pair of its 32-bit halves [hi, lo], which is exactly *)
(* how marshalUint64 and unmarshalUint64 treat it.                         *)
(*                                                                         *)
(* Every decode step returns a record [err, v, rest]: err is NoErr,        *)
(* ShortPacket (shortPacketError), Truncated (fmt.Errorf("truncated        *)
(* packet")) or Panic (a Go runtime index/slice panic).                     *)
(*                                                                         *)
(* Every slice decoded here is a sub-slice of the buffer recvPacket made   *)
(* with make([]byte, l), so its capacity equals its length and slicing     *)
(* past the length panics.                                                 *)
(***************************************************************************)
EXTENDS Naturals, Sequences, SequencesExt

NoErr       == "none"
ShortPacket == "short"
Truncated   == "truncated"
Panic       == "panic"
Unknown     == "unknown"

Ok(v, rest) == [err |-> NoErr, v |-> v, rest |-> rest]
Err(e)      == [err |-> e, v |-> 0, rest |-> <<>>]

(***************************************************************************)
(* Encoders.                                                               *)
(***************************************************************************)

\* Fault variant: the shifted value is not narrowed to a byte.
ByteOfUntruncated(v, k) == v \div (2^k)

\* byte(v >> k)
ByteOf(v, k) == (v \div (2^k)) % 256

MarshalUint32(b, v) ==
    b \o <<ByteOf(v, 24), ByteOf(v, 16), ByteOf(v, 8), ByteOf(v, 0)>>

MarshalUint64(b, v) == MarshalUint32(MarshalUint32(b, v.hi), v.lo)

MarshalString(b, v) == MarshalUint32(b, Len(v)) \o v

(***************************************************************************)
(* Decoders.  The unchecked ones index the buffer directly and panic when  *)
(* it is too short; the Safe ones test the length first.                   *)
(***************************************************************************)

\* b[:n], b[n:] on a slice whose capacity is its length.
GoSplit(b, n) ==
    IF n > Len(b) THEN Err(Panic)
    ELSE Ok(SubSeq(b, 1, n), SubSeq(b, n + 1, Len(b)))

\* Fault variant: the bytes read in little-endian order.
UnmarshalUint32LE(b) ==
    IF Len(b) < 4 THEN Err(Panic)
    ELSE Ok(b[1] + b[2] * 2^8 + b[3] * 2^16 + b[4] * 2^24, SubSeq(b, 5, Len(b)))

UnmarshalUint32(b) ==
    IF Len(b) < 4 THEN Err(Panic)
    ELSE Ok(b[4] + b[3] * 2^8 + b[2] * 2^16 + b[1] * 2^24, SubSeq(b, 5, Len(b)))

UnmarshalUint32Safe(b) ==
    IF Len(b) < 4 THEN Err(ShortPacket) ELSE UnmarshalUint32(b)

UnmarshalUint64(b) ==
    LET h == UnmarshalUint32(b)
        l == UnmarshalUint32(h.rest)
    IN  IF h.err # NoErr THEN h
        ELSE IF l.err # NoErr THEN l
        ELSE Ok([hi |-> h.v, lo |-> l.v], l.rest)

UnmarshalUint64Safe(b) ==
    IF Len(b) < 8 THEN Err(ShortPacket) ELSE UnmarshalUint64(b)

\* Fault variant: the declared length is not compared with the bytes left.
UnmarshalStringUnchecked(b) ==
    LET n == UnmarshalUint32Safe(b)
    IN  IF n.err # NoErr THEN n ELSE GoSplit(n.rest, n.v)

UnmarshalStringSafe(b) ==
    LET n == UnmarshalUint32Safe(b)
    IN  IF n.err # NoErr THEN n
        ELSE IF n.v > Len(n.rest) THEN Err(ShortPacket)
        ELSE GoSplit(n.rest, n.v)

UnmarshalExtensionPair(b) ==
    LET name == UnmarshalStringSafe(b)
        data == UnmarshalStringSafe(name.rest)
    IN  IF name.err # NoErr THEN name
        ELSE IF data.err # NoErr THEN data
        ELSE Ok([Name |-> name.v, Data |-> data.v], data.rest)

\* The loop of sshFxInitPacket.UnmarshalBinary: pairs until b is empty.
RECURSIVE UnmarshalExtensions(_, _)
UnmarshalExtensions(b, acc) ==
    IF b = <<>> THEN Ok(acc, b)
    ELSE LET e == UnmarshalExtensionPair(b)
         IN  IF e.err # NoErr THEN e
             ELSE UnmarshalExtensions(e.rest, Append(acc, e.v))

\* copy(p.Data, b) into p.Data = make([]byte, n): min(n, len(b)) bytes.
CopyInto(n, src) == [i \in 1..n |-> IF i <= Len(src) THEN src[i] ELSE 0]

\* Length then Data of sshFxpWritePacket.UnmarshalBinary.
UnmarshalWriteData(b) ==
    LET n == UnmarshalUint32Safe(b)
        d == GoSplit(n.rest, n.v)
    IN  IF n.err # NoErr THEN n
        ELSE IF Len(n.rest) < n.v THEN Err(ShortPacket)
        ELSE IF d.err # NoErr THEN d
        ELSE Ok(("Length" :> n.v) @@ ("Data" :> d.v), d.rest)

\* Fault variant: the Data packet copies without testing the length.
UnmarshalDataDataUnchecked(b) ==
    LET n == UnmarshalUint32Safe(b)
    IN  IF n.err # NoErr THEN n
        ELSE Ok(("Length" :> n.v) @@ ("Data" :> CopyInto(n.v, n.rest)), <<>>)

\* Length then Data of sshFxpDataPacket.UnmarshalBinary.
UnmarshalDataData(b) ==
    LET n == UnmarshalUint32Safe(b)
    IN  IF n.err # NoErr THEN n
        ELSE IF Len(n.rest) < n.v THEN Err(Truncated)
        ELSE Ok(("Length" :> n.v) @@ ("Data" :> CopyInto(n.v, n.rest)), <<>>)

(***************************************************************************)
(* The packet catalog.  Each kind's wire layout after the type byte is the *)
(* sequence of its fields in declared order, each with the codec its       *)
(* MarshalBinary / UnmarshalBinary uses:                                   *)
(*   "u32", "u64", "str"  marshalUint32/64/String, unmarshal...Safe        *)
(*   "exts"   the extension pairs of INIT / VERSION                        *)
(*   "wdata"  Length then Data of WRITE                                    *)
(*   "ddata"  Length then Data of DATA                                     *)
(*   "rest"   the raw attribute bytes of SETSTAT / FSETSTAT                *)
(*   "extname" the constant request name of the statvfs extension          *)
(***************************************************************************)
F(name, type) == [name |-> name, type |-> type]

Layout == [
    Init     |-> <<F("Version", "u32"), F("Extensions", "exts")>>,
    Version  |-> <<F("Version", "u32"), F("Extensions", "exts")>>,
    Readdir  |-> <<F("Id", "u32"), F("Handle", "str")>>,
    Opendir  |-> <<F("Id", "u32"), F("Path", "str")>>,
    Lstat    |-> <<F("Id", "u32"), F("Path", "str")>>,
    Stat     |-> <<F("Id", "u32"), F("Path", "str")>>,
    Fstat    |-> <<F("Id", "u32"), F("Handle", "str")>>,
    Close    |-> <<F("Id", "u32"), F("Handle", "str")>>,
    Remove   |-> <<F("Id", "u32"), F("Filename", "str")>>,
    Rmdir    |-> <<F("Id", "u32"), F("Path", "str")>>,
    Symlink  |-> <<F("Id", "u32"), F("Targetpath", "str"), F("Linkpath", "str")>>,
    Readlink |-> <<F("Id", "u32"), F("Path", "str")>>,
    Realpath |-> <<F("Id", "u32"), F("Path", "str")>>,
    Open     |-> <<F("Id", "u32"), F("Path", "str"), F("Pflags", "u32"), F("Flags", "u32")>>,
    Read     |-> <<F("Id", "u32"), F("Handle", "str"), F("Offset", "u64"), F("Len", "u32")>>,
    Rename   |-> <<F("Id", "u32"), F("Oldpath", "str"), F("Newpath", "str")>>,
    Write    |-> <<F("Id", "u32"), F("Handle", "str"), F("Offset", "u64"), F("Data", "wdata")>>,
    Mkdir    |-> <<F("Id", "u32"), F("Path", "str"), F("Flags", "u32")>>,
    Setstat  |-> <<F("Id", "u32"), F("Path", "str"), F("Flags", "u32"), F("Attrs", "rest")>>,
    Fsetstat |-> <<F("Id", "u32"), F("Handle", "str"), F("Flags", "u32"), F("Attrs", "rest")>>,
    Handle   |-> <<F("Id", "u32"), F("Handle", "str")>>,
    Data     |-> <<F("Id", "u32"), F("Data", "ddata")>>,
    Statvfs  |-> <<F("Id", "u32"), F("Name", "extname"), F("Path", "str")>>
]

Kinds == DOMAIN Layout

\* The kinds that have an UnmarshalBinary in packet.go.
Decodable == Kinds \ {"Version", "Handle", "Statvfs"}

\* The kinds whose layout ends in an open field that takes whatever is left.
OpenTail == {"Init", "Setstat", "Fsetstat"}

\* The protocol's numeric registry of type tags (ssh_FXP_* in sftp.go).
Registry == [
    Init |-> 1, Version |-> 2, Open |-> 3, Close |-> 4, Read |-> 5,
    Write |-> 6, Lstat |-> 7, Fstat |-> 8, Setstat |-> 9, Fsetstat |-> 10,
    Opendir |-> 11, Readdir |-> 12, Remove |-> 13, Mkdir |-> 14,
    Rmdir |-> 15, Realpath |-> 16, Stat |-> 17, Rename |-> 18,
    Readlink |-> 19, Symlink |-> 20, Status |-> 101, Handle |-> 102,
    Data |-> 103, Name |-> 104, Statvfs |-> 200 ]

\* The tag each MarshalBinary writes first.  STAT writes ssh_FXP_LSTAT and
\* REALPATH writes ssh_FXP_READLINK; statvfs goes out as ssh_FXP_EXTENDED.
MarshalTag ==
    ("Stat" :> Registry.Lstat) @@ ("Realpath" :> Registry.Readlink) @@ Registry

\* A stand-in for the bytes of "statvfs@openssh.com".
ExtNameStatvfs == <<115, 118>>

EncodeField(b, f, p) ==
    CASE f.type = "u32"     -> MarshalUint32(b, p[f.name])
      [] f.type = "u64"     -> MarshalUint64(b, p[f.name])
      [] f.type = "str"     -> MarshalString(b, p[f.name])
      [] f.type = "exts"    ->
            FoldLeft(LAMBDA acc, e : MarshalString(MarshalString(acc, e.Name), e.Data),
                     b, p[f.name])
      [] f.type = "wdata"   -> MarshalUint32(b, p.Length) \o p.Data
      [] f.type = "ddata"   -> MarshalUint32(b, p.Length) \o SubSeq(p.Data, 1, p.Length)
      [] f.type = "rest"    -> b \o p[f.name]
      [] f.type = "extname" -> MarshalString(b, ExtNameStatvfs)

\* MarshalBinary: the tag, then each field in declared order.
Marshal(p) ==
    FoldLeft(LAMBDA b, f : EncodeField(b, f, p), <<MarshalTag[p.kind]>>, Layout[p.kind])

Named(name, r) == IF r.err # NoErr THEN r ELSE Ok(name :> r.v, r.rest)

DecodeField(f, b) ==
    CASE f.type = "u32"   -> Named(f.name, UnmarshalUint32Safe(b))
      [] f.type = "u64"   -> Named(f.name, UnmarshalUint64Safe(b))
      [] f.type = "str"   -> Named(f.name, UnmarshalStringSafe(b))
      [] f.type = "exts"  -> Named(f.name, UnmarshalExtensions(b, <<>>))
      [] f.type = "wdata" -> UnmarshalWriteData(b)
      [] f.type = "ddata" -> UnmarshalDataData(b)
      [] f.type = "rest"  -> Ok(f.name :> b, <<>>)

\* UnmarshalBinary: each field in order, stopping at the first error.
RECURSIVE DecodeFields(_, _, _)
DecodeFields(layout, b, acc) ==
    IF layout = <<>> THEN Ok(acc, b)
    ELSE LET r == DecodeField(Head(layout), b)
         IN  IF r.err # NoErr THEN r
             ELSE DecodeFields(Tail(layout), r.rest, acc @@ r.v)

Unmarshal(kind, body) == DecodeFields(Layout[kind], body, "kind" :> kind)

\* The receiver's dispatch on the type byte recvPacket returns (server.go).
DecodePayload(payload) ==
    LET ks == {k \in Decodable : Registry[k] = payload[1]}
    IN  IF ks = {} THEN Err(Unknown)
        ELSE Unmarshal(CHOOSE k \in ks : TRUE, Tail(payload))

=============================================================================
