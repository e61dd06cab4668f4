---------------------------- MODULE SftpMarshal ----------------------------
(***************************************************************************)
(* The reflective encoder of pkg/sftp (packet.go 34-65) and the packets    *)
(* whose fields it encodes: NAME (sshFxpNamePacket, sshFxpNameAttr) and    *)
(* SETSTAT / FSETSTAT whose Attrs is an interface{} value.                 *)
(*                                                                         *)
(* A Go value handed to marshal is a record [t, v]: t is its dynamic type  *)
(* and v its contents.  t is one of                                        *)
(*   "nil"                     the nil interface                           *)
(*   "uint8" "uint32" "uint64" "string"   the cases of the type switch     *)
(*   "fileinfo"                an os.FileInfo, v = [size, mode]            *)
(*   "struct" "slice"          v is the sequence of its fields / elements  *)
(*   anything else (e.g. "int", "FileMode": a named uint32 does not match  *)
(*   case uint32)              a kind marshal cannot handle                *)
(***************************************************************************)
EXTENDS SftpCodec

Val(t, v) == [t |-> t, v |-> v]
NilVal    == Val("nil", 0)

\* A []byte: a slice of uint8, what SETSTAT's UnmarshalBinary stores in Attrs.
RawBytes(s) == Val("slice", [i \in DOMAIN s |-> Val("uint8", s[i])])

\* marshalFileInfo (attrs.go, not under src/): flags first, then the
\* flagged fields in canonical order; here SIZE (0x1) and PERMISSIONS (0x4).
MarshalFileInfo(b, fi) == MarshalUint32(MarshalUint64(MarshalUint32(b, 5), fi.size), fi.mode)

RECURSIVE MarshalEach(_, _)
RECURSIVE ReflectMarshal(_, _)

\* Fault variant: the switch has no case uint8, so a byte reaches the
\* reflect default and panics.
ReflectMarshalNoUint8(b, x) ==
    CASE x.t = "nil"      -> Ok(b, <<>>)
      [] x.t = "uint32"   -> Ok(MarshalUint32(b, x.v), <<>>)
      [] x.t = "uint64"   -> Ok(MarshalUint64(b, x.v), <<>>)
      [] x.t = "string"   -> Ok(MarshalString(b, x.v), <<>>)
      [] x.t = "fileinfo" -> Ok(MarshalFileInfo(b, x.v), <<>>)
      [] x.t \in {"struct", "slice"} -> MarshalEach(b, x.v)
      [] OTHER            -> Err(Panic)

\* Fault variant: the field loop stops one short, i < n-1.
RECURSIVE MarshalEachSkippingLast(_, _)
MarshalEachSkippingLast(b, xs) ==
    IF Len(xs) <= 1 THEN Ok(b, <<>>)
    ELSE LET r == ReflectMarshal(b, Head(xs))
         IN  IF r.err # NoErr THEN r ELSE MarshalEachSkippingLast(r.v, Tail(xs))

\* for i, n := 0, d.NumField(); i < n; i++ { b = marshal(b, d.Field(i)...) }
\* (and the same loop over d.Index(i) for a slice); a panic ends it.
MarshalEach(b, xs) ==
    IF xs = <<>> THEN Ok(b, <<>>)
    ELSE LET r == ReflectMarshal(b, Head(xs))
         IN  IF r.err # NoErr THEN r ELSE MarshalEach(r.v, Tail(xs))

\* marshal(b, v): Ok(bytes) or Err(Panic) for "cannot handle type".
ReflectMarshal(b, x) ==
    CASE x.t = "nil"      -> Ok(b, <<>>)
      [] x.t = "uint8"    -> Ok(Append(b, x.v), <<>>)
      [] x.t = "uint32"   -> Ok(MarshalUint32(b, x.v), <<>>)
      [] x.t = "uint64"   -> Ok(MarshalUint64(b, x.v), <<>>)
      [] x.t = "string"   -> Ok(MarshalString(b, x.v), <<>>)
      [] x.t = "fileinfo" -> Ok(MarshalFileInfo(b, x.v), <<>>)
      [] x.t \in {"struct", "slice"} -> MarshalEach(b, x.v)
      [] OTHER            -> Err(Panic)

\* sshFxpNameAttr.MarshalBinary: Name, LongName, then marshal of each attr.
NameAttrMarshal(na) ==
    MarshalEach(MarshalString(MarshalString(<<>>, na.Name), na.LongName), na.Attrs)

\* sshFxpNamePacket.MarshalBinary: tag, Id, count, then every entry.
\* A panic in an entry's marshal propagates out of MarshalBinary.
RECURSIVE AppendEntries(_, _)
AppendEntries(b, nas) ==
    IF nas = <<>> THEN Ok(b, <<>>)
    ELSE LET r == NameAttrMarshal(Head(nas))
         IN  IF r.err # NoErr THEN r ELSE AppendEntries(b \o r.v, Tail(nas))

MarshalName(p) ==
    AppendEntries(MarshalUint32(MarshalUint32(<<Registry.Name>>, p.Id), Len(p.NameAttrs)),
                  p.NameAttrs)

\* SETSTAT / FSETSTAT MarshalBinary with a typed Attrs: the fixed fields as
\* the catalog encodes them, then b = marshal(b, p.Attrs).
MarshalAttrsPacket(p) ==
    ReflectMarshal(Marshal([p EXCEPT !.Attrs = <<>>]), p.Attrs)
=============================================================================
