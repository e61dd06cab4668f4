----------------------------- MODULE SftpAttrs ------------------------------
(***************************************************************************)
(* The peer's side of a NAME response (spec.md 4.4 and 6; the decoders     *)
(* live in client.go and attrs.go, which are not under src/).  A           *)
(* FileAttributes block is the flags word, then each optional field whose  *)
(* bit is set, in one canonical order; a decoder consumes exactly those    *)
(* fields.  A NAME is Id, count, then count entries of name, long name and *)
(* a FileAttributes block.  Every read is a checked decode of SftpCodec.   *)
(***************************************************************************)
EXTENDS SftpMarshal

\* The optional fields in canonical order, with the flag bit that announces
\* each (SSH_FILEXFER_ATTR_SIZE, _UIDGID, _PERMISSIONS, _ACMODTIME).
AttrFields == <<[bit |-> 1, name |-> "size",  type |-> "u64"],
                [bit |-> 2, name |-> "uid",   type |-> "u32"],
                [bit |-> 2, name |-> "gid",   type |-> "u32"],
                [bit |-> 4, name |-> "perms", type |-> "u32"],
                [bit |-> 8, name |-> "atime", type |-> "u32"],
                [bit |-> 8, name |-> "mtime", type |-> "u32"]>>

HasBit(flags, bit) == (flags \div bit) % 2 = 1

\* The fields from the i-th on, after the flags word; the first short
\* field ends the decode with its error.
RECURSIVE UnmarshalAttrFields(_, _, _)
UnmarshalAttrFields(i, acc, b) ==
    IF i > Len(AttrFields) THEN Ok(acc, b)
    ELSE IF ~HasBit(acc.flags, AttrFields[i].bit) THEN UnmarshalAttrFields(i + 1, acc, b)
    ELSE LET d == IF AttrFields[i].type = "u64" THEN UnmarshalUint64Safe(b)
                                                ELSE UnmarshalUint32Safe(b)
         IN  IF d.err # NoErr THEN d
             ELSE UnmarshalAttrFields(i + 1, acc @@ (AttrFields[i].name :> d.v), d.rest)

\* unmarshalAttrs: the flags word, then every flagged field in order.
UnmarshalAttrs(b) ==
    LET flags == UnmarshalUint32Safe(b)
    IN  IF flags.err # NoErr THEN flags
        ELSE UnmarshalAttrFields(1, "flags" :> flags.v, flags.rest)

\* One NAME entry: filename, longname, attributes.
UnmarshalNameEntry(b) ==
    LET n == UnmarshalStringSafe(b)
        l == UnmarshalStringSafe(n.rest)
        a == UnmarshalAttrs(l.rest)
    IN  CASE n.err # NoErr -> n
          [] l.err # NoErr -> l
          [] a.err # NoErr -> a
          [] OTHER -> Ok([Name |-> n.v, LongName |-> l.v, Attrs |-> a.v], a.rest)

\* count entries, one after the other.
RECURSIVE UnmarshalNameEntries(_, _, _)
UnmarshalNameEntries(b, count, acc) ==
    IF count = 0 THEN Ok(acc, b)
    ELSE LET e == UnmarshalNameEntry(b)
         IN  IF e.err # NoErr THEN e
             ELSE UnmarshalNameEntries(e.rest, count - 1, Append(acc, e.v))

\* The peer's decode of a NAME payload: tag, Id, count, entries.
UnmarshalName(payload) ==
    LET id    == UnmarshalUint32Safe(Tail(payload))
        count == UnmarshalUint32Safe(id.rest)
        es    == UnmarshalNameEntries(count.rest, count.v, <<>>)
    IN  CASE payload[1] # Registry.Name -> Err(Unknown)
          [] id.err # NoErr    -> id
          [] count.err # NoErr -> count
          [] es.err # NoErr    -> es
          [] OTHER -> Ok([Id |-> id.v, NameAttrs |-> es.v], es.rest)
=============================================================================
