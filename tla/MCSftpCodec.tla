---------------------------- MODULE MCSftpCodec ----------------------------
(***************************************************************************)
(* Round trips of the packet catalog.  A sender encodes a packet with its  *)
(* MarshalBinary; the payload a receiver's recvPacket hands to the decoder *)
(* may be that payload, a truncation of it (a peer lying about the frame   *)
(* length, or a short write), or that payload with trailing bytes.  The    *)
(* properties relate the decoder's result to the packet that was sent.     *)
(***************************************************************************)
EXTENDS SftpCodec, FiniteSets

CONSTANTS
    MaxJunk,    \* the most trailing bytes appended to an encoded payload
    LengthSkews \* how much shorter than Data a WRITE/DATA Length may be

VARIABLES
    pkt,        \* the packet the sender encoded
    payload     \* the type byte and body the receiver decodes

vars == <<pkt, payload>>

(* Small field values.  16909060 = 0x01020304 has four distinct bytes.     *)
U32Values  == {0, 16909060}
U64Values  == {[hi |-> 0, lo |-> 0], [hi |-> 16909060, lo |-> 84281096]}
StrValues  == {<<>>, <<47, 120>>}
ExtValues  == {<<>>, <<[Name |-> <<1>>, Data |-> <<2, 3>>]>>}
AttrValues == {<<>>, <<4, 0, 0, 1>>}
DataValues == {<<>>, <<9, 10>>}
JunkBytes  == {0, 1}

NoFields == [x \in {} |-> 0]

FieldChoices(f) ==
    CASE f.type = "u32"     -> {f.name :> v : v \in U32Values}
      [] f.type = "u64"     -> {f.name :> v : v \in U64Values}
      [] f.type = "str"     -> {f.name :> v : v \in StrValues}
      [] f.type = "exts"    -> {f.name :> v : v \in ExtValues}
      [] f.type = "rest"    -> {f.name :> v : v \in AttrValues}
      [] f.type \in {"wdata", "ddata"} ->
            UNION {{("Length" :> Len(d) - k) @@ ("Data" :> d) :
                       k \in {j \in LengthSkews : j <= Len(d)}} : d \in DataValues}
      [] f.type = "extname" -> {NoFields}

RECURSIVE Combos(_)
Combos(layout) ==
    IF layout = <<>> THEN {NoFields}
    ELSE {c @@ d : c \in FieldChoices(Head(layout)), d \in Combos(Tail(layout))}

Packets == UNION {{("kind" :> k) @@ c : c \in Combos(Layout[k])} : k \in Kinds}

Encoded == Marshal(pkt)
Decoded == DecodePayload(payload)

Fields(r) == [x \in DOMAIN r \ {"kind"} |-> r[x]]
OpenField(k) == Last(Layout[k]).name

-----------------------------------------------------------------------------
Init ==
    /\ pkt \in Packets
    /\ payload = Marshal(pkt)

\* The sender encodes a new packet.
Encode(p) ==
    /\ pkt' = p
    /\ payload' = Marshal(p)

\* The payload loses its last byte (a declared frame length that is short).
Truncate ==
    /\ IsPrefix(payload, Encoded)
    /\ Len(payload) > 1
    /\ payload' = Front(payload)
    /\ UNCHANGED pkt

\* The payload gains a trailing byte the decoder does not expect.
AppendJunk(x) ==
    /\ IsPrefix(Encoded, payload)
    /\ Len(payload) < Len(Encoded) + MaxJunk
    /\ payload' = Append(payload, x)
    /\ UNCHANGED pkt

Next ==
    \/ \E p \in Packets : Encode(p)
    \/ Truncate
    \/ \E x \in JunkBytes : AppendJunk(x)

Spec == Init /\ [][Next]_vars

-----------------------------------------------------------------------------
TypeOK ==
    /\ pkt \in Packets
    /\ payload \in Seq(0..255)
    /\ Decoded.err \in {NoErr, ShortPacket, Truncated, Panic, Unknown}

(* Decoding what MarshalBinary produced gives back every field of the      *)
(* packet, also when unexpected bytes follow a kind whose layout is closed *)
(* (trailing bytes are tolerated); marshal* and unmarshal*Safe must agree  *)
(* on byte order, length prefixes and field order for every kind.          *)
DecodeInvertsEncode ==
    (/\ pkt.kind \in Decodable
     /\ IF pkt.kind \in OpenTail THEN payload = Encoded
                                 ELSE IsPrefix(Encoded, payload))
    => /\ Decoded.err = NoErr
       /\ Fields(Decoded.v) = Fields(pkt)

(* No payload, however truncated or padded, makes an UnmarshalBinary read  *)
(* past the end of its buffer: the checked decoders and the WRITE/DATA     *)
(* length tests turn every shortfall into an error value.                  *)
NoPanic == Decoded.err # Panic

(* A truncated payload is never taken for the packet sent: a closed layout *)
(* fails with shortPacketError or "truncated packet", and an open one      *)
(* (INIT extensions, SETSTAT attributes) at most loses part of its last    *)
(* field.                                                                  *)
TruncationNeverMisread ==
    (pkt.kind \in Decodable /\ IsStrictPrefix(payload, Encoded))
    => \/ Decoded.err \in {ShortPacket, Truncated}
       \/ /\ pkt.kind \in OpenTail
          /\ Decoded.err = NoErr
          /\ \A x \in DOMAIN pkt \ {"kind", OpenField(pkt.kind)} :
                Decoded.v[x] = pkt[x]
          /\ IsStrictPrefix(Decoded.v[OpenField(pkt.kind)], pkt[OpenField(pkt.kind)])

(* A receiver that dispatches on the type byte decodes a packet as the     *)
(* kind that was sent: each MarshalBinary writes its own kind's tag.       *)
KindPreserved ==
    (pkt.kind \in Decodable /\ payload = Encoded) => Decoded.v.kind = pkt.kind

(* The declared length of WRITE and DATA is followed by exactly that many  *)
(* data bytes (spec.md 4.3: "an explicit declared length followed by that  *)
(* many raw bytes"), whatever Length the packet struct holds: the frame    *)
(* never carries bytes the peer's decoder does not count as data.          *)
DeclaredLengthMatchesData ==
    pkt.kind \in {"Write", "Data"} =>
        Len(Encoded) = Len(Marshal([pkt EXCEPT !.Length = 0, !.Data = <<>>])) + pkt.Length
=============================================================================
