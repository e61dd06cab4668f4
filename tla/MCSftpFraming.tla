--------------------------- MODULE MCSftpFraming ---------------------------
(***************************************************************************)
(* Three responders send a HANDLE, a DATA and a second HANDLE response, as *)
(* MarshalBinary encodes them, through one output stream.                  *)
(***************************************************************************)
EXTENDS SftpFraming

CONSTANTS r1, r2, r3

LOCAL Codec == INSTANCE SftpCodec

MCResponders == {r1, r2, r3}

\* The responses: a HANDLE of 10 bytes, a DATA and a HANDLE of 9 bytes each,
\* with different Ids, so a frame read from a misaligned offset shows.
MCPayload ==
    (r1 :> Codec!Marshal([kind |-> "Handle", Id |-> 1, Handle |-> <<7>>]))
 @@ (r2 :> Codec!Marshal([kind |-> "Data", Id |-> 2, Length |-> 0, Data |-> <<>>]))
 @@ (r3 :> Codec!Marshal([kind |-> "Handle", Id |-> 3, Handle |-> <<>>]))

\* A peer that writes a frame of length zero, which no MarshalBinary
\* produces but any client or server on the other end can send.
MCPayloadEmptyFrame == (r1 :> <<>>) @@ MCPayload
=============================================================================
