---------------------------- MODULE MCSftpServer ----------------------------
(***************************************************************************)
(* Two inbound streams of five requests with distinct Ids.  Both hold an  *)
(* OPEN (Id 1), an LSTAT (Id 2), an EXTENDED statvfs request (Id 4), which *)
(* packet.go has no decoder for, so its Id is answered with a STATUS, and  *)
(* a CLOSE (Id 5).  The first also holds a READ (Id 3) truncated inside    *)
(* its handle, which fails to decode but whose Id parses; the second a     *)
(* CLOSE cut off inside its Id, which closes the connection before the     *)
(* well-formed CLOSE behind it is read.  Up to four handlers contend for   *)
(* outMutex at once.                                                       *)
(***************************************************************************)
EXTENDS SftpServer


Codec == INSTANCE SftpCodec

OpenReq  == Codec!Marshal([kind |-> "Open", Id |-> 1, Path |-> <<47>>, Pflags |-> 1, Flags |-> 0])
LstatReq == Codec!Marshal([kind |-> "Lstat", Id |-> 2, Path |-> <<47>>])
ReadReq  == Codec!Marshal([kind |-> "Read", Id |-> 3, Handle |-> <<7, 7>>,
                           Offset |-> [hi |-> 0, lo |-> 0], Len |-> 4])

StatvfsReq == Codec!Marshal([kind |-> "Statvfs", Id |-> 4, Path |-> <<47>>])

CloseReq == Codec!Marshal([kind |-> "Close", Id |-> 5, Handle |-> <<7, 7>>])

MCStreams == {<<OpenReq, LstatReq, StatvfsReq, CloseReq, SubSeq(ReadReq, 1, 8)>>,
              <<OpenReq, StatvfsReq, LstatReq, <<Codec!Registry.Close, 0, 0>>, CloseReq>>}
=============================================================================
