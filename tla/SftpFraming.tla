---------------------------- MODULE SftpFraming ----------------------------
(***************************************************************************)
(* Framing and the concurrent sender of pkg/sftp (packet.go).              *)
(*                                                                         *)
(* Responders run concurrently, each returning one response through        *)
(* Server.sendPacket: take svr.outMutex, marshal, write the 4-byte length  *)
(* header, write the payload, release the mutex (deferred).  Any Write may *)
(* fail; a failed Write may have put a prefix of its bytes on the stream,  *)
(* and the transport stays failed afterwards.  A reader on the other end   *)
(* calls recvPacket in a loop: io.ReadFull of 4 header bytes, then of the  *)
(* l payload bytes, then returns b[0] and b[1:].  The stream delivers      *)
(* every byte a Write accepted, in order, and reports end-of-stream once   *)
(* the connection is closed.                                               *)
(***************************************************************************)
EXTENDS Naturals, Sequences, SequencesExt

LOCAL INSTANCE SftpCodec

CONSTANTS
    Responders, \* the goroutines that each send one response
    Payload,    \* Payload[r]: the bytes MarshalBinary returns for r's response
    NoHolder    \* outMutex is free

VARIABLES
    out,        \* the bytes written to the output stream so far
    outMutex,   \* the responder holding svr.outMutex, or NoHolder
    pc,         \* pc[r]: where responder r is in Server.sendPacket
    result,     \* result[r]: what sendPacket returned to r
    broken,     \* a Write has failed: the transport is gone
    closed,     \* the connection is closed: the reader sees end-of-stream
    rpos,       \* bytes of out the reader has consumed
    rlen,       \* the length of the frame whose header the reader has read
    rstate,     \* where the reader is in its recvPacket loop
    received,   \* the payloads recvPacket has returned, in order
    sent        \* history: responders whose whole frame is on the stream

vars == <<out, outMutex, pc, result, broken, closed,
          rpos, rlen, rstate, received, sent>>

-----------------------------------------------------------------------------
(* Sender: Server.sendPacket and sendPacket.                               *)

\* Fault variant: the length counts the 4 header bytes too.
FrameHeaderCountingHeader(l) ==
    <<ByteOf(l + 4, 24), ByteOf(l + 4, 16), ByteOf(l + 4, 8), ByteOf(l + 4, 0)>>

\* hdr := the 4 big-endian bytes of l = uint32(len(bb)).
FrameHeader(l) == <<ByteOf(l, 24), ByteOf(l, 16), ByteOf(l, 8), ByteOf(l, 0)>>

\* Fault variant: a responder writes without waiting for outMutex.
LockIgnoringHolder(r) ==
    /\ pc[r] = "lock"
    /\ outMutex' = r
    /\ pc' = [pc EXCEPT ![r] = "hdr"]
    /\ UNCHANGED <<out, result, broken, closed, rpos, rlen, rstate, received, sent>>

\* svr.outMutex.Lock()
Lock(r) ==
    /\ pc[r] = "lock"
    /\ outMutex = NoHolder
    /\ outMutex' = r
    /\ pc' = [pc EXCEPT ![r] = "hdr"]
    /\ UNCHANGED <<out, result, broken, closed, rpos, rlen, rstate, received, sent>>

\* A Write of bytes fails: a prefix of them (none once the transport has
\* failed) reaches the stream, sendPacket returns the error.
WriteFails(r, bytes) ==
    /\ \E k \in (IF broken THEN {0} ELSE 0..(Len(bytes) - 1)) :
          out' = out \o SubSeq(bytes, 1, k)
    /\ broken' = TRUE
    /\ result' = [result EXCEPT ![r] = "err"]
    /\ pc' = [pc EXCEPT ![r] = "unlock"]

\* Fault variant: a failed header Write returns without releasing outMutex
\* (an explicit Unlock skipped by the early return, instead of defer).
WriteHdrLeavingLock(r) ==
    /\ pc[r] = "hdr"
    /\ LET hdr == FrameHeader(Len(Payload[r]))
       IN  \/ /\ ~broken
              /\ out' = out \o hdr
              /\ pc' = [pc EXCEPT ![r] = "body"]
              /\ UNCHANGED <<broken, result>>
           \/ /\ \E k \in (IF broken THEN {0} ELSE 0..3) :
                    out' = out \o SubSeq(hdr, 1, k)
              /\ broken' = TRUE
              /\ result' = [result EXCEPT ![r] = "err"]
              /\ pc' = [pc EXCEPT ![r] = "done"]
    /\ UNCHANGED <<outMutex, closed, rpos, rlen, rstate, received, sent>>

\* bb, err := m.MarshalBinary(); w.Write(hdr)
WriteHdr(r) ==
    /\ pc[r] = "hdr"
    /\ LET hdr == FrameHeader(Len(Payload[r]))
       IN  \/ /\ ~broken
              /\ out' = out \o hdr
              /\ pc' = [pc EXCEPT ![r] = "body"]
              /\ UNCHANGED <<broken, result>>
           \/ WriteFails(r, hdr)
    /\ UNCHANGED <<outMutex, closed, rpos, rlen, rstate, received, sent>>

\* w.Write(bb)
WriteBody(r) ==
    /\ pc[r] = "body"
    /\ \/ /\ ~broken
          /\ out' = out \o Payload[r]
          /\ result' = [result EXCEPT ![r] = "ok"]
          /\ pc' = [pc EXCEPT ![r] = "unlock"]
          /\ sent' = Append(sent, r)
          /\ UNCHANGED broken
       \/ /\ WriteFails(r, Payload[r])
          /\ UNCHANGED sent
    /\ UNCHANGED <<outMutex, closed, rpos, rlen, rstate, received>>

\* defer svr.outMutex.Unlock()
Unlock(r) ==
    /\ pc[r] = "unlock"
    /\ outMutex' = NoHolder
    /\ pc' = [pc EXCEPT ![r] = "done"]
    /\ UNCHANGED <<out, result, broken, closed, rpos, rlen, rstate, received, sent>>

\* The server closes the connection once every responder has returned, or
\* the transport has failed.
CloseConn ==
    /\ ~closed
    /\ \/ \A r \in Responders : pc[r] = "done"
       \/ broken
    /\ closed' = TRUE
    /\ UNCHANGED <<out, outMutex, pc, result, broken, rpos, rlen, rstate, received, sent>>

-----------------------------------------------------------------------------
(* Reader: recvPacket, called in a loop.                                   *)

Avail == Len(out) - rpos

\* io.ReadFull(r, b[0:4]); l, _ := unmarshalUint32(b)
RecvHeader ==
    /\ rstate = "hdr"
    /\ Avail >= 4
    /\ rlen' = UnmarshalUint32(SubSeq(out, rpos + 1, rpos + 4)).v
    /\ rpos' = rpos + 4
    /\ rstate' = "body"
    /\ UNCHANGED <<out, outMutex, pc, result, broken, closed, received, sent>>

\* Fault variant: the reader skips one byte more than the frame holds.
RecvBodyOverread ==
    /\ rstate = "body"
    /\ Avail >= rlen
    /\ rpos' = rpos + rlen + 1
    /\ IF rlen = 0
          THEN /\ rstate' = "panic"
               /\ UNCHANGED received
          ELSE /\ received' = Append(received, SubSeq(out, rpos + 1, rpos + rlen))
               /\ rstate' = "hdr"
    /\ UNCHANGED <<out, outMutex, pc, result, broken, closed, rlen, sent>>

\* b = make([]byte, l); io.ReadFull(r, b); return b[0], b[1:], nil
\* b[0] of an empty b is an index-out-of-range panic.
RecvBody ==
    /\ rstate = "body"
    /\ Avail >= rlen
    /\ rpos' = rpos + rlen
    /\ IF rlen = 0
          THEN /\ rstate' = "panic"
               /\ UNCHANGED received
          ELSE /\ received' = Append(received, SubSeq(out, rpos + 1, rpos + rlen))
               /\ rstate' = "hdr"
    /\ UNCHANGED <<out, outMutex, pc, result, broken, closed, rlen, sent>>

\* io.ReadFull meets end-of-stream: io.EOF before a header, else
\* io.ErrUnexpectedEOF; recvPacket returns the error.
RecvEOF ==
    /\ closed
    /\ \/ rstate = "hdr" /\ Avail < 4
       \/ rstate = "body" /\ Avail < rlen
    /\ rstate' = IF rstate = "hdr" /\ Avail = 0 THEN "eof" ELSE "failed"
    /\ UNCHANGED <<out, outMutex, pc, result, broken, closed, rpos, rlen, received, sent>>

\* Nothing is left to do: the connection is over.
Terminated ==
    /\ closed
    /\ \A r \in Responders : pc[r] = "done"
    /\ rstate \in {"eof", "failed", "panic"}
    /\ UNCHANGED vars

-----------------------------------------------------------------------------
Init ==
    /\ out = <<>>
    /\ outMutex = NoHolder
    /\ pc = [r \in Responders |-> "lock"]
    /\ result = [r \in Responders |-> "none"]
    /\ broken = FALSE
    /\ closed = FALSE
    /\ rpos = 0
    /\ rlen = 0
    /\ rstate = "hdr"
    /\ received = <<>>
    /\ sent = <<>>

Next ==
    \/ \E r \in Responders :
          Lock(r) \/ WriteHdr(r) \/ WriteBody(r) \/ Unlock(r)
    \/ CloseConn
    \/ RecvHeader \/ RecvBody \/ RecvEOF
    \/ Terminated

(***************************************************************************)
(* Fairness.  The Go scheduler runs every runnable goroutine (weak         *)
(* fairness); outMutex is only intermittently free, and sync.Mutex's       *)
(* starvation mode hands it to a waiter that has waited over 1ms, which is *)
(* strong fairness of Lock.                                                *)
(***************************************************************************)
Fairness ==
    /\ \A r \in Responders :
          /\ SF_vars(Lock(r))
          /\ WF_vars(WriteHdr(r))
          /\ WF_vars(WriteBody(r))
          /\ WF_vars(Unlock(r))
    /\ WF_vars(CloseConn)
    /\ WF_vars(RecvHeader)
    /\ WF_vars(RecvBody)
    /\ WF_vars(RecvEOF)

Spec == Init /\ [][Next]_vars /\ Fairness

-----------------------------------------------------------------------------
SentPayloads == [i \in 1..Len(sent) |-> Payload[sent[i]]]

TypeOK ==
    /\ out \in Seq(0..255)
    /\ outMutex \in Responders \cup {NoHolder}
    /\ pc \in [Responders -> {"lock", "hdr", "body", "unlock", "done"}]
    /\ result \in [Responders -> {"none", "ok", "err"}]
    /\ broken \in BOOLEAN /\ closed \in BOOLEAN
    /\ rpos \in 0..Len(out)
    /\ rlen \in Nat
    /\ rstate \in {"hdr", "body", "eof", "failed", "panic"}
    /\ received \in Seq(Seq(0..255))
    /\ sent \in Seq(Responders)

(* The reader of the output stream gets exactly the frames the responders  *)
(* completed, each whole, in the order they took outMutex, and eventually  *)
(* all of them; a frame torn by a failed Write is never returned as a      *)
(* packet.  This is the promise of one lock around one frame write.        *)
Channel == INSTANCE FrameChannel
               WITH Msgs <- {Payload[r] : r \in Responders},
                    msgs <- SentPayloads,
                    delivered <- received,
                    up <- ~broken

ChannelRefinement == Channel!Spec

(* The reader's recvPacket only fails mid-frame (io.ErrUnexpectedEOF, or a *)
(* header it cannot finish) when a Write on the sending side failed: a     *)
(* healthy connection ends exactly at a frame boundary.                    *)
ReaderFailsOnlyAfterBreak == rstate = "failed" => broken

(* Every responder returns from Server.sendPacket: no goroutine waits on   *)
(* outMutex forever, also when another responder's Write failed.          *)
EveryResponderReturns == \A r \in Responders : <>(pc[r] = "done")

(* recvPacket never panics, whatever length header the peer sent.          *)
RecvNeverPanics == rstate # "panic"
=============================================================================
