---------------------------- MODULE SftpServer -----------------------------
(***************************************************************************)
(* The server side of a connection: the single reader loop, handler        *)
(* goroutines and the shared sender (spec.md sections 4.5, 5 and 7; the    *)
(* loop and handlers live in server.go, which is not under src/).          *)
(*                                                                         *)
(* The reader takes the inbound frames one at a time and decodes each by   *)
(* its type byte (DecodePayload).  A request that decodes is dispatched to *)
(* its own handler goroutine, which answers with a reply or a StatusError. *)
(* A request that does not decode is answered with a STATUS for its Id     *)
(* when the Id parses; otherwise the connection is closed.  Every answer   *)
(* goes out through Server.sendPacket: lock outMutex, write one frame,     *)
(* unlock.  A frame write is atomic here: SftpFraming shows that           *)
(* sendPacket under outMutex implements the atomic FrameChannel.  A write  *)
(* may fail, and fails once the connection is closed.                      *)
(***************************************************************************)
EXTENDS Naturals, Sequences, SequencesExt

LOCAL INSTANCE SftpCodec

CONSTANTS
    Streams,    \* the possible inbound frame payload sequences
    NoHolder    \* outMutex is free

VARIABLES
    in,         \* the inbound payloads of this connection
    rd,         \* the index of the next inbound frame the reader takes
    conn,       \* "open", "eof" (all frames read) or "closed"
    hpc,        \* hpc[i]: where the goroutine answering frame i is
    resp,       \* resp[i]: the answer it sends: [id, type]
    outMutex,   \* the goroutine holding svr.outMutex, or NoHolder
    broken,     \* a write has failed
    out         \* the answers written to the output stream, in order

vars == <<in, rd, conn, hpc, resp, outMutex, broken, out>>

\* A slot for every frame of the longest stream; slots past Len(in) stay idle.
Slots == 1..Max({Len(s) : s \in Streams})
\* What DecodePayload, and unmarshalUint32Safe of the body (the Id), give
\* for every payload a stream can carry; TLC computes these once.
Payloads == UNION {ToSet(s) : s \in Streams}
DecodeOf == [p \in Payloads |-> DecodePayload(p)]
IdField  == [p \in Payloads |-> UnmarshalUint32Safe(Tail(p))]

Answer(id, type) == [id |-> id, type |-> type]

-----------------------------------------------------------------------------
(* Reader loop.                                                            *)

\* The STATUS the reader sends for a request that did not decode, for the
\* Id it recovered.
StatusFor(id) == Answer(id.v, "status")

\* Take the next frame and decode it by its type byte: dispatch a handler,
\* answer a decode error with a STATUS for the recovered Id, or close the
\* connection when the Id cannot be recovered.
ReadRequest ==
    /\ conn = "open"
    /\ rd <= Len(in)
    /\ LET d  == DecodeOf[in[rd]]
           id == IdField[in[rd]]
       IN  CASE d.err = NoErr ->
                  /\ hpc' = [hpc EXCEPT ![rd] = "work"]
                  /\ resp' = [resp EXCEPT ![rd] = Answer(d.v.Id, "reply")]
                  /\ UNCHANGED conn
             [] id.err = NoErr ->
                  /\ hpc' = [hpc EXCEPT ![rd] = "lock"]
                  /\ resp' = [resp EXCEPT ![rd] = StatusFor(id)]
                  /\ UNCHANGED conn
             [] OTHER ->
                  /\ conn' = "closed"
                  /\ UNCHANGED <<hpc, resp>>
    /\ rd' = rd + 1
    /\ UNCHANGED <<in, outMutex, broken, out>>

\* The inbound stream ends at a frame boundary: recvPacket returns io.EOF.
EndOfInput ==
    /\ conn = "open"
    /\ rd > Len(in)
    /\ conn' = "eof"
    /\ UNCHANGED <<in, rd, hpc, resp, outMutex, broken, out>>

-----------------------------------------------------------------------------
(* Handler goroutines and Server.sendPacket.                               *)

\* The handler does the filesystem work without holding outMutex and
\* returns a response packet or a StatusError for the request's Id.
Handle(i) ==
    /\ hpc[i] = "work"
    /\ \E type \in {"reply", "status"} :
          resp' = [resp EXCEPT ![i].type = type]
    /\ hpc' = [hpc EXCEPT ![i] = "lock"]
    /\ UNCHANGED <<in, rd, conn, outMutex, broken, out>>

\* svr.outMutex.Lock()
Lock(i) ==
    /\ hpc[i] = "lock"
    /\ outMutex = NoHolder
    /\ outMutex' = i
    /\ hpc' = [hpc EXCEPT ![i] = "write"]
    /\ UNCHANGED <<in, rd, conn, resp, broken, out>>

\* Fault variant: the write is repeated after it succeeded.
SendFrameRetrying(i) ==
    /\ hpc[i] = "write"
    /\ \/ /\ ~broken /\ conn # "closed"
          /\ out' = Append(out, resp[i])
          /\ UNCHANGED <<hpc, broken>>
       \/ /\ broken' = TRUE
          /\ hpc' = [hpc EXCEPT ![i] = "unlock"]
          /\ UNCHANGED out
    /\ UNCHANGED <<in, rd, conn, resp, outMutex>>

\* sendPacket(svr.out, m): the frame is written whole, or the write fails
\* (always, once the connection is closed) and the transport is gone.
SendFrame(i) ==
    /\ hpc[i] = "write"
    /\ \/ /\ ~broken /\ conn # "closed"
          /\ out' = Append(out, resp[i])
          /\ UNCHANGED broken
       \/ /\ broken' = TRUE
          /\ UNCHANGED out
    /\ hpc' = [hpc EXCEPT ![i] = "unlock"]
    /\ UNCHANGED <<in, rd, conn, resp, outMutex>>

\* defer svr.outMutex.Unlock()
Unlock(i) ==
    /\ hpc[i] = "unlock"
    /\ outMutex' = NoHolder
    /\ hpc' = [hpc EXCEPT ![i] = "done"]
    /\ UNCHANGED <<in, rd, conn, resp, broken, out>>

\* The connection is over: the reader stopped and every goroutine returned.
Terminated ==
    /\ conn # "open"
    /\ \A i \in Slots : hpc[i] \in {"idle", "done"}
    /\ UNCHANGED vars

-----------------------------------------------------------------------------
Init ==
    /\ in \in Streams
    /\ rd = 1
    /\ conn = "open"
    /\ hpc = [i \in Slots |-> "idle"]
    /\ resp = [i \in Slots |-> Answer(0, "none")]
    /\ outMutex = NoHolder
    /\ broken = FALSE
    /\ out = <<>>

Next ==
    \/ ReadRequest \/ EndOfInput
    \/ \E i \in Slots : Handle(i) \/ Lock(i) \/ SendFrame(i) \/ Unlock(i)
    \/ Terminated

\* One goroutine reads; handlers are runnable goroutines (weak fairness);
\* outMutex is only intermittently free and sync.Mutex starvation mode
\* hands it to a long waiter (strong fairness of Lock).
Fairness ==
    /\ WF_vars(ReadRequest) /\ WF_vars(EndOfInput)
    /\ \A i \in Slots :
          /\ WF_vars(Handle(i)) /\ SF_vars(Lock(i))
          /\ WF_vars(SendFrame(i)) /\ WF_vars(Unlock(i))

Spec == Init /\ [][Next]_vars /\ Fairness

-----------------------------------------------------------------------------
\* The Id of inbound frame i, when its first four body bytes are there.
IdOf(i) == IdField[in[i]]

-----------------------------------------------------------------------------
(* Refinement mapping to the request-reply service of RpcService: the Ids *)
(* of the frames the reader has taken whose Id parses are requested, the  *)
(* Ids on the output stream are the answers, and the connection is up     *)
(* while no write failed and the reader has not closed it.                *)
RpcIds == {IdField[p].v : p \in {q \in Payloads : IdField[q].err = NoErr}}
RequestedIds == {IdOf(i).v : i \in {j \in 1..(rd - 1) : IdOf(j).err = NoErr}}
AnsweredIds == [k \in DOMAIN out |-> out[k].id]

Rpc == INSTANCE RpcService WITH
          Ids <- RpcIds,
          pending <- RequestedIds \ ToSet(AnsweredIds),
          answered <- AnsweredIds,
          up <- ~broken /\ conn # "closed"

(* The server loop implements the request-reply service when the peer's   *)
(* request Ids are distinct: every answer written answers a pending        *)
(* request, once; and every request whose Id parses is eventually answered *)
(* while the connection is up: a decode error is answered with a STATUS,   *)
(* never dropped, and no handler waits forever on outMutex.               *)
RpcRefinement == Rpc!Spec
=============================================================================
