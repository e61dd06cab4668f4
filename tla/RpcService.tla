----------------------------- MODULE RpcService -----------------------------
(***************************************************************************)
(* What the server promises its peer (spec.md 3, 4.5, 5): a request-reply  *)
(* service correlated by Id.  Requests arrive with Ids; each pending       *)
(* request is answered at most once, by an answer carrying its Id, in any  *)
(* order, and eventually, as long as the connection is up.  The connection *)
(* may fail; after that nothing more is answered.                          *)
(***************************************************************************)
EXTENDS Sequences

CONSTANTS Ids

VARIABLES
    pending,    \* Ids requested and not yet answered
    answered,   \* the Ids of the answers sent, in order
    up          \* the connection can still carry answers

rpcVars == <<pending, answered, up>>

Init ==
    /\ pending = {}
    /\ answered = <<>>
    /\ up = TRUE

Request(id) ==
    /\ pending' = pending \cup {id}
    /\ UNCHANGED <<answered, up>>

Answer(id) ==
    /\ up
    /\ id \in pending
    /\ pending' = pending \ {id}
    /\ answered' = Append(answered, id)
    /\ UNCHANGED up

Fail ==
    /\ up
    /\ up' = FALSE
    /\ UNCHANGED <<pending, answered>>

Next == \E id \in Ids : Request(id) \/ Answer(id) \/ Fail

Spec == Init /\ [][Next]_rpcVars /\ \A id \in Ids : WF_rpcVars(Answer(id))
=============================================================================
