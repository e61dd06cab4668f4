---------------------------- MODULE FrameChannel ----------------------------
(***************************************************************************)
(* What the framing layer promises its users (spec.md 4.2, 4.5, 8): a      *)
(* channel of whole messages.  Every message a sender completes is         *)
(* appended atomically; the receiver takes them whole, in that order, and  *)
(* eventually takes every one.  The channel may fail, after which nothing  *)
(* more is sent but what was sent before is still delivered.               *)
(***************************************************************************)
EXTENDS Naturals, Sequences

CONSTANTS Msgs

VARIABLES msgs, delivered, up

chanVars == <<msgs, delivered, up>>

Init ==
    /\ msgs = <<>>
    /\ delivered = <<>>
    /\ up = TRUE

Send(m) ==
    /\ up
    /\ msgs' = Append(msgs, m)
    /\ UNCHANGED <<delivered, up>>

Deliver ==
    /\ Len(delivered) < Len(msgs)
    /\ delivered' = Append(delivered, msgs[Len(delivered) + 1])
    /\ UNCHANGED <<msgs, up>>

Fail ==
    /\ up
    /\ up' = FALSE
    /\ UNCHANGED <<msgs, delivered>>

Next == (\E m \in Msgs : Send(m)) \/ Deliver \/ Fail

Spec == Init /\ [][Next]_chanVars /\ WF_chanVars(Deliver)
=============================================================================
