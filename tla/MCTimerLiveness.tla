-------------------------- MODULE MCTimerLiveness --------------------------
(* Idle detection and completion delivery, which share no variable, in one   *)
(* run for what they must eventually do.  part, chosen at the start, says    *)
(* which of them moves; the other stays as it began.                         *)
EXTENDS IdleDetection

VARIABLES
    part,
    published, stream, unread, pending, slow, fetched, stored, receipts, statistics, uses,
    notifications, continuationRows, failures

Event(seq, timerId, extends, dur) ==
    [seq |-> seq, user |-> "ann", timer |-> timerId, extends |-> extends,
     type |-> "work", intentions |-> TRUE, dur |-> dur, valid |-> TRUE]

\* A work Timer, an entry nobody can parse, and an extension of the Timer.
LivenessEvents ==
    {Event(1, 1, 0, 3), [Event(2, 4, 0, 2) EXCEPT !.valid = FALSE], Event(3, 2, 1, 1)}

Delivery ==
    INSTANCE CompletionDelivery
    WITH Events <- LivenessEvents, Consumers <- {"k1", "k2"}, MaxFaults <- 2,
         idle <- slow, continuations <- continuationRows, faults <- failures

deliveryVars ==
    <<published, stream, unread, pending, slow, fetched, stored, receipts, statistics, uses,
      notifications, continuationRows, failures>>

LivenessInit ==
    /\ part \in {"idle", "delivery"}
    /\ Init /\ Delivery!Init

LivenessNext ==
    \/ part = "idle" /\ Next /\ UNCHANGED <<part, deliveryVars>>
    \/ part = "delivery" /\ Delivery!Next /\ UNCHANGED <<part, vars>>

\* The fairness of IdleDetection while it moves, and that of CompletionDelivery:
\* of a delivery that stands still nothing is enabled that is fair.
LivenessSpec ==
    /\ LivenessInit /\ [][LivenessNext]_<<part, vars, deliveryVars>>
    /\ \A r \in Replicas :
         /\ WF_vars(part = "idle" /\ HandlerStep(r)) /\ WF_vars(part = "idle" /\ JobStep(r))
         /\ WF_vars(part = "idle" /\ CallbackStep(r)) /\ WF_vars(part = "idle" /\ LeaderStep(r))
    /\ WF_vars(part = "idle" /\ \E p \in continuations : ApplyContinuation(p) \/ FinishContinuation(p))
    /\ WF_vars(part = "idle" /\ ExpireLease) /\ WF_vars(part = "idle" /\ Tick)
    /\ \A e \in LivenessEvents : WF_deliveryVars(Delivery!Age(e))
    /\ \A c \in {"k1", "k2"} :
         /\ SF_deliveryVars(\E e \in LivenessEvents : Delivery!ReadNew(c, e))
         /\ SF_deliveryVars(Delivery!Recover(c))
         /\ \A e \in LivenessEvents : WF_deliveryVars(Delivery!EntryStep(c, e))

\* See CompletionDelivery.
EverythingSettles == Delivery!EverythingSettles
=============================================================================
