------------------------------ MODULE MCSafety ------------------------------
(* Four models in one run for what they must never do: a device's session,   *)
(* its Tasks, its queue of actions, and the delivery of completions.  They   *)
(* share no variable; part, chosen at the start, says which of them moves,   *)
(* and the others stay as they began.                                        *)
EXTENDS AuthSessions, TaskListFeed, CompletionDelivery, ActionQueue, TLC

VARIABLE part

Event(seq, user, timerId, extends, dur) ==
    [seq |-> seq, user |-> user, timer |-> timerId, extends |-> extends,
     type |-> "work", intentions |-> TRUE, dur |-> dur, valid |-> TRUE]

\* A work Timer, a second completion of the same Timer ID (undo), an extension
\* of it, and a break of another account that leaves no statistic.
SafetyEvents ==
    {Event(1, "ann", 1, 0, 3), Event(2, "ann", 1, 0, 4), Event(3, "ann", 2, 1, 1),
     [Event(4, "bob", 3, 0, 2) EXCEPT !.type = "break", !.intentions = FALSE]}

SafetyInit ==
    /\ part \in {"session", "feed", "delivery", "queue"}
    /\ SessionInit /\ FeedInit /\ Init /\ QueueInit
    /\ part # "session" => platform = "native"

\* Bound: two of a trouble, a use of the clear button and a new session at most.
TwoUpsets == troubles' + clears' + sessions' <= 3

SafetyNext ==
    \/ part = "session" /\ SessionNext /\ UNCHANGED <<part, feedVars, vars, queueVars>>
    \/ part = "feed" /\ FeedNext /\ UNCHANGED <<part, sessionVars, vars, queueVars>>
    \/ part = "delivery" /\ Next /\ UNCHANGED <<part, sessionVars, feedVars, queueVars>>
    \/ part = "queue" /\ QueueNext /\ TwoUpsets /\ UNCHANGED <<part, sessionVars, feedVars, vars>>

SafetySpec ==
    SafetyInit /\ [][SafetyNext]_<<part, sessionVars, feedVars, vars, queueVars>>

\* Bound: a page that opens and a failure meet one change only.
OneChangeWithBoth == loads + mishaps = 2 => Counter <= 1

\* Tabs, Processes and Consumers are the same model values.
Symmetry == Permutations(Tabs)
=============================================================================
