------------------------- MODULE ExactlyOnceEffects -------------------------
(***************************************************************************)
(* What the delivery of Timer completions promises (ADR 0015): completed   *)
(* Timers are announced over time, and the additive effects of each one    *)
(* (minutes on a statistic, a use of its intentions, a notification, a     *)
(* continuation) happen together, at most once per Timer ID, those of an   *)
(* extension only on top of its original's.  When, in which order and by   *)
(* which process is left open otherwise.                                   *)
(***************************************************************************)
EXTENDS Integers

CONSTANT Events  \* the completion events that may ever be published

\* seq is the stream entry's ID.  extends is the Timer an extension prolongs,
\* 0 when it is none.  valid says that parseEvent accepts the fields.
EventAssumption ==
    /\ Events \subseteq [seq: Nat, user: STRING, timer: Nat \ {0}, extends: Nat,
                         type: {"work", "break"}, intentions: BOOLEAN,
                         dur: Nat \ {0}, valid: BOOLEAN]
    /\ \A e, f \in Events : e.seq = f.seq => e = f
    /\ \A e \in Events : e.extends # e.timer

VARIABLES
    published,  \* events announced so far
    applied,    \* events whose effects have happened
    minutes,    \* minutes[t]: the duration on the statistic of Timer t
    uses        \* uses of intentions counted so far

TimerIds == {e.timer : e \in Events} \cup {e.extends : e \in Events}

\* A break without intentions leaves no statistic.
Recorded(e) == e.type = "work" \/ e.intentions

\* The statistic e's duration belongs to: an extension prolongs its original's.
StatisticOf(e) == IF e.extends # 0 THEN e.extends ELSE e.timer

Credit(e, m) ==
    IF Recorded(e) THEN [m EXCEPT ![StatisticOf(e)] = @ + e.dur] ELSE m

CountUse(e, n) == IF e.intentions THEN n + 1 ELSE n

Init ==
    /\ published = {} /\ applied = {}
    /\ minutes = [t \in TimerIds |-> 0]
    /\ uses = 0

Publish(e) ==
    /\ published' = published \cup {e}
    /\ UNCHANGED <<applied, minutes, uses>>

Apply(e) ==
    /\ e \in published
    /\ \A f \in applied : f.timer # e.timer
    /\ Recorded(e) /\ e.extends # 0 => minutes[e.extends] # 0
    /\ applied' = applied \cup {e}
    /\ minutes' = Credit(e, minutes)
    /\ uses' = CountUse(e, uses)
    /\ UNCHANGED published

Next == \E e \in Events : Publish(e) \/ Apply(e)

vars == <<published, applied, minutes, uses>>

Spec == Init /\ [][Next]_vars
=============================================================================
