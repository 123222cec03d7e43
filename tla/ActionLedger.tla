---------------------------- MODULE ActionLedger ----------------------------
(***************************************************************************)
(* What the accepted-action gateway promises a client (ADR 0012): an       *)
(* action, known by its UUID, is either accepted or cancelled, whichever   *)
(* comes first and for good; accepted actions run one at a time in the     *)
(* order of their acceptance; each takes effect at most once; "succeeded"  *)
(* is said only of an action that took effect, and "failed" of one that    *)
(* did only after an error that came behind the effect, and never if the   *)
(* action leaves a receipt: an action whose worker died is "unknown".      *)
(*                                                                         *)
(* The variables are those of the implementation, UserActions, too: the    *)
(* lifecycle records, and three histories that no code reads.              *)
(***************************************************************************)
EXTENDS Integers, Sequences, SequencesExt

CONSTANTS
    Actions,      \* the actions of one user
    VoiceCommits  \* those that leave a receipt with their effect

ASSUME LedgerAssumption == VoiceCommits \subseteq Actions

VARIABLES
    record,    \* record[a]: what reading a's lifecycle answers
    arrivals,  \* accepted actions, in the order of their acceptance
    log,       \* actions that took effect, in that order
    broken     \* running actions in which an error came after their effect

ledgerVars == <<record, arrivals, log, broken>>

\* "unknown" is a failure with outcomeUnknown set.
Terminal == {"succeeded", "failed", "unknown", "cancelled"}
Statuses == {"none", "accepted", "running"} \cup Terminal

\* The types of the lifecycle records and of the histories.
LedgerTypes ==
    /\ record \in [Actions -> Statuses]
    /\ arrivals \in Seq(Actions)
    /\ log \in Seq(Actions)
    /\ broken \subseteq Actions

InEffect(a) == \E i \in 1..Len(log) : log[i] = a

LedgerInit ==
    /\ record = [a \in Actions |-> "none"]
    /\ arrivals = <<>>
    /\ log = <<>>
    /\ broken = {}

Accept(a) ==
    /\ record[a] = "none"
    /\ record' = [record EXCEPT ![a] = "accepted"]
    /\ arrivals' = Append(arrivals, a)
    /\ UNCHANGED <<log, broken>>

CancelFirst(a) ==
    /\ record[a] = "none"
    /\ record' = [record EXCEPT ![a] = "cancelled"]
    /\ UNCHANGED <<arrivals, log, broken>>

\* Everything that was accepted before a is over.
IsNext(a) ==
    \A i \in 1..Len(arrivals) :
        arrivals[i] = a => \A j \in 1..(i - 1) : record[arrivals[j]] \in Terminal

Start(a) ==
    /\ record[a] = "accepted"
    /\ IsNext(a)
    /\ record' = [record EXCEPT ![a] = "running"]
    /\ UNCHANGED <<arrivals, log, broken>>

\* An error may come with the effect, or later (FollowUpFails).
TakeEffect(a) ==
    /\ record[a] = "running"
    /\ ~InEffect(a)
    /\ log' = Append(log, a)
    /\ broken' \in {broken, broken \cup {a}}
    /\ UNCHANGED <<record, arrivals>>

FollowUpFails(a) ==
    /\ record[a] = "running"
    /\ InEffect(a)
    /\ broken' = broken \cup {a}
    /\ UNCHANGED <<record, arrivals, log>>

Finish(a, status) ==
    /\ record[a] = "running"
    /\ status = "succeeded" => InEffect(a)
    /\ status = "failed" => ~InEffect(a) \/ a \in broken \ VoiceCommits
    /\ record' = [record EXCEPT ![a] = status]
    /\ broken' = broken \ {a}
    /\ UNCHANGED <<arrivals, log>>

LedgerRun(a) ==
    \/ Start(a) \/ TakeEffect(a) \/ FollowUpFails(a)
    \/ \E s \in Terminal \ {"cancelled"} : Finish(a, s)

LedgerNext == \E a \in Actions : Accept(a) \/ CancelFirst(a) \/ LedgerRun(a)

LedgerSpec == LedgerInit /\ [][LedgerNext]_ledgerVars
=============================================================================
