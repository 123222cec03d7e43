---------------------------- MODULE ActionsProofs ----------------------------
(* Theorems about UserActions, the gateway of user actions, for any number   *)
(* of actions, replicas and mishaps, and about ActionQueue, the application's*)
(* queue of them, for any number of actions, sessions, lost and refused      *)
(* requests, failed refreshes and uses of the clear button.                  *)
EXTENDS UserActions, ActionQueue, FiniteSetTheorems, SequenceTheorems, TLAPS

-----------------------------------------------------------------------------
(* The gateway: its inductive invariant *)

StoreTypes ==
    /\ payload \subseteq Actions /\ stale \subseteq Actions
    /\ queue \in Seq(Actions)
    /\ lock \in Replicas \cup {Free, Orphan}

ProcessTypes ==
    /\ at \in [Replicas -> GatewayPlaces]
    /\ head \in [Replicas -> Actions \cup {Nothing}]
    /\ verdict \in [Replicas -> {"succeeded", "failed", "unknown", Nothing}]
    /\ retry \in [Replicas -> BOOLEAN] /\ resuming \in [Replicas -> BOOLEAN]

HistoryTypes ==
    /\ torn \in BOOLEAN /\ missed \in BOOLEAN /\ lapsed \in BOOLEAN
    /\ mishaps \in Nat

Types == LedgerTypes /\ StoreTypes /\ ProcessTypes /\ HistoryTypes

AtWork == {"read", "mark", "execute", "write", "close", "pop"}
InLoop == AtWork \cup {"peek", "release"}

\* A replica has a head while it works on one, and a verdict before it writes it.
InHand ==
    \A r \in Replicas :
        /\ head[r] # Nothing <=> at[r] \in AtWork
        /\ at[r] = "close" => verdict[r] # Nothing
        /\ at[r] = "write" => verdict[r] = "succeeded"

\* Of an action that was not accepted there is no trace, lapse or no lapse.
NoTrace ==
    \A a \in Actions : record[a] \in {"none", "cancelled"} =>
        /\ ~InEffect(a)
        /\ \A i \in 1..Len(queue) : queue[i] # a
        /\ \A i \in 1..Len(arrivals) : arrivals[i] # a
        /\ \A r \in Replicas : head[r] # a

\* Whoever is in the loop has the lock.
Holding == \A r \in Replicas : at[r] \in InLoop => lock = r

\* Whoever works on an action finds it at the head of the queue ...
AtHead == \A r \in Replicas : at[r] \in AtWork => queue # <<>> /\ head[r] = Head(queue)

\* ... and its record says how far the work has got.
OnRecord ==
    \A r \in Replicas :
        /\ at[r] = "mark" => record[head[r]] = "accepted"
        /\ at[r] = "execute" => record[head[r]] = "running" /\ ~InEffect(head[r])
        /\ at[r] = "write" => record[head[r]] = "running"
        /\ at[r] = "close" => record[head[r]] = "running" \/ torn
        /\ at[r] = "pop" => record[head[r]] \in Terminal

\* An action that waits has had no effect.
WaitsUntouched == \A a \in Actions : record[a] = "accepted" => ~InEffect(a)

\* A verdict is true of the action.
TrueVerdict ==
    \A r \in Replicas : at[r] \in {"write", "close"} =>
        /\ verdict[r] = "succeeded" => InEffect(head[r])
        /\ verdict[r] = "failed" =>
              ~InEffect(head[r]) \/ head[r] \in broken \ VoiceCommits \/ torn

\* The queue is the end of the arrivals; what is before it is over.
Gone == Len(arrivals) - Len(queue)

Line ==
    /\ Gone \in Nat
    /\ \A i \in 1..Len(queue) : queue[i] = arrivals[Gone + i]
    /\ \A i \in 1..Gone : record[arrivals[i]] \in Terminal
    /\ \A i, j \in 1..Len(arrivals) : arrivals[i] = arrivals[j] => i = j

\* What holds until a lock lapses under its holder.
Unlapsed ==
    /\ Holding /\ AtHead /\ OnRecord /\ WaitsUntouched /\ TrueVerdict /\ Line

GatewayInv ==
    /\ Types /\ InHand /\ NoTrace
    /\ ~lapsed => Unlapsed
    /\ AcceptedIsQueued /\ NeverReplayed

-----------------------------------------------------------------------------
(* Facts about sequences and histories *)

LEMMA Appended ==
    ASSUME NEW S, NEW s \in Seq(S), NEW x \in S
    PROVE  /\ Append(s, x) \in Seq(S) /\ Append(s, x) # <<>>
           /\ Len(Append(s, x)) = Len(s) + 1 /\ Len(s) \in Nat
           /\ \A i \in 1..Len(s) : Append(s, x)[i] = s[i]
           /\ Append(s, x)[Len(s) + 1] = x
           /\ s # <<>> => Head(Append(s, x)) = Head(s)
<1>1. /\ Append(s, x) \in Seq(S) /\ Len(Append(s, x)) = Len(s) + 1 /\ Len(s) \in Nat
      /\ \A i \in 1..Len(s) : Append(s, x)[i] = s[i]
      /\ Append(s, x)[Len(s) + 1] = x
  OBVIOUS
<1>2. Append(s, x) # <<>>
  BY <1>1, EmptySeq
<1>3. s # <<>> => Head(Append(s, x)) = Head(s)
  <2>1. s # <<>> => Len(s) >= 1
    BY <1>1, EmptySeq
  <2>2. s # <<>> => Head(s) = s[1]
    OBVIOUS
  <2>3. Head(Append(s, x)) = Append(s, x)[1]
    BY <1>1, <1>2
  <2>4. QED
    BY <1>1, <2>1, <2>2, <2>3
<1>4. QED
  BY <1>1, <1>2, <1>3

\* An effect is added to those there are.
LEMMA EffectAdded ==
    ASSUME LedgerTypes, NEW x \in Actions, log' = Append(log, x)
    PROVE  \A a : InEffect(a)' <=> InEffect(a) \/ a = x
<1>1. /\ Len(log') = Len(log) + 1 /\ Len(log) \in Nat
      /\ \A i \in 1..Len(log) : log'[i] = log[i]
      /\ log'[Len(log) + 1] = x
  BY Appended DEF LedgerTypes
<1>2. QED
  BY <1>1 DEF InEffect

-----------------------------------------------------------------------------
(* What the steps do to the ledger, the queue and the processes *)

Accepts(a) ==
    /\ record[a] = "none" /\ record' = [record EXCEPT ![a] = "accepted"]
    /\ arrivals' = Append(arrivals, a) /\ queue' = Append(queue, a) /\ UNCHANGED <<log, broken>>

Cancels(a) ==
    /\ record[a] = "none" /\ record' = [record EXCEPT ![a] = "cancelled"]
    /\ UNCHANGED <<arrivals, queue, log, broken>>

Marks(r) ==
    /\ at[r] = "mark" /\ record' = Marked(head[r]) /\ at'[r] \in {"execute", "release"}
    /\ UNCHANGED <<arrivals, queue, log, broken>>

Affects(r) ==
    /\ at[r] = "execute" /\ log' = Append(log, head[r]) /\ at'[r] \in {"write", "close"}
    /\ broken' \in {broken, broken \cup {head[r]}}
    /\ UNCHANGED <<record, arrivals, queue>>

Breaks(r) ==
    /\ at[r] = "write" /\ at'[r] = "close" /\ broken' = broken \cup {head[r]}
    /\ UNCHANGED <<record, arrivals, queue, log>>

Concludes(r) ==
    /\ at[r] \in {"write", "close"} /\ record' = [record EXCEPT ![head[r]] = verdict[r]]
    /\ at'[r] \in {"pop", "release"} \/ (at'[r] = "close" /\ torn')
    /\ broken' = broken \ {head[r]}
    /\ UNCHANGED <<arrivals, queue, log>>

Pops(r) ==
    /\ at[r] = "pop" /\ queue' = Popped(r) /\ at'[r] \in {"peek", "release"}
    /\ UNCHANGED ledgerVars

LEMMA LedgerChanges ==
    ASSUME Types, InHand, GatewayNext
    PROVE  \/ UNCHANGED <<ledgerVars, queue>>
           \/ \E a \in Actions : Accepts(a) \/ Cancels(a)
           \/ \E r \in Replicas :
                 Marks(r) \/ Affects(r) \/ Breaks(r) \/ Concludes(r) \/ Pops(r)
<1> USE DEF Types, ProcessTypes
<1>1. ASSUME NEW r \in Replicas, NEW a \in Actions, Submit(r, a)
      PROVE  Accepts(a) \/ UNCHANGED <<ledgerVars, queue>>
  BY <1>1 DEF Submit, IsNew, Accepts, ledgerVars
<1>2. ASSUME NEW a \in Actions, Cancel(a)
      PROVE  Cancels(a)
  BY <1>2 DEF Cancel, Cancellable, Cancels, store
<1>3. ASSUME NEW r \in Replicas,
             \/ RetryTimer(r) \/ ResumeQueuedWork(r) \/ GatewayRestart(r)
             \/ AcquireLock(r) \/ PeekQueue(r)
             \/ SkipFinished(r) \/ Abandoned(r) \/ WaitForLease(r) \/ TakeUp(r)
             \/ ExecuteInVain(r) \/ ReleaseLock(r)
             \/ AcquireFails(r) \/ ReleaseFails(r) \/ ResumeFails(r) \/ GatewayCrash(r)
             \/ LockLapses(r)
      PROVE  UNCHANGED <<ledgerVars, queue>>
  BY <1>3 DEF RetryTimer, ResumeQueuedWork, GatewayRestart, AcquireLock, PeekQueue, SkipFinished,
     Abandoned, WaitForLease, TakeUp, ExecuteInVain, ReleaseLock, AcquireFails, ReleaseFails,
     ResumeFails, GatewayCrash, LockLapses, store
<1>4. ASSUME NEW r \in Replicas, MarkRunning(r)
      PROVE  Marks(r)
  BY <1>4 DEF MarkRunning, Marks, Move
<1>5. ASSUME NEW r \in Replicas, ExecuteWithEffect(r)
      PROVE  Affects(r)
  BY <1>5 DEF ExecuteWithEffect, Affects, Decide, Move, store
<1>6. ASSUME NEW r \in Replicas, WriteVerdict(r)
      PROVE  Concludes(r)
  BY <1>6 DEF WriteVerdict, WriteStatus, Concludes, Move
<1>7. ASSUME NEW r \in Replicas, PopQueue(r)
      PROVE  Pops(r)
  BY <1>7 DEF PopQueue, Pops, Leave, Move
<1>8. ASSUME NEW r \in Replicas, CallThrows(r)
      PROVE  UNCHANGED <<ledgerVars, queue>> \/ Marks(r) \/ Concludes(r) \/ Pops(r)
  BY <1>8 DEF CallThrows, WriteStatus, Marks, Concludes, Pops, Leave, Move, ledgerVars
<1>9. ASSUME NEW r \in Replicas, SuccessNotWritten(r)
      PROVE  Breaks(r) \/ Concludes(r)
  BY <1>9 DEF SuccessNotWritten, WriteStatus, Breaks, Concludes, Decide, Move, InHand
<1>10. ASSUME NEW a \in Actions, RunningAges(a) \/ PayloadExpires(a)
       PROVE  UNCHANGED <<ledgerVars, queue>>
  BY <1>10 DEF RunningAges, PayloadExpires
<1>11. ASSUME OrphanExpires
       PROVE  UNCHANGED <<ledgerVars, queue>>
  BY <1>11 DEF OrphanExpires
<1>12. QED
  BY <1>1, <1>2, <1>3, <1>4, <1>5, <1>6, <1>7, <1>8, <1>9, <1>10, <1>11
     DEF GatewayNext, WorkerStep, Fault

Unmoved(r) == at'[r] = at[r] /\ head'[r] = head[r] /\ verdict'[r] = verdict[r]

WokenUp(r) ==
    /\ at[r] \in {"idle", "down"} /\ at'[r] \in {"idle", "lock"}
    /\ head'[r] = head[r] /\ verdict'[r] = verdict[r]

LEMMA MovesItself ==
    ASSUME Types, GatewayNext, NEW v \in Replicas
    PROVE  Unmoved(v) \/ WokenUp(v) \/ WorkerStep(v) \/ Fault(v)
<1> USE DEF Types, ProcessTypes
<1>1. ASSUME NEW r \in Replicas, r # v, WorkerStep(r)
      PROVE  Unmoved(v)
  BY <1>1 DEF WorkerStep, AcquireLock, PeekQueue, SkipFinished, Abandoned, GiveUp, WaitForLease,
     TakeUp, MarkRunning, ExecuteWithEffect, ExecuteInVain, WriteVerdict, PopQueue, ReleaseLock,
     Move, Leave, Decide, Unmoved
<1>2. ASSUME NEW r \in Replicas, r # v, Fault(r)
      PROVE  Unmoved(v)
  BY <1>2 DEF Fault, AcquireFails, CallThrows, SuccessNotWritten, ReleaseFails, ResumeFails,
     GatewayCrash, LockLapses, Move, Leave, Decide, Unmoved, process
<1>3. ASSUME NEW r \in Replicas,
             \/ \E a \in Actions : Submit(r, a)
             \/ RetryTimer(r) \/ ResumeQueuedWork(r) \/ GatewayRestart(r)
      PROVE  Unmoved(v) \/ WokenUp(v)
  <2>1. at' \in {at, [at EXCEPT ![r] = "lock"], [at EXCEPT ![r] = "idle"]}
        /\ (at' = at \/ at[r] \in {"idle", "down"}) /\ UNCHANGED <<head, verdict>>
    BY <1>3 DEF Submit, RetryTimer, ResumeQueuedWork, GatewayRestart, Kicked, Move, FirstMove
  <2>2. QED
    BY <2>1 DEF Unmoved, WokenUp
<1>4. ASSUME \/ OrphanExpires
             \/ \E a \in Actions : Cancel(a) \/ RunningAges(a) \/ PayloadExpires(a)
      PROVE  Unmoved(v)
  BY <1>4 DEF OrphanExpires, Cancel, RunningAges, PayloadExpires, process, Unmoved
<1>5. QED
  BY <1>1, <1>2, <1>3, <1>4 DEF GatewayNext

-----------------------------------------------------------------------------
(* Types *)

LEMMA LedgerTyped ==
    ASSUME Types, InHand, GatewayNext
    PROVE  LedgerTypes' /\ queue' \in Seq(Actions)
<1> USE DEF Types, StoreTypes
<1>1. ASSUME NEW r \in Replicas, at[r] \in AtWork
      PROVE  head[r] \in Actions
  BY <1>1 DEF InHand, ProcessTypes
<1>2. ASSUME NEW a \in Actions, Accepts(a) \/ Cancels(a)
      PROVE  LedgerTypes' /\ queue' \in Seq(Actions)
  <2>1. record' \in [Actions -> Statuses] /\ UNCHANGED <<log, broken>>
    BY <1>2 DEF Accepts, Cancels, LedgerTypes, Statuses, Terminal
  <2>2. arrivals' \in {arrivals, Append(arrivals, a)} /\ queue' \in {queue, Append(queue, a)}
    BY <1>2 DEF Accepts, Cancels
  <2>3. arrivals' \in Seq(Actions) /\ queue' \in Seq(Actions)
    <3>1. Append(arrivals, a) \in Seq(Actions)
      BY DEF LedgerTypes
    <3>2. Append(queue, a) \in Seq(Actions)
      OBVIOUS
    <3>3. QED
      BY <2>2, <3>1, <3>2 DEF LedgerTypes
  <2>4. QED
    BY <2>1, <2>3 DEF LedgerTypes
<1>3. ASSUME NEW r \in Replicas, Marks(r)
      PROVE  LedgerTypes' /\ queue' \in Seq(Actions)
  BY <1>3 DEF Marks, Marked, LedgerTypes, Statuses, Terminal
<1>4. ASSUME NEW r \in Replicas, Affects(r) \/ Breaks(r)
      PROVE  LedgerTypes' /\ queue' \in Seq(Actions)
  <2>1. head[r] \in Actions
    BY <1>1, <1>4 DEF Affects, Breaks, AtWork
  <2>2. Append(log, head[r]) \in Seq(Actions)
    BY <2>1, Appended DEF LedgerTypes
  <2>3. log' \in {log, Append(log, head[r])} /\ broken' \in {broken, broken \cup {head[r]}}
        /\ UNCHANGED <<record, arrivals, queue>>
    BY <1>4 DEF Affects, Breaks
  <2>4. QED
    BY <2>1, <2>2, <2>3 DEF LedgerTypes
<1>5. ASSUME NEW r \in Replicas, Concludes(r)
      PROVE  LedgerTypes' /\ queue' \in Seq(Actions)
  <2>1. verdict[r] \in {"succeeded", "failed", "unknown"}
    BY <1>5 DEF Concludes, InHand, ProcessTypes
  <2>2. QED
    BY <1>5, <2>1 DEF Concludes, LedgerTypes, Statuses, Terminal
<1>6. ASSUME NEW r \in Replicas, Pops(r)
      PROVE  LedgerTypes' /\ queue' \in Seq(Actions)
  BY <1>6, HeadTailProperties DEF Pops, Popped, LedgerTypes, ledgerVars
<1>7. CASE UNCHANGED <<ledgerVars, queue>>
  BY <1>7 DEF LedgerTypes, ledgerVars
<1>8. QED
  BY <1>2, <1>3, <1>4, <1>5, <1>6, <1>7, LedgerChanges

LEMMA StoreTyped ==
    ASSUME Types, InHand, GatewayNext
    PROVE  StoreTypes'
<1> USE DEF Types, StoreTypes
<1>1. queue' \in Seq(Actions)
  BY LedgerTyped
<1>2. ASSUME NEW r \in Replicas, NEW a \in Actions, Submit(r, a)
      PROVE  payload' \subseteq Actions /\ UNCHANGED <<stale, lock>>
  BY <1>2 DEF Submit
<1>3. ASSUME NEW r \in Replicas,
             \/ RetryTimer(r) \/ ResumeQueuedWork(r) \/ GatewayRestart(r)
             \/ AcquireLock(r) \/ PeekQueue(r)
             \/ SkipFinished(r) \/ Abandoned(r) \/ WaitForLease(r) \/ TakeUp(r)
             \/ ExecuteWithEffect(r) \/ ExecuteInVain(r) \/ ReleaseLock(r)
             \/ AcquireFails(r) \/ ReleaseFails(r) \/ ResumeFails(r) \/ GatewayCrash(r)
             \/ LockLapses(r)
      PROVE  UNCHANGED <<payload, stale>> /\ lock' \in {lock, r, Free, Orphan}
  BY <1>3 DEF RetryTimer, ResumeQueuedWork, GatewayRestart, AcquireLock, PeekQueue, SkipFinished,
     Abandoned, WaitForLease, TakeUp, ExecuteWithEffect, ExecuteInVain, ReleaseLock, AcquireFails,
     ReleaseFails, ResumeFails, GatewayCrash, LockLapses, store
<1>4. ASSUME NEW r \in Replicas,
             MarkRunning(r) \/ WriteVerdict(r) \/ PopQueue(r) \/ CallThrows(r) \/ SuccessNotWritten(r)
      PROVE  payload' \subseteq Actions /\ stale' \subseteq Actions /\ UNCHANGED lock
  BY <1>4 DEF MarkRunning, WriteVerdict, WriteStatus, PopQueue, CallThrows, SuccessNotWritten
<1>5. ASSUME NEW a \in Actions, Cancel(a) \/ RunningAges(a) \/ PayloadExpires(a)
      PROVE  payload' \subseteq Actions /\ stale' \subseteq Actions /\ UNCHANGED lock
  BY <1>5 DEF Cancel, RunningAges, PayloadExpires, store
<1>6. ASSUME OrphanExpires
      PROVE  UNCHANGED <<payload, stale>> /\ lock' = Free
  BY <1>6 DEF OrphanExpires
<1>7. QED
  BY <1>1, <1>2, <1>3, <1>4, <1>5, <1>6 DEF GatewayNext, WorkerStep, Fault

LEMMA ProcessTyped ==
    ASSUME Types, InHand, GatewayNext
    PROVE  ProcessTypes'
<1> USE DEF Types, ProcessTypes
<1>1. ASSUME NEW r \in Replicas, UNCHANGED <<head, verdict>>,
             at' \in {at, [at EXCEPT ![r] = "lock"], [at EXCEPT ![r] = "idle"]},
             retry' \in [Replicas -> BOOLEAN], resuming' \in [Replicas -> BOOLEAN]
      PROVE  ProcessTypes'
  BY <1>1 DEF GatewayPlaces
<1>2. ASSUME NEW r \in Replicas,
             \/ \E a \in Actions : Submit(r, a)
             \/ RetryTimer(r) \/ ResumeQueuedWork(r) \/ GatewayRestart(r) \/ AcquireFails(r)
             \/ ResumeFails(r) \/ ReleaseFails(r) \/ ReleaseLock(r)
      PROVE  ProcessTypes'
  <2>1. UNCHANGED <<head, verdict>>
        /\ at' \in {at, [at EXCEPT ![r] = "lock"], [at EXCEPT ![r] = "idle"]}
    BY <1>2 DEF Submit, RetryTimer, ResumeQueuedWork, GatewayRestart, AcquireFails, ResumeFails,
       ReleaseFails, ReleaseLock, Kicked, Move, FirstMove
  <2>2. retry' \in {retry, [retry EXCEPT ![r] = TRUE], [retry EXCEPT ![r] = FALSE]}
        /\ resuming' \in {resuming, [resuming EXCEPT ![r] = TRUE], [resuming EXCEPT ![r] = FALSE]}
    BY <1>2 DEF Submit, RetryTimer, ResumeQueuedWork, GatewayRestart, AcquireFails, ResumeFails,
       ReleaseFails, ReleaseLock
  <2>3. retry' \in [Replicas -> BOOLEAN] /\ resuming' \in [Replicas -> BOOLEAN]
    BY <2>2
  <2>4. QED
    BY <1>1, <2>1, <2>3
<1>3. ASSUME NEW r \in Replicas, AcquireLock(r) \/ TakeUp(r)
      PROVE  ProcessTypes'
  BY <1>3 DEF AcquireLock, TakeUp, RetryWhenBusy, Move, GatewayPlaces
<1>4. ASSUME NEW r \in Replicas, PeekQueue(r)
      PROVE  ProcessTypes'
  <2>1. queue # <<>> => Head(queue) \in Actions
    BY HeadTailProperties DEF StoreTypes
  <2>2. QED
    BY <1>4, <2>1 DEF PeekQueue, Move, GatewayPlaces
<1>5. ASSUME NEW r \in Replicas,
             SkipFinished(r) \/ MarkRunning(r) \/ WriteVerdict(r)
      PROVE  ProcessTypes'
  BY <1>5 DEF SkipFinished, MarkRunning, WriteVerdict, Move, GatewayPlaces
<1>6. ASSUME NEW r \in Replicas,
             Abandoned(r) \/ ExecuteWithEffect(r) \/ ExecuteInVain(r) \/ SuccessNotWritten(r)
      PROVE  ProcessTypes'
  <2>1. \E p \in {"write", "close"}, s \in {"succeeded", "failed", "unknown"} : Decide(r, p, s)
    BY <1>6 DEF Abandoned, GiveUp, ExecuteWithEffect, ExecuteInVain, SuccessNotWritten, Recovered,
       Caught, CaughtBehindEffect
  <2>2. UNCHANGED <<head, retry, resuming>>
    BY <1>6 DEF Abandoned, ExecuteWithEffect, ExecuteInVain, SuccessNotWritten
  <2>3. QED
    BY <2>1, <2>2 DEF Decide, Move, GatewayPlaces
<1>7. ASSUME NEW r \in Replicas,
             WaitForLease(r) \/ PopQueue(r) \/ CallThrows(r) \/ GatewayCrash(r)
      PROVE  ProcessTypes'
  <2>1. PICK p \in {"release", "peek", "down"} : Leave(r, p)
    BY <1>7 DEF WaitForLease, PopQueue, CallThrows, GatewayCrash
  <2>2. retry' \in {retry, [retry EXCEPT ![r] = TRUE], [retry EXCEPT ![r] = FALSE]}
        /\ resuming' \in {resuming, [resuming EXCEPT ![r] = FALSE]}
    BY <1>7 DEF WaitForLease, PopQueue, CallThrows, GatewayCrash
  <2>3. retry' \in [Replicas -> BOOLEAN] /\ resuming' \in [Replicas -> BOOLEAN]
    BY <2>2
  <2>4. at' \in [Replicas -> GatewayPlaces]
    BY <2>1 DEF Leave, Move, GatewayPlaces
  <2>5. head' \in [Replicas -> Actions \cup {Nothing}]
    BY <2>1 DEF Leave
  <2>6. verdict' \in [Replicas -> {"succeeded", "failed", "unknown", Nothing}]
    BY <2>1 DEF Leave
  <2>7. QED
    BY <2>3, <2>4, <2>5, <2>6
<1>8. ASSUME \/ OrphanExpires \/ \E r \in Replicas : LockLapses(r)
             \/ \E a \in Actions : Cancel(a) \/ RunningAges(a) \/ PayloadExpires(a)
      PROVE  ProcessTypes'
  BY <1>8 DEF OrphanExpires, LockLapses, Cancel, RunningAges, PayloadExpires, process
<1>9. QED
  BY <1>2, <1>3, <1>4, <1>5, <1>6, <1>7, <1>8 DEF GatewayNext, WorkerStep, Fault

LEMMA HistoryTyped ==
    ASSUME Types, GatewayNext
    PROVE  HistoryTypes'
<1> USE DEF Types, HistoryTypes
<1>1. ASSUME NEW r \in Replicas, Fault(r)
      PROVE  HistoryTypes'
  <2>1. Mishap
    BY <1>1 DEF Fault, AcquireFails, CallThrows, SuccessNotWritten, ReleaseFails, ResumeFails,
       GatewayCrash, LockLapses
  <2>2. mishaps' \in Nat
    BY <2>1 DEF Mishap
  <2>3. torn' \in {torn, TRUE} /\ lapsed' \in {lapsed, TRUE} /\ UNCHANGED missed
    BY <1>1 DEF Fault, AcquireFails, CallThrows, SuccessNotWritten, ReleaseFails, ResumeFails,
       GatewayCrash, LockLapses
  <2>4. QED
    BY <2>2, <2>3
<1>2. ASSUME NEW r \in Replicas, WorkerStep(r)
      PROVE  HistoryTypes'
  BY <1>2 DEF WorkerStep, AcquireLock, PeekQueue, SkipFinished, Abandoned, WaitForLease,
     TakeUp, MarkRunning, ExecuteWithEffect, ExecuteInVain, WriteVerdict, PopQueue, ReleaseLock,
     history
<1>3. ASSUME NEW r \in Replicas,
             \/ \E a \in Actions : Submit(r, a)
             \/ ResumeQueuedWork(r) \/ GatewayRestart(r)
      PROVE  HistoryTypes'
  BY <1>3 DEF Submit, ResumeQueuedWork, GatewayRestart, history
<1>4. ASSUME NEW r \in Replicas, RetryTimer(r)
      PROVE  HistoryTypes'
  BY <1>4 DEF RetryTimer
<1>5. ASSUME \/ OrphanExpires \/ \E a \in Actions : Cancel(a) \/ RunningAges(a)
      PROVE  HistoryTypes'
  BY <1>5 DEF OrphanExpires, Cancel, RunningAges, history
<1>6. ASSUME NEW a \in Actions, PayloadExpires(a)
      PROVE  HistoryTypes'
  BY <1>6 DEF PayloadExpires, Mishap
<1>7. QED
  BY <1>1, <1>2, <1>3, <1>4, <1>5, <1>6 DEF GatewayNext

\* Histories do not forget.
LEMMA LapseStays ==
    ASSUME Types, GatewayNext
    PROVE  /\ ~lapsed' => ~lapsed /\ \A r \in Replicas : ~LockLapses(r)
           /\ torn => torn'
<1> USE DEF Types, HistoryTypes
<1>1. ASSUME NEW r \in Replicas, Fault(r)
      PROVE  lapsed' \/ UNCHANGED lapsed
  BY <1>1 DEF Fault, AcquireFails, CallThrows, SuccessNotWritten, ReleaseFails, ResumeFails,
     GatewayCrash, LockLapses
<1>2. ASSUME NEW r \in Replicas, Fault(r)
      PROVE  torn => torn'
  BY <1>2 DEF Fault, AcquireFails, CallThrows, SuccessNotWritten, ReleaseFails, ResumeFails,
     GatewayCrash, LockLapses
<1>3. ASSUME NEW r \in Replicas, WorkerStep(r)
      PROVE  UNCHANGED <<lapsed, torn>>
  BY <1>3 DEF WorkerStep, AcquireLock, PeekQueue, SkipFinished, Abandoned, WaitForLease,
     TakeUp, MarkRunning, ExecuteWithEffect, ExecuteInVain, WriteVerdict, PopQueue, ReleaseLock,
     history
<1>4. ASSUME NEW r \in Replicas,
             \/ \E a \in Actions : Submit(r, a)
             \/ ResumeQueuedWork(r) \/ GatewayRestart(r) \/ RetryTimer(r)
      PROVE  UNCHANGED <<lapsed, torn>>
  BY <1>4 DEF Submit, ResumeQueuedWork, GatewayRestart, RetryTimer, history
<1>5. ASSUME \/ OrphanExpires
             \/ \E a \in Actions : Cancel(a) \/ RunningAges(a) \/ PayloadExpires(a)
      PROVE  UNCHANGED <<lapsed, torn>>
  BY <1>5 DEF OrphanExpires, Cancel, RunningAges, PayloadExpires, history
<1>6. ASSUME NEW r \in Replicas, LockLapses(r)
      PROVE  lapsed'
  BY <1>6 DEF LockLapses
<1>7. QED
  BY <1>1, <1>2, <1>3, <1>4, <1>5, <1>6 DEF GatewayNext

-----------------------------------------------------------------------------
(* What a replica has in hand *)

LEMMA InHandKeeps ==
    ASSUME Types, InHand, GatewayNext
    PROVE  InHand'
<1> USE DEF Types, ProcessTypes, AtWork
<1>1. SUFFICES ASSUME NEW v \in Replicas
               PROVE  /\ head'[v] # Nothing <=> at'[v] \in AtWork
                      /\ at'[v] = "close" => verdict'[v] # Nothing
                      /\ at'[v] = "write" => verdict'[v] = "succeeded"
  BY DEF InHand
<1>2. CASE Unmoved(v) \/ WokenUp(v)
  BY <1>2 DEF Unmoved, WokenUp, InHand
<1>3. CASE AcquireLock(v) \/ ReleaseLock(v) \/ AcquireFails(v) \/ ReleaseFails(v)
  BY <1>3 DEF AcquireLock, ReleaseLock, AcquireFails, ReleaseFails, Move, InHand
<1>4. CASE PeekQueue(v)
  <2>1. queue # <<>> => Head(queue) \in Actions
    BY HeadTailProperties DEF StoreTypes
  <2>2. QED
    BY <1>4, <2>1, GatewayAssumption DEF PeekQueue, Move, InHand
<1>5. CASE SkipFinished(v) \/ TakeUp(v) \/ MarkRunning(v) \/ WriteVerdict(v)
  BY <1>5 DEF SkipFinished, TakeUp, MarkRunning, WriteVerdict, Move, InHand
<1>7. CASE Abandoned(v) \/ ExecuteWithEffect(v) \/ ExecuteInVain(v) \/ SuccessNotWritten(v)
  <2>1. \/ Decide(v, "write", "succeeded")
        \/ \E s \in {"succeeded", "failed", "unknown"} : Decide(v, "close", s)
    BY <1>7 DEF Abandoned, GiveUp, ExecuteWithEffect, ExecuteInVain, SuccessNotWritten, Recovered,
       Caught, CaughtBehindEffect
  <2>2. UNCHANGED head /\ at[v] \in AtWork
    BY <1>7 DEF Abandoned, ExecuteWithEffect, ExecuteInVain, SuccessNotWritten
  <2>3. QED
    BY <2>1, <2>2 DEF Decide, Move, InHand, Nothing
<1>8. CASE WaitForLease(v) \/ PopQueue(v) \/ CallThrows(v) \/ GatewayCrash(v)
  <2>1. PICK p \in {"release", "peek", "down"} : Leave(v, p)
    BY <1>8 DEF WaitForLease, PopQueue, CallThrows, GatewayCrash
  <2>2. QED
    BY <2>1 DEF Leave, Move
<1>9. CASE ResumeFails(v) \/ LockLapses(v)
  BY <1>9 DEF ResumeFails, LockLapses, InHand, process
<1>10. QED
  BY <1>2, <1>3, <1>4, <1>5, <1>7, <1>8, <1>9, MovesItself DEF WorkerStep, Fault

\* An action that was accepted stays accepted, and one is cancelled only if it
\* was not.
LEMMA RecordStays ==
    ASSUME Types, InHand, GatewayNext, NEW a \in Actions, record'[a] \in {"none", "cancelled"}
    PROVE  /\ record[a] \in {"none", "cancelled"}
           /\ ~Accepts(a)
<1> USE DEF Types, LedgerTypes
<1>1. ~Accepts(a)
  BY DEF Accepts
<1>2. ASSUME NEW b \in Actions, Accepts(b) \/ Cancels(b)
      PROVE  record[a] \in {"none", "cancelled"}
  BY <1>2 DEF Accepts, Cancels
<1>3. ASSUME NEW r \in Replicas, Marks(r)
      PROVE  record[a] \in {"none", "cancelled"}
  BY <1>3 DEF Marks, Marked
<1>4. ASSUME NEW r \in Replicas, Concludes(r)
      PROVE  record[a] \in {"none", "cancelled"}
  <2>1. verdict[r] \in {"succeeded", "failed", "unknown"}
    BY <1>4 DEF Concludes, InHand, ProcessTypes
  <2>2. QED
    BY <1>4, <2>1 DEF Concludes
<1>5. ASSUME \/ UNCHANGED <<ledgerVars, queue>>
             \/ \E r \in Replicas : Affects(r) \/ Breaks(r) \/ Pops(r)
      PROVE  record[a] \in {"none", "cancelled"}
  BY <1>5 DEF Affects, Breaks, Pops, ledgerVars
<1>6. QED
  BY <1>1, <1>2, <1>3, <1>4, <1>5, LedgerChanges

LEMMA NoTraceKeeps ==
    ASSUME Types, InHand, NoTrace, GatewayNext
    PROVE  NoTrace'
<1> USE DEF Types
<1>1. SUFFICES ASSUME NEW a \in Actions, record'[a] \in {"none", "cancelled"}
               PROVE  /\ ~InEffect(a)'
                      /\ \A i \in 1..Len(queue') : queue'[i] # a
                      /\ \A i \in 1..Len(arrivals') : arrivals'[i] # a
                      /\ \A r \in Replicas : head'[r] # a
  BY DEF NoTrace
<1>2. record[a] \in {"none", "cancelled"} /\ ~Accepts(a)
  BY <1>1, RecordStays
<1>3. /\ ~InEffect(a)
      /\ \A i \in 1..Len(queue) : queue[i] # a
      /\ \A i \in 1..Len(arrivals) : arrivals[i] # a
      /\ \A r \in Replicas : head[r] # a
  BY <1>2 DEF NoTrace
<1>4. ~InEffect(a)'
  <2>1. ASSUME NEW r \in Replicas, Affects(r)
        PROVE  ~InEffect(a)'
    <3>1. head[r] \in Actions /\ head[r] # a /\ log' = Append(log, head[r])
      BY <1>3, <2>1 DEF Affects, InHand, AtWork, ProcessTypes
    <3>2. QED
      BY <1>3, <3>1, EffectAdded
  <2>2. UNCHANGED log => ~InEffect(a)'
    BY <1>3 DEF InEffect
  <2>3. QED
    BY <2>1, <2>2, LedgerChanges DEF Accepts, Cancels, Marks, Breaks, Concludes, Pops, ledgerVars
<1>5. /\ \A i \in 1..Len(queue') : queue'[i] # a
      /\ \A i \in 1..Len(arrivals') : arrivals'[i] # a
  <2>1. ASSUME NEW b \in Actions, Accepts(b)
        PROVE  /\ \A i \in 1..Len(queue') : queue'[i] # a
               /\ \A i \in 1..Len(arrivals') : arrivals'[i] # a
    <3>1. b # a /\ queue' = Append(queue, b) /\ arrivals' = Append(arrivals, b)
      BY <1>2, <2>1 DEF Accepts
    <3>2. queue \in Seq(Actions) /\ arrivals \in Seq(Actions)
      BY DEF StoreTypes, LedgerTypes
    <3>3. QED
      BY <1>3, <3>1, <3>2, Appended
  <2>2. ASSUME NEW r \in Replicas, Pops(r)
        PROVE  /\ \A i \in 1..Len(queue') : queue'[i] # a
               /\ \A i \in 1..Len(arrivals') : arrivals'[i] # a
    <3>1. CASE queue = <<>>
      BY <1>3, <2>2, <3>1 DEF Pops, Popped, ledgerVars
    <3>2. CASE queue # <<>>
      <4>1. Len(Tail(queue)) = Len(queue) - 1 /\ Len(queue) \in Nat
            /\ \A i \in 1..Len(Tail(queue)) : Tail(queue)[i] = queue[i + 1]
        BY <3>2, HeadTailProperties, LenProperties DEF StoreTypes
      <4>2. queue' = Tail(queue) /\ UNCHANGED arrivals
        BY <2>2, <3>2 DEF Pops, Popped, ledgerVars
      <4>3. QED
        BY <1>3, <4>1, <4>2
    <3>3. QED
      BY <3>1, <3>2
  <2>3. CASE UNCHANGED <<arrivals, queue>>
    BY <1>3, <2>3
  <2>4. QED
    BY <2>1, <2>2, <2>3, LedgerChanges DEF Cancels, Marks, Affects, Breaks, Concludes, ledgerVars
<1>6. ASSUME NEW v \in Replicas
      PROVE  head'[v] # a
  <2>1. a # Nothing
    BY GatewayAssumption
  <2>2. head'[v] = head[v] \/ head'[v] = Nothing \/ (queue # <<>> /\ head'[v] = Head(queue))
    <3>1. CASE WorkerStep(v)
      BY <3>1 DEF WorkerStep, AcquireLock, PeekQueue, SkipFinished, Abandoned, WaitForLease, TakeUp,
         MarkRunning, ExecuteWithEffect, ExecuteInVain, WriteVerdict, PopQueue, ReleaseLock, Leave,
         ProcessTypes
    <3>2. CASE Fault(v)
      BY <3>2 DEF Fault, AcquireFails, CallThrows, SuccessNotWritten, ReleaseFails, ResumeFails,
         GatewayCrash, LockLapses, Leave, ProcessTypes, process
    <3>3. QED
      BY <3>1, <3>2, MovesItself DEF Unmoved, WokenUp
  <2>3. queue # <<>> => Head(queue) # a
    <3>1. queue # <<>> => 1 \in 1..Len(queue) /\ Head(queue) = queue[1]
      BY EmptySeq DEF StoreTypes
    <3>2. QED
      BY <1>3, <3>1
  <2>4. QED
    BY <1>3, <2>1, <2>2, <2>3
<1>7. QED
  BY <1>4, <1>5, <1>6

-----------------------------------------------------------------------------
(* Until a lock lapses *)

LEMMA HoldingKeeps ==
    ASSUME GatewayInv, GatewayNext, ~lapsed'
    PROVE  Holding'
<1> USE DEF GatewayInv, Types, ProcessTypes
<1>1. ~lapsed /\ \A r \in Replicas : ~LockLapses(r)
  BY LapseStays
<1>2. Holding
  BY <1>1 DEF Unlapsed
<1>3. Free \notin Replicas /\ Orphan \notin Replicas
  BY GatewayAssumption
<1>4. SUFFICES ASSUME NEW v \in Replicas, at'[v] \in InLoop
               PROVE  lock' = v
  BY DEF Holding
<1>5. CASE AcquireLock(v)
  BY <1>4, <1>5 DEF AcquireLock, Move, InLoop, AtWork
<1>6. ASSUME ~AcquireLock(v)
      PROVE  at[v] \in InLoop
  <2>1. CASE WorkerStep(v)
    BY <1>4, <1>6, <2>1 DEF WorkerStep, PeekQueue, SkipFinished, Abandoned, GiveUp, WaitForLease,
       TakeUp, MarkRunning, ExecuteWithEffect, ExecuteInVain, WriteVerdict, PopQueue, ReleaseLock,
       InLoop, AtWork
  <2>2. CASE Fault(v)
    BY <1>1, <1>4, <2>2 DEF Fault, AcquireFails, CallThrows, SuccessNotWritten, ReleaseFails,
       ResumeFails, GatewayCrash, Leave, Move, InLoop, AtWork
  <2>3. QED
    BY <1>4, <2>1, <2>2, MovesItself DEF Unmoved, WokenUp, InLoop, AtWork
<1>7. ASSUME at[v] \in InLoop
      PROVE  lock' = v
  <2>1. lock = v
    BY <1>2, <1>7 DEF Holding
  <2>2. ASSUME NEW r \in Replicas, AcquireLock(r) \/ AcquireFails(r)
        PROVE  UNCHANGED lock
    BY <1>3, <2>1, <2>2 DEF AcquireLock, AcquireFails
  <2>3. ASSUME NEW r \in Replicas, ReleaseLock(r) \/ ReleaseFails(r) \/ GatewayCrash(r)
        PROVE  UNCHANGED lock
    <3>1. at'[r] \notin InLoop
      BY <2>3 DEF ReleaseLock, ReleaseFails, GatewayCrash, Move, Leave, InLoop, AtWork
    <3>2. r # v
      BY <1>4, <3>1
    <3>3. QED
      BY <2>1, <2>3, <3>2 DEF ReleaseLock, ReleaseFails, GatewayCrash
  <2>4. ASSUME NEW r \in Replicas,
               ~AcquireLock(r), ~AcquireFails(r), ~ReleaseLock(r), ~ReleaseFails(r),
               ~GatewayCrash(r),
               \/ \E a \in Actions : Submit(r, a)
               \/ RetryTimer(r) \/ ResumeQueuedWork(r) \/ GatewayRestart(r)
               \/ WorkerStep(r) \/ Fault(r)
        PROVE  UNCHANGED lock
    BY <1>1, <2>4 DEF Submit, RetryTimer, ResumeQueuedWork, GatewayRestart, WorkerStep, Fault,
       PeekQueue, SkipFinished, Abandoned, WaitForLease, TakeUp, MarkRunning, ExecuteWithEffect,
       ExecuteInVain, WriteVerdict, PopQueue, CallThrows, SuccessNotWritten, ResumeFails, store
  <2>5. ASSUME \E a \in Actions : Cancel(a) \/ RunningAges(a) \/ PayloadExpires(a)
        PROVE  UNCHANGED lock
    BY <2>5 DEF Cancel, RunningAges, PayloadExpires, store
  <2>6. ~OrphanExpires
    BY <1>3, <2>1 DEF OrphanExpires
  <2>7. QED
    BY <2>1, <2>2, <2>3, <2>4, <2>5, <2>6 DEF GatewayNext
<1>8. QED
  BY <1>5, <1>6, <1>7

\* There is one replica in the loop, and what it works on was accepted.
LEMMA Alone ==
    ASSUME GatewayInv, ~lapsed, NEW v \in Replicas, at[v] \in InLoop
    PROVE  /\ \A r \in Replicas : at[r] \in InLoop => r = v
           /\ at[v] \in AtWork => head[v] \in Actions /\ record[head[v]] \notin {"none", "cancelled"}
<1>1. \A r \in Replicas : at[r] \in InLoop => r = v
  BY DEF GatewayInv, Unlapsed, Holding
<1>2. at[v] \in AtWork => head[v] \in Actions
  BY DEF GatewayInv, Types, InHand, ProcessTypes
<1>3. at[v] \in AtWork => record[head[v]] \notin {"none", "cancelled"}
  BY <1>2 DEF GatewayInv, NoTrace
<1>4. QED
  BY <1>1, <1>2, <1>3

\* Nobody else touches the action it works on, nor the head of the queue.
LEMMA HeadUntouched ==
    ASSUME GatewayInv, GatewayNext, ~lapsed, NEW v \in Replicas, at[v] \in AtWork
    PROVE  /\ Marks(v) \/ Concludes(v) \/ record'[head[v]] = record[head[v]]
           /\ Affects(v) \/ UNCHANGED log
           /\ Affects(v) \/ Breaks(v) \/ Concludes(v) \/ UNCHANGED broken
           /\ \/ Pops(v) \/ UNCHANGED queue
              \/ \E a \in Actions : queue' = Append(queue, a)
<1>1. at[v] \in InLoop
  BY DEF InLoop
<1>2. \A r \in Replicas :
        Marks(r) \/ Affects(r) \/ Breaks(r) \/ Concludes(r) \/ Pops(r) => r = v
  BY <1>1, Alone DEF Marks, Affects, Breaks, Concludes, Pops, InLoop, AtWork
<1>3. ASSUME NEW a \in Actions, Accepts(a) \/ Cancels(a)
      PROVE  record'[head[v]] = record[head[v]]
  <2>1. record[head[v]] # "none" /\ head[v] \in Actions
    BY <1>1, Alone
  <2>2. QED
    BY <1>3, <2>1 DEF Accepts, Cancels, GatewayInv, Types, LedgerTypes
<1>4. Types /\ InHand
  BY DEF GatewayInv
<1>5. CASE UNCHANGED <<ledgerVars, queue>>
  BY <1>5 DEF ledgerVars
<1>6. CASE \E a \in Actions : Accepts(a) \/ Cancels(a)
  BY <1>3, <1>6 DEF Accepts, Cancels
<1>7. CASE \E r \in Replicas : Marks(r) \/ Affects(r) \/ Breaks(r) \/ Concludes(r) \/ Pops(r)
  BY <1>2, <1>7 DEF Marks, Affects, Breaks, Concludes, Pops, ledgerVars
<1>8. QED
  BY <1>4, <1>5, <1>6, <1>7, LedgerChanges

LEMMA AtHeadKeeps ==
    ASSUME GatewayInv, GatewayNext, ~lapsed'
    PROVE  AtHead'
<1> USE DEF GatewayInv, Types, ProcessTypes, AtWork
<1>1. ~lapsed
  BY LapseStays
<1>2. SUFFICES ASSUME NEW v \in Replicas, at'[v] \in AtWork
               PROVE  queue' # <<>> /\ head'[v] = Head(queue')
  BY DEF AtHead
<1>3. CASE PeekQueue(v)
  BY <1>2, <1>3 DEF PeekQueue, Move, store
<1>4. ASSUME ~PeekQueue(v)
      PROVE  at[v] \in AtWork /\ head'[v] = head[v]
  <2>1. CASE WorkerStep(v)
    BY <1>2, <1>4, <2>1 DEF WorkerStep, AcquireLock, SkipFinished, Abandoned, GiveUp, WaitForLease,
       TakeUp, MarkRunning, ExecuteWithEffect, ExecuteInVain, WriteVerdict, PopQueue, ReleaseLock,
       Leave, Move
  <2>2. CASE Fault(v)
    BY <1>2, <2>2 DEF Fault, AcquireFails, CallThrows, SuccessNotWritten, ReleaseFails, ResumeFails,
       GatewayCrash, LockLapses, Leave, Move, process
  <2>3. QED
    BY <1>2, <2>1, <2>2, MovesItself DEF Unmoved, WokenUp
<1>5. ASSUME at[v] \in AtWork, head'[v] = head[v]
      PROVE  queue' # <<>> /\ head'[v] = Head(queue')
  <2>1. queue # <<>> /\ head[v] = Head(queue)
    BY <1>1, <1>5 DEF Unlapsed, AtHead
  <2>2. ~Pops(v)
    BY <1>2 DEF Pops
  <2>3. ASSUME NEW a \in Actions, queue' = Append(queue, a)
        PROVE  queue' # <<>> /\ Head(queue') = Head(queue)
    BY <2>1, <2>3, Appended DEF StoreTypes
  <2>4. QED
    BY <1>1, <1>5, <2>1, <2>2, <2>3, HeadUntouched
<1>6. QED
  BY <1>3, <1>4, <1>5

LEMMA OnRecordKeeps ==
    ASSUME GatewayInv, GatewayNext, ~lapsed'
    PROVE  OnRecord'
<1> USE DEF GatewayInv, Types, ProcessTypes
<1>1. ~lapsed /\ (torn => torn')
  BY LapseStays
<1>2. SUFFICES ASSUME NEW v \in Replicas
               PROVE  /\ at'[v] = "mark" => record'[head'[v]] = "accepted"
                      /\ at'[v] = "execute" => record'[head'[v]] = "running" /\ ~InEffect(head[v])'
                      /\ at'[v] = "write" => record'[head'[v]] = "running"
                      /\ at'[v] = "close" => record'[head'[v]] = "running" \/ torn'
                      /\ at'[v] = "pop" => record'[head'[v]] \in Terminal
  BY DEF OnRecord, InEffect
<1>3. /\ at[v] = "mark" => record[head[v]] = "accepted"
      /\ at[v] = "execute" => record[head[v]] = "running" /\ ~InEffect(head[v])
      /\ at[v] = "write" => record[head[v]] = "running"
      /\ at[v] = "close" => record[head[v]] = "running" \/ torn
      /\ at[v] = "pop" => record[head[v]] \in Terminal
  BY <1>1 DEF Unlapsed, OnRecord
<1>4. at[v] \in AtWork => /\ Marks(v) \/ Concludes(v) \/ record'[head[v]] = record[head[v]]
                          /\ Affects(v) \/ UNCHANGED log
  BY <1>1, HeadUntouched
<1>5. UNCHANGED log /\ head'[v] = head[v] => (InEffect(head[v])' <=> InEffect(head[v]))
  BY DEF InEffect
<1>6. CASE Unmoved(v) \/ LockLapses(v) \/ ResumeFails(v)
  <2>1. at'[v] = at[v] /\ head'[v] = head[v]
    BY <1>6 DEF Unmoved, LockLapses, ResumeFails, process
  <2>2. ~Marks(v) /\ ~Affects(v) /\ (Concludes(v) => torn' /\ at[v] = "close")
    BY <2>1 DEF Marks, Affects, Concludes
  <2>3. QED
    BY <1>1, <1>3, <1>4, <1>5, <2>1, <2>2 DEF AtWork
<1>7. CASE \/ WokenUp(v) \/ AcquireLock(v) \/ PeekQueue(v) \/ WaitForLease(v) \/ PopQueue(v)
           \/ ReleaseLock(v) \/ AcquireFails(v) \/ CallThrows(v) \/ ReleaseFails(v)
           \/ GatewayCrash(v)
  BY <1>7 DEF WokenUp, AcquireLock, PeekQueue, WaitForLease, PopQueue, ReleaseLock, AcquireFails,
     CallThrows, ReleaseFails, GatewayCrash, Leave, Move
<1>8. CASE SkipFinished(v) \/ Abandoned(v) \/ TakeUp(v)
  <2>1. record[head[v]] \notin {"none", "cancelled"} /\ head[v] \in Actions
    BY <1>1, <1>8, Alone DEF SkipFinished, Abandoned, TakeUp, AtWork, InLoop
  <2>2. record[head[v]] \in Statuses
    BY <2>1 DEF LedgerTypes
  <2>3. UNCHANGED <<head, record>>
    BY <1>8 DEF SkipFinished, Abandoned, TakeUp, ledgerVars
  <2>4. QED
    BY <1>8, <2>1, <2>2, <2>3
       DEF SkipFinished, Abandoned, GiveUp, Decide, TakeUp, Move, Statuses, Terminal
<1>9. CASE MarkRunning(v)
  <2>1. at[v] = "mark" /\ UNCHANGED <<head, log>> /\ at'[v] = "execute" /\ record' = Marked(head[v])
    BY <1>9 DEF MarkRunning, Move
  <2>2. head[v] \in Actions /\ record[head[v]] = "accepted"
    BY <1>1, <1>3, <2>1, Alone DEF AtWork, InLoop
  <2>3. ~InEffect(head[v])
    BY <1>1, <2>2 DEF Unlapsed, WaitsUntouched
  <2>4. record'[head[v]] = "running"
    BY <2>1, <2>2 DEF Marked, LedgerTypes
  <2>5. QED
    BY <1>5, <2>1, <2>3, <2>4
<1>10. CASE ExecuteWithEffect(v) \/ ExecuteInVain(v)
  <2>1. /\ at[v] = "execute" /\ UNCHANGED <<head, record>> /\ at'[v] \in {"write", "close"}
    BY <1>10 DEF ExecuteWithEffect, ExecuteInVain, Decide, Move, ledgerVars
  <2>2. QED
    BY <1>3, <2>1
<1>11. CASE WriteVerdict(v)
  <2>1. /\ at[v] \in {"write", "close"} /\ at'[v] = "pop" /\ UNCHANGED head
        /\ record' = [record EXCEPT ![head[v]] = verdict[v]]
    BY <1>11 DEF WriteVerdict, WriteStatus, Move
  <2>2. head[v] \in Actions /\ verdict[v] \in {"succeeded", "failed", "unknown"}
    BY <2>1 DEF InHand, AtWork
  <2>3. QED
    BY <2>1, <2>2 DEF LedgerTypes, Terminal
<1>12. CASE SuccessNotWritten(v)
  <2>1. at[v] = "write" /\ at'[v] = "close" /\ UNCHANGED head /\ (UNCHANGED record \/ torn')
    BY <1>12 DEF SuccessNotWritten, Decide, Move
  <2>2. QED
    BY <1>3, <2>1
<1>13. QED
  BY <1>6, <1>7, <1>8, <1>9, <1>10, <1>11, <1>12, MovesItself DEF WorkerStep, Fault

LEMMA WaitsUntouchedKeeps ==
    ASSUME GatewayInv, GatewayNext, ~lapsed'
    PROVE  WaitsUntouched'
<1> USE DEF GatewayInv, Types, LedgerTypes
<1>1. ~lapsed
  BY LapseStays
<1>2. SUFFICES ASSUME NEW a \in Actions, record'[a] = "accepted"
               PROVE  ~InEffect(a)'
  BY DEF WaitsUntouched
<1>3. record[a] = "accepted" \/ record[a] = "none" => ~InEffect(a)
  BY <1>1 DEF Unlapsed, WaitsUntouched, NoTrace
<1>4. ASSUME UNCHANGED log, record[a] = "accepted" \/ record[a] = "none"
      PROVE  ~InEffect(a)'
  BY <1>3, <1>4 DEF InEffect
<1>5. ASSUME NEW b \in Actions, Accepts(b) \/ Cancels(b)
      PROVE  UNCHANGED log /\ (record[a] = "accepted" \/ record[a] = "none")
  BY <1>2, <1>5 DEF Accepts, Cancels
<1>6. ASSUME NEW r \in Replicas, Marks(r)
      PROVE  UNCHANGED log /\ record[a] = "accepted"
  BY <1>2, <1>6 DEF Marks, Marked
<1>7. ASSUME NEW r \in Replicas, Concludes(r)
      PROVE  UNCHANGED log /\ record[a] = "accepted"
  <2>1. verdict[r] # "accepted"
    BY DEF ProcessTypes, Nothing
  <2>2. QED
    BY <1>2, <1>7, <2>1 DEF Concludes
<1>8. ASSUME NEW r \in Replicas, Affects(r)
      PROVE  ~InEffect(a)'
  <2>1. record[head[r]] = "running" /\ UNCHANGED record /\ log' = Append(log, head[r])
    BY <1>1, <1>8 DEF Affects, Unlapsed, OnRecord
  <2>2. head[r] \in Actions /\ head[r] # a
    BY <1>2, <1>8, <2>1 DEF Affects, InHand, AtWork, ProcessTypes
  <2>3. QED
    BY <1>2, <1>3, <2>1, <2>2, EffectAdded
<1>9. CASE UNCHANGED <<ledgerVars, queue>> \/ \E r \in Replicas : Breaks(r) \/ Pops(r)
  BY <1>2, <1>4, <1>9 DEF Breaks, Pops, ledgerVars
<1>10. QED
  BY <1>4, <1>5, <1>6, <1>7, <1>8, <1>9, LedgerChanges

LEMMA TrueVerdictKeeps ==
    ASSUME GatewayInv, GatewayNext, ~lapsed'
    PROVE  TrueVerdict'
<1> USE DEF GatewayInv, Types, ProcessTypes
<1>1. ~lapsed /\ (torn => torn')
  BY LapseStays
<1>2. SUFFICES ASSUME NEW v \in Replicas, at'[v] \in {"write", "close"}
               PROVE  /\ verdict'[v] = "succeeded" => InEffect(head[v])'
                      /\ verdict'[v] = "failed" =>
                            \/ ~InEffect(head[v])' \/ torn'
                            \/ head'[v] \in broken' \ VoiceCommits
  BY DEF TrueVerdict
<1>3. UNCHANGED log /\ head'[v] = head[v] => (InEffect(head[v])' <=> InEffect(head[v]))
  BY DEF InEffect
<1>4. CASE Unmoved(v) \/ LockLapses(v) \/ ResumeFails(v)
  <2>1. at'[v] = at[v] /\ head'[v] = head[v] /\ verdict'[v] = verdict[v]
    BY <1>4 DEF Unmoved, LockLapses, ResumeFails, process
  <2>2. UNCHANGED log
    BY <1>1, <1>2, <2>1, HeadUntouched DEF Affects, AtWork
  <2>3. UNCHANGED broken \/ torn'
    BY <1>1, <1>2, <2>1, HeadUntouched DEF Affects, Breaks, Concludes, AtWork
  <2>4. QED
    BY <1>1, <1>2, <1>3, <2>1, <2>2, <2>3 DEF Unlapsed, TrueVerdict
<1>5. CASE Abandoned(v)
  <2>1. UNCHANGED <<log, head>> /\ verdict'[v] \in Recovered(head[v])
    BY <1>5 DEF Abandoned, GiveUp, Decide, ledgerVars
  <2>2. QED
    BY <1>3, <2>1 DEF Recovered
<1>6. CASE ExecuteWithEffect(v)
  <2>1. at[v] = "execute" /\ log' = Append(log, head[v]) /\ UNCHANGED head
    BY <1>6 DEF ExecuteWithEffect
  <2>2. head[v] \in Actions
    BY <2>1 DEF InHand, AtWork
  <2>3. InEffect(head[v])'
    <3>1. Len(log') = Len(log) + 1 /\ Len(log) \in Nat /\ log'[Len(log) + 1] = head[v]
      BY <2>1, <2>2, Appended DEF LedgerTypes
    <3>2. QED
      BY <2>1, <3>1 DEF InEffect
  <2>4. verdict'[v] = "failed" => head[v] \in broken' \ VoiceCommits
    BY <1>6 DEF ExecuteWithEffect, Decide, CaughtBehindEffect
  <2>5. QED
    BY <2>1, <2>3, <2>4
<1>7. CASE ExecuteInVain(v)
  <2>1. ~InEffect(head[v])
    BY <1>1, <1>7 DEF ExecuteInVain, Unlapsed, OnRecord
  <2>2. UNCHANGED log /\ head'[v] = head[v] /\ verdict'[v] \in Caught(head[v])
    BY <1>7 DEF ExecuteInVain, Decide, ledgerVars
  <2>3. QED
    BY <1>3, <2>1, <2>2 DEF Caught, Recovered
<1>8. CASE SuccessNotWritten(v)
  <2>1. InEffect(head[v])
    BY <1>1, <1>8 DEF SuccessNotWritten, Unlapsed, TrueVerdict, InHand
  <2>2. UNCHANGED <<log, head>> /\ verdict'[v] \in Caught(head[v])
    BY <1>8 DEF SuccessNotWritten, Decide
  <2>3. verdict'[v] = "failed" => head[v] \notin VoiceCommits
    BY <2>2 DEF Caught, Recovered
  <2>4. torn' \/ head[v] \in broken'
    BY <1>8 DEF SuccessNotWritten
  <2>5. QED
    BY <1>3, <2>1, <2>2, <2>3, <2>4
<1>9. ASSUME \/ WokenUp(v) \/ AcquireLock(v) \/ PeekQueue(v) \/ SkipFinished(v) \/ WaitForLease(v)
             \/ TakeUp(v) \/ MarkRunning(v) \/ WriteVerdict(v) \/ PopQueue(v) \/ ReleaseLock(v)
             \/ AcquireFails(v) \/ CallThrows(v) \/ ReleaseFails(v) \/ GatewayCrash(v)
      PROVE  FALSE
  BY <1>2, <1>9 DEF WokenUp, AcquireLock, PeekQueue, SkipFinished, WaitForLease, TakeUp,
     MarkRunning, WriteVerdict, PopQueue, ReleaseLock, AcquireFails, CallThrows, ReleaseFails,
     GatewayCrash, Leave, Move
<1>10. QED
  BY <1>4, <1>5, <1>6, <1>7, <1>8, <1>9, MovesItself DEF WorkerStep, Fault

LEMMA LineKeeps ==
    ASSUME GatewayInv, GatewayNext, ~lapsed'
    PROVE  Line'
<1> USE DEF GatewayInv, Types, LedgerTypes, StoreTypes
<1>1. ~lapsed
  BY LapseStays
<1>2. Line
  BY <1>1 DEF Unlapsed
<1>3. /\ Len(queue) \in Nat /\ Len(arrivals) \in Nat
      /\ \A i \in 1..Len(arrivals) : arrivals[i] \in Actions
  BY LenProperties, ElementOfSeq
<1>4. ASSUME NEW a \in Actions, Accepts(a)
      PROVE  Line'
  <2>1. /\ Len(queue') = Len(queue) + 1 /\ queue'[Len(queue) + 1] = a
        /\ \A i \in 1..Len(queue) : queue'[i] = queue[i]
    BY <1>4, Appended DEF Accepts
  <2>2. /\ Len(arrivals') = Len(arrivals) + 1 /\ arrivals'[Len(arrivals) + 1] = a
        /\ \A i \in 1..Len(arrivals) : arrivals'[i] = arrivals[i] /\ arrivals[i] # a
    BY <1>4, Appended DEF Accepts, NoTrace
  <2>3. Gone' = Gone
    BY <1>3, <2>1, <2>2 DEF Gone
  <2>4. \A i \in 1..Len(queue') : queue'[i] = arrivals'[Gone' + i]
    <3>1. Gone = Len(arrivals) - Len(queue)
      BY DEF Gone
    <3>2. \A i \in 1..Len(queue) : queue'[i] = arrivals'[Gone + i]
      BY <1>2, <1>3, <2>1, <2>2, <3>1 DEF Line
    <3>3. queue'[Len(queue) + 1] = arrivals'[Gone + (Len(queue) + 1)]
      BY <1>3, <2>1, <2>2, <3>1
    <3>4. QED
      BY <1>3, <2>1, <2>3, <3>2, <3>3
  <2>5. \A i \in 1..Gone' : record'[arrivals'[i]] \in Terminal
    BY <1>2, <1>3, <1>4, <2>2, <2>3 DEF Accepts, Line, Gone
  <2>6. \A i, j \in 1..Len(arrivals') : arrivals'[i] = arrivals'[j] => i = j
    BY <1>2, <1>3, <2>2 DEF Line
  <2>7. QED
    BY <1>2, <2>3, <2>4, <2>5, <2>6 DEF Line
<1>5. ASSUME UNCHANGED <<arrivals, queue>>,
             \A i \in 1..Gone : record'[arrivals[i]] \in Terminal
      PROVE  Line'
  BY <1>2, <1>5 DEF Line, Gone
<1>6. ASSUME NEW a \in Actions, Cancels(a)
      PROVE  Line'
  <2>1. \A i \in 1..Gone : record'[arrivals[i]] \in Terminal
    BY <1>2, <1>3, <1>6 DEF Cancels, Line, Gone, Terminal
  <2>2. QED
    BY <1>5, <1>6, <2>1 DEF Cancels
<1>7. ASSUME NEW r \in Replicas, Marks(r)
      PROVE  Line'
  <2>1. record[head[r]] = "accepted"
    BY <1>1, <1>7 DEF Marks, Unlapsed, OnRecord
  <2>2. \A i \in 1..Gone : record'[arrivals[i]] \in Terminal
    BY <1>2, <1>3, <1>7, <2>1 DEF Marks, Marked, Line, Gone, Terminal
  <2>3. QED
    BY <1>5, <1>7, <2>2 DEF Marks
<1>8. ASSUME NEW r \in Replicas, Concludes(r)
      PROVE  Line'
  <2>1. verdict[r] \in Terminal
    BY <1>8 DEF Concludes, InHand, ProcessTypes, Terminal
  <2>2. \A i \in 1..Gone : record'[arrivals[i]] \in Terminal
    BY <1>2, <1>3, <1>8, <2>1 DEF Concludes, Line, Gone
  <2>3. QED
    BY <1>5, <1>8, <2>2 DEF Concludes
<1>9. ASSUME NEW r \in Replicas, Affects(r) \/ Breaks(r)
      PROVE  Line'
  BY <1>2, <1>5, <1>9 DEF Affects, Breaks, Line
<1>10. ASSUME NEW r \in Replicas, Pops(r)
       PROVE  Line'
  <2>1. queue # <<>> /\ head[r] = Head(queue) /\ record[head[r]] \in Terminal
    BY <1>1, <1>10 DEF Pops, Unlapsed, AtHead, OnRecord, AtWork
  <2>2. /\ queue' = Tail(queue) /\ UNCHANGED <<record, arrivals>>
        /\ Len(Tail(queue)) = Len(queue) - 1
        /\ \A i \in 1..Len(Tail(queue)) : Tail(queue)[i] = queue[i + 1]
    BY <1>10, <2>1, HeadTailProperties DEF Pops, Popped, ledgerVars
  <2>3. Len(queue) >= 1 /\ Head(queue) = queue[1]
    BY <1>3, <2>1, EmptySeq
  <2>4. Gone' = Gone + 1
    <3>1. Len(queue') = Len(queue) - 1 /\ Len(arrivals') = Len(arrivals)
      BY <2>2
    <3>2. QED
      BY <1>3, <3>1 DEF Gone
  <2>5. arrivals[Gone + 1] = head[r]
    BY <1>2, <2>1, <2>3 DEF Line
  <2>6. \A i \in 1..Gone' : record'[arrivals'[i]] \in Terminal
    BY <1>2, <2>1, <2>2, <2>4, <2>5 DEF Line
  <2>7. \A i \in 1..Len(queue') : queue'[i] = arrivals'[Gone' + i]
    BY <1>2, <1>3, <2>2, <2>4 DEF Line
  <2>8. QED
    BY <1>2, <2>2, <2>4, <2>6, <2>7 DEF Line
<1>11. CASE UNCHANGED <<ledgerVars, queue>>
  BY <1>2, <1>5, <1>11 DEF Line, ledgerVars
<1>12. QED
  BY <1>4, <1>6, <1>7, <1>8, <1>9, <1>10, <1>11, LedgerChanges

-----------------------------------------------------------------------------
(* The properties *)

LEMMA AcceptedIsQueuedKeeps ==
    ASSUME GatewayInv, GatewayNext
    PROVE  AcceptedIsQueued'
<1> USE DEF GatewayInv, Types, LedgerTypes, StoreTypes
<1>1. SUFFICES ASSUME ~lapsed', NEW a \in Actions, record'[a] \in {"accepted", "running"}
               PROVE  \E i \in 1..Len(queue') : queue'[i] = a
  BY DEF AcceptedIsQueued
<1>2. ~lapsed
  BY <1>1, LapseStays
<1>3. record[a] \in {"accepted", "running"} => \E i \in 1..Len(queue) : queue[i] = a
  BY <1>2 DEF AcceptedIsQueued
<1>4. ASSUME record[a] \in {"accepted", "running"}, UNCHANGED queue
      PROVE  \E i \in 1..Len(queue') : queue'[i] = a
  BY <1>3, <1>4
<1>5. ASSUME NEW b \in Actions, Accepts(b)
      PROVE  \E i \in 1..Len(queue') : queue'[i] = a
  <2>1. /\ Len(queue') = Len(queue) + 1 /\ Len(queue) \in Nat
        /\ queue'[Len(queue) + 1] = b
        /\ \A i \in 1..Len(queue) : queue'[i] = queue[i]
    BY <1>5, Appended DEF Accepts
  <2>2. CASE a = b
    BY <2>1, <2>2
  <2>3. CASE a # b
    <3>1. record[a] \in {"accepted", "running"}
      BY <1>1, <1>5, <2>3 DEF Accepts
    <3>2. QED
      BY <1>3, <2>1, <3>1
  <2>4. QED
    BY <2>2, <2>3
<1>6. ASSUME NEW b \in Actions, Cancels(b)
      PROVE  record[a] \in {"accepted", "running"} /\ UNCHANGED queue
  BY <1>1, <1>6 DEF Cancels
<1>7. ASSUME NEW r \in Replicas, Marks(r)
      PROVE  record[a] \in {"accepted", "running"} /\ UNCHANGED queue
  <2>1. record[head[r]] = "accepted"
    BY <1>2, <1>7 DEF Marks, Unlapsed, OnRecord
  <2>2. QED
    BY <1>1, <1>7, <2>1 DEF Marks, Marked
<1>8. ASSUME NEW r \in Replicas, Concludes(r)
      PROVE  record[a] \in {"accepted", "running"} /\ UNCHANGED queue
  <2>1. verdict[r] \in {"succeeded", "failed", "unknown"}
    BY <1>8 DEF Concludes, InHand, ProcessTypes
  <2>2. QED
    BY <1>1, <1>8, <2>1 DEF Concludes
<1>9. ASSUME NEW r \in Replicas, Pops(r)
      PROVE  \E i \in 1..Len(queue') : queue'[i] = a
  <2>1. queue # <<>> /\ head[r] = Head(queue) /\ record[head[r]] \in Terminal
    BY <1>2, <1>9 DEF Pops, Unlapsed, AtHead, OnRecord, AtWork
  <2>2. /\ queue' = Tail(queue) /\ UNCHANGED record
        /\ Len(Tail(queue)) = Len(queue) - 1 /\ Len(queue) \in Nat
        /\ \A i \in 1..Len(Tail(queue)) : Tail(queue)[i] = queue[i + 1]
    BY <1>9, <2>1, HeadTailProperties, LenProperties DEF Pops, Popped, ledgerVars
  <2>3. Head(queue) = queue[1] /\ Head(queue) # a
    BY <1>1, <2>1, <2>2 DEF Terminal
  <2>4. PICK i \in 1..Len(queue) : queue[i] = a
    BY <1>1, <1>3, <2>2
  <2>5. i - 1 \in 1..Len(queue') /\ queue'[i - 1] = a
    BY <2>2, <2>3, <2>4
  <2>6. QED
    BY <2>5
<1>10. CASE UNCHANGED <<ledgerVars, queue>> \/ \E r \in Replicas : Affects(r) \/ Breaks(r)
  BY <1>1, <1>4, <1>10 DEF Affects, Breaks, ledgerVars
<1>11. QED
  BY <1>4, <1>5, <1>6, <1>7, <1>8, <1>9, <1>10, LedgerChanges

LEMMA NeverReplayedKeeps ==
    ASSUME GatewayInv, GatewayNext
    PROVE  NeverReplayed'
<1> USE DEF GatewayInv, Types, LedgerTypes
<1>1. SUFFICES ASSUME ~lapsed'
               PROVE  \A i, j \in 1..Len(log') : log'[i] = log'[j] => i = j
  BY DEF NeverReplayed
<1>2. ~lapsed
  BY <1>1, LapseStays
<1>3. \A i, j \in 1..Len(log) : log[i] = log[j] => i = j
  BY <1>2 DEF NeverReplayed
<1>4. ASSUME NEW r \in Replicas, Affects(r)
      PROVE  \A i, j \in 1..Len(log') : log'[i] = log'[j] => i = j
  <2>1. head[r] \in Actions /\ ~InEffect(head[r]) /\ log' = Append(log, head[r])
    BY <1>2, <1>4 DEF Affects, InHand, AtWork, ProcessTypes, Unlapsed, OnRecord
  <2>2. /\ Len(log') = Len(log) + 1 /\ Len(log) \in Nat
        /\ \A i \in 1..Len(log) : log'[i] = log[i]
        /\ log'[Len(log) + 1] = head[r]
    BY <2>1, Appended
  <2>3. \A i \in 1..Len(log) : log[i] # head[r]
    BY <2>1 DEF InEffect
  <2>4. QED
    BY <1>3, <2>2, <2>3
<1>5. UNCHANGED log => \A i, j \in 1..Len(log') : log'[i] = log'[j] => i = j
  BY <1>3
<1>6. QED
  BY <1>4, <1>5, LedgerChanges DEF Accepts, Cancels, Marks, Breaks, Concludes, Pops, ledgerVars

-----------------------------------------------------------------------------

LEMMA GatewayInvInit == GatewayInit => GatewayInv
<1> SUFFICES ASSUME GatewayInit PROVE GatewayInv
  OBVIOUS
<1> USE DEF GatewayInit, LedgerInit
<1>1. Types
  BY EmptySeq DEF Types, LedgerTypes, StoreTypes, ProcessTypes, HistoryTypes, Statuses, GatewayPlaces
<1>2. InHand
  BY DEF InHand, AtWork
<1>3. Len(log) = 0 /\ Len(arrivals) = 0 /\ Len(queue) = 0
  BY EmptySeq
<1>4. NoTrace
  BY <1>3, GatewayAssumption DEF NoTrace, InEffect
<1>5. Unlapsed
  BY <1>3 DEF Unlapsed, Holding, AtHead, OnRecord, WaitsUntouched, TrueVerdict, Line, Gone, InLoop,
     AtWork
<1>6. AcceptedIsQueued /\ NeverReplayed
  BY <1>3 DEF AcceptedIsQueued, NeverReplayed
<1>7. QED
  BY <1>1, <1>2, <1>4, <1>5, <1>6 DEF GatewayInv

LEMMA GatewayInvNext == GatewayInv /\ [GatewayNext]_gatewayVars => GatewayInv'
<1> SUFFICES ASSUME GatewayInv, [GatewayNext]_gatewayVars PROVE GatewayInv'
  OBVIOUS
<1>1. CASE GatewayNext
  <2>1. Types /\ InHand /\ NoTrace
    BY DEF GatewayInv
  <2>2. Types'
    BY <1>1, <2>1, LedgerTyped, StoreTyped, ProcessTyped, HistoryTyped DEF Types
  <2>3. InHand' /\ NoTrace'
    BY <1>1, <2>1, InHandKeeps, NoTraceKeeps
  <2>4. ~lapsed' => Unlapsed'
    BY <1>1, HoldingKeeps, AtHeadKeeps, OnRecordKeeps, WaitsUntouchedKeeps, TrueVerdictKeeps,
       LineKeeps DEF Unlapsed
  <2>5. AcceptedIsQueued' /\ NeverReplayed'
    BY <1>1, AcceptedIsQueuedKeeps, NeverReplayedKeeps
  <2>6. QED
    BY <2>2, <2>3, <2>4, <2>5 DEF GatewayInv
<1>2. CASE UNCHANGED gatewayVars
  <2> USE <1>2 DEF gatewayVars, ledgerVars, store, process, history
  <2>1. Types'
    BY DEF GatewayInv, Types, LedgerTypes, StoreTypes, ProcessTypes, HistoryTypes
  <2>2. InHand' /\ NoTrace'
    BY DEF GatewayInv, InHand, NoTrace, InEffect
  <2>3. ~lapsed' => Holding' /\ AtHead' /\ OnRecord' /\ WaitsUntouched' /\ TrueVerdict'
    BY DEF GatewayInv, Unlapsed, Holding, AtHead, OnRecord, WaitsUntouched, TrueVerdict, InEffect
  <2>4. ~lapsed' => Line'
    BY DEF GatewayInv, Unlapsed, Line, Gone
  <2>5. AcceptedIsQueued' /\ NeverReplayed'
    BY DEF GatewayInv, AcceptedIsQueued, NeverReplayed
  <2>6. QED
    BY <2>1, <2>2, <2>3, <2>4, <2>5 DEF GatewayInv, Unlapsed
<1>3. QED
  BY <1>1, <1>2

LEMMA GatewayInvHolds == GatewaySpec => []GatewayInv
BY GatewayInvInit, GatewayInvNext, PTL DEF GatewaySpec

\* The variables of the gateway keep their types.
THEOREM GatewayTyped == GatewaySpec => []GatewayTypes
<1>1. GatewayInv => GatewayTypes
  BY DEF GatewayInv, Types, StoreTypes, ProcessTypes, HistoryTypes, GatewayTypes
<1>2. QED
  BY <1>1, GatewayInvHolds, PTL

\* Whatever processes die, calls fail or submissions are repeated: until a lock
\* lapses under a holder that goes on, no action takes effect twice.
THEOREM NeverReplayedHolds == GatewaySpec => []NeverReplayed
<1>1. GatewayInv => NeverReplayed
  BY DEF GatewayInv
<1>2. QED
  BY <1>1, GatewayInvHolds, PTL

\* A cancellation that was confirmed is kept, even by replicas that do not know
\* of one another: the action has no effect, then or later.
THEOREM CancellationWinsHolds == GatewaySpec => []CancellationWins
<1>1. GatewayInv => CancellationWins
  BY DEF GatewayInv, NoTrace, CancellationWins
<1>2. QED
  BY <1>1, GatewayInvHolds, PTL

\* Until a lock lapses, what was accepted and is not over is in the queue, where
\* the next process that starts finds it.
THEOREM AcceptedIsQueuedHolds == GatewaySpec => []AcceptedIsQueued
<1>1. GatewayInv => AcceptedIsQueued
  BY DEF GatewayInv
<1>2. QED
  BY <1>1, GatewayInvHolds, PTL

-----------------------------------------------------------------------------
(* The gateway implements the ledger *)

\* What stands before the head of the queue is over: the head is next.
LEMMA HeadIsNext ==
    ASSUME GatewayInv, ~lapsed, NEW r \in Replicas, at[r] \in AtWork
    PROVE  IsNext(head[r])
<1> USE DEF GatewayInv, Types, LedgerTypes, StoreTypes, Unlapsed
<1>1. queue # <<>> /\ head[r] = Head(queue)
  BY DEF AtHead
<1>2. Len(queue) \in Nat /\ Len(arrivals) \in Nat /\ Len(queue) # 0 /\ head[r] = queue[1]
  BY <1>1, EmptySeq
<1>3. Gone + 1 \in 1..Len(arrivals) /\ head[r] = arrivals[Gone + 1] /\ Gone \in Nat
  BY <1>2 DEF Line, Gone
<1>4. ASSUME NEW i \in 1..Len(arrivals), arrivals[i] = head[r], NEW j \in 1..(i - 1)
      PROVE  record[arrivals[j]] \in Terminal
  <2>1. i = Gone + 1
    BY <1>3, <1>4 DEF Line
  <2>2. j \in 1..Gone
    BY <1>3, <1>4, <2>1
  <2>3. QED
    BY <2>2 DEF Line
<1>5. QED
  BY <1>4 DEF IsNext

LEMMA StepOfLedger ==
    ASSUME GatewayInv, GatewayNext, ~lapsed', ~torn'
    PROVE  [LedgerNext]_ledgerVars
<1> USE DEF GatewayInv, Types
<1>1. ~lapsed /\ ~torn /\ Unlapsed
  BY LapseStays
<1>2. ASSUME NEW a \in Actions, Accepts(a) \/ Cancels(a)
      PROVE  LedgerNext
  BY <1>2 DEF Accepts, Cancels, Accept, CancelFirst, LedgerNext
<1>3. ASSUME NEW r \in Replicas, at[r] \in AtWork
      PROVE  head[r] \in Actions /\ IsNext(head[r])
  BY <1>1, <1>3, HeadIsNext DEF InHand, ProcessTypes
<1>4. ASSUME NEW r \in Replicas, Marks(r)
      PROVE  LedgerNext
  <2>1. Start(head[r])
    BY <1>1, <1>3, <1>4 DEF Marks, Marked, Start, Unlapsed, OnRecord, AtWork
  <2>2. QED
    BY <1>3, <1>4, <2>1 DEF Marks, LedgerRun, LedgerNext, AtWork
<1>5. ASSUME NEW r \in Replicas, Affects(r)
      PROVE  LedgerNext
  <2>1. TakeEffect(head[r])
    BY <1>1, <1>5 DEF Affects, TakeEffect, Unlapsed, OnRecord
  <2>2. QED
    BY <1>3, <1>5, <2>1 DEF Affects, LedgerRun, LedgerNext, AtWork
<1>6. ASSUME NEW r \in Replicas, Concludes(r)
      PROVE  LedgerNext
  <2>1. verdict[r] \in Terminal \ {"cancelled"}
    BY <1>6 DEF Concludes, InHand, ProcessTypes, Terminal
  <2>2. record[head[r]] = "running"
    BY <1>1, <1>6 DEF Concludes, Unlapsed, OnRecord
  <2>3. Finish(head[r], verdict[r])
    BY <1>1, <1>6, <2>2 DEF Concludes, Finish, Unlapsed, TrueVerdict
  <2>4. QED
    BY <1>3, <1>6, <2>1, <2>3 DEF Concludes, LedgerRun, LedgerNext, AtWork
<1>7. ASSUME UNCHANGED <<ledgerVars, queue>> \/ \E r \in Replicas : Pops(r)
      PROVE  UNCHANGED ledgerVars
  BY <1>7 DEF Pops
<1>8. ASSUME NEW r \in Replicas, Breaks(r)
      PROVE  LedgerNext
  <2>1. record[head[r]] = "running" /\ InEffect(head[r])
    BY <1>1, <1>8 DEF Breaks, InHand, Unlapsed, OnRecord, TrueVerdict
  <2>2. FollowUpFails(head[r])
    BY <1>8, <2>1 DEF Breaks, FollowUpFails
  <2>3. QED
    BY <1>3, <1>8, <2>2 DEF Breaks, LedgerRun, LedgerNext, AtWork
<1>9. QED
  BY <1>2, <1>4, <1>5, <1>6, <1>7, <1>8, LedgerChanges

\* Until a lock lapses, or the write of a success throws although it was carried
\* out, every step of the gateway is a step of the ledger or none at all.
THEOREM GatewayImplementsLedger == GatewaySpec => ImplementsLedger
<1>1. GatewayInv /\ [GatewayNext]_gatewayVars
         => [lapsed' \/ torn' \/ [LedgerNext]_ledgerVars]_gatewayVars
  BY StepOfLedger
<1>2. QED
  BY <1>1, GatewayInvHolds, PTL DEF GatewaySpec, ImplementsLedger

-----------------------------------------------------------------------------
(* The queue: its inductive invariant *)

Shown == Statuses \cup {"new", "queued", "submitting", "reconciling", "gone"}

ItemTypes ==
    /\ items \in Seq(Actions)
    /\ shown \in [Actions -> Shown]
    /\ settled \subseteq Actions /\ unseen \subseteq Actions
    /\ step \in {"idle", "posting", "deleting", "polling", "refreshing"}
    /\ outcome \in Statuses
    /\ step # "idle" => items # <<>>

OtherTypes ==
    /\ refreshed \subseteq Actions /\ wants \subseteq Actions /\ wire \subseteq Actions
    /\ sent \subseteq Actions /\ newer \subseteq Actions
    /\ restored \subseteq Actions /\ dropped \subseteq Actions
    /\ reply \in Statuses
    /\ blocked \in BOOLEAN /\ hydrated \in BOOLEAN
    /\ target \in Actions \cup {NoTarget}
    /\ troubles \in Nat /\ clears \in Nat /\ sessions \in Nat

\* The types of all variables; whatever is awaited, the queue has a head.
QueueTypes == LedgerTypes /\ ItemTypes /\ OtherTypes

\* What processQueue awaits, and what it has got, is about the head.
Phases ==
    /\ reply # NoAnswer => step \in {"posting", "deleting"}
    /\ reply \in Terminal => record[First] = reply
    /\ step = "refreshing" => outcome \in {"succeeded", "unknown"} /\ record[First] = outcome
    /\ step = "deleting" => First \in wants

Once == \A i, j \in 1..Len(items) : items[i] = items[j] => i = j

Untouched(a) == record[a] = "none" /\ a \notin wire

\* What a new action, a queued one and one that was sent have behind them.
Histories ==
    /\ \A a \in Actions :
          /\ shown[a] = "new" =>
                Untouched(a) /\ a \notin sent \cup settled /\ a # target /\ ~InQueue(a)
          /\ shown[a] = "submitting" => a \in sent
          /\ InQueue(a) /\ a \notin restored \cup sent => Untouched(a)
    /\ wants \subseteq sent
    /\ ~hydrated => restored = {} /\ dropped = {} /\ target = NoTarget

\* Whatever was sent is settled, unless it is the head; only as a recovered item is
\* it in the queue behind it; and what left the queue with an effect was refreshed.
SentBefore ==
    \A b \in sent :
        /\ b \in settled \/ (items # <<>> /\ b = First)
        /\ InQueue(b) => b = First \/ b \in restored
        /\ ~InQueue(b) /\ shown[b] \in {"succeeded", "unknown"} /\ b \notin wants \cup restored
              => b \in refreshed

EffectsTold ==
    \A a \in Actions :
        /\ record[a] \in {"none", "accepted", "cancelled"} => ~InEffect(a)
        /\ record[a] = "succeeded" => InEffect(a)

\* A final status shown in the queue is the record's; one shown of what has left it
\* is, or of what was cancelled here and never reaches the gateway.
ToldTrue ==
    \A a \in Actions :
        /\ InQueue(a) /\ Final(a) => record[a] = shown[a]
        /\ a \in settled \ dropped /\ ~InQueue(a) =>
              /\ shown[a] = "cancelled" => record[a] = "cancelled" \/ Untouched(a)
              /\ shown[a] = "succeeded" => record[a] = "succeeded"

Alive(a) == record[a] \notin {"none", "cancelled"}

NotAfter(a, b) == \E i, j \in 1..Len(items) : i <= j /\ items[i] = a /\ items[j] = b

\* What is not settled the next recovery finds, and when the checkpoint is stored it
\* still does.
Remembered ==
    /\ \A a \in Actions : Alive(a) /\ a \notin settled => a \in unseen
    /\ target \in Actions /\ InQueue(target) =>
          \A a \in Actions : Alive(a) /\ a \notin settled => a \in newer \/ NotAfter(a, target)

QueueInv ==
    /\ QueueTypes /\ Phases /\ Once /\ Histories /\ SentBefore /\ EffectsTold /\ ToldTrue
    /\ Remembered

-----------------------------------------------------------------------------
(* The queue as a sequence *)

\* A queue that holds something has a head, which is in it.
LEMMA HeadIsQueued ==
    ASSUME items \in Seq(Actions), items # <<>>
    PROVE  First \in Actions /\ InQueue(First) /\ Len(items) \in Nat \ {0}
<1>1. Len(items) \in Nat \ {0} /\ 1 \in 1..Len(items)
  BY EmptySeq
<1>2. items[1] \in Actions
  BY <1>1, ElementOfSeq
<1> QED
  BY <1>1, <1>2 DEF First, InQueue

\* Without its head the queue holds the others, in their places.
LEMMA TailOfQueue ==
    ASSUME items \in Seq(Actions), items # <<>>, Once, items' = Tail(items)
    PROVE  /\ items' \in Seq(Actions) /\ Once'
           /\ \A a : InQueue(a)' <=> InQueue(a) /\ a # First
           /\ \A a, b : NotAfter(a, b) /\ a # First /\ b # First => NotAfter(a, b)'
<1>1. /\ items' \in Seq(Actions) /\ Len(items') = Len(items) - 1
      /\ \A i \in 1..Len(items') : items'[i] = items[i + 1]
  BY HeadTailProperties
<1>2. Len(items) \in Nat \ {0}
  BY HeadIsQueued
<1>3. Once'
  BY <1>1, <1>2 DEF Once
<1>4. ASSUME NEW a PROVE InQueue(a)' <=> InQueue(a) /\ a # First
  <2>1. ASSUME NEW i \in 1..Len(items'), items'[i] = a PROVE InQueue(a) /\ a # First
    <3>1. i + 1 \in 1..Len(items) /\ items[i + 1] = a /\ i + 1 # 1 /\ 1 \in 1..Len(items)
      BY <1>1, <1>2, <2>1
    <3> QED
      BY <3>1 DEF InQueue, Once, First
  <2>2. ASSUME NEW i \in 1..Len(items), items[i] = a, a # First PROVE InQueue(a)'
    <3>1. i # 1
      BY <2>2 DEF First
    <3>2. i - 1 \in 1..Len(items') /\ items'[i - 1] = a
      BY <1>1, <1>2, <2>2, <3>1
    <3> QED
      BY <3>2 DEF InQueue
  <2> QED
    BY <2>1, <2>2 DEF InQueue
<1>5. ASSUME NEW a, NEW b, NotAfter(a, b), a # First, b # First PROVE NotAfter(a, b)'
  <2>1. PICK i \in 1..Len(items), j \in 1..Len(items) : i <= j /\ items[i] = a /\ items[j] = b
    BY <1>5 DEF NotAfter
  <2>2. i # 1 /\ j # 1
    BY <1>5, <2>1 DEF First
  <2>3. /\ i - 1 \in 1..Len(items') /\ j - 1 \in 1..Len(items') /\ i - 1 <= j - 1
        /\ items'[i - 1] = a /\ items'[j - 1] = b
    BY <1>1, <1>2, <2>1, <2>2
  <2> QED
    BY <2>3 DEF NotAfter
<1> QED
  BY <1>1, <1>3, <1>4, <1>5

\* What is put behind the queue leaves everything before it in its place.
LEMMA QueueGrows ==
    ASSUME items \in Seq(Actions), NEW q \in Seq(Actions), items' = items \o q
    PROVE  /\ items' \in Seq(Actions)
           /\ \A a : InQueue(a)' <=> InQueue(a) \/ \E i \in 1..Len(q) : q[i] = a
           /\ items # <<>> => items' # <<>> /\ First' = First
           /\ \A a, b : NotAfter(a, b) => NotAfter(a, b)'
<1>1. /\ items' \in Seq(Actions) /\ Len(items') = Len(items) + Len(q)
      /\ \A i \in 1..Len(items') :
            items'[i] = IF i <= Len(items) THEN items[i] ELSE q[i - Len(items)]
      /\ Len(items) \in Nat /\ Len(q) \in Nat
  BY ConcatProperties, LenProperties
<1>2. ASSUME NEW a PROVE InQueue(a)' <=> InQueue(a) \/ \E i \in 1..Len(q) : q[i] = a
  <2>1. ASSUME NEW i \in 1..Len(items'), items'[i] = a
        PROVE  InQueue(a) \/ \E j \in 1..Len(q) : q[j] = a
    <3>1. CASE i <= Len(items)
      BY <1>1, <2>1, <3>1 DEF InQueue
    <3>2. CASE ~(i <= Len(items))
      <4>1. i - Len(items) \in 1..Len(q) /\ q[i - Len(items)] = a
        BY <1>1, <2>1, <3>2
      <4> QED
        BY <4>1
    <3> QED
      BY <3>1, <3>2
  <2>2. ASSUME NEW i \in 1..Len(items), items[i] = a PROVE InQueue(a)'
    <3>1. i \in 1..Len(items') /\ items'[i] = a
      BY <1>1, <2>2
    <3> QED
      BY <3>1 DEF InQueue
  <2>3. ASSUME NEW i \in 1..Len(q), q[i] = a PROVE InQueue(a)'
    <3>1. i + Len(items) \in 1..Len(items') /\ items'[i + Len(items)] = a
      BY <1>1, <2>3
    <3> QED
      BY <3>1 DEF InQueue
  <2> QED
    BY <2>1, <2>2, <2>3 DEF InQueue
<1>3. ASSUME items # <<>> PROVE items' # <<>> /\ First' = First
  <2>1. Len(items) \in Nat \ {0}
    BY <1>3, HeadIsQueued
  <2>2. Len(items') # 0 /\ items'[1] = items[1]
    BY <1>1, <2>1
  <2> QED
    BY <2>2, EmptySeq DEF First
<1>4. ASSUME NEW a, NEW b, NotAfter(a, b) PROVE NotAfter(a, b)'
  <2>1. PICK i \in 1..Len(items), j \in 1..Len(items) : i <= j /\ items[i] = a /\ items[j] = b
    BY <1>4 DEF NotAfter
  <2>2. /\ i \in 1..Len(items') /\ j \in 1..Len(items') /\ items'[i] = a /\ items'[j] = b
    BY <1>1, <2>1
  <2> QED
    BY <2>1, <2>2 DEF NotAfter
<1> QED
  BY <1>1, <1>2, <1>3, <1>4

\* Behind the queue it is in once, nothing is twice.
LEMMA GrowsOnce ==
    ASSUME items \in Seq(Actions), NEW q \in Seq(Actions), items' = items \o q, Once,
           \A i, j \in 1..Len(q) : q[i] = q[j] => i = j,
           \A i \in 1..Len(q) : ~InQueue(q[i])
    PROVE  Once'
<1>1. /\ Len(items') = Len(items) + Len(q)
      /\ \A i \in 1..Len(items') :
            items'[i] = IF i <= Len(items) THEN items[i] ELSE q[i - Len(items)]
      /\ Len(items) \in Nat /\ Len(q) \in Nat
  BY ConcatProperties, LenProperties
<1>2. ASSUME NEW i \in 1..Len(items'), NEW j \in 1..Len(items'), items'[i] = items'[j]
      PROVE  i = j
  <2>1. CASE i <= Len(items) /\ j <= Len(items)
    BY <1>1, <1>2, <2>1 DEF Once
  <2>2. CASE i <= Len(items) /\ j > Len(items)
    BY <1>1, <1>2, <2>2 DEF InQueue
  <2>3. CASE i > Len(items) /\ j <= Len(items)
    <3>1. i - Len(items) \in 1..Len(q) /\ j \in 1..Len(items) /\ items[j] = q[i - Len(items)]
      BY <1>1, <1>2, <2>3
    <3> QED
      BY <3>1 DEF InQueue
  <2>4. CASE i > Len(items) /\ j > Len(items)
    <3>1. /\ i - Len(items) \in 1..Len(q) /\ j - Len(items) \in 1..Len(q)
          /\ q[i - Len(items)] = q[j - Len(items)]
      BY <1>1, <1>2, <2>4
    <3>2. i - Len(items) = j - Len(items)
      BY <3>1
    <3> QED
      BY <1>1, <3>2
  <2> QED
    BY <1>1, <2>1, <2>2, <2>3, <2>4
<1> QED
  BY <1>2 DEF Once

\* A list of recovered actions holds each of them once.
LEMMA ListingOf ==
    ASSUME NEW new \in SUBSET Actions, NEW q \in Listings(new)
    PROVE  /\ q \in Seq(Actions)
           /\ \A i, j \in 1..Len(q) : q[i] = q[j] => i = j
           /\ \A a : (\E i \in 1..Len(q) : q[i] = a) <=> a \in new
<1>1. IsFiniteSet(new)
  BY QueueAssumption, FS_Subset
<1> DEFINE n == Cardinality(new)
<1>2. n \in Nat
  BY <1>1, FS_CardinalityType
<1>3. q \in [1..n -> new] /\ \A i, j \in 1..n : i # j => q[i] # q[j]
  BY DEF Listings, SetToSeqs
<1>4. q \in Seq(new) /\ Len(q) = n
  BY <1>2, <1>3, SeqDef, LenProperties
<1>5. q \in Seq(Actions)
  BY <1>4, SeqMonotonic
<1>6. q \in Injection(1..n, new)
  BY <1>3 DEF Injection, IsInjective
<1>7. Cardinality(1..n) = n /\ IsFiniteSet(1..n)
  BY <1>2, FS_Interval
<1>8. q \in Surjection(1..n, new)
  BY <1>1, <1>6, <1>7, FS_Injection
<1>9. \A a \in new : \E i \in 1..n : q[i] = a
  BY <1>8 DEF Surjection
<1> QED
  BY <1>3, <1>4, <1>5, <1>9

-----------------------------------------------------------------------------
(* Types *)

\* What an item's end does to the queue keeps its types.
LEMMA ResolveTypes ==
    ASSUME ItemTypes, items # <<>>, NEW status \in Shown, Resolve(status)
    PROVE  /\ items' \in Seq(Actions) /\ shown' \in [Actions -> Shown]
           /\ settled' \subseteq Actions /\ step' = "idle"
<1>1. First \in Actions
  BY HeadIsQueued DEF ItemTypes
<1>2. items' \in Seq(Actions)
  BY HeadTailProperties DEF ItemTypes, Resolve
<1> QED
  BY <1>1, <1>2 DEF ItemTypes, Resolve

\* So does a final status, with the refresh or without.
LEMMA SettleTypes ==
    ASSUME ItemTypes, newer \subseteq Actions, items # <<>>, NEW status \in Terminal, Settle(status)
    PROVE  ItemTypes'
<1>1. CASE NeedsRefresh(status)
  <2>1. First \in Actions
    BY HeadIsQueued DEF ItemTypes
  <2> QED
    BY <1>1, <2>1 DEF Settle, ItemTypes, Shown, Statuses
<1>2. CASE ~NeedsRefresh(status)
  <2>1. Resolve(status) /\ unseen' = Checkpointed(First) /\ outcome' = outcome
    BY <1>2 DEF Settle
  <2>2. unseen' \subseteq Actions
    BY <2>1 DEF Checkpointed, ItemTypes
  <2>3. status \in Shown
    BY DEF Shown, Statuses
  <2> QED
    BY <2>1, <2>2, <2>3, ResolveTypes DEF ItemTypes
<1> QED
  BY <1>1, <1>2

\* So does whatever status an answer brings.
LEMMA ShowTypes ==
    ASSUME ItemTypes, newer \subseteq Actions, items # <<>>, NEW status \in Statuses, Show(status)
    PROVE  ItemTypes'
<1>1. CASE status \in Terminal
  BY <1>1, SettleTypes DEF Show
<1>2. CASE status \notin Terminal
  <2>1. First \in Actions
    BY HeadIsQueued DEF ItemTypes
  <2> QED
    BY <1>2, <2>1 DEF Show, ItemTypes, Shown
<1> QED
  BY <1>1, <1>2

\* So does what a cancellation answers.
LEMMA CancelledTypes ==
    ASSUME ItemTypes, items # <<>>, NEW status \in Shown, Cancelled(status),
           UNCHANGED <<outcome, unseen>>
    PROVE  ItemTypes'
<1>1. CASE status \in Terminal
  BY <1>1, ResolveTypes DEF Cancelled, ItemTypes
<1>2. CASE status \notin Terminal
  <2>1. First \in Actions
    BY HeadIsQueued DEF ItemTypes
  <2> QED
    BY <1>2, <2>1 DEF Cancelled, ItemTypes
<1> QED
  BY <1>1, <1>2

\* A final status of the head is one of the final statuses.
LEMMA FinalStatus == \A a : Final(a) => shown[a] \in Terminal
  BY DEF Final

\* A step of the gateway keeps the types of its records and histories.
LEMMA LedgerStepTypes ==
    ASSUME LedgerTypes, NEW a \in Actions, Accept(a) \/ CancelFirst(a) \/ LedgerRun(a)
    PROVE  LedgerTypes'
<1>1. CASE Accept(a)
  BY <1>1, AppendProperties DEF Accept, LedgerTypes, Statuses
<1>2. CASE CancelFirst(a)
  BY <1>2 DEF CancelFirst, LedgerTypes, Statuses, Terminal
<1>3. CASE Start(a)
  BY <1>3 DEF Start, LedgerTypes, Statuses
<1>4. CASE TakeEffect(a)
  BY <1>4, AppendProperties DEF TakeEffect, LedgerTypes
<1>5. ASSUME NEW s \in Terminal, Finish(a, s) PROVE LedgerTypes'
  BY <1>5 DEF Finish, LedgerTypes, Statuses
<1>6. CASE FollowUpFails(a)
  BY <1>6 DEF FollowUpFails, LedgerTypes
<1> QED
  BY <1>1, <1>2, <1>3, <1>4, <1>5, <1>6 DEF LedgerRun

\* Every step keeps the types.
LEMMA QueueTypesKept == QueueTypes /\ [QueueNext]_queueVars => QueueTypes'
<1> SUFFICES ASSUME QueueTypes, [QueueNext]_queueVars PROVE QueueTypes'
  OBVIOUS
<1>0. LedgerTypes /\ ItemTypes /\ OtherTypes
  BY DEF QueueTypes
<1>a. items # <<>> => First \in Actions
  BY <1>0, HeadIsQueued DEF ItemTypes
<1>b. \A a \in Actions : record[a] \in Statuses /\ shown[a] \in Shown
  BY <1>0 DEF LedgerTypes, ItemTypes
<1>c. Statuses \subseteq Shown /\ Terminal \subseteq Statuses
  BY DEF Shown, Statuses
<1> USE DEF ledgerVars, answers, recoveryVars, counters
<1>1. ASSUME NEW a \in Actions, Enqueue(a) PROVE QueueTypes'
  <2>1. Append(items, a) \in Seq(Actions) /\ Append(items, a) # <<>>
    BY <1>0, AppendProperties DEF ItemTypes
  <2> QED
    BY <1>0, <1>1, <2>1 DEF Enqueue, QueueTypes, LedgerTypes, ItemTypes, OtherTypes, Shown
<1>2. ASSUME NEW a \in Actions, PostArrives(a) PROVE QueueTypes'
  <2>1. LedgerTypes'
    BY <1>0, <1>2, LedgerStepTypes DEF PostArrives, LedgerTypes
  <2>2. record'[a] \in Statuses /\ newer' \subseteq Actions /\ unseen' \subseteq Actions
    BY <1>0, <1>2, <2>1 DEF PostArrives, Touched, LedgerTypes, ItemTypes, OtherTypes
  <2> QED
    BY <1>0, <1>2, <2>1, <2>2 DEF PostArrives, QueueTypes, ItemTypes, OtherTypes
<1>3. ASSUME NEW a \in Actions, PostLost(a) PROVE QueueTypes'
  BY <1>0, <1>3 DEF PostLost, Trouble, QueueTypes, LedgerTypes, ItemTypes, OtherTypes
<1>4. ASSUME NEW a \in Actions, SocketUpdate(a) PROVE QueueTypes'
  BY <1>0, <1>4, <1>b, <1>c DEF SocketUpdate, QueueTypes, LedgerTypes, ItemTypes, OtherTypes
<1>5. ASSUME NEW a \in Actions, GatewayRuns(a) PROVE QueueTypes'
  <2>1. LedgerTypes'
    BY <1>0, <1>5, LedgerStepTypes DEF GatewayRuns
  <2>2. newer' \subseteq Actions /\ unseen' \subseteq Actions
    BY <1>0, <1>5 DEF GatewayRuns, Touched, ItemTypes, OtherTypes
  <2> QED
    BY <1>0, <1>5, <2>1, <2>2 DEF GatewayRuns, QueueTypes, ItemTypes, OtherTypes
<1>6. CASE TakeHead
  <2>0. items # <<>> /\ OtherTypes' = OtherTypes' /\ LedgerTypes'
    BY <1>0, <1>6 DEF TakeHead, CanTakeHead, LedgerTypes
  <2>1. CASE TakeFinal
    BY <1>0, <1>6, <2>0, <2>1, SettleTypes, FinalStatus DEF TakeHead, TakeFinal, QueueTypes, OtherTypes
  <2>2. CASE TakeRestored \/ TakeCancelled
    BY <1>0, <1>6, <2>0, <2>2 DEF TakeHead, TakeRestored, TakeCancelled, QueueTypes, ItemTypes, OtherTypes
  <2>3. CASE TakeNew
    BY <1>0, <1>6, <1>a, <2>0, <2>3 DEF TakeHead, TakeNew, QueueTypes, ItemTypes, OtherTypes, Shown
  <2> QED
    BY <1>6, <2>1, <2>2, <2>3 DEF TakeHead
<1>7. CASE RetryNetwork
  BY <1>0, <1>7 DEF RetryNetwork, QueueTypes, LedgerTypes, ItemTypes, OtherTypes
<1>8. CASE ReceiptArrives
  <2>0. items # <<>> /\ KeptOrReply(First) \in Statuses
    BY <1>0, <1>8, <1>a, <1>c, FinalStatus DEF ReceiptArrives, ItemTypes, OtherTypes, KeptOrReply
  <2>1. ItemTypes'
    BY <1>0, <1>8, <2>0, ShowTypes DEF ReceiptArrives, OtherTypes
  <2> QED
    BY <1>0, <1>8, <2>1 DEF ReceiptArrives, QueueTypes, LedgerTypes, OtherTypes, NoAnswer, Statuses
<1>9. CASE PostFails
  <2>0. items # <<>>
    BY <1>0, <1>9 DEF PostFails, ItemTypes
  <2>1. ItemTypes'
    BY <1>0, <1>9, <2>0, SettleTypes, FinalStatus
       DEF PostFails, BlockNetwork, ItemTypes, OtherTypes
  <2>2. troubles' \in Nat
    BY <1>0, <1>9 DEF PostFails, Interrupted, Trouble, OtherTypes
  <2> QED
    BY <1>0, <1>9, <2>1, <2>2
       DEF PostFails, BlockNetwork, QueueTypes, LedgerTypes, OtherTypes, NoAnswer, Statuses
<1>10. CASE PollAnswers
  <2>0. items # <<>> /\ First \in Actions /\ record[First] \in Statuses
    BY <1>0, <1>10, <1>a, <1>b DEF PollAnswers, ItemTypes
  <2>1. CASE Final(First)
    BY <1>0, <1>10, <2>0, <2>1, SettleTypes, FinalStatus
       DEF PollAnswers, QueueTypes, LedgerTypes, OtherTypes
  <2>2. CASE ~Final(First) /\ record[First] = "none"
    <3>1. Resolve("failed") /\ "failed" \in Shown
      BY <1>10, <2>2 DEF PollAnswers, Shown, Statuses, Terminal
    <3>2. ItemTypes'
      BY <1>0, <1>10, <2>0, <2>2, <3>1, ResolveTypes DEF PollAnswers, ItemTypes
    <3> QED
      BY <1>0, <1>10, <3>2 DEF PollAnswers, QueueTypes, LedgerTypes, OtherTypes
  <2>3. CASE ~Final(First) /\ record[First] # "none"
    BY <1>0, <1>10, <2>0, <2>3, ShowTypes DEF PollAnswers, QueueTypes, LedgerTypes, OtherTypes
  <2> QED
    BY <2>1, <2>2, <2>3
<1>11. CASE PollFails
  <2>0. items # <<>>
    BY <1>0, <1>11 DEF PollFails, ItemTypes
  <2>1. ItemTypes'
    BY <1>0, <1>11, <2>0, SettleTypes, FinalStatus
       DEF PollFails, BlockNetwork, ItemTypes, OtherTypes
  <2>2. blocked' = blocked \/ blocked' = TRUE
    BY <1>11 DEF PollFails, BlockNetwork
  <2>3. troubles' = troubles \/ troubles' = troubles + 1
    BY <1>11 DEF PollFails, Trouble
  <2>4. blocked' \in BOOLEAN
    BY <1>0, <2>2 DEF OtherTypes
  <2>5. troubles' \in Nat
    BY <1>0, <2>3 DEF OtherTypes
  <2> QED
    BY <1>0, <1>11, <2>1, <2>4, <2>5 DEF PollFails, QueueTypes, LedgerTypes, OtherTypes
<1>12. CASE DeleteArrives
  <2>0. First \in Actions
    BY <1>0, <1>12, <1>a DEF DeleteArrives, ItemTypes
  <2>1. LedgerTypes'
    BY <1>0, <1>12, <2>0, LedgerStepTypes DEF DeleteArrives, LedgerTypes
  <2>2. record'[First] \in Statuses /\ newer' \subseteq Actions /\ unseen' \subseteq Actions
    BY <1>0, <1>12, <2>0, <2>1 DEF DeleteArrives, Touched, LedgerTypes, ItemTypes, OtherTypes
  <2> QED
    BY <1>0, <1>12, <2>1, <2>2 DEF DeleteArrives, QueueTypes, ItemTypes, OtherTypes
<1>13. CASE DeleteAnswers
  <2>0. items # <<>> /\ reply \in Shown
    BY <1>0, <1>13, <1>c DEF DeleteAnswers, ItemTypes, OtherTypes
  <2>1. ItemTypes'
    BY <1>0, <1>13, <2>0, CancelledTypes DEF DeleteAnswers
  <2> QED
    BY <1>0, <1>13, <2>1 DEF DeleteAnswers, QueueTypes, LedgerTypes, OtherTypes, NoAnswer, Statuses
<1>14. CASE DeleteRefused
  <2>0. items # <<>> /\ shown[First] \in Shown
    BY <1>0, <1>14, <1>a, <1>b DEF DeleteRefused, ItemTypes
  <2>1. ItemTypes'
    BY <1>0, <1>14, <2>0, CancelledTypes DEF DeleteRefused
  <2> QED
    BY <1>0, <1>14, <2>1
       DEF DeleteRefused, Trouble, QueueTypes, LedgerTypes, OtherTypes, NoAnswer, Statuses
<1>15. CASE DeleteFails
  BY <1>0, <1>15
     DEF DeleteFails, BlockNetwork, Trouble, QueueTypes, LedgerTypes, ItemTypes, OtherTypes,
         NoAnswer, Statuses
<1>16. CASE Refreshed
  <2>0. items # <<>> /\ First \in Actions /\ outcome \in Shown
    BY <1>0, <1>16, <1>a, <1>c DEF Refreshed, ItemTypes
  <2>1. ItemTypes'
    <3>1. unseen' \subseteq Actions
      BY <1>0, <1>16 DEF Refreshed, Checkpointed, ItemTypes, OtherTypes
    <3> QED
      BY <1>0, <1>16, <2>0, <3>1, ResolveTypes DEF Refreshed, ItemTypes, NoAnswer, Statuses
  <2> QED
    BY <1>0, <1>16, <2>0, <2>1 DEF Refreshed, QueueTypes, LedgerTypes, OtherTypes
<1>17. CASE RefreshFails
  <2>0. items # <<>> /\ "failed" \in Shown
    BY <1>0, <1>17, <1>c DEF RefreshFails, ItemTypes, Shown, Statuses, Terminal
  <2>1. ItemTypes'
    BY <1>0, <1>17, <2>0, ResolveTypes DEF RefreshFails, ItemTypes, NoAnswer, Statuses
  <2> QED
    BY <1>0, <1>17, <2>1 DEF RefreshFails, Trouble, QueueTypes, LedgerTypes, OtherTypes
<1>18. CASE Clear
  <2>0. First \in Actions /\ <<First>> \in Seq(Actions) /\ <<First>> # <<>> /\ items # <<>>
    BY <1>0, <1>18, <1>a DEF Clear
  <2>1. {items[i] : i \in (Len(KeptItems) + 1)..Len(items)} \subseteq Actions
    BY <1>0 DEF ItemTypes, KeptItems
  <2>2. shown' \in [Actions -> Shown] /\ settled' \subseteq Actions /\ dropped' \subseteq Actions
    BY <1>0, <1>18, <1>b, <2>1 DEF Clear, ItemTypes, OtherTypes, Shown, Statuses, Terminal
  <2> QED
    BY <1>0, <1>18, <2>0, <2>2 DEF Clear, KeptItems, QueueTypes, LedgerTypes, ItemTypes, OtherTypes
<1>19. CASE Reopen
  <2>1. shown' \in [Actions -> Shown] /\ <<>> \in Seq(Actions)
    BY <1>0, <1>19, EmptySeq DEF Reopen, Shown
  <2>2. ItemTypes'
    BY <1>0, <1>19, <2>1 DEF Reopen, ItemTypes, NoAnswer, Statuses
  <2>3. blocked' \in BOOLEAN /\ hydrated' \in BOOLEAN
    BY <1>19 DEF Reopen
  <2>4. sessions' \in Nat
    BY <1>0, <1>19 DEF Reopen, OtherTypes
  <2>5. OtherTypes'
    BY <1>0, <1>19, <2>3, <2>4 DEF Reopen, OtherTypes, NoAnswer, Statuses
  <2> QED
    BY <1>0, <1>19, <2>2, <2>5 DEF Reopen, QueueTypes, LedgerTypes
<1>20. CASE Hydrate
  <2> DEFINE found == {a \in unseen : Recoverable(a)}
             new == {a \in found : ~InQueue(a)}
  <2>1. PICK q \in Listings(new) : items' = items \o q
    BY <1>20 DEF Hydrate
  <2>2. new \subseteq Actions /\ found \subseteq Actions
    BY <1>0 DEF ItemTypes
  <2>3. q \in Seq(Actions)
    BY <2>2, ListingOf
  <2>4. items' \in Seq(Actions) /\ (items # <<>> => items' # <<>>)
    BY <1>0, <2>1, <2>3, QueueGrows DEF ItemTypes
  <2>5. shown' \in [Actions -> Shown] /\ restored' \subseteq Actions
    BY <1>0, <1>20, <1>b, <1>c, <2>2 DEF Hydrate, ItemTypes
  <2>6. target' \in Actions \cup {NoTarget} /\ unseen' \subseteq Actions
    <3>1. \A i \in 1..Len(items') : items'[i] \in Actions
      BY <2>4
    <3> QED
      BY <1>0, <1>20, <3>1 DEF Hydrate, LastFound, ItemTypes
  <2> QED
    BY <1>0, <1>20, <2>4, <2>5, <2>6 DEF Hydrate, QueueTypes, LedgerTypes, ItemTypes, OtherTypes
<1>21. CASE UNCHANGED queueVars
  BY <1>0, <1>21 DEF queueVars, QueueTypes, LedgerTypes, ItemTypes, OtherTypes
<1>22. CASE PostRefused
  <2>0. items # <<>> /\ "failed" \in Shown
    BY <1>0, <1>22, <1>c DEF PostRefused, ItemTypes, Shown, Statuses, Terminal
  <2>1. ItemTypes'
    <3>1. CASE Final(First)
      BY <1>0, <1>22, <2>0, <3>1, SettleTypes, FinalStatus DEF PostRefused, OtherTypes
    <3>2. CASE ~Final(First)
      BY <1>0, <1>22, <2>0, <3>2, ResolveTypes DEF PostRefused, ItemTypes
    <3> QED
      BY <3>1, <3>2
  <2> QED
    BY <1>0, <1>22, <2>1 DEF PostRefused, Trouble, QueueTypes, LedgerTypes, OtherTypes
<1> QED
  BY <1>1, <1>2, <1>3, <1>4, <1>5, <1>6, <1>7, <1>8, <1>9, <1>10, <1>11, <1>12, <1>13, <1>14,
     <1>15, <1>16, <1>17, <1>18, <1>19, <1>20, <1>21, <1>22 DEF QueueNext, RequestsEnd

-----------------------------------------------------------------------------
(* The kinds of step *)

\* The head leaves the queue with a final status.
Leaves(s) ==
    /\ items # <<>> /\ s \in Terminal
    /\ Resolve(s)
    /\ s \in {"cancelled", "succeeded"} => record[First] = s
    /\ s \in {"succeeded", "unknown"} => First \in refreshed' \cup wants
    /\ refreshed \subseteq refreshed'
    /\ unseen' = unseen \/ unseen' = Checkpointed(First)
    /\ wire' \subseteq wire
    /\ UNCHANGED <<ledgerVars, wants, sent, recoveryVars, newer>>

\* At most the status of one item changes.
Moves ==
    /\ UNCHANGED <<ledgerVars, items, settled, refreshed, wants, sent, recoveryVars, newer, unseen>>
    /\ wire' \subseteq wire
    /\ \/ shown' = shown
       \/ \E a \in Actions, s \in Statuses \cup {"reconciling"} :
             /\ InQueue(a)
             /\ s \in Terminal => record[a] = s
             /\ shown' = [shown EXCEPT ![a] = s]

\* The gateway goes on with an action it knows, was sent or is asked to cancel.
Records(a) ==
    /\ Accept(a) \/ CancelFirst(a) \/ LedgerRun(a)
    /\ a \in wire \/ record[a] # "none" \/ (a \in wants /\ InQueue(a))
    /\ IF record' # record THEN Touched(a) ELSE UNCHANGED <<newer, unseen>>
    /\ wire' \subseteq wire
    /\ UNCHANGED <<items, shown, settled, refreshed, wants, sent, recoveryVars>>

\* The head is sent.
Sends ==
    /\ items # <<>> /\ First \notin restored \cup wants
    /\ shown' = [shown EXCEPT ![First] = "submitting"]
    /\ wire' = wire \cup {First} /\ sent' = sent \cup {First}
    /\ UNCHANGED <<ledgerVars, items, settled, refreshed, wants, recoveryVars, newer, unseen>>

Sorted ==
    \/ \E s \in Terminal : Leaves(s)
    \/ Moves
    \/ \E a \in Actions : Records(a) \/ Enqueue(a)
    \/ Sends \/ Clear \/ Reopen \/ Hydrate

Elsewhere == UNCHANGED <<ledgerVars, wants, sent, recoveryVars, newer>> /\ wire' \subseteq wire

\* A final status that is the record's ends the item, or has it refreshed.
LEMMA SettleSorts ==
    ASSUME QueueTypes, items # <<>>, NEW s \in Terminal, record[First] = s, Settle(s), Elsewhere,
           UNCHANGED refreshed
    PROVE  Sorted /\ (reply' = NoAnswer => Phases')
<1>1. First \in Actions /\ InQueue(First)
  BY HeadIsQueued DEF QueueTypes, ItemTypes
<1>2. CASE NeedsRefresh(s)
  <2>1. /\ shown' = [shown EXCEPT ![First] = "reconciling"] /\ items' = items
        /\ step' = "refreshing" /\ outcome' = s /\ UNCHANGED <<settled, unseen>>
    BY <1>2 DEF Settle
  <2>2. Moves
    BY <1>1, <2>1 DEF Moves, Elsewhere, Terminal
  <2>3. reply' = NoAnswer => Phases'
    BY <1>2, <2>1 DEF Phases, NeedsRefresh, First, NoAnswer, Terminal, Elsewhere, ledgerVars
  <2> QED
    BY <2>2, <2>3 DEF Sorted
<1>3. CASE ~NeedsRefresh(s)
  <2>1. Resolve(s) /\ unseen' = Checkpointed(First)
    BY <1>3 DEF Settle
  <2>2. Leaves(s)
    BY <1>3, <2>1 DEF Leaves, Elsewhere, NeedsRefresh
  <2>3. reply' = NoAnswer => Phases'
    BY <2>1 DEF Resolve, Phases, NoAnswer, Terminal
  <2> QED
    BY <2>2, <2>3 DEF Sorted
<1> QED
  BY <1>2, <1>3

\* So does whatever an answer tells of the record.
LEMMA ShowSorts ==
    ASSUME QueueTypes, items # <<>>, NEW s \in Statuses, s \in Terminal => record[First] = s,
           Show(s), Elsewhere, UNCHANGED refreshed
    PROVE  Sorted /\ (reply' = NoAnswer => Phases')
<1>1. First \in Actions /\ InQueue(First)
  BY HeadIsQueued DEF QueueTypes, ItemTypes
<1>2. CASE s \in Terminal
  BY <1>2, SettleSorts DEF Show
<1>3. CASE s \notin Terminal
  <2>1. /\ shown' = [shown EXCEPT ![First] = s] /\ step' = "polling"
        /\ UNCHANGED <<items, settled, unseen>>
    BY <1>3 DEF Show
  <2>2. Moves
    BY <1>1, <1>3, <2>1 DEF Moves, Elsewhere
  <2>3. reply' = NoAnswer => Phases'
    BY <2>1 DEF Phases, NoAnswer, Terminal
  <2> QED
    BY <2>2, <2>3 DEF Sorted
<1> QED
  BY <1>2, <1>3

\* A cancelled item ends with what the record says, without a refresh.
LEMMA CancelledSorts ==
    ASSUME QueueTypes, items # <<>>, First \in wants, NEW s \in Statuses \cup {shown[First]},
           s \in Terminal => record[First] = s,
           Cancelled(s), Elsewhere, UNCHANGED <<refreshed, unseen>>
    PROVE  Sorted /\ (reply' = NoAnswer => Phases')
<1>1. First \in Actions /\ InQueue(First) /\ shown \in [Actions -> Shown]
  BY HeadIsQueued DEF QueueTypes, ItemTypes
<1>2. CASE s \in Terminal
  <2>1. Resolve(s)
    BY <1>2 DEF Cancelled
  <2>2. Leaves(s)
    BY <1>2, <2>1 DEF Leaves, Elsewhere
  <2>3. reply' = NoAnswer => Phases'
    BY <2>1 DEF Resolve, Phases, NoAnswer, Terminal
  <2> QED
    BY <1>2, <2>2, <2>3 DEF Sorted
<1>3. CASE s \notin Terminal
  <2>1. /\ shown' = [shown EXCEPT ![First] = s] /\ step' = "polling"
        /\ UNCHANGED <<items, settled>>
    BY <1>3 DEF Cancelled
  <2>2. s = shown[First] => shown' = shown
    BY <1>1, <2>1
  <2>3. Moves
    BY <1>1, <1>3, <2>1, <2>2 DEF Moves, Elsewhere
  <2>4. reply' = NoAnswer => Phases'
    BY <2>1 DEF Phases, NoAnswer, Terminal
  <2> QED
    BY <2>3, <2>4 DEF Sorted
<1> QED
  BY <1>2, <1>3

\* No step of the gateway changes a final status; each changes one record at most.
LEMMA FinalRecordStays ==
    ASSUME LedgerTypes, NEW a \in Actions, Accept(a) \/ CancelFirst(a) \/ LedgerRun(a),
           NEW b \in Actions
    PROVE  /\ record[b] \in Terminal => record'[b] = record[b]
           /\ b # a => record'[b] = record[b]
           /\ record'[a] # "none"
<1>1. CASE Accept(a)
  BY <1>1 DEF Accept, LedgerTypes, Terminal
<1>2. CASE CancelFirst(a)
  BY <1>2 DEF CancelFirst, LedgerTypes, Terminal
<1>3. CASE LedgerRun(a)
  BY <1>3 DEF LedgerRun, Start, TakeEffect, FollowUpFails, Finish, LedgerTypes, Terminal
<1> QED
  BY <1>1, <1>2, <1>3

\* Every step is one of these kinds, and keeps what is awaited about the head.
LEMMA StepSorts ==
    ASSUME QueueInv, QueueNext
    PROVE  Sorted /\ Phases'
<1>0. LedgerTypes /\ ItemTypes /\ OtherTypes /\ QueueTypes /\ Phases
  BY DEF QueueInv, QueueTypes
<1>a. items # <<>> => First \in Actions /\ InQueue(First)
  BY <1>0, HeadIsQueued DEF ItemTypes
<1>b. \A a \in Actions : record[a] \in Statuses /\ shown[a] \in Shown
  BY <1>0 DEF LedgerTypes, ItemTypes
<1>c. items # <<>> /\ Final(First) => shown[First] \in Terminal /\ record[First] = shown[First]
  BY <1>a DEF QueueInv, ToldTrue, Final
<1>d. step # "idle" => items # <<>>
  BY <1>0 DEF ItemTypes
<1> USE DEF ledgerVars, answers, recoveryVars, counters
<1>1. ASSUME NEW a \in Actions, Enqueue(a) PROVE Sorted /\ Phases'
  <2>1. items # <<>> => First' = First
    BY <1>0, <1>1, AppendProperties DEF Enqueue, ItemTypes, First, EmptySeq
  <2>2. Phases'
    BY <1>0, <1>1, <1>d, <2>1 DEF Enqueue, Phases, Terminal, NoAnswer
  <2> QED
    BY <1>1, <2>2 DEF Sorted
<1>2. ASSUME NEW a \in Actions, PostArrives(a) PROVE Sorted /\ Phases'
  <2>1. CASE record[a] = "none"
    <3>1. Accept(a) /\ Touched(a) /\ record' # record
      BY <1>0, <1>2, <2>1 DEF PostArrives, Accept, LedgerTypes
    <3>2. Records(a)
      BY <1>2, <3>1 DEF PostArrives, Records
    <3>3. items # <<>> /\ record[First] \in Terminal => record'[First] = record[First]
      BY <1>0, <1>a, <3>1, FinalRecordStays
    <3>4. Phases'
      BY <1>0, <1>2, <1>d, <3>3 DEF PostArrives, Phases, Terminal, NoAnswer, First
    <3> QED
      BY <3>2, <3>4 DEF Sorted
  <2>2. CASE record[a] # "none"
    <3>1. Moves
      BY <1>2, <2>2 DEF PostArrives, Moves
    <3>2. Phases'
      BY <1>0, <1>2, <2>2 DEF PostArrives, Phases, First
    <3> QED
      BY <3>1, <3>2 DEF Sorted
  <2> QED
    BY <2>1, <2>2
<1>3. ASSUME NEW a \in Actions, PostLost(a) PROVE Sorted /\ Phases'
  <2>1. Moves
    BY <1>3 DEF PostLost, Moves
  <2> QED
    BY <1>0, <1>3, <2>1 DEF PostLost, Sorted, Phases, First
<1>4. ASSUME NEW a \in Actions, SocketUpdate(a) PROVE Sorted /\ Phases'
  <2>1. Moves
    BY <1>4, <1>b DEF SocketUpdate, Moves
  <2> QED
    BY <1>0, <1>4, <2>1 DEF SocketUpdate, Sorted, Phases, First
<1>5. ASSUME NEW a \in Actions, GatewayRuns(a) PROVE Sorted /\ Phases'
  <2>1. record[a] # "none"
    BY <1>5 DEF GatewayRuns, LedgerRun, Start, TakeEffect, FollowUpFails, Finish
  <2>2. Records(a)
    BY <1>5, <2>1 DEF GatewayRuns, Records
  <2>3. items # <<>> /\ record[First] \in Terminal => record'[First] = record[First]
    BY <1>0, <1>a, <1>5, FinalRecordStays DEF GatewayRuns
  <2>4. Phases'
    BY <1>0, <1>5, <1>d, <2>3 DEF GatewayRuns, Phases, Terminal, NoAnswer, First
  <2> QED
    BY <2>2, <2>4 DEF Sorted
<1>6. CASE TakeHead
  <2>1. items # <<>> /\ step = "idle" /\ reply = NoAnswer /\ reply' = reply
    BY <1>0, <1>6 DEF TakeHead, CanTakeHead, Phases, NoAnswer
  <2>2. CASE TakeFinal
    BY <1>0, <1>6, <1>c, <2>1, <2>2, SettleSorts DEF TakeHead, TakeFinal, Elsewhere
  <2>3. CASE TakeRestored \/ TakeCancelled
    <3>1. Moves
      BY <1>6, <2>3 DEF TakeHead, TakeRestored, TakeCancelled, Moves
    <3> QED
      BY <1>0, <1>6, <2>1, <2>3, <3>1
         DEF TakeHead, TakeRestored, TakeCancelled, Sorted, Phases, First, NoAnswer, Terminal
  <2>4. CASE TakeNew
    <3>1. Sends
      BY <1>6, <2>1, <2>4 DEF TakeHead, TakeNew, Sends
    <3> QED
      BY <1>0, <1>6, <2>1, <2>4, <3>1
         DEF TakeHead, TakeNew, Sorted, Phases, First, NoAnswer, Terminal
  <2> QED
    BY <1>6, <2>2, <2>3, <2>4 DEF TakeHead
<1>7. CASE RetryNetwork
  <2>1. Moves
    BY <1>7 DEF RetryNetwork, Moves
  <2> QED
    BY <1>0, <1>7, <2>1 DEF RetryNetwork, Sorted, Phases, First
<1>8. CASE ReceiptArrives
  <2>1. items # <<>> /\ KeptOrReply(First) \in Statuses
    BY <1>0, <1>8, <1>c, <1>d DEF ReceiptArrives, OtherTypes, KeptOrReply, Statuses
  <2>2. KeptOrReply(First) \in Terminal => record[First] = KeptOrReply(First)
    BY <1>0, <1>c, <2>1 DEF KeptOrReply, Phases
  <2> QED
    BY <1>0, <1>8, <2>1, <2>2, ShowSorts DEF ReceiptArrives, Elsewhere
<1>9. CASE PostFails
  <2>1. items # <<>> /\ reply' = NoAnswer /\ Elsewhere /\ refreshed' = refreshed
    BY <1>9, <1>d DEF PostFails, Elsewhere
  <2>2. CASE First \in wants
    <3>1. Moves /\ step' = "deleting" /\ items' = items
      BY <1>9, <2>1, <2>2 DEF PostFails, Moves, Elsewhere
    <3> QED
      BY <2>1, <2>2, <3>1 DEF Sorted, Phases, First, NoAnswer, Terminal, Moves
  <2>3. CASE First \notin wants /\ Final(First)
    BY <1>0, <1>9, <1>c, <2>1, <2>3, SettleSorts DEF PostFails
  <2>4. CASE First \notin wants /\ ~Final(First)
    <3>1. Moves /\ step' = "idle"
      BY <1>9, <2>1, <2>4 DEF PostFails, BlockNetwork, Moves, Elsewhere
    <3> QED
      BY <2>1, <3>1 DEF Sorted, Phases, NoAnswer, Terminal
  <2> QED
    BY <2>2, <2>3, <2>4
<1>10. CASE PollAnswers
  <2>1. items # <<>> /\ reply = NoAnswer /\ reply' = reply /\ Elsewhere /\ refreshed' = refreshed
    BY <1>0, <1>10, <1>d DEF PollAnswers, Elsewhere, Phases, NoAnswer
  <2>2. CASE Final(First)
    BY <1>0, <1>10, <1>c, <2>1, <2>2, SettleSorts DEF PollAnswers
  <2>3. CASE ~Final(First) /\ record[First] = "none"
    <3>1. Leaves("failed")
      BY <1>10, <2>1, <2>3 DEF PollAnswers, Leaves, Elsewhere, Terminal
    <3>2. Phases'
      BY <2>1, <3>1 DEF Leaves, Resolve, Phases, NoAnswer, Terminal
    <3> QED
      BY <3>1, <3>2 DEF Sorted, Terminal
  <2>4. CASE ~Final(First) /\ record[First] # "none"
    BY <1>0, <1>10, <1>a, <1>b, <2>1, <2>4, ShowSorts DEF PollAnswers
  <2> QED
    BY <2>2, <2>3, <2>4
<1>11. CASE PollFails
  <2>1. items # <<>> /\ reply = NoAnswer /\ reply' = reply /\ Elsewhere /\ refreshed' = refreshed
    BY <1>0, <1>11, <1>d DEF PollFails, Elsewhere, Phases, NoAnswer
  <2>2. CASE Final(First)
    BY <1>0, <1>11, <1>c, <2>1, <2>2, SettleSorts DEF PollFails
  <2>3. CASE ~Final(First)
    <3>1. Moves /\ step' = "idle"
      BY <1>11, <2>1, <2>3 DEF PollFails, BlockNetwork, Moves, Elsewhere
    <3> QED
      BY <2>1, <3>1 DEF Sorted, Phases, NoAnswer, Terminal
  <2> QED
    BY <2>2, <2>3
<1>12. CASE DeleteArrives
  <2>1. items # <<>> /\ First \in Actions /\ InQueue(First) /\ First \in wants /\ First' = First
    BY <1>0, <1>12, <1>a, <1>d DEF DeleteArrives, Phases, First
  <2>2. CASE record[First] = "none"
    <3>1. CancelFirst(First) /\ Touched(First) /\ record' # record
      BY <1>0, <1>12, <2>1, <2>2 DEF DeleteArrives, CancelFirst, LedgerTypes
    <3>2. Records(First)
      BY <1>12, <2>1, <3>1 DEF DeleteArrives, Records
    <3> QED
      BY <1>0, <1>12, <2>1, <3>2 DEF DeleteArrives, Sorted, Phases, NoAnswer
  <2>3. CASE record[First] # "none"
    <3>1. Moves
      BY <1>12, <2>3 DEF DeleteArrives, Moves
    <3> QED
      BY <1>0, <1>12, <2>1, <2>3, <3>1 DEF DeleteArrives, Sorted, Phases, NoAnswer
  <2> QED
    BY <2>2, <2>3
<1>13. CASE DeleteAnswers
  <2>1. /\ items # <<>> /\ First \in wants /\ reply \in Statuses
        /\ (reply \in Terminal => record[First] = reply)
    BY <1>0, <1>13, <1>d DEF DeleteAnswers, Phases, OtherTypes
  <2> QED
    BY <1>0, <1>13, <2>1, CancelledSorts DEF DeleteAnswers, Elsewhere
<1>14. CASE DeleteRefused
  <2>1. /\ items # <<>> /\ First \in wants
        /\ (shown[First] \in Terminal => record[First] = shown[First])
    BY <1>0, <1>14, <1>c, <1>d DEF DeleteRefused, Phases, Final
  <2> QED
    BY <1>0, <1>14, <2>1, CancelledSorts DEF DeleteRefused, Elsewhere
<1>15. CASE DeleteFails
  <2>1. Moves
    BY <1>15 DEF DeleteFails, BlockNetwork, Moves
  <2> QED
    BY <1>15, <2>1 DEF DeleteFails, BlockNetwork, Sorted, Phases, NoAnswer, Terminal
<1>16. CASE Refreshed
  <2>1. items # <<>> /\ outcome \in {"succeeded", "unknown"} /\ record[First] = outcome
    BY <1>0, <1>16, <1>d DEF Refreshed, Phases
  <2>2. Leaves(outcome)
    BY <1>16, <2>1 DEF Refreshed, Leaves, Terminal
  <2>3. Phases'
    BY <1>0, <1>16 DEF Refreshed, Resolve, Phases, NoAnswer, Terminal
  <2> QED
    BY <2>1, <2>2, <2>3 DEF Sorted, Terminal
<1>17. CASE RefreshFails
  <2>1. Leaves("failed")
    BY <1>17, <1>d DEF RefreshFails, Leaves, Terminal
  <2>2. Phases'
    BY <1>0, <1>17 DEF RefreshFails, Resolve, Phases, NoAnswer, Terminal
  <2> QED
    BY <2>1, <2>2 DEF Sorted, Terminal
<1>18. CASE Clear
  BY <1>0, <1>18 DEF Clear, KeptItems, Sorted, Phases, First
<1>19. CASE Reopen
  BY <1>19 DEF Reopen, Sorted, Phases, NoAnswer, Terminal
<1>20. CASE Hydrate
  <2> DEFINE new == {a \in {b \in unseen : Recoverable(b)} : ~InQueue(a)}
  <2>1. PICK q \in Listings(new) : items' = items \o q
    BY <1>20 DEF Hydrate
  <2>2. new \subseteq Actions
    BY <1>0 DEF ItemTypes
  <2>3. q \in Seq(Actions)
    BY <2>2, ListingOf
  <2>4. items # <<>> => First' = First
    BY <1>0, <2>1, <2>3, QueueGrows DEF ItemTypes
  <2>5. Phases'
    BY <1>0, <1>20, <1>d, <2>4 DEF Hydrate, Phases, NoAnswer, Terminal
  <2> QED
    BY <1>20, <2>5 DEF Sorted
<1>21. CASE PostRefused
  <2>1. /\ items # <<>> /\ reply = NoAnswer /\ reply' = reply /\ Elsewhere
        /\ refreshed' = refreshed
    BY <1>0, <1>21, <1>d DEF PostRefused, Elsewhere
  <2>2. CASE Final(First)
    BY <1>0, <1>21, <1>c, <2>1, <2>2, SettleSorts DEF PostRefused
  <2>3. CASE ~Final(First)
    <3>1. Leaves("failed")
      BY <1>21, <2>1, <2>3 DEF PostRefused, Leaves, Elsewhere, Terminal
    <3>2. Phases'
      BY <2>1, <3>1 DEF Leaves, Resolve, Phases, NoAnswer, Terminal
    <3> QED
      BY <3>1, <3>2 DEF Sorted, Terminal
  <2> QED
    BY <2>2, <2>3
<1> QED
  BY <1>1, <1>2, <1>3, <1>4, <1>5, <1>6, <1>7, <1>8, <1>9, <1>10, <1>11, <1>12, <1>13, <1>14,
     <1>15, <1>16, <1>17, <1>18, <1>19, <1>20, <1>21 DEF QueueNext, RequestsEnd

-----------------------------------------------------------------------------
(* What each kind of step keeps *)

\* What is kept beside the types and the phases.
Kept == Once /\ Histories /\ SentBefore /\ EffectsTold /\ ToldTrue /\ Remembered

\* The facts about the head that every kind needs.
LEMMA HeadFacts ==
    ASSUME QueueInv
    PROVE  /\ items \in Seq(Actions) /\ shown \in [Actions -> Shown]
           /\ record \in [Actions -> Statuses]
           /\ items # <<>> => First \in Actions /\ InQueue(First)
           /\ \A a : InQueue(a) => items # <<>> /\ a \in Actions
           /\ NoTarget \notin Actions
<1>1. items \in Seq(Actions) /\ shown \in [Actions -> Shown] /\ record \in [Actions -> Statuses]
  BY DEF QueueInv, QueueTypes, LedgerTypes, ItemTypes
<1>2. ASSUME NEW a, InQueue(a) PROVE items # <<>> /\ a \in Actions
  <2>1. PICK i \in 1..Len(items) : items[i] = a
    BY <1>2 DEF InQueue
  <2>2. Len(items) \in Nat /\ Len(items) # 0
    BY <1>1, <2>1, LenProperties
  <2> QED
    BY <1>1, <2>1, <2>2, EmptySeq, ElementOfSeq
<1> QED
  BY <1>1, <1>2, HeadIsQueued, QueueAssumption

\* An item that ends keeps the rest.
LEMMA LeavesKeeps ==
    ASSUME QueueInv, NEW s \in Terminal, Leaves(s)
    PROVE  Kept'
<1>0. Once /\ Histories /\ SentBefore /\ EffectsTold /\ ToldTrue /\ Remembered
  BY DEF QueueInv
<1> USE DEF ledgerVars, recoveryVars
<1>1. items # <<>> /\ First \in Actions /\ shown \in [Actions -> Shown] /\ Resolve(s)
  BY HeadFacts DEF Leaves
<1>2. /\ shown' = [shown EXCEPT ![First] = s] /\ settled' = settled \cup {First}
      /\ items' = Tail(items)
  BY <1>1 DEF Resolve
<1>3. /\ Once'
      /\ \A a : InQueue(a)' <=> InQueue(a) /\ a # First
      /\ \A a, b : NotAfter(a, b) /\ a # First /\ b # First => NotAfter(a, b)'
  BY <1>0, <1>1, <1>2, HeadFacts, TailOfQueue
<1>4. \A a \in Actions : a # First => shown'[a] = shown[a]
  BY <1>1, <1>2
<1>5. shown'[First] = s
  BY <1>1, <1>2
<1>6. Histories'
  BY <1>0, <1>1, <1>2, <1>3, <1>4, <1>5 DEF Leaves, Histories, Untouched, Terminal
<1>7. wants \subseteq sent /\ sent \subseteq Actions
  BY <1>0 DEF Histories, QueueInv, QueueTypes, OtherTypes
<1>8. SentBefore'
  <2> SUFFICES ASSUME NEW b \in sent
               PROVE  /\ b \in settled'
                      /\ InQueue(b)' => b \in restored
                      /\ ~InQueue(b)' /\ shown'[b] \in {"succeeded", "unknown"}
                         /\ b \notin wants \cup restored => b \in refreshed'
    BY DEF SentBefore, Leaves
  <2>1. CASE b = First
    BY <1>2, <1>3, <1>5, <2>1 DEF Leaves
  <2>2. CASE b # First
    BY <1>0, <1>2, <1>3, <1>4, <1>7, <2>2 DEF Leaves, SentBefore
  <2> QED
    BY <2>1, <2>2
<1>9. EffectsTold'
  BY <1>0 DEF EffectsTold, Leaves, InEffect
<1>10. ToldTrue'
  <2> SUFFICES ASSUME NEW a \in Actions
               PROVE  /\ InQueue(a)' /\ Final(a)' => record[a] = shown'[a]
                      /\ a \in settled' \ dropped /\ ~InQueue(a)' =>
                            /\ shown'[a] = "cancelled" => record[a] = "cancelled" \/ Untouched(a)
                            /\ shown'[a] = "succeeded" => record[a] = "succeeded"
    BY DEF ToldTrue, Leaves, Untouched
  <2>1. CASE a = First
    BY <1>3, <1>5, <2>1 DEF Leaves
  <2>2. CASE a # First
    BY <1>0, <1>2, <1>3, <1>4, <2>2 DEF ToldTrue, Final
  <2> QED
    BY <2>1, <2>2
<1>11. Remembered'
  <2>1. \A a \in Actions : Alive(a)' <=> Alive(a)
    BY DEF Alive, Leaves
  <2>2. ASSUME NEW a \in Actions, Alive(a), a \notin settled' PROVE a \in unseen'
    <3>1. a \in unseen /\ a # First /\ a \notin settled
      BY <1>0, <1>2, <2>2 DEF Remembered
    <3>2. CASE First = target
      <4>1. a \in newer \/ NotAfter(a, First)
        BY <1>0, <1>1, <2>2, <3>1, <3>2, HeadFacts DEF Remembered
      <4>2. ~NotAfter(a, First)
        <5> SUFFICES ASSUME NEW i \in 1..Len(items), NEW j \in 1..Len(items),
                            i <= j, items[i] = a, items[j] = First
                     PROVE  FALSE
          BY DEF NotAfter
        <5>1. Len(items) \in Nat \ {0}
          BY <1>1, HeadFacts, HeadIsQueued
        <5>2. j = 1
          BY <1>0, <5>1 DEF Once, First
        <5>3. i = 1
          BY <5>1, <5>2
        <5> QED
          BY <3>1, <5>3 DEF First
      <4> QED
        BY <3>1, <3>2, <4>1, <4>2 DEF Leaves, Checkpointed
    <3>3. CASE First # target
      BY <3>1, <3>3 DEF Leaves, Checkpointed
    <3> QED
      BY <3>2, <3>3
  <2>3. UNCHANGED <<target, newer>>
    BY DEF Leaves
  <2>4. ASSUME target \in Actions, InQueue(target)', NEW a \in Actions, Alive(a), a \notin settled'
        PROVE  a \in newer \/ NotAfter(a, target)'
    <3>1. target # First /\ InQueue(target) /\ a # First /\ a \notin settled
      BY <1>2, <1>3, <2>3, <2>4
    <3> QED
      BY <1>0, <1>3, <2>3, <2>4, <3>1 DEF Remembered
  <2> QED
    BY <2>1, <2>2, <2>3, <2>4 DEF Remembered
<1> QED
  BY <1>3, <1>6, <1>8, <1>9, <1>10, <1>11 DEF Kept

\* So does a status that changes.
LEMMA MovesKeeps == QueueInv /\ Moves => Kept'
<1> SUFFICES ASSUME QueueInv, Moves PROVE Kept'
  OBVIOUS
<1>0. Once /\ Histories /\ SentBefore /\ EffectsTold /\ ToldTrue /\ Remembered
  BY DEF QueueInv
<1> USE DEF ledgerVars, recoveryVars
<1>1. /\ UNCHANGED <<record, log, items, settled, refreshed, wants, sent, newer, unseen>>
      /\ UNCHANGED <<restored, dropped, hydrated, target>> /\ wire' \subseteq wire
  BY DEF Moves
<1>2. \A a \in Actions : shown'[a] = shown[a]
                         \/ /\ InQueue(a) /\ shown'[a] \in Statuses \cup {"reconciling"}
                            /\ shown'[a] \in Terminal => record[a] = shown'[a]
  BY HeadFacts DEF Moves
<1>3. (\A a : InQueue(a)' <=> InQueue(a)) /\ (\A a, b : NotAfter(a, b)' <=> NotAfter(a, b))
  BY <1>1 DEF InQueue, NotAfter
<1>4. Once' /\ EffectsTold'
  BY <1>0, <1>1 DEF Once, EffectsTold, InEffect
<1>5. Histories'
  BY <1>0, <1>1, <1>2, <1>3 DEF Histories, Untouched, Statuses, Terminal
<1>6. sent \subseteq Actions /\ First' = First
  BY <1>1 DEF QueueInv, QueueTypes, OtherTypes, First
<1>7. SentBefore'
  BY <1>0, <1>1, <1>2, <1>3, <1>6 DEF SentBefore
<1>8. ToldTrue'
  BY <1>0, <1>1, <1>2, <1>3 DEF ToldTrue, Untouched, Final
<1>9. Remembered'
  BY <1>0, <1>1, <1>3 DEF Remembered, Alive
<1> QED
  BY <1>4, <1>5, <1>7, <1>8, <1>9 DEF Kept

\* So does the gateway.
LEMMA RecordsKeeps ==
    ASSUME QueueInv, NEW a \in Actions, Records(a)
    PROVE  Kept'
<1>0. Once /\ Histories /\ SentBefore /\ EffectsTold /\ ToldTrue /\ Remembered /\ LedgerTypes
  BY DEF QueueInv, QueueTypes
<1> USE DEF ledgerVars, recoveryVars
<1>1. /\ UNCHANGED <<items, shown, settled, refreshed, wants, sent>>
      /\ UNCHANGED <<restored, dropped, hydrated, target>> /\ wire' \subseteq wire
  BY DEF Records
<1>2. (\A b : InQueue(b)' <=> InQueue(b)) /\ (\A b, c : NotAfter(b, c)' <=> NotAfter(b, c))
  BY <1>1 DEF InQueue, NotAfter
<1>3. /\ \A b \in Actions : record[b] \in Terminal => record'[b] = record[b]
      /\ \A b \in Actions : b # a => record'[b] = record[b]
  BY <1>0, FinalRecordStays DEF Records
<1>4. a \in wire \/ record[a] # "none" \/ (a \in wants /\ InQueue(a))
  BY DEF Records
<1>5. Once'
  BY <1>0, <1>1 DEF Once
<1>6. \A b \in Actions : Untouched(b) /\ ~(b \in wants /\ InQueue(b)) => Untouched(b)'
  BY <1>1, <1>3, <1>4 DEF Untouched
<1>7. Histories'
  BY <1>0, <1>1, <1>2, <1>6 DEF Histories
<1>8. SentBefore'
  BY <1>0, <1>1, <1>2 DEF SentBefore, First
<1>9. EffectsTold'
  <2>1. CASE Accept(a)
    BY <1>0, <2>1 DEF Accept, EffectsTold, InEffect, LedgerTypes
  <2>2. CASE CancelFirst(a)
    BY <1>0, <2>2 DEF CancelFirst, EffectsTold, InEffect, LedgerTypes
  <2>3. CASE Start(a)
    BY <1>0, <2>3 DEF Start, EffectsTold, InEffect, LedgerTypes
  <2>4. CASE TakeEffect(a)
    <3>1. \A b \in Actions : b # a => (InEffect(b)' <=> InEffect(b))
      <4>1. /\ Len(log') = Len(log) + 1 /\ Len(log) \in Nat
            /\ \A i \in 1..Len(log) : log'[i] = log[i]
            /\ log'[Len(log) + 1] = a
        BY <1>0, <2>4, AppendProperties, LenProperties DEF TakeEffect, LedgerTypes
      <4>2. \A i : i \in 1..Len(log') <=> i \in 1..Len(log) \/ i = Len(log) + 1
        BY <4>1
      <4> QED
        BY <4>1, <4>2 DEF InEffect
    <3> QED
      BY <1>0, <2>4, <3>1 DEF TakeEffect, EffectsTold
  <2>5. ASSUME NEW s \in Terminal \ {"cancelled"}, Finish(a, s) PROVE EffectsTold'
    BY <1>0, <2>5 DEF Finish, EffectsTold, InEffect, LedgerTypes, Terminal
  <2>6. CASE FollowUpFails(a)
    BY <1>0, <2>6 DEF FollowUpFails, EffectsTold, InEffect
  <2> QED
    BY <2>1, <2>2, <2>3, <2>4, <2>5, <2>6 DEF Records, LedgerRun
<1>10. ToldTrue'
  <2>1. \A b \in Actions : Final(b)' <=> Final(b)
    BY <1>1 DEF Final
  <2>2. \A b \in Actions : InQueue(b)' /\ Final(b)' => record'[b] = shown'[b]
    BY <1>0, <1>1, <1>2, <1>3, <2>1 DEF ToldTrue, Final
  <2> QED
    BY <1>0, <1>1, <1>2, <1>3, <1>6, <2>2 DEF ToldTrue, Terminal
<1>11. Remembered'
  <2>1. CASE record' = record
    BY <1>0, <1>1, <1>2, <2>1 DEF Records, Remembered, Alive
  <2>2. CASE record' # record
    <3>1. newer' = newer \cup {a} /\ unseen' = unseen \cup {a}
      BY <2>2 DEF Records, Touched
    <3>2. \A b \in Actions : b # a => (Alive(b)' <=> Alive(b))
      BY <1>3 DEF Alive
    <3> QED
      BY <1>0, <1>1, <1>2, <3>1, <3>2 DEF Remembered
  <2> QED
    BY <2>1, <2>2
<1> QED
  BY <1>5, <1>7, <1>8, <1>9, <1>10, <1>11 DEF Kept

\* So does a submission.
LEMMA SendsKeeps == QueueInv /\ Sends => Kept'
<1> SUFFICES ASSUME QueueInv, Sends PROVE Kept'
  OBVIOUS
<1>0. Once /\ Histories /\ SentBefore /\ EffectsTold /\ ToldTrue /\ Remembered
  BY DEF QueueInv
<1> USE DEF ledgerVars, recoveryVars
<1>1. /\ UNCHANGED <<record, log, items, settled, refreshed, wants, newer, unseen>>
      /\ UNCHANGED <<restored, dropped, hydrated, target>>
      /\ wire' = wire \cup {First} /\ sent' = sent \cup {First}
  BY DEF Sends
<1>2. First \in Actions /\ InQueue(First) /\ items # <<>> /\ First' = First
  BY <1>1, HeadFacts DEF Sends, First
<1>3. (\A a : InQueue(a)' <=> InQueue(a)) /\ (\A a, b : NotAfter(a, b)' <=> NotAfter(a, b))
  BY <1>1 DEF InQueue, NotAfter
<1>4. /\ shown'[First] = "submitting"
      /\ \A a \in Actions : a # First => shown'[a] = shown[a]
  BY <1>2, HeadFacts DEF Sends
<1>5. Once' /\ EffectsTold'
  BY <1>0, <1>1 DEF Once, EffectsTold, InEffect
<1>6. Histories'
  BY <1>0, <1>1, <1>2, <1>3, <1>4 DEF Histories, Untouched
<1>7. sent \subseteq Actions
  BY DEF QueueInv, QueueTypes, OtherTypes
<1>8. SentBefore'
  BY <1>0, <1>1, <1>2, <1>3, <1>4, <1>7 DEF SentBefore
<1>9. ToldTrue'
  <2>1. \A a \in Actions : a # First => (Untouched(a)' <=> Untouched(a))
    BY <1>1 DEF Untouched
  <2>2. ~Final(First)'
    BY <1>1, <1>2, <1>4 DEF Final, Terminal
  <2> QED
    BY <1>0, <1>1, <1>2, <1>3, <1>4, <2>1, <2>2 DEF ToldTrue, Final
<1>10. Remembered'
  BY <1>0, <1>1, <1>3 DEF Remembered, Alive
<1> QED
  BY <1>5, <1>6, <1>8, <1>9, <1>10 DEF Kept

\* So does a new action.
LEMMA EnqueueKeeps ==
    ASSUME QueueInv, NEW a \in Actions, Enqueue(a)
    PROVE  Kept'
<1>0. Once /\ Histories /\ SentBefore /\ EffectsTold /\ ToldTrue /\ Remembered
  BY DEF QueueInv
<1> USE DEF ledgerVars, recoveryVars
<1>1. /\ UNCHANGED <<record, log, settled, refreshed, wants, wire, sent, newer, unseen>>
      /\ UNCHANGED <<restored, dropped, hydrated, target>>
      /\ items' = Append(items, a) /\ shown[a] = "new" /\ shown' = [shown EXCEPT ![a] = "queued"]
  BY DEF Enqueue
<1>2. /\ Untouched(a) /\ a \notin sent \cup settled /\ a # target /\ ~InQueue(a)
  BY <1>0, <1>1 DEF Histories
<1>3. /\ shown'[a] = "queued"
      /\ \A b \in Actions : b # a => shown'[b] = shown[b]
  BY <1>1, HeadFacts
<1> DEFINE q == <<a>>
<1>4. q \in Seq(Actions) /\ Len(q) = 1 /\ q[1] = a /\ items' = items \o q
  BY <1>1, HeadFacts, AppendIsConcat
<1> HIDE DEF q
<1>5. /\ \A b : InQueue(b)' <=> InQueue(b) \/ b = a
      /\ items # <<>> => items' # <<>> /\ First' = First
      /\ \A b, c : NotAfter(b, c) => NotAfter(b, c)'
  <2>1. \A b : (\E i \in 1..Len(q) : q[i] = b) <=> b = a
    BY <1>4
  <2> QED
    BY <1>4, <2>1, HeadFacts, QueueGrows
<1>6. Once'
  <2>1. \A i, j \in 1..Len(q) : q[i] = q[j] => i = j
    BY <1>4
  <2>2. \A i \in 1..Len(q) : ~InQueue(q[i])
    BY <1>2, <1>4
  <2> QED
    BY <1>0, <1>4, <2>1, <2>2, HeadFacts, GrowsOnce
<1>7. EffectsTold' /\ \A b : Untouched(b)' <=> Untouched(b)
  BY <1>0, <1>1 DEF EffectsTold, InEffect, Untouched
<1>8. Histories'
  <2>1. ASSUME NEW b \in Actions
        PROVE  /\ shown'[b] = "new" =>
                     Untouched(b)' /\ b \notin sent' \cup settled' /\ b # target' /\ ~InQueue(b)'
               /\ shown'[b] = "submitting" => b \in sent'
               /\ InQueue(b)' /\ b \notin restored' \cup sent' => Untouched(b)'
    <3>1. CASE b = a
      BY <1>1, <1>2, <1>3, <1>7, <3>1
    <3>2. CASE b # a
      BY <1>0, <1>1, <1>3, <1>5, <1>7, <3>2 DEF Histories
    <3> QED
      BY <3>1, <3>2
  <2> QED
    BY <1>0, <1>1, <2>1 DEF Histories
<1>9. sent \subseteq Actions
  BY DEF QueueInv, QueueTypes, OtherTypes
<1>10. SentBefore'
  <2> SUFFICES ASSUME NEW b \in sent
               PROVE  /\ b \in settled \/ (items' # <<>> /\ b = First')
                      /\ InQueue(b)' => b = First' \/ b \in restored
                      /\ ~InQueue(b)' /\ shown'[b] \in {"succeeded", "unknown"}
                         /\ b \notin wants \cup restored => b \in refreshed
    BY <1>1 DEF SentBefore
  <2>1. b # a /\ b \in Actions
    BY <1>2, <1>9
  <2>2. InQueue(b) => items # <<>>
    BY HeadFacts
  <2> QED
    BY <1>0, <1>3, <1>5, <2>1, <2>2 DEF SentBefore
<1>11. ToldTrue'
  BY <1>0, <1>1, <1>2, <1>3, <1>5, <1>7 DEF ToldTrue, Final, Terminal
<1>12. Remembered'
  <2>1. target' \in Actions /\ InQueue(target)' => target \in Actions /\ InQueue(target)
    BY <1>1, <1>2, <1>5
  <2> QED
    BY <1>0, <1>1, <1>5, <2>1 DEF Remembered, Alive
<1> QED
  BY <1>6, <1>7, <1>8, <1>10, <1>11, <1>12 DEF Kept

\* So does the clear button.
LEMMA ClearKeeps == QueueInv /\ Clear => Kept'
<1> SUFFICES ASSUME QueueInv, Clear PROVE Kept'
  OBVIOUS
<1>0. Once /\ Histories /\ SentBefore /\ EffectsTold /\ ToldTrue /\ Remembered
  BY DEF QueueInv
<1> USE DEF ledgerVars, recoveryVars
<1> DEFINE gone == {items[i] : i \in 2..Len(items)}
<1>1. items # <<>> /\ First \in Actions /\ InQueue(First) /\ Len(items) \in Nat \ {0}
  BY HeadFacts, HeadIsQueued DEF Clear
<1>2. /\ UNCHANGED <<record, log, refreshed, wire, sent, newer, unseen>>
      /\ UNCHANGED <<restored, hydrated, target>>
      /\ items' = <<First>>
      /\ shown' = [a \in Actions |-> IF a \in gone THEN "cancelled" ELSE shown[a]]
      /\ settled' = settled \cup gone
      /\ dropped' = dropped \cup (gone \cap restored)
      /\ wants' = IF shown[First] = "submitting" THEN wants \cup {First} ELSE wants
  BY DEF Clear, KeptItems
<1>3. \A a : a \in gone <=> InQueue(a) /\ a # First
  <2>1. ASSUME NEW i \in 2..Len(items) PROVE InQueue(items[i]) /\ items[i] # First
    <3>1. i \in 1..Len(items) /\ i # 1 /\ 1 \in 1..Len(items)
      BY <1>1
    <3> QED
      BY <1>0, <3>1 DEF InQueue, Once, First
  <2>2. ASSUME NEW i \in 1..Len(items), items[i] # First PROVE i \in 2..Len(items)
    BY <2>2, <1>1 DEF First
  <2> QED
    BY <2>1, <2>2 DEF InQueue
<1> HIDE DEF gone
<1>4. Len(items') = 1 /\ items'[1] = First
  BY <1>2
<1>5. /\ \A a : InQueue(a)' <=> a = First
      /\ First' = First /\ items' # <<>>
  BY <1>2, <1>4 DEF InQueue, First
<1>6. Once'
  BY <1>4 DEF Once
<1>7. EffectsTold' /\ \A b : Untouched(b)' <=> Untouched(b)
  BY <1>0, <1>2 DEF EffectsTold, InEffect, Untouched
<1>8. \A a \in Actions : shown'[a] = IF a \in gone THEN "cancelled" ELSE shown[a]
  BY <1>2
<1>9. Histories'
  <2>1. \A a \in Actions : shown'[a] = "new" =>
            shown[a] = "new" /\ a \notin gone /\ a # First
    BY <1>0, <1>1, <1>8 DEF Histories
  <2>2. \A a \in Actions : shown'[a] = "submitting" => shown[a] = "submitting"
    BY <1>8
  <2>3. wants' \subseteq sent
    BY <1>0, <1>1, <1>2 DEF Histories
  <2>4. ~hydrated' => restored' = {} /\ dropped' = {} /\ target' = NoTarget
    BY <1>0, <1>2 DEF Histories
  <2> QED
    BY <1>0, <1>1, <1>2, <1>5, <1>7, <2>1, <2>2, <2>3, <2>4 DEF Histories
<1>10. sent \subseteq Actions
  BY DEF QueueInv, QueueTypes, OtherTypes
<1>11. SentBefore'
  BY <1>0, <1>1, <1>2, <1>3, <1>5, <1>8, <1>10 DEF SentBefore
<1>12. ToldTrue'
  <2>1. shown'[First] = shown[First]
    BY <1>1, <1>3, <1>8
  <2>2. ASSUME NEW a \in Actions, a \in gone \ dropped' PROVE Untouched(a)
    <3>1. InQueue(a) /\ a # First /\ a \notin restored
      BY <1>2, <1>3, <2>2
    <3>2. a \notin sent
      BY <1>0, <3>1 DEF SentBefore
    <3> QED
      BY <1>0, <3>1, <3>2 DEF Histories
  <2>3. InQueue(First)' /\ Final(First)' => record'[First] = shown'[First]
    BY <1>0, <1>1, <1>2, <1>5, <2>1 DEF ToldTrue, Final
  <2>4. ASSUME NEW a \in Actions, a \in settled' \ dropped', ~InQueue(a)'
        PROVE  /\ shown'[a] = "cancelled" => record'[a] = "cancelled" \/ Untouched(a)'
               /\ shown'[a] = "succeeded" => record'[a] = "succeeded"
    <3>1. CASE a \in gone
      BY <1>7, <1>8, <2>2, <2>4, <3>1
    <3>2. CASE a \notin gone
      BY <1>0, <1>2, <1>3, <1>5, <1>7, <1>8, <2>4, <3>2 DEF ToldTrue
    <3> QED
      BY <3>1, <3>2
  <2> QED
    BY <1>5, <2>3, <2>4 DEF ToldTrue
<1>13. Remembered'
  <2>1. \A a \in Actions : Alive(a)' <=> Alive(a)
    BY <1>2 DEF Alive
  <2>2. ASSUME target \in Actions, target = First, NEW a \in Actions, Alive(a), a \notin settled'
        PROVE  a \in newer \/ NotAfter(a, target)'
    <3>1. a \notin gone /\ a \notin settled
      BY <1>2, <2>2
    <3>2. a \in newer \/ NotAfter(a, First)
      BY <1>0, <1>1, <2>2, <3>1 DEF Remembered
    <3>3. NotAfter(a, First) => a = First
      BY <1>3, <3>1 DEF NotAfter, InQueue
    <3>4. NotAfter(First, First)'
      BY <1>4, <1>5 DEF NotAfter
    <3> QED
      BY <1>2, <1>5, <2>2, <3>2, <3>3, <3>4
  <2> QED
    BY <1>0, <1>2, <1>5, <2>1, <2>2 DEF Remembered
<1> QED
  BY <1>6, <1>7, <1>9, <1>11, <1>12, <1>13 DEF Kept

\* So does opening the application again.
LEMMA ReopenKeeps == QueueInv /\ Reopen => Kept'
<1> SUFFICES ASSUME QueueInv, Reopen PROVE Kept'
  OBVIOUS
<1>0. Once /\ Histories /\ SentBefore /\ EffectsTold /\ ToldTrue /\ Remembered
  BY DEF QueueInv
<1> USE DEF ledgerVars, recoveryVars
<1>1. /\ UNCHANGED <<record, log, settled, refreshed, wire, newer, unseen>>
      /\ items' = <<>> /\ wants' = {} /\ sent' = {} /\ restored' = {} /\ dropped' = {}
      /\ target' = NoTarget
      /\ shown' = [a \in Actions |-> IF shown[a] = "new" THEN "new" ELSE "gone"]
  BY DEF Reopen
<1>2. \A a : ~InQueue(a)'
  BY <1>1 DEF InQueue
<1>3. Once' /\ SentBefore'
  BY <1>1 DEF Once, SentBefore
<1>4. EffectsTold' /\ \A b : Untouched(b)' <=> Untouched(b)
  BY <1>0, <1>1 DEF EffectsTold, InEffect, Untouched
<1>5. \A a \in Actions : shown'[a] = IF shown[a] = "new" THEN "new" ELSE "gone"
  BY <1>1
<1>6. Histories'
  BY <1>0, <1>1, <1>2, <1>4, <1>5, HeadFacts DEF Histories
<1>7. ToldTrue'
  BY <1>2, <1>5 DEF ToldTrue
<1>8. Remembered'
  BY <1>0, <1>1, HeadFacts DEF Remembered, Alive
<1> QED
  BY <1>3, <1>4, <1>6, <1>7, <1>8 DEF Kept

\* So does recovery.
LEMMA HydrateKeeps == QueueInv /\ Hydrate => Kept'
<1> SUFFICES ASSUME QueueInv, Hydrate PROVE Kept'
  OBVIOUS
<1>0. Once /\ Histories /\ SentBefore /\ EffectsTold /\ ToldTrue /\ Remembered
  BY DEF QueueInv
<1> USE DEF ledgerVars, recoveryVars
<1> DEFINE found == {a \in unseen : Recoverable(a)}
           new == {a \in found : ~InQueue(a)}
<1>1. /\ UNCHANGED <<record, log, settled, refreshed, wants, wire, sent, dropped>>
      /\ ~hydrated /\ hydrated' = TRUE /\ newer' = {} /\ restored' = new
      /\ shown' = [a \in Actions |-> IF a \in new THEN record[a] ELSE shown[a]]
      /\ IF found = {} THEN target' = NoTarget /\ unseen' = {}
         ELSE target' \in LastFound(found, items') /\ unseen' = unseen
  BY DEF Hydrate
<1>2. PICK q \in Listings(new) : items' = items \o q
  BY DEF Hydrate
<1>3. new \subseteq Actions
  BY DEF QueueInv, QueueTypes, ItemTypes
<1>4. /\ q \in Seq(Actions)
      /\ \A i, j \in 1..Len(q) : q[i] = q[j] => i = j
      /\ \A a : (\E i \in 1..Len(q) : q[i] = a) <=> a \in new
  BY <1>3, ListingOf
<1>5. \A a : (a \in found <=> a \in unseen /\ Alive(a)) /\ (a \in new <=> a \in found /\ ~InQueue(a))
  BY DEF Recoverable, Alive
<1> HIDE DEF found, new
<1>6. /\ items' \in Seq(Actions)
      /\ \A a : InQueue(a)' <=> InQueue(a) \/ a \in new
      /\ items # <<>> => items' # <<>> /\ First' = First
  BY <1>2, <1>4, HeadFacts, QueueGrows
<1>7. Once'
  <2>1. \A i \in 1..Len(q) : ~InQueue(q[i])
    BY <1>4, <1>5
  <2> QED
    BY <1>0, <1>2, <1>4, <2>1, HeadFacts, GrowsOnce
<1>8. EffectsTold' /\ \A b : (Untouched(b)' <=> Untouched(b)) /\ (Alive(b)' <=> Alive(b))
  BY <1>0, <1>1 DEF EffectsTold, InEffect, Untouched, Alive
<1>9. \A a \in Actions : shown'[a] = IF a \in new THEN record[a] ELSE shown[a]
  BY <1>1
<1>10. restored = {} /\ target = NoTarget
  BY <1>0, <1>1 DEF Histories
<1>11. found # {} => target' \in found
  BY <1>1 DEF LastFound
<1>12. Histories'
  <2>1. ASSUME NEW a \in Actions
        PROVE  /\ shown'[a] = "new" =>
                     Untouched(a)' /\ a \notin sent' \cup settled' /\ a # target' /\ ~InQueue(a)'
               /\ shown'[a] = "submitting" => a \in sent'
               /\ InQueue(a)' /\ a \notin restored' \cup sent' => Untouched(a)'
    <3>1. a \in new => shown'[a] \notin {"new", "submitting"}
      BY <1>9, HeadFacts DEF Statuses, Terminal
    <3>2. Untouched(a) => a # target'
      BY <1>1, <1>5, <1>11, HeadFacts DEF Untouched, Alive
    <3> QED
      BY <1>0, <1>1, <1>6, <1>8, <1>9, <1>10, <3>1, <3>2 DEF Histories
  <2>2. wants' \subseteq sent' /\ hydrated'
    BY <1>0, <1>1 DEF Histories
  <2> QED
    BY <2>1, <2>2 DEF Histories
<1>13. sent \subseteq Actions
  BY DEF QueueInv, QueueTypes, OtherTypes
<1>14. SentBefore'
  <2> SUFFICES ASSUME NEW b \in sent
               PROVE  /\ b \in settled \/ (items' # <<>> /\ b = First')
                      /\ InQueue(b)' => b = First' \/ b \in restored'
                      /\ ~InQueue(b)' /\ shown'[b] \in {"succeeded", "unknown"}
                         /\ b \notin wants \cup restored' => b \in refreshed
    BY <1>1 DEF SentBefore
  <2>1. b \in settled \/ (items' # <<>> /\ b = First')
    BY <1>0, <1>6 DEF SentBefore
  <2>2. InQueue(b)' => b = First' \/ b \in restored'
    BY <1>0, <1>1, <1>6, <1>10, HeadFacts DEF SentBefore
  <2>3. ~InQueue(b)' /\ shown'[b] \in {"succeeded", "unknown"} /\ b \notin wants \cup restored'
        => b \in refreshed
    BY <1>0, <1>6, <1>9, <1>10, <1>13 DEF SentBefore
  <2> QED
    BY <2>1, <2>2, <2>3
<1>15. ToldTrue'
  BY <1>0, <1>1, <1>6, <1>8, <1>9 DEF ToldTrue, Final
<1>16. Remembered'
  <2>1. ASSUME NEW a \in Actions, Alive(a), a \notin settled PROVE a \in found /\ unseen' = unseen
    BY <1>0, <1>1, <1>5, <2>1 DEF Remembered
  <2>2. ASSUME NEW a \in Actions, Alive(a), a \notin settled, target' \in Actions
        PROVE  NotAfter(a, target)'
    <3>1. PICK i \in 1..Len(items') :
              items'[i] = target' /\ \A k \in (i + 1)..Len(items') : items'[k] \notin found
      BY <1>1, <2>1, <2>2 DEF LastFound
    <3>2. PICK k \in 1..Len(items') : items'[k] = a
      BY <1>5, <1>6, <2>1, <2>2 DEF InQueue
    <3>3. k <= i
      BY <1>6, <2>1, <2>2, <3>1, <3>2, LenProperties
    <3> QED
      BY <3>1, <3>2, <3>3 DEF NotAfter
  <2> QED
    BY <1>0, <1>1, <1>8, <2>1, <2>2 DEF Remembered
<1> QED
  BY <1>7, <1>8, <1>12, <1>14, <1>15, <1>16 DEF Kept

-----------------------------------------------------------------------------
(* The theorems *)

\* Every step keeps the invariant.
LEMMA QueueInvKept == QueueInv /\ [QueueNext]_queueVars => QueueInv'
<1> SUFFICES ASSUME QueueInv, [QueueNext]_queueVars PROVE QueueInv'
  OBVIOUS
<1>1. QueueTypes'
  BY QueueTypesKept DEF QueueInv
<1>2. CASE QueueNext
  <2>1. Sorted /\ Phases'
    BY <1>2, StepSorts
  <2>2. Kept'
    BY <2>1, LeavesKeeps, MovesKeeps, RecordsKeeps, EnqueueKeeps, SendsKeeps, ClearKeeps,
       ReopenKeeps, HydrateKeeps DEF Sorted
  <2> QED
    BY <1>1, <2>1, <2>2 DEF QueueInv, Kept
<1>3. CASE UNCHANGED queueVars
  <2>1. Phases' /\ Once' /\ Histories'
    BY <1>3 DEF QueueInv, queueVars, answers, recoveryVars, counters, ledgerVars, Phases, Once,
       Histories, Untouched, InQueue, First
  <2>2. SentBefore' /\ EffectsTold' /\ ToldTrue' /\ Remembered'
    BY <1>3 DEF QueueInv, queueVars, answers, recoveryVars, counters, ledgerVars, SentBefore,
       EffectsTold, ToldTrue, Remembered, InQueue, First, InEffect, Untouched, Final, Alive,
       NotAfter
  <2> QED
    BY <1>1, <2>1, <2>2 DEF QueueInv
<1> QED
  BY <1>2, <1>3

\* The types of the queue, the gateway's records and everything on its way, and the
\* inductive invariant, hold in every state (userActionQueue.ts as a whole).
THEOREM QueueInvHolds == QueueSpec => []QueueInv
<1>1. QueueInit => QueueInv
  <2> SUFFICES ASSUME QueueInit PROVE QueueInv
    OBVIOUS
  <2> USE DEF QueueInit, LedgerInit
  <2>1. LedgerTypes
    BY EmptySeq DEF LedgerTypes, Statuses
  <2>2. ItemTypes
    BY EmptySeq DEF ItemTypes, Shown, Statuses, NoAnswer
  <2>3. OtherTypes
    <3>1. MaxSessions \in Nat /\ 0 \in Nat /\ 1 \in Nat
      BY QueueAssumption
    <3> QED
      BY <3>1 DEF OtherTypes, NoAnswer, Statuses
  <2>4. \A a : ~InQueue(a) /\ ~InEffect(a)
    BY EmptySeq DEF InQueue, InEffect
  <2>5. Phases /\ Once /\ SentBefore /\ EffectsTold /\ ToldTrue
    BY <2>4 DEF Phases, Once, SentBefore, EffectsTold, ToldTrue, NoAnswer, Terminal
  <2>6. Histories /\ Remembered
    BY <2>4, QueueAssumption DEF Histories, Untouched, Remembered, Alive
  <2> QED
    BY <2>1, <2>2, <2>3, <2>5, <2>6 DEF QueueInv, QueueTypes
<1>2. QueueInv /\ [QueueNext]_queueVars => QueueInv'
  BY QueueInvKept
<1> QED
  BY <1>1, <1>2, PTL DEF QueueSpec

\* What the application told the user of an action is what the gateway's record says:
\* nothing shown as cancelled takes effect, whatever was shown as succeeded did.
THEOREM ShownIsTrueHolds == QueueSpec => []ShownIsTrue
<1>1. QueueInv => ShownIsTrue
  <2> SUFFICES ASSUME QueueInv, NEW a \in settled \ dropped
               PROVE  /\ shown[a] = "cancelled" => ~InEffect(a) /\ ~InProgress(a)
                      /\ shown[a] = "succeeded" => InEffect(a)
    BY DEF ShownIsTrue
  <2>1. a \in Actions /\ ToldTrue /\ EffectsTold
    BY DEF QueueInv, QueueTypes, ItemTypes
  <2>2. shown[a] = "cancelled" => record[a] \in {"none", "cancelled"}
    BY <2>1 DEF ToldTrue, Final, Terminal, Untouched
  <2>3. shown[a] = "succeeded" => record[a] = "succeeded"
    BY <2>1 DEF ToldTrue, Final, Terminal
  <2> QED
    BY <2>1, <2>2, <2>3 DEF EffectsTold, InProgress
<1> QED
  BY <1>1, QueueInvHolds, PTL

\* The head is submitted only when all that was submitted before it is settled and
\* what took or may have taken effect is refreshed (processQueue, settleTerminalItem).
THEOREM NextWaitsForRefreshHolds == QueueSpec => []NextWaitsForRefresh
<1>1. QueueInv => NextWaitsForRefresh
  BY DEF QueueInv, SentBefore, NextWaitsForRefresh
<1> QED
  BY <1>1, QueueInvHolds, PTL

\* However often the application is closed, reopened and cleared, an action that the
\* gateway accepted is settled, in the queue, or found by the next recovery.
THEOREM NothingForgottenHolds == QueueSpec => []NothingForgotten
<1>1. QueueInv => NothingForgotten
  BY DEF QueueInv, Remembered, Alive, NothingForgotten
<1> QED
  BY <1>1, QueueInvHolds, PTL

\* Of the gateway the queue sees nothing but what the ledger allows, which the gateway
\* implements (GatewayImplementsLedger).
THEOREM QueueSeesLedger == QueueSpec => LedgerSpec
<1>1. QueueInit => LedgerInit
  BY DEF QueueInit
<1>2. QueueInv /\ [QueueNext]_queueVars => [LedgerNext]_ledgerVars
  <2> SUFFICES ASSUME QueueInv, QueueNext PROVE LedgerNext \/ UNCHANGED ledgerVars
    BY DEF queueVars
  <2>1. Sorted
    BY StepSorts
  <2>2. ASSUME NEW a \in Actions, Records(a) PROVE LedgerNext
    BY <2>2 DEF Records, LedgerNext
  <2> QED
    BY <2>1, <2>2 DEF Sorted, Leaves, Moves, Enqueue, Sends, Clear, Reopen, Hydrate
<1> QED
  BY <1>1, <1>2, QueueInvHolds, PTL DEF QueueSpec, LedgerSpec
=============================================================================
