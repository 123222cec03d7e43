---------------------------- MODULE TimerProofs -----------------------------
(* Theorems about TimerRuntime, for any number of handlers and replicas, and *)
(* about TimerCountdown: a process never loses the countdown of the Timer it *)
(* runs, for any number of writes, checks, completions and failures.         *)
EXTENDS TimerRuntime, TimerCountdown, SequenceTheorems, TLAPS

-----------------------------------------------------------------------------
(* Types *)

\* Changing a field of a Timer within its type.
LEMMA TimerFields ==
    ASSUME NEW t \in Timer
    PROVE  /\ \A s \in Status : [t EXCEPT !.status = s] \in Timer
           /\ \A n \in Int : [t EXCEPT !.start = n] \in Timer
           /\ \A n \in Nat : /\ [t EXCEPT !.rev = n] \in Timer
                              /\ [t EXCEPT !.dur = n] \in Timer
                              /\ [t EXCEPT !.rem = n] \in Timer
           /\ \A b \in BOOLEAN : /\ [t EXCEPT !.warned = b] \in Timer
                                  /\ [t EXCEPT !.valid = b] \in Timer
BY DEF Timer

LEMMA RemainingType ==
    ASSUME NEW t \in Timer, NEW at \in Nat
    PROVE  Remaining(t, at) \in Nat
BY DEF Timer, Remaining, AtLeastZero, Running

\* The Timer a request writes is a Timer.
LEMMA ComputedType ==
    ASSUME RuntimeAssumption, NEW q \in Request, NEW u \in Nat
    PROVE  Computed(q, u) \in Timer
<1>1. /\ q.seen \in Timer /\ q.entry \in Timer /\ q.at \in Nat /\ q.dur \in Nat
      /\ q.op \in AllOps /\ Increment \in Nat
  BY DEF Request, RuntimeAssumption
<1>2. \A t \in Timer, at \in Nat : Remaining(t, at) \in Nat
  BY RemainingType
<1>3. \A t \in Timer, at \in Nat : Resumed(t, at) \in Timer
  <2> TAKE t \in Timer, at \in Nat
  <2>1. [t EXCEPT !.status = "running"] \in Timer
    BY TimerFields DEF Status
  <2>2. at - (t.dur - t.rem) \in Int
    BY DEF Timer
  <2> QED
    BY <2>1, <2>2, TimerFields DEF Resumed
<1>4. CASE q.op \in {"start", "reset"}
  BY <1>1, <1>4 DEF Computed, NewTimer, Timer, Status
<1>5. CASE q.op = "pause"
  BY <1>1, <1>2, <1>5 DEF Computed, Timer, Status
<1>6. CASE q.op = "resume"
  BY <1>1, <1>3, <1>6 DEF Computed
<1>7. CASE q.op = "extend"
  <2>1. Remaining(q.seen, q.at) + Increment \in Nat
    BY <1>1, <1>2
  <2> DEFINE left == Remaining(q.seen, q.at) + Increment
  <2>2. q.seen.dur + Increment \in Nat /\ (q.seen.warned /\ left <= NotifyBefore) \in BOOLEAN
    BY <1>1 DEF Timer
  <2>3. [q.seen EXCEPT !.dur = q.seen.dur + Increment] \in Timer
    BY <1>1, <2>2, TimerFields
  <2>4. [q.seen EXCEPT !.dur = q.seen.dur + Increment, !.rem = left] \in Timer
    BY <2>1, <2>3, TimerFields
  <2>5. Extended(q.seen, q.at) \in Timer
    BY <2>2, <2>4, TimerFields DEF Extended
  <2> QED
    BY <1>7, <2>5 DEF Computed
<1>8. CASE q.op = "touch"
  BY <1>1, <1>2, <1>8 DEF Computed, Timer
<1>9. CASE q.op = "undo"
  BY <1>1, <1>3, <1>9 DEF Computed
<1> QED
  BY <1>1, <1>4, <1>5, <1>6, <1>7, <1>8, <1>9 DEF AllOps

\* The three ways the history changes, and the entry an undo reads.
LEMMA HistoryType ==
    ASSUME NEW h \in Seq(Timer), NEW t \in Timer
    PROVE  /\ Append(h, t) \in Seq(Timer)
           /\ << >> \in Seq(Timer)
           /\ SubSeq(h, 1, Len(h) - 1) \in Seq(Timer)
           /\ h # << >> => h[Len(h)] \in Timer
<1>1. /\ Len(h) \in Nat
      /\ \A i \in 1 .. Len(h) - 1 : h[i] \in Timer
  BY LenProperties
<1>2. SubSeq(h, 1, Len(h) - 1) \in Seq(Timer)
  BY <1>1, SubSeqProperties
<1>3. h # << >> => h[Len(h)] \in Timer
  BY ElementOfSeq, EmptySeq
<1> QED
  BY <1>2, <1>3, EmptySeq

LEMMA NoTimerType == NoTimer \in Timer /\ NoRequest \in Request /\ NoCheck \in Check
BY DEF NoTimer, Timer, Status, NoRequest, Request, AllOps, NoCheck, Check

\* Every variable keeps its type, whatever the instance.
THEOREM TypeCorrect == Spec => []TypeOK
<1> USE RuntimeAssumption
<1>1. Init => TypeOK
  <2> SUFFICES ASSUME Init PROVE TypeOK
    OBVIOUS
  <2>1. timer \in Timer
    <3>1. \A d \in Durations : NewTimer(1, 0, d, FALSE) \in Timer
      BY DEF NewTimer, Timer, Status, RuntimeAssumption
    <3>2. LegacyTimers \subseteq Timer
      <4>1. \A d \in Durations :
              [NewTimer(1, 0, d, FALSE) EXCEPT !.valid = FALSE] \in Timer
        BY <3>1, TimerFields
      <4> QED
        BY <3>1, <4>1, NoTimerType DEF LegacyTimers
    <3> QED
      BY <3>2 DEF Init
  <2>2. schedule \in SUBSET Int
    BY DEF Init, RuntimeAssumption
  <2>3. history \in Seq(Timer)
    BY EmptySeq DEF Init
  <2>4. owed \in Nat
    BY <2>1 DEF Init, Timer
  <2>5. /\ holds \in [Replicas -> BOOLEAN]
        /\ scan \in [Replicas -> {"idle", "clean", "corrupt"}]
        /\ due \in [Replicas -> SUBSET Int]
    BY DEF Init
  <2>6. check \in [Replicas -> Check] /\ req \in [Clients -> Request]
    BY NoTimerType DEF Init
  <2>7. now \in Nat /\ fresh \in Nat \ {0} /\ runtimeRev \in Nat /\ faults \in Nat
    BY SMTT(30) DEF Init
  <2>8. /\ mode \in {"legacy", "stream"} /\ stream = {} /\ locals = {}
        /\ lease = "nobody" /\ ready \in BOOLEAN
    BY Zenon DEF Init
  <2> QED
    BY <2>1, <2>2, <2>3, <2>4, <2>5, <2>6, <2>7, <2>8 DEF TypeOK
<1>2. TypeOK /\ [Next]_vars => TypeOK'
  <2> SUFFICES ASSUME TypeOK, [Next]_vars PROVE TypeOK'
    OBVIOUS
  <2> USE DEF TypeOK, store, scheduler
  <2>1. ASSUME NEW c \in Clients, NEW op \in Ops, NEW d \in Durations,
               Prepare(c, op, d)
        PROVE  TypeOK'
    <3>1. history # << >> => history[Len(history)] \in Timer
      BY HistoryType, NoTimerType
    <3>2. (IF op = "undo" THEN history[Len(history)] ELSE NoTimer) \in Timer
      BY <2>1, <3>1, NoTimerType DEF Prepare, Applicable
    <3>3. req'[c] \in Request /\ req' \in [Clients -> Request]
      BY <2>1, <3>2 DEF Prepare, Request, RuntimeAssumption
    <3> QED
      BY <2>1, <3>3 DEF Prepare
  <2>2. ASSUME NEW c \in Clients, CommitWrite(c) PROVE TypeOK'
    <3>1. Computed(req[c], fresh) \in Timer
      BY ComputedType
    <3>2. timer' \in Timer
      BY <2>2, <3>1 DEF CommitWrite, Timer
    <3>3. schedule' \in SUBSET Int
      <4>1. schedule' = IndexOf(timer')
        BY <2>2 DEF CommitWrite
      <4> QED
        BY <3>2, <4>1 DEF IndexOf, Deadline, Timer
    <3>4. owed' \in Nat
      <4>1. req[c].dur \in Nat /\ req[c].entry.dur \in Nat /\ owed + Increment \in Nat
        <5>1. req[c] \in Request
          OBVIOUS
        <5> QED
          BY <5>1 DEF Request, Timer, RuntimeAssumption
      <4> QED
        BY <2>2, <4>1 DEF CommitWrite, OwedAfter
    <3>5. history' \in Seq(Timer)
      BY <2>2, HistoryType DEF CommitWrite
    <3>6. req' \in [Clients -> Request]
      BY <2>2, NoTimerType DEF CommitWrite, Request
    <3> QED
      BY SMTT(40), <2>2, <3>2, <3>3, <3>4, <3>5, <3>6 DEF CommitWrite
  <2>3. ASSUME NEW c \in Clients, CommitConflict(c) \/ Abandon(c) PROVE TypeOK'
    <3>1. req' \in [Clients -> Request] /\ faults' \in Nat
      BY <2>3, NoTimerType DEF CommitConflict, Abandon
    <3> QED
      BY <2>3, <3>1 DEF CommitConflict, Abandon
  <2>4. ASSUME NEW c \in Clients, FollowUp(c) PROVE TypeOK'
    <3>1. [req[c].seen EXCEPT !.rem = Remaining(req[c].seen, req[c].at)] \in Timer
      <4>1. req[c].seen \in Timer /\ Remaining(req[c].seen, req[c].at) \in Nat
        <5>1. req[c] \in Request
          OBVIOUS
        <5> QED
          BY <5>1, RemainingType DEF Request
      <4> QED
        BY <4>1, TimerFields
    <3>2. history' \in Seq(Timer)
      BY <2>4, <3>1, HistoryType DEF FollowUp
    <3> QED
      BY <2>4, <3>2, NoTimerType DEF FollowUp
  <2>5. ASSUME NEW r \in Replicas, LocalRead(r) PROVE TypeOK'
    BY <2>5 DEF LocalRead, Check, Timer
  <2>6. ASSUME NEW r \in Replicas, LocalMiss(r) \/ LocalQuarantine(r) PROVE TypeOK'
    BY <2>6, NoTimerType DEF LocalMiss, LocalQuarantine
  <2>7. Completed(timer, fresh) \in Timer /\ EventOf(timer, fresh) \in Event
    <3>1. [timer EXCEPT !.status = "completed"] \in Timer
      BY TimerFields DEF Status
    <3>2. [timer EXCEPT !.status = "completed", !.rem = 0] \in Timer
      BY <3>1, TimerFields
    <3>3. Completed(timer, fresh) \in Timer
      BY <3>2, TimerFields DEF Completed
    <3> QED
      BY <3>3 DEF EventOf, Event, Timer, Deadline
  <2>8. ASSUME NEW r \in Replicas, LocalClaim(r) PROVE TypeOK'
    <3>1. check' \in [Replicas -> Check]
      <4>1. [check[r] EXCEPT !.phase = "claimed"] \in Check
        BY DEF Check
      <4>2. check'[r] \in Check /\ check' \in [Replicas -> Check]
        BY <2>8, <4>1, NoTimerType DEF LocalClaim
      <4> QED
        BY <4>2
    <3>2. stream' \in SUBSET Event /\ locals' \in SUBSET Event
      BY <2>7, <2>8 DEF LocalClaim
    <3> QED
      BY <2>7, <2>8, <3>1, <3>2 DEF LocalClaim, Complete
  <2>9. ASSUME NEW r \in Replicas, LocalClearHistory(r) PROVE TypeOK'
    BY <2>9, NoTimerType, EmptySeq DEF LocalClearHistory
  <2>10. ASSUME Warn PROVE TypeOK'
    <3>1. timer' \in Timer
      <4>1. AtLeastZero(Deadline(timer) - now) \in Nat
        BY DEF AtLeastZero, Deadline, Timer
      <4>2. [timer EXCEPT !.rem = AtLeastZero(Deadline(timer) - now)] \in Timer
        BY <4>1, TimerFields
      <4>3. [timer EXCEPT !.rem = AtLeastZero(Deadline(timer) - now),
                          !.warned = TRUE] \in Timer
        BY <4>2, TimerFields
      <4> QED
        BY <2>10, <4>3, TimerFields DEF Warn, Warned
    <3>2. schedule' \in SUBSET Int
      BY <2>10 DEF Warn, Timer, Deadline
    <3> QED
      BY <2>10, <3>1, <3>2 DEF Warn
  <2>11. ASSUME NEW r \in Replicas, ClaimLease(r) \/ NoticeLoss(r) PROVE TypeOK'
    BY <2>11 DEF ClaimLease, NoticeLoss
  <2>12. ASSUME NEW r \in Replicas, Reconcile(r) PROVE TypeOK'
    <3>1. schedule' \in SUBSET Int
      BY <2>12 DEF Reconcile, Reconciled, IndexOf, Deadline, Timer
    <3> QED
      BY <2>12, <3>1 DEF Reconcile
  <2>13. ASSUME NEW r \in Replicas, FinishScan(r) PROVE TypeOK'
    BY <2>13 DEF FinishScan
  <2>14. ASSUME NEW r \in Replicas, ReadDue(r) \/ ScheduledMiss(r) PROVE TypeOK'
    BY <2>14 DEF ReadDue, ScheduledMiss
  <2>15. ASSUME NEW r \in Replicas, ScheduledRepair(r) PROVE TypeOK'
    <3>1. schedule' \in SUBSET Int
      BY <2>15 DEF ScheduledRepair, IndexOf, Deadline, Timer
    <3> QED
      BY <2>15, <3>1 DEF ScheduledRepair
  <2>16. ASSUME NEW r \in Replicas, ScheduledClaim(r) PROVE TypeOK'
    BY <2>7, <2>16 DEF ScheduledClaim, Complete
  <2>17. ASSUME NEW r \in Replicas, Crash(r) PROVE TypeOK'
    BY <2>17, NoTimerType DEF Crash
  <2>18. CASE LeaseLapse
    BY <2>18 DEF LeaseLapse
  <2>20. CASE LeaseLost
    BY <2>20 DEF LeaseLost
  <2>21. CASE Tick
    BY <2>21 DEF Tick
  <2>22. CASE SetMode
    BY <2>22 DEF SetMode
  <2>19. CASE UNCHANGED vars
    BY <2>19 DEF vars
  <2> QED
    BY <2>1, <2>2, <2>3, <2>4, <2>5, <2>6, <2>8, <2>9, <2>10, <2>11, <2>12, <2>13,
       <2>14, <2>15, <2>16, <2>17, <2>18, <2>19, <2>20, <2>21, <2>22
       DEF Next, ClientStep, CountdownStep, SchedulerStep
<1> QED
  BY <1>1, <1>2, PTL DEF Spec

-----------------------------------------------------------------------------
(* Versions *)

\* The steps that leave the Timer and everything derived from it alone.
Quiet == UNCHANGED <<timer, fresh, req, stream, locals, owed>>

\* What a step can do to the Timer, the requests and the completions.
LEMMA StepKinds ==
    ASSUME [Next]_vars
    PROVE  \/ \E c \in Clients, op \in Ops, d \in Durations : Prepare(c, op, d)
           \/ \E c \in Clients : CommitWrite(c)
           \/ \E c \in Clients : CommitConflict(c) \/ Abandon(c)
           \/ \E c \in Clients : FollowUp(c)
           \/ \E r \in Replicas : LocalClaim(r)
           \/ \E r \in Replicas : ScheduledClaim(r)
           \/ \E r \in Replicas : LocalClearHistory(r)
           \/ Warn
           \/ Quiet
<1>1. ASSUME NEW r \in Replicas, LocalRead(r) \/ LocalMiss(r) \/ LocalQuarantine(r)
      PROVE  Quiet
  BY <1>1 DEF LocalRead, LocalMiss, LocalQuarantine, Quiet, store
<1>2. ASSUME NEW r \in Replicas, ClaimLease(r) \/ NoticeLoss(r) \/ Crash(r)
      PROVE  Quiet
  BY <1>2 DEF ClaimLease, NoticeLoss, Crash, Quiet, store
<1>3. ASSUME NEW r \in Replicas, Reconcile(r) \/ FinishScan(r) \/ ReadDue(r)
      PROVE  Quiet
  BY <1>3 DEF Reconcile, FinishScan, ReadDue, Quiet, store
<1>4. ASSUME NEW r \in Replicas, ScheduledMiss(r) \/ ScheduledRepair(r)
      PROVE  Quiet
  BY <1>4 DEF ScheduledMiss, ScheduledRepair, Quiet, store
<1>5. CASE LeaseLapse \/ LeaseLost \/ Tick \/ SetMode
  BY <1>5 DEF LeaseLapse, LeaseLost, Tick, SetMode, Quiet, store
<1>6. CASE UNCHANGED vars
  BY <1>6 DEF vars, store, Quiet
<1> QED
  BY <1>1, <1>2, <1>3, <1>4, <1>5, <1>6
     DEF Next, ClientStep, CountdownStep, SchedulerStep

\* Every revision in use was drawn, so a write under a new one is told apart
\* from everything a handler may have read ...
VersionsDrawn ==
    /\ timer.rev < fresh
    /\ \A c \in Clients : req[c].seen.rev < fresh

\* ... and what a handler read under the current version is the current Timer.
VersionIdentifies ==
    \A c \in Clients :
        req[c].phase = "prepared" /\ SameVersion(timer, req[c].seen)
            => req[c].seen = timer

VersionInv == TypeOK /\ VersionsDrawn /\ VersionIdentifies

LEMMA VersionInductive ==
    ASSUME TypeOK, TypeOK', VersionsDrawn, VersionIdentifies, [Next]_vars
    PROVE  VersionsDrawn' /\ VersionIdentifies'
<1> USE DEF VersionsDrawn, VersionIdentifies
<1>0. /\ fresh \in Nat \ {0} /\ timer \in Timer /\ req \in [Clients -> Request]
      /\ \A c \in Clients : req[c].seen.rev \in Nat /\ req'[c].seen.rev \in Nat
      /\ NoRequest.phase = "idle" /\ NoRequest.seen.rev = 0
  BY DEF TypeOK, Request, Timer, NoRequest, NoTimer
<1>1. ASSUME NEW c \in Clients, NEW op \in Ops, NEW d \in Durations, Prepare(c, op, d)
      PROVE  VersionsDrawn' /\ VersionIdentifies'
  <2>1. /\ timer' = timer /\ fresh' = fresh
        /\ req'[c].seen = timer
        /\ \A e \in Clients \ {c} : req'[e] = req[e]
    BY <1>0, <1>1 DEF Prepare, store
  <2> QED
    BY <1>0, <2>1 DEF SameVersion
<1>2. ASSUME NEW c \in Clients, CommitWrite(c)
      PROVE  VersionsDrawn' /\ VersionIdentifies'
  <2>1. Computed(req[c], fresh) \in Timer
    BY <1>0, ComputedType, RuntimeAssumption
  <2>2. timer'.rev = fresh /\ fresh' = fresh + 1
    <3>1. timer' = [Computed(req[c], fresh) EXCEPT !.rev = fresh]
      BY <1>2 DEF CommitWrite
    <3> QED
      BY <1>2, <2>1, <3>1 DEF CommitWrite, Timer
  <2>3. \A e \in Clients : \/ req'[e].phase # "prepared" /\ req'[e].seen.rev < fresh
                           \/ req'[e] = req[e]
    <3> SUFFICES ASSUME NEW e \in Clients, e = c
                 PROVE  req'[e].phase # "prepared" /\ req'[e].seen.rev < fresh
      BY <1>0, <1>2 DEF CommitWrite
    <3> QED
      BY <1>0, <1>2 DEF CommitWrite, Request
  <2>4. VersionsDrawn'
    BY <1>0, <2>2, <2>3
  <2>5. VersionIdentifies'
    <3> SUFFICES ASSUME NEW e \in Clients, req'[e].phase = "prepared"
                 PROVE  ~SameVersion(timer', req'[e].seen)
      OBVIOUS
    <3>1. req'[e].seen.rev < fresh
      BY <2>3
    <3> QED
      BY <1>0, <2>2, <3>1 DEF SameVersion
  <2> QED
    BY <2>4, <2>5
<1>3. ASSUME NEW c \in Clients, CommitConflict(c) \/ Abandon(c)
      PROVE  VersionsDrawn' /\ VersionIdentifies'
  <2>1. /\ timer' = timer /\ fresh' = fresh
        /\ req'[c] = NoRequest
        /\ \A e \in Clients \ {c} : req'[e] = req[e]
    BY <1>0, <1>3 DEF CommitConflict, Abandon, store
  <2> QED
    BY <1>0, <2>1
<1>4. ASSUME NEW c \in Clients, FollowUp(c)
      PROVE  VersionsDrawn' /\ VersionIdentifies'
  <2>1. /\ timer' = timer /\ fresh' = fresh + 1
        /\ req'[c] = NoRequest
        /\ \A e \in Clients \ {c} : req'[e] = req[e]
    BY <1>0, <1>4 DEF FollowUp
  <2>2. timer.rev \in Nat
    BY <1>0 DEF Timer
  <2> QED
    BY <1>0, <2>1, <2>2
<1>5. ASSUME timer'.rev = fresh, fresh' = fresh + 1, req' = req
      PROVE  VersionsDrawn' /\ VersionIdentifies'
  BY <1>0, <1>5 DEF SameVersion
<1>6. ASSUME NEW r \in Replicas, LocalClaim(r) \/ ScheduledClaim(r)
      PROVE  VersionsDrawn' /\ VersionIdentifies'
  <2>1. timer' = Completed(timer, fresh) /\ fresh' = fresh + 1 /\ req' = req
    BY <1>6 DEF LocalClaim, ScheduledClaim, Complete
  <2>2. timer'.rev = fresh
    BY <1>0, <2>1 DEF Completed, Timer
  <2> QED
    BY <1>5, <2>1, <2>2
<1>7. ASSUME Warn PROVE VersionsDrawn' /\ VersionIdentifies'
  <2>1. timer' = Warned(timer, fresh) /\ fresh' = fresh + 1 /\ req' = req
    BY <1>7 DEF Warn
  <2>2. timer'.rev = fresh
    BY <1>0, <2>1 DEF Warned, Timer
  <2> QED
    BY <1>5, <2>1, <2>2
<1>8. ASSUME NEW r \in Replicas, LocalClearHistory(r)
      PROVE  VersionsDrawn' /\ VersionIdentifies'
  <2>1. timer' = timer /\ fresh' = fresh + 1 /\ req' = req
    BY <1>8 DEF LocalClearHistory
  <2>2. timer.rev \in Nat
    BY <1>0 DEF Timer
  <2> QED
    BY <1>0, <2>1, <2>2
<1>9. CASE Quiet
  BY <1>9 DEF Quiet
<1> QED
  BY <1>1, <1>2, <1>3, <1>4, <1>6, <1>7, <1>8, <1>9, StepKinds

LEMMA LegacyVersions ==
    \A t \in LegacyTimers : t.id \in {0, 1} /\ t.rev \in {0, 1}
<1>1. NoTimer.id = 0 /\ NoTimer.rev = 0
  BY DEF NoTimer
<1>2. ASSUME NEW d \in Durations
      PROVE  /\ NewTimer(1, 0, d, FALSE).id = 1 /\ NewTimer(1, 0, d, FALSE).rev = 1
             /\ [NewTimer(1, 0, d, FALSE) EXCEPT !.valid = FALSE].id = 1
             /\ [NewTimer(1, 0, d, FALSE) EXCEPT !.valid = FALSE].rev = 1
  BY DEF NewTimer
<1> QED
  BY <1>1, <1>2 DEF LegacyTimers

\* In every reachable state a handler whose version still matches holds the
\* current Timer itself: the compare-and-set leaves no room for a stale write.
THEOREM VersionsHold == Spec => []VersionInv
<1>1. Init => VersionsDrawn /\ VersionIdentifies
  <2> SUFFICES ASSUME Init PROVE VersionsDrawn /\ VersionIdentifies
    OBVIOUS
  <2>1. /\ \A c \in Clients : req[c] = NoRequest
        /\ fresh = 2 /\ timer \in LegacyTimers
    BY DEF Init
  <2>2. NoRequest.phase = "idle" /\ NoRequest.seen.rev = 0
    BY DEF NoRequest, NoTimer
  <2> QED
    BY <2>1, <2>2, LegacyVersions DEF VersionsDrawn, VersionIdentifies
<1>2. TypeOK /\ TypeOK' /\ VersionsDrawn /\ VersionIdentifies /\ [Next]_vars
        => VersionsDrawn' /\ VersionIdentifies'
  BY VersionInductive
<1> QED
  BY <1>1, <1>2, TypeCorrect, PTL DEF Spec, VersionInv

-----------------------------------------------------------------------------
(* No lost update *)

\* What an admitted write makes of the duration, given what it was based on.
LEMMA ComputedDuration ==
    ASSUME NEW q \in Request, NEW u \in Nat
    PROVE  Computed(q, u).dur = IF q.op = "extend" THEN q.seen.dur + Increment
                                ELSE IF q.op \in {"start", "reset"} THEN q.dur
                                ELSE IF q.op = "undo" THEN q.entry.dur
                                ELSE q.seen.dur
<1>1. q.op \in AllOps /\ q.seen \in Timer /\ q.entry \in Timer
  BY DEF Request
<1>2. CASE q.op \in {"start", "reset"}
  BY <1>2 DEF Computed, NewTimer
<1>3. CASE q.op = "pause"
  BY <1>1, <1>3 DEF Computed, Timer
<1>4. CASE q.op = "resume"
  BY <1>1, <1>4 DEF Computed, Resumed, Timer
<1>5. CASE q.op = "extend"
  BY <1>1, <1>5 DEF Computed, Extended, Timer
<1>6. CASE q.op = "touch"
  BY <1>1, <1>6 DEF Computed, Timer
<1>7. CASE q.op = "undo"
  BY <1>1, <1>7 DEF Computed, Resumed, Timer
<1> QED
  BY <1>1, <1>2, <1>3, <1>4, <1>5, <1>6, <1>7 DEF AllOps

\* The duration is what the acknowledged writes add up to: no handler
\* overwrites an extension, a reset or an undo it has not seen.
THEOREM NoLostUpdate == Spec => []ExtensionsKept
<1>1. Init => ExtensionsKept
  BY DEF Init, ExtensionsKept
<1>2. VersionInv /\ ExtensionsKept /\ [Next]_vars => ExtensionsKept'
  <2> SUFFICES ASSUME VersionInv, ExtensionsKept, [Next]_vars PROVE ExtensionsKept'
    OBVIOUS
  <2>0. /\ timer \in Timer /\ fresh \in Nat /\ req \in [Clients -> Request]
        /\ timer.dur = owed /\ VersionIdentifies
    BY DEF VersionInv, TypeOK, ExtensionsKept
  <2>1. ASSUME NEW c \in Clients, CommitWrite(c) PROVE timer'.dur = owed'
    <3>1. Computed(req[c], fresh) \in Timer
      BY <2>0, ComputedType, RuntimeAssumption
    <3>2. timer' = [Computed(req[c], fresh) EXCEPT !.rev = fresh]
          /\ owed' = OwedAfter(req[c])
      BY <2>1 DEF CommitWrite
    <3>3. timer'.dur = Computed(req[c], fresh).dur
      BY <3>1, <3>2 DEF Timer
    <3>4. req[c].seen = timer
      BY <2>0, <2>1 DEF CommitWrite, WriteAllowed, VersionIdentifies
    <3> QED
      BY <2>0, <3>2, <3>3, <3>4, ComputedDuration DEF OwedAfter
  <2>2. ASSUME NEW r \in Replicas, LocalClaim(r) \/ ScheduledClaim(r)
        PROVE  timer'.dur = owed'
    <3>1. timer' = Completed(timer, fresh) /\ owed' = owed
      BY <2>2 DEF LocalClaim, ScheduledClaim, Complete
    <3> QED
      BY <2>0, <3>1 DEF Completed, Timer
  <2>3. CASE Warn
    <3>1. timer' = Warned(timer, fresh) /\ owed' = owed
      BY <2>3 DEF Warn
    <3> QED
      BY <2>0, <3>1 DEF Warned, Timer, ExtensionsKept
  <2>4. ASSUME UNCHANGED <<timer, owed>> PROVE timer'.dur = owed'
    BY <2>0, <2>4
  <2>5. ASSUME NEW c \in Clients, NEW op \in Ops, NEW d \in Durations,
               Prepare(c, op, d)
        PROVE  UNCHANGED <<timer, owed>>
    BY <2>5 DEF Prepare, store
  <2>6. ASSUME NEW c \in Clients, CommitConflict(c) \/ Abandon(c) \/ FollowUp(c)
        PROVE  UNCHANGED <<timer, owed>>
    BY <2>6 DEF CommitConflict, Abandon, FollowUp, store
  <2>7. ASSUME NEW r \in Replicas, LocalClearHistory(r)
        PROVE  UNCHANGED <<timer, owed>>
    BY <2>7 DEF LocalClearHistory
  <2>8. CASE Quiet
    BY <2>0, <2>8 DEF Quiet, ExtensionsKept
  <2> QED
    BY <2>1, <2>2, <2>3, <2>4, <2>5, <2>6, <2>7, <2>8, StepKinds DEF ExtensionsKept
<1> QED
  BY <1>1, <1>2, VersionsHold, PTL DEF Spec

-----------------------------------------------------------------------------
(* One completion per Timer ID, as long as nothing is undone *)

\* The inductive invariant.  A completed ID is either retired (a newer Timer
\* replaced it, and new IDs are fresh) or it is the ID of the completed current
\* Timer; a pause or a resume in flight was computed from a Timer that had not
\* completed, so it no longer matches the version of one that has.
CompletionInv ==
    /\ timer.id < fresh
    /\ \A c \in Clients :
          req[c].phase = "prepared" =>
            /\ req[c].op # "undo"
            /\ req[c].op = "pause" => req[c].seen.status = "running"
            /\ req[c].op = "resume" => req[c].seen.status = "paused"
    /\ \A e \in Completions :
          /\ e.id < fresh
          /\ e.id = timer.id => timer.status = "completed"
    /\ OneCompletionPerTimerId

\* An admitted write keeps the ID of the Timer and then does not revive it, or
\* gives it a new ID.
LEMMA AdmittedWrite ==
    ASSUME VersionInv, CompletionInv, NEW c \in Clients, CommitWrite(c)
    PROVE  \/ timer'.id = fresh
           \/ /\ timer'.id = timer.id
              /\ timer.status = "completed" => timer'.status = "completed"
<1> DEFINE q == req[c]
<1>0. /\ timer \in Timer /\ q \in Request /\ fresh \in Nat /\ q.op \in AllOps
  BY DEF VersionInv, TypeOK, Request
<1>1. q.seen = timer /\ q.op # "undo"
  BY DEF CommitWrite, WriteAllowed, VersionInv, VersionIdentifies, CompletionInv
<1>2. /\ q.op = "pause" => timer.status = "running"
      /\ q.op = "resume" => timer.status = "paused"
  BY <1>1 DEF CompletionInv, CommitWrite
<1>3. Computed(q, fresh) \in Timer
  BY <1>0, ComputedType, RuntimeAssumption
<1>4. timer' = [Computed(q, fresh) EXCEPT !.rev = fresh]
  BY DEF CommitWrite
<1>5. timer'.id = Computed(q, fresh).id /\ timer'.status = Computed(q, fresh).status
  BY <1>3, <1>4 DEF Timer
<1>6. CASE q.op \in {"start", "reset"}
  <2>1. Computed(q, fresh).id = fresh
    BY <1>6 DEF Computed, NewTimer
  <2> QED
    BY <1>5, <2>1
<1>7. CASE q.op = "pause"
  <2>1. Computed(q, fresh).id = timer.id
    BY <1>0, <1>1, <1>7 DEF Computed, Timer
  <2> QED
    BY <1>2, <1>5, <1>7, <2>1
<1>8. CASE q.op = "resume"
  <2>1. Computed(q, fresh).id = timer.id
    BY <1>0, <1>1, <1>8 DEF Computed, Resumed, Timer
  <2> QED
    BY <1>2, <1>5, <1>8, <2>1
<1>9. CASE q.op = "extend"
  <2>1. Computed(q, fresh).id = timer.id /\ Computed(q, fresh).status = timer.status
    BY <1>0, <1>1, <1>9 DEF Computed, Extended, Timer
  <2> QED
    BY <1>5, <2>1
<1>10. CASE q.op = "touch"
  <2>1. Computed(q, fresh).id = timer.id /\ Computed(q, fresh).status = timer.status
    BY <1>0, <1>1, <1>10 DEF Computed, Timer
  <2> QED
    BY <1>5, <2>1
<1> QED
  BY <1>0, <1>1, <1>6, <1>7, <1>8, <1>9, <1>10 DEF AllOps

LEMMA CompletionInductive ==
    ASSUME "undo" \notin Ops, VersionInv, CompletionInv, [Next]_vars
    PROVE  CompletionInv'
<1>0. /\ timer \in Timer /\ fresh \in Nat /\ timer.id \in Nat
      /\ req \in [Clients -> Request] /\ NoRequest.phase = "idle"
      /\ \A e \in Completions : e.id \in Nat
  BY DEF VersionInv, TypeOK, Timer, NoRequest, Completions, Event
<1>1. ASSUME NEW c \in Clients, NEW op \in Ops, NEW d \in Durations, Prepare(c, op, d)
      PROVE  CompletionInv'
  <2>1. /\ UNCHANGED <<timer, fresh, stream, locals>>
        /\ req'[c].op = op /\ req'[c].seen = timer
        /\ op = "pause" => timer.status = "running"
        /\ op = "resume" => timer.status = "paused"
        /\ \A e \in Clients \ {c} : req'[e] = req[e]
    BY <1>0, <1>1 DEF Prepare, Applicable, store
  <2> QED
    BY <2>1 DEF CompletionInv, Completions, OneCompletionPerTimerId
<1>2. ASSUME NEW c \in Clients, CommitWrite(c) PROVE CompletionInv'
  <2>1. /\ fresh' = fresh + 1 /\ UNCHANGED <<stream, locals>>
        /\ req'[c].phase # "prepared"
        /\ \A e \in Clients \ {c} : req'[e] = req[e]
    <3>1. req'[c].phase # "prepared"
      BY <1>0, <1>2 DEF CommitWrite, Request
    <3> QED
      BY <1>0, <1>2, <3>1 DEF CommitWrite
  <2>2. Completions' = Completions
    BY <2>1 DEF Completions
  <2>3. \/ timer'.id = fresh
        \/ /\ timer'.id = timer.id
           /\ timer.status = "completed" => timer'.status = "completed"
    BY <1>2, AdmittedWrite
  <2>4. \A e \in Completions : /\ e.id < fresh'
                              /\ e.id = timer'.id => timer'.status = "completed"
    BY <1>0, <2>1, <2>3 DEF CompletionInv
  <2> QED
    BY <1>0, <2>1, <2>2, <2>3, <2>4 DEF CompletionInv, OneCompletionPerTimerId
<1>3. ASSUME NEW c \in Clients, CommitConflict(c) \/ Abandon(c) \/ FollowUp(c)
      PROVE  CompletionInv'
  <2>1. /\ UNCHANGED <<timer, stream, locals>> /\ fresh' \in {fresh, fresh + 1}
        /\ req'[c].phase # "prepared"
        /\ \A e \in Clients \ {c} : req'[e] = req[e]
    BY <1>0, <1>3 DEF CommitConflict, Abandon, FollowUp, store
  <2> QED
    BY <1>0, <2>1 DEF CompletionInv, Completions, OneCompletionPerTimerId
<1>4. ASSUME NEW r \in Replicas, LocalClaim(r) \/ ScheduledClaim(r)
      PROVE  CompletionInv'
  <2>1. /\ timer' = Completed(timer, fresh) /\ fresh' = fresh + 1 /\ req' = req
        /\ Running(timer)
        /\ Completions' = Completions \cup {EventOf(timer, fresh)}
    BY <1>4 DEF LocalClaim, LocalMatch, ScheduledClaim, Overdue, Complete, Completions
  <2>2. /\ timer'.id = timer.id /\ timer'.status = "completed"
        /\ EventOf(timer, fresh).id = timer.id
    BY <1>0, <2>1 DEF Completed, EventOf, Timer
  <2>3. \A e \in Completions : e.id # timer.id
    BY <2>1 DEF CompletionInv, Running
  <2> QED
    BY <1>0, <2>1, <2>2, <2>3 DEF CompletionInv, OneCompletionPerTimerId
<1>5. ASSUME Warn PROVE CompletionInv'
  <2>1. /\ timer' = Warned(timer, fresh) /\ fresh' = fresh + 1
        /\ UNCHANGED <<req, stream, locals>>
    BY <1>5 DEF Warn
  <2>2. timer'.id = timer.id /\ timer'.status = timer.status
    BY <1>0, <2>1 DEF Warned, Timer
  <2> QED
    BY <1>0, <2>1, <2>2 DEF CompletionInv, Completions, OneCompletionPerTimerId
<1>6. ASSUME NEW r \in Replicas, LocalClearHistory(r) PROVE CompletionInv'
  <2>1. fresh' = fresh + 1 /\ UNCHANGED <<timer, req, stream, locals>>
    BY <1>6 DEF LocalClearHistory
  <2> QED
    BY <1>0, <2>1 DEF CompletionInv, Completions, OneCompletionPerTimerId
<1>7. CASE Quiet
  BY <1>7 DEF Quiet, CompletionInv, Completions, OneCompletionPerTimerId
<1> QED
  BY <1>1, <1>2, <1>3, <1>4, <1>5, <1>6, <1>7, StepKinds

LEMMA CompletionHolds ==
    ASSUME "undo" \notin Ops
    PROVE  Spec => [](VersionInv /\ CompletionInv)
<1>1. Init => CompletionInv
  <2> SUFFICES ASSUME Init PROVE CompletionInv
    OBVIOUS
  <2>1. \A t \in LegacyTimers : t.id \in {0, 1}
    BY LegacyVersions
  <2>2. timer \in LegacyTimers /\ fresh = 2 /\ Completions = {}
        /\ \A c \in Clients : req[c] = NoRequest
    BY DEF Init, Completions
  <2>3. NoRequest.phase = "idle"
    BY DEF NoRequest
  <2> QED
    BY <2>1, <2>2, <2>3 DEF CompletionInv, OneCompletionPerTimerId
<1>2. VersionInv /\ CompletionInv /\ [Next]_vars => CompletionInv'
  BY CompletionInductive
<1> QED
  BY <1>1, <1>2, VersionsHold, PTL DEF Spec

\* However many countdowns, schedulers and handlers race, no Timer ID is
\* completed twice unless an undo brings it back.
THEOREM CompletedOnce ==
    ASSUME "undo" \notin Ops
    PROVE  Spec => []OneCompletionPerTimerId
<1>1. CompletionInv => OneCompletionPerTimerId
  BY DEF CompletionInv
<1> QED
  BY <1>1, CompletionHolds, PTL

\* A completed Timer stays completed for as long as it is the current one.
THEOREM NeverRevived ==
    ASSUME "undo" \notin Ops
    PROVE  Spec => CompletedStaysCompleted
<1>1. ASSUME VersionInv, CompletionInv, [Next]_vars,
             timer.status = "completed", timer'.id = timer.id
      PROVE  timer'.status = "completed"
  <2>0. timer \in Timer /\ timer.id < fresh /\ fresh \in Nat /\ timer.id \in Nat
    BY <1>1 DEF VersionInv, TypeOK, CompletionInv, Timer
  <2>1. ASSUME NEW c \in Clients, CommitWrite(c) PROVE timer'.status = "completed"
    BY <1>1, <2>0, <2>1, AdmittedWrite
  <2>2. ASSUME NEW r \in Replicas, LocalClaim(r) \/ ScheduledClaim(r)
        PROVE  timer'.status = "completed"
    <3>1. timer' = Completed(timer, fresh)
      BY <2>2 DEF LocalClaim, ScheduledClaim, Complete
    <3> QED
      BY <2>0, <3>1 DEF Completed, Timer
  <2>3. CASE Warn
    BY <1>1, <2>3 DEF Warn, Running
  <2>4. ASSUME NEW c \in Clients, NEW op \in Ops, NEW d \in Durations,
               Prepare(c, op, d)
        PROVE  timer'.status = "completed"
    BY <1>1, <2>4 DEF Prepare, store
  <2>5. ASSUME NEW c \in Clients, CommitConflict(c) \/ Abandon(c) \/ FollowUp(c)
        PROVE  timer'.status = "completed"
    BY <1>1, <2>5 DEF CommitConflict, Abandon, FollowUp, store
  <2>6. ASSUME NEW r \in Replicas, LocalClearHistory(r)
        PROVE  timer'.status = "completed"
    BY <1>1, <2>6 DEF LocalClearHistory
  <2>7. CASE Quiet
    BY <1>1, <2>7 DEF Quiet
  <2> QED
    BY <1>1, <2>1, <2>2, <2>3, <2>4, <2>5, <2>6, <2>7, StepKinds
<1>2. (VersionInv /\ CompletionInv) /\ [Next]_vars
        => [timer.status = "completed" /\ timer'.id = timer.id
              => timer'.status = "completed"]_vars
  BY <1>1
<1> QED
  BY <1>2, CompletionHolds, PTL DEF Spec, CompletedStaysCompleted

-----------------------------------------------------------------------------
(* The warning *)

\* A write that passes the compare-and-set keeps the warning, prolongs the Timer,
\* or replaces it.
LEMMA WriteKeepsWarning ==
    ASSUME VersionInv, CompletionInv, NEW c \in Clients, CommitWrite(c),
           timer.warned, timer'.id = timer.id, ~timer'.warned
    PROVE  timer'.dur > timer.dur
<1> DEFINE q == req[c]
           next == Computed(q, fresh)
<1>1. /\ q \in Request /\ timer \in Timer /\ fresh \in Nat /\ timer.id < fresh
      /\ timer.id \in Nat /\ timer.dur \in Nat /\ Increment \in Nat \ {0}
  BY RuntimeAssumption DEF VersionInv, TypeOK, CompletionInv, Timer
<1>2. q.phase = "prepared" /\ SameVersion(timer, q.seen) /\ q.op # "undo" /\ q.op \in AllOps
  BY <1>1 DEF CommitWrite, WriteAllowed, CompletionInv, Request
<1>3. q.seen = timer
  BY <1>2 DEF VersionInv, VersionIdentifies
<1>4. next \in Timer
  BY <1>1, ComputedType, RuntimeAssumption
<1>5. timer' = [next EXCEPT !.rev = fresh]
  BY DEF CommitWrite
<1>6. timer'.id = next.id /\ timer'.warned = next.warned /\ timer'.dur = next.dur
  BY <1>4, <1>5 DEF Timer
<1>7. q.op \notin {"start", "reset"}
  BY <1>1, <1>6 DEF Computed, NewTimer
<1>8. q.op \notin {"pause", "resume", "touch"}
  BY <1>1, <1>3, <1>6 DEF Computed, Resumed, Timer
<1>9. q.op = "extend"
  BY <1>2, <1>7, <1>8 DEF AllOps
<1> QED
  BY <1>1, <1>3, <1>6, <1>9, ComputedDuration

\* The warning of a Timer is never taken back by a write that did not see it: the
\* flag goes back with more time only.
THEOREM WarningStays ==
    ASSUME "undo" \notin Ops
    PROVE  Spec => WarningKept
<1>1. ASSUME VersionInv, CompletionInv, [Next]_vars,
             timer.warned, timer'.id = timer.id, ~timer'.warned
      PROVE  timer'.dur > timer.dur
  <2>0. timer \in Timer
    BY <1>1 DEF VersionInv, TypeOK
  <2>1. ASSUME NEW c \in Clients, CommitWrite(c) PROVE timer'.dur > timer.dur
    BY <1>1, <2>1, WriteKeepsWarning
  <2>2. ASSUME NEW r \in Replicas, LocalClaim(r) \/ ScheduledClaim(r) PROVE FALSE
    <3>1. timer' = Completed(timer, fresh)
      BY <2>2 DEF LocalClaim, ScheduledClaim, Complete
    <3> QED
      BY <1>1, <2>0, <3>1 DEF Completed, Timer
  <2>3. ~Warn
    BY <1>1 DEF Warn
  <2>4. timer' # timer
    BY <1>1
  <2>5. ASSUME NEW c \in Clients, NEW op \in Ops, NEW d \in Durations,
               Prepare(c, op, d)
        PROVE  FALSE
    BY <2>4, <2>5 DEF Prepare, store
  <2>6. ASSUME NEW c \in Clients, CommitConflict(c) \/ Abandon(c) \/ FollowUp(c)
        PROVE  FALSE
    BY <2>4, <2>6 DEF CommitConflict, Abandon, FollowUp, store
  <2>7. ASSUME NEW r \in Replicas, LocalClearHistory(r) PROVE FALSE
    BY <2>4, <2>7 DEF LocalClearHistory
  <2>8. ~Quiet
    BY <2>4 DEF Quiet
  <2> QED
    BY <1>1, <2>1, <2>2, <2>3, <2>5, <2>6, <2>7, <2>8, StepKinds
<1>2. (VersionInv /\ CompletionInv) /\ [Next]_vars
        => [timer.warned /\ timer'.id = timer.id /\ ~timer'.warned
              => timer'.dur > timer.dur]_vars
  BY <1>1
<1> QED
  BY <1>2, CompletionHolds, PTL DEF Spec, WarningKept

-----------------------------------------------------------------------------
(* Deadlines and the index *)

\* Both claim paths compare the stored deadline with the Redis clock themselves,
\* so a completion is never early, for any clock skew and any stale index.
THEOREM ClaimsNeverEarly == Spec => []NeverEarly
<1>1. Init => NeverEarly
  BY DEF Init, NeverEarly, Completions
<1>2. TypeOK /\ NeverEarly /\ [Next]_vars => NeverEarly'
  <2> SUFFICES ASSUME TypeOK, NeverEarly, [Next]_vars PROVE NeverEarly'
    OBVIOUS
  <2>1. ASSUME NEW r \in Replicas, LocalClaim(r) \/ ScheduledClaim(r) PROVE NeverEarly'
    <3>1. /\ Completions' = Completions \cup {EventOf(timer, fresh)}
          /\ now >= Deadline(timer)
      BY <2>1 DEF LocalClaim, ScheduledClaim, Overdue, Due, Completions
    <3>2. /\ EventOf(timer, fresh).completedAt = Deadline(timer)
          /\ EventOf(timer, fresh).claimedAt = now
          /\ now \in Int /\ Deadline(timer) \in Int
      BY DEF EventOf, TypeOK, Timer, Deadline
    <3> QED
      BY <3>1, <3>2 DEF NeverEarly
  <2>2. ASSUME UNCHANGED <<stream, locals>> PROVE NeverEarly'
    BY <2>2 DEF NeverEarly, Completions
  <2>3. ASSUME NEW c \in Clients, NEW op \in Ops, NEW d \in Durations,
               Prepare(c, op, d)
        PROVE  UNCHANGED <<stream, locals>>
    BY <2>3 DEF Prepare, store
  <2>4. ASSUME NEW c \in Clients, CommitWrite(c) PROVE UNCHANGED <<stream, locals>>
    BY <2>4 DEF CommitWrite
  <2>5. ASSUME NEW c \in Clients, CommitConflict(c) \/ Abandon(c) \/ FollowUp(c)
        PROVE  UNCHANGED <<stream, locals>>
    BY <2>5 DEF CommitConflict, Abandon, FollowUp, store
  <2>6. ASSUME NEW r \in Replicas, LocalClearHistory(r)
        PROVE  UNCHANGED <<stream, locals>>
    BY <2>6 DEF LocalClearHistory
  <2>7. CASE Warn \/ Quiet
    BY <2>2, <2>7 DEF Warn, Quiet
  <2> QED
    BY <2>1, <2>2, <2>3, <2>4, <2>5, <2>6, <2>7, StepKinds
<1> QED
  BY <1>1, <1>2, TypeCorrect, PTL DEF Spec

\* Reconciliation and repair bring the index in line.
LEMMA PassSyncs ==
    ASSUME timer \in Timer, NEW r \in Replicas, Reconcile(r) \/ ScheduledRepair(r)
    PROVE  InSync'
<1>1. timer' = timer
  BY DEF Reconcile, ScheduledRepair
<1>2. CASE Reconcile(r)
  <2>1. schedule' = Reconciled
    BY <1>2 DEF Reconcile
  <2> QED
    BY <1>1, <2>1 DEF InSync, Reconciled, IndexOf, Running, Timer
<1>3. CASE ScheduledRepair(r)
  <2>1. schedule' = IF timer.valid THEN IndexOf(timer) ELSE {}
    BY <1>3 DEF ScheduledRepair
  <2> QED
    BY <1>1, <2>1 DEF InSync, IndexOf, Running, Timer
<1> QED
  BY <1>2, <1>3

\* Once a write or a pass has brought the index in line it stays in line, so a
\* pass that ends under a lease that changed hands since is still right.
LEMMA InSyncStable ==
    ASSUME TypeOK, TypeOK', InSync, [Next]_vars
    PROVE  InSync'
<1>0. /\ timer \in Timer /\ timer' \in Timer /\ fresh \in Nat
      /\ req \in [Clients -> Request]
  BY DEF TypeOK
<1>1. ASSUME UNCHANGED <<timer, schedule>> PROVE InSync'
  BY <1>1 DEF InSync, Running, Deadline
<1>2. ASSUME schedule' = IndexOf(timer') PROVE InSync'
  BY <1>2 DEF InSync, IndexOf, Running, Deadline
<1>3. ASSUME NEW c \in Clients, CommitWrite(c) PROVE InSync'
  BY <1>2, <1>3 DEF CommitWrite
<1>4. ASSUME NEW r \in Replicas, LocalClaim(r) \/ ScheduledClaim(r) PROVE InSync'
  <2>1. timer' = Completed(timer, fresh) /\ schedule' = {}
    BY <1>4 DEF LocalClaim, ScheduledClaim, Complete
  <2>2. timer'.status = "completed"
    BY <1>0, <2>1 DEF Completed, Timer
  <2> QED
    BY <1>2, <2>1, <2>2 DEF IndexOf, Running
<1>5. ASSUME Warn PROVE InSync'
  <2>1. timer' = Warned(timer, fresh) /\ schedule' = {Deadline(timer)} /\ Running(timer)
    BY <1>5 DEF Warn
  <2>2. /\ timer'.status = "running"
        /\ timer'.start = timer.start /\ timer'.dur = timer.dur
    BY <1>0, <2>1 DEF Warned, Timer, Running
  <2> QED
    BY <1>2, <2>1, <2>2 DEF IndexOf, Running, Deadline
<1>6. ASSUME NEW r \in Replicas, LocalQuarantine(r) PROVE InSync'
  <2>1. timer' = timer /\ schedule' = {} /\ Running(timer) /\ ~timer.valid
    BY <1>6 DEF LocalQuarantine, LocalMatch
  <2> QED
    BY <2>1 DEF InSync, Running
<1>7. ASSUME NEW r \in Replicas, Reconcile(r) \/ ScheduledRepair(r) PROVE InSync'
  BY <1>0, <1>7, PassSyncs
<1>8. ASSUME NEW c \in Clients, NEW op \in Ops, NEW d \in Durations, Prepare(c, op, d)
      PROVE  UNCHANGED <<timer, schedule>>
  BY <1>8 DEF Prepare, store
<1>9. ASSUME NEW c \in Clients, CommitConflict(c) \/ Abandon(c) \/ FollowUp(c)
      PROVE  UNCHANGED <<timer, schedule>>
  BY <1>9 DEF CommitConflict, Abandon, FollowUp, store
<1>10. ASSUME NEW r \in Replicas, LocalRead(r) \/ LocalMiss(r) \/ LocalClearHistory(r)
       PROVE  UNCHANGED <<timer, schedule>>
  BY <1>10 DEF LocalRead, LocalMiss, LocalClearHistory, store
<1>11. ASSUME NEW r \in Replicas, ClaimLease(r) \/ NoticeLoss(r) \/ FinishScan(r)
       PROVE  UNCHANGED <<timer, schedule>>
  BY <1>11 DEF ClaimLease, NoticeLoss, FinishScan, store
<1>12. ASSUME NEW r \in Replicas, ReadDue(r) \/ ScheduledMiss(r) \/ Crash(r)
       PROVE  UNCHANGED <<timer, schedule>>
  BY <1>12 DEF ReadDue, ScheduledMiss, Crash, store
<1>13. CASE LeaseLapse \/ LeaseLost \/ Tick \/ SetMode
  BY <1>1, <1>13 DEF LeaseLapse, LeaseLost, Tick, SetMode, store
<1>14. CASE UNCHANGED vars
  BY <1>1, <1>14 DEF vars, store
<1> QED
  BY <1>1, <1>3, <1>4, <1>5, <1>6, <1>7, <1>8, <1>9, <1>10, <1>11, <1>12, <1>13, <1>14
     DEF Next, ClientStep, CountdownStep, SchedulerStep

\* A pass has looked at the account, and may or may not have ended.
Visited == ready \/ \E r \in Replicas : scan[r] # "idle"

\* Only a reconciliation makes an account visited.
LEMMA VisitedByReconcile ==
    ASSUME TypeOK, [Next]_vars, Visited'
    PROVE  Visited \/ \E r \in Replicas : Reconcile(r)
<1>0. scan \in [Replicas -> {"idle", "clean", "corrupt"}]
  BY DEF TypeOK
<1>1. ASSUME UNCHANGED <<ready, scan>> PROVE Visited
  BY <1>1 DEF Visited
<1>2. ASSUME NEW r \in Replicas, FinishScan(r) PROVE Visited
  BY <1>2 DEF FinishScan, Visited
<1>3. ASSUME NEW r \in Replicas, NoticeLoss(r) \/ Crash(r) PROVE Visited
  <2>1. /\ ready' = ready
        /\ \A s \in Replicas : scan'[s] # "idle" => scan[s] # "idle"
    BY <1>0, <1>3 DEF NoticeLoss, Crash
  <2> QED
    BY <2>1 DEF Visited
<1>4. ASSUME NEW c \in Clients, ClientStep(c) PROVE UNCHANGED <<ready, scan>>
  BY <1>4 DEF ClientStep, Prepare, CommitWrite, CommitConflict, FollowUp, Abandon,
              scheduler
<1>5. ASSUME NEW r \in Replicas, CountdownStep(r) PROVE UNCHANGED <<ready, scan>>
  BY <1>5 DEF CountdownStep, LocalRead, LocalMiss, LocalQuarantine, LocalClaim,
              LocalClearHistory, scheduler
<1>6. ASSUME NEW r \in Replicas,
             ClaimLease(r) \/ ReadDue(r) \/ ScheduledMiss(r) \/ ScheduledRepair(r)
               \/ ScheduledClaim(r)
      PROVE  UNCHANGED <<ready, scan>>
  BY <1>6 DEF ClaimLease, ReadDue, ScheduledMiss, ScheduledRepair, ScheduledClaim
<1>7. CASE Warn \/ LeaseLapse \/ LeaseLost \/ Tick \/ SetMode
  BY <1>1, <1>7 DEF Warn, LeaseLapse, LeaseLost, Tick, SetMode, scheduler
<1>8. CASE UNCHANGED vars
  BY <1>1, <1>8 DEF vars, scheduler
<1> QED
  BY <1>1, <1>2, <1>3, <1>4, <1>5, <1>6, <1>7, <1>8 DEF Next, SchedulerStep

\* After the rebuild the index member of the account is the deadline of its
\* running Timer, and nothing else, in every reachable state.
THEOREM IndexFollowsTimer == Spec => []ScheduleAgrees
<1> DEFINE Inv == Visited => InSync
<1>1. Init => Inv
  BY DEF Init, Visited
<1>2. TypeOK /\ TypeOK' /\ Inv /\ [Next]_vars => Inv'
  <2> SUFFICES ASSUME TypeOK, TypeOK', Inv, [Next]_vars, Visited' PROVE InSync'
    OBVIOUS
  <2>1. CASE Visited
    BY <2>1, InSyncStable
  <2>2. ASSUME NEW r \in Replicas, Reconcile(r) PROVE InSync'
    BY <2>2, PassSyncs DEF TypeOK
  <2> QED
    BY <2>1, <2>2, VisitedByReconcile
<1>3. Inv => ScheduleAgrees
  BY DEF Visited, ScheduleAgrees
<1> QED
  BY <1>1, <1>2, <1>3, TypeCorrect, PTL DEF Spec

-----------------------------------------------------------------------------
(* The countdown: its inductive invariant *)

TimerType == [id : Nat, begun : Nat, rev : Nat, running : BOOLEAN, stage : 0..2, warned : BOOLEAN]
HandleType ==
    [at : {"none", "boot", "booting", "check", "checking", "claiming", "dead"},
     id : Nat, begun : Nat, rev : Nat]
StartType == [at : {"off", "prefs", "activate", "verify"}, id : Nat, rev : Nat]
CompletionType ==
    [at : {"off", "claim", "effects", "rest", "done"}, id : Nat, begun : Nat, rev : Nat,
     rearms : BOOLEAN]

CountdownTypes ==
    /\ counted \in TimerType /\ handle \in HandleType
    /\ late \in SUBSET [id : Nat, begun : Nat]
    /\ start \in StartType /\ completion \in CompletionType
    /\ ours \in BOOLEAN /\ abandoned \in BOOLEAN /\ writes \in Nat /\ troubles \in Nat

\* Every write revises the Timer, and nothing knows of a revision to come.
Ages ==
    /\ counted.rev = writes /\ counted.id <= writes /\ counted.begun <= writes
    /\ handle.id <= handle.rev /\ handle.rev <= writes /\ handle.begun <= writes
    /\ start.rev <= writes
    /\ completion.id <= completion.rev /\ completion.rev <= writes /\ completion.begun <= writes
    /\ \A c \in late : c.begun <= writes

\* The handle that is none is NoHandle, and a dead one is accounted for.
Shapes == (handle.at = "none" => handle = NoHandle) /\ (handle.at = "dead" => abandoned)

\* A handle past its start-up, which has seen the Timer at its revision.
Watches == handle.at \in {"check", "checking", "claiming"}

\* What it has seen is so as long as the Timer is not revised.
SeesTimer ==
    Watches /\ handle.rev = counted.rev =>
        /\ counted.running /\ handle.id = counted.id /\ handle.begun = counted.begun
        /\ handle.at = "claiming" => counted.stage > 0 /\ ~counted.warned

\* A start under way will find the Timer it was asked for.
Starting == start.at \in {"prefs", "activate"} /\ StartedTimer

\* A warning claim that was sent for a handle since replaced revises no Timer that
\* is being started, or was just put in place: unless the present handle watches it.
LateOnes ==
    counted.rev = counted.id \/ Starting =>
        /\ \A c \in late :
               c.id = counted.id /\ c.begun = counted.begun /\ ~counted.warned =>
                   Watches /\ handle.rev = counted.rev
        /\ Watches /\ handle.id = counted.id /\ handle.begun = counted.begun =>
               handle.rev = counted.rev

\* The completion under way will claim the Timer.
Claims ==
    /\ completion.at = "claim" /\ counted.running /\ counted.stage = 2
    /\ counted.id = completion.id /\ counted.begun = completion.begun

\* Without a handle, somebody is at work on the Timer who leaves it with one.
Attended ==
    handle = NoHandle /\ counted.running /\ ours /\ ~abandoned =>
        \/ Starting
        \/ completion.rearms
        \/ Claims

CountdownInv == CountdownTypes /\ Ages /\ Shapes /\ SeesTimer /\ LateOnes /\ Attended

-----------------------------------------------------------------------------
(* Types *)

\* The records the actions make.
LEMMA Records ==
    ASSUME CountdownTypes
    PROVE  /\ NoHandle \in HandleType /\ NoStart \in StartType /\ NoCompletion \in CompletionType
           /\ Fresh \in Nat /\ Fresh > writes
           /\ \A running \in BOOLEAN : AnotherTimer(running) \in TimerType
           /\ \A at \in {"boot", "check"} : \A t \in TimerType : Armed(at, t) \in HandleType
           /\ \A at \in {"boot", "check"} : Armed(at, completion) \in HandleType
           /\ \A t \in TimerType, rearms \in BOOLEAN : Completing(t, rearms) \in CompletionType
           /\ Sent \in SUBSET [id : Nat, begun : Nat]
           /\ WarnedTimer \in TimerType
           /\ \A t \in Rewritten : t \in TimerType
<1>1. Fresh \in Nat /\ Fresh > writes
  BY DEF CountdownTypes, Fresh
<1>2. /\ NoHandle \in HandleType /\ NoStart \in StartType /\ NoCompletion \in CompletionType
      /\ Sent \in SUBSET [id : Nat, begun : Nat]
  BY DEF CountdownTypes, NoHandle, HandleType, NoStart, StartType, NoCompletion, CompletionType, Sent
<1>3. \A running \in BOOLEAN : AnotherTimer(running) \in TimerType
  BY <1>1 DEF AnotherTimer, TimerType
<1>4. \A at \in {"boot", "check"} : \A t \in TimerType : Armed(at, t) \in HandleType
  BY DEF TimerType, Armed, HandleType
<1>5. \A at \in {"boot", "check"} : Armed(at, completion) \in HandleType
  BY DEF CountdownTypes, CompletionType, Armed, HandleType
<1>6. \A t \in TimerType, rearms \in BOOLEAN : Completing(t, rearms) \in CompletionType
  BY DEF TimerType, Completing, CompletionType
<1>7. WarnedTimer \in TimerType
  BY <1>1 DEF CountdownTypes, WarnedTimer, TimerType
<1>8. ASSUME NEW t \in Rewritten PROVE t \in TimerType
  <2>0. counted \in TimerType
    BY DEF CountdownTypes
  <2>1. /\ [counted EXCEPT !.rev = Fresh] \in TimerType
        /\ [counted EXCEPT !.rev = Fresh, !.stage = 0, !.warned = FALSE] \in TimerType
    <3>1. [counted EXCEPT !.rev = Fresh] \in TimerType
      BY <1>1, <2>0 DEF TimerType
    <3>2. [counted EXCEPT !.rev = Fresh, !.stage = 0, !.warned = FALSE] \in TimerType
      <4>1. 0 \in 0..2 /\ FALSE \in BOOLEAN
        OBVIOUS
      <4> QED
        BY <1>1, <2>0, <4>1, Zenon DEF TimerType
    <3> QED
      BY <3>1, <3>2
  <2>2. \A b \in BOOLEAN :
            [counted EXCEPT !.rev = Fresh, !.begun = Fresh, !.running = b] \in TimerType
    BY <1>1, <2>0 DEF TimerType
  <2>3. (~counted.running) \in BOOLEAN
    <3>1. counted.running \in BOOLEAN
      BY <2>0 DEF TimerType
    <3> QED
      BY <3>1
  <2> QED
    BY <1>3, <2>1, <2>2, <2>3 DEF Rewritten
<1> QED
  BY <1>1, <1>2, <1>3, <1>4, <1>5, <1>6, <1>7, <1>8

\* Same fields but for the revision.
Same(t, u) == t.id = u.id /\ t.begun = u.begun

\* The fields of the records that are made of others.
LEMMA Fields ==
    ASSUME CountdownTypes
    PROVE  /\ Same(WarnedTimer, counted) /\ WarnedTimer.rev = Fresh /\ WarnedTimer.warned
           /\ WarnedTimer.running = counted.running /\ WarnedTimer.stage = counted.stage
           /\ \A at : /\ Same([handle EXCEPT !.at = at], handle)
                      /\ [handle EXCEPT !.at = at].rev = handle.rev
                      /\ [handle EXCEPT !.at = at].at = at
           /\ \A at : /\ Same([completion EXCEPT !.at = at], completion)
                      /\ [completion EXCEPT !.at = at].rev = completion.rev
                      /\ [completion EXCEPT !.at = at].rearms = completion.rearms
                      /\ [completion EXCEPT !.at = at].at = at
           /\ \A at, t : /\ Same(Armed(at, t), t)
                         /\ Armed(at, t).rev = t.rev /\ Armed(at, t).at = at
<1>1. Same(WarnedTimer, counted) /\ WarnedTimer.rev = Fresh /\ WarnedTimer.warned
  BY DEF CountdownTypes, TimerType, WarnedTimer, Same
<1>2. WarnedTimer.running = counted.running /\ WarnedTimer.stage = counted.stage
  BY DEF CountdownTypes, TimerType, WarnedTimer
<1>3. ASSUME NEW at
      PROVE  /\ Same([handle EXCEPT !.at = at], handle)
             /\ [handle EXCEPT !.at = at].rev = handle.rev
             /\ [handle EXCEPT !.at = at].at = at
  BY DEF CountdownTypes, HandleType, Same
<1>4. ASSUME NEW at
      PROVE  /\ Same([completion EXCEPT !.at = at], completion)
             /\ [completion EXCEPT !.at = at].rev = completion.rev
             /\ [completion EXCEPT !.at = at].rearms = completion.rearms
             /\ [completion EXCEPT !.at = at].at = at
  BY DEF CountdownTypes, CompletionType, Same
<1>5. \A at, t : /\ Same(Armed(at, t), t)
                /\ Armed(at, t).rev = t.rev /\ Armed(at, t).at = at
  BY DEF Armed, Same
<1> QED
  BY <1>1, <1>2, <1>3, <1>4, <1>5

\* What a request makes of the Timer is revised, and begun anew if it is another one.
LEMMA Revised ==
    ASSUME CountdownTypes, NEW t \in Rewritten
    PROVE  /\ t \in TimerType /\ t.rev = Fresh
           /\ \/ t.id = counted.id /\ t.begun \in {counted.begun, Fresh}
              \/ t.id = Fresh /\ t.begun = Fresh
<1>1. t \in TimerType
  BY Records
<1>2. ASSUME NEW running \in BOOLEAN, t = AnotherTimer(running)
      PROVE  t.rev = Fresh /\ t.id = Fresh /\ t.begun = Fresh
  BY <1>2 DEF AnotherTimer
<1>3. ASSUME t = [counted EXCEPT !.rev = Fresh]
      PROVE  t.rev = Fresh /\ t.id = counted.id /\ t.begun = counted.begun
  BY <1>3 DEF CountdownTypes, TimerType
<1>4. ASSUME t = [counted EXCEPT !.rev = Fresh, !.stage = 0, !.warned = FALSE]
      PROVE  t.rev = Fresh /\ t.id = counted.id /\ t.begun = counted.begun
  BY <1>4 DEF CountdownTypes, TimerType
<1>5. ASSUME t = [counted EXCEPT !.rev = Fresh, !.begun = Fresh, !.running = ~counted.running]
      PROVE  t.rev = Fresh /\ t.id = counted.id /\ t.begun = Fresh
  BY <1>5 DEF CountdownTypes, TimerType
<1> QED
  BY <1>1, <1>2, <1>3, <1>4, <1>5 DEF Rewritten

\* Every variable keeps its type.
LEMMA TypesKept == CountdownTypes /\ [CountdownNext]_countdownVars => CountdownTypes'
<1> SUFFICES ASSUME CountdownTypes, [CountdownNext]_countdownVars PROVE CountdownTypes'
  OBVIOUS
<1>0. /\ NoHandle \in HandleType /\ NoStart \in StartType /\ NoCompletion \in CompletionType
      /\ Fresh \in Nat
      /\ \A running \in BOOLEAN : AnotherTimer(running) \in TimerType
      /\ \A at \in {"boot", "check"} : \A t \in TimerType : Armed(at, t) \in HandleType
      /\ \A at \in {"boot", "check"} : Armed(at, completion) \in HandleType
      /\ \A t \in TimerType, rearms \in BOOLEAN : Completing(t, rearms) \in CompletionType
      /\ Sent \in SUBSET [id : Nat, begun : Nat]
      /\ WarnedTimer \in TimerType
      /\ \A t \in Rewritten : t \in TimerType
  BY Records
<1>1. CASE Commit
  BY <1>0, <1>1 DEF Commit, Write, Handle, Refreshed, Armed, CountdownTypes
<1>2. CASE CommitRestart
  BY <1>0, <1>2 DEF CommitRestart, Write, Handle, NoHandle, TimerType, StartType, CountdownTypes
<1>3. CASE RemoteWrite
  <2>1. PICK t \in Rewritten \cup {[counted EXCEPT !.rev = Fresh, !.warned = TRUE]} :
            counted' = t /\ writes' = Fresh
    BY <1>3 DEF RemoteWrite, Write
  <2>2. t \in TimerType
    BY <1>0, <2>1 DEF WarnedTimer, CountdownTypes, TimerType
  <2> QED
    BY <1>0, <1>3, <2>1, <2>2 DEF RemoteWrite, CountdownTypes
<1>4. CASE Pass
  BY <1>0, <1>4 DEF Pass, TimerType, CountdownTypes
<1>5. CASE Activate
  <2>1. start' \in StartType
    BY <1>0, <1>5 DEF Activate, CountdownTypes, TimerType, StartType
  <2>2. handle' \in HandleType /\ late' \in SUBSET [id : Nat, begun : Nat]
        /\ abandoned' \in BOOLEAN
    <3>1. CASE Handle(NoHandle)
      BY <1>0, <3>1 DEF CountdownTypes, Handle, NoHandle
    <3>2. CASE UNCHANGED <<handle, late, abandoned>>
      BY <3>2 DEF CountdownTypes
    <3> QED
      BY <1>5, <3>1, <3>2 DEF Activate
  <2> QED
    BY <1>5, <2>1, <2>2 DEF Activate, CountdownTypes
<1>6. CASE StartEnds
  BY <1>0, <1>6 DEF StartEnds, Handle, StartType, CountdownTypes
<1>7. CASE Verify
  <2>1. counted.running \in BOOLEAN
    BY DEF CountdownTypes, TimerType
  <2> QED
    BY <1>0, <1>7, <2>1 DEF Verify, CountdownTypes
<1>8. CASE StartFails
  BY <1>0, <1>8 DEF StartFails, Trouble, CountdownTypes
<1>9. CASE Fire
  BY <1>0, <1>9 DEF Fire, Proceed, HandleType, CountdownTypes
<1>10. CASE BootstrapEnds
  BY <1>0, <1>10 DEF BootstrapEnds, Handle, CountdownTypes
<1>11. CASE CheckEnds
  BY <1>0, <1>11 DEF CheckEnds, Handle, Otherwise, Proceed, HandleType, CountdownTypes
<1>12. CASE ClaimWarning
  BY <1>0, <1>12 DEF ClaimWarning, Write, CountdownTypes
<1>13. CASE CheckFails
  BY <1>0, <1>13 DEF CheckFails, Trouble, Proceed, Write, HandleType, CountdownTypes
<1>14. ASSUME NEW c \in late, LateClaim(c) PROVE CountdownTypes'
  BY <1>0, <1>14 DEF LateClaim, Write, CountdownTypes
<1>15. CASE ClaimCompletion
  <2>1. [counted EXCEPT !.running = FALSE, !.rev = Fresh] \in TimerType
    <3>1. counted \in TimerType /\ FALSE \in BOOLEAN
      BY DEF CountdownTypes
    <3> QED
      BY <1>0, <3>1 DEF TimerType
  <2>2. \A at \in {"effects", "done"} : [completion EXCEPT !.at = at] \in CompletionType
    BY DEF CountdownTypes, CompletionType
  <2>3. completion' \in CompletionType /\ counted' \in TimerType /\ writes' \in Nat
    BY <1>0, <1>15, <2>1, <2>2 DEF ClaimCompletion, Write, CountdownTypes
  <2> QED
    BY <1>15, <2>3 DEF ClaimCompletion, CountdownTypes
<1>16. CASE NextTimer
  BY <1>0, <1>16 DEF NextTimer, Write, Handle, Refreshed, CompletionType, CountdownTypes
<1>17. CASE CompletionEnds
  BY <1>0, <1>17 DEF CompletionEnds, AfterCompletion, Handle, CountdownTypes
<1>18. CASE CompletionFails
  <2>1. AfterCompletion \in HandleType
    BY <1>0 DEF AfterCompletion, CountdownTypes
  <2>2. CASE Handle(AfterCompletion)
    <3>1. handle' \in HandleType /\ late' \in SUBSET [id : Nat, begun : Nat]
          /\ abandoned' \in BOOLEAN
      BY <1>0, <2>1, <2>2 DEF Handle, CountdownTypes
    <3>2. completion' \in CompletionType /\ troubles' \in Nat
          /\ UNCHANGED <<counted, start, ours, writes>>
      BY <1>0, <1>18 DEF CompletionFails, Trouble, CountdownTypes
    <3> QED
      BY <3>1, <3>2 DEF CountdownTypes
  <2>3. CASE /\ abandoned' = (abandoned \/ (~completion.rearms /\ handle = NoHandle))
             /\ UNCHANGED <<handle, late>>
    <3>1. abandoned' \in BOOLEAN
      BY <2>3, Zenon
    <3> QED
      BY <1>0, <1>18, <2>3, <3>1 DEF CompletionFails, Trouble, CountdownTypes
  <2> QED
    BY <1>18, <2>2, <2>3 DEF CompletionFails
<1>19. CASE StartUp
  <2>1. start' \in StartType
    BY <1>0, <1>19 DEF StartUp, CountdownTypes, TimerType, StartType
  <2>2. completion' \in CompletionType
    <3>1. Completing(counted, FALSE) \in CompletionType
      BY <1>0 DEF CountdownTypes
    <3>2. completion' = Completing(counted, FALSE) \/ completion' = NoCompletion
      BY <1>19 DEF StartUp
    <3> QED
      BY <1>0, <3>1, <3>2
  <2>3. handle' \in HandleType /\ late' \in SUBSET [id : Nat, begun : Nat] /\ troubles' \in Nat
    BY <1>0, <1>19 DEF StartUp, Trouble, CountdownTypes
  <2>4. ours' \in BOOLEAN /\ abandoned' \in BOOLEAN /\ UNCHANGED <<counted, writes>>
    BY <1>19, Zenon DEF StartUp
  <2> QED
    BY <2>1, <2>2, <2>3, <2>4 DEF CountdownTypes
<1>20. CASE UNCHANGED countdownVars
  BY <1>20 DEF countdownVars, CountdownTypes
<1> QED
  BY <1>1, <1>2, <1>3, <1>4, <1>5, <1>6, <1>7, <1>8, <1>9, <1>10, <1>11, <1>12, <1>13, <1>14, <1>15, <1>16, <1>17, <1>18, <1>19, <1>20 DEF CountdownNext

\* What the actions see of the invariant and of the records.
LEMMA Numbers ==
    ASSUME CountdownTypes
    PROVE  /\ {counted.id, counted.begun, counted.rev, handle.id, handle.begun, handle.rev,
               start.id, start.rev, completion.id, completion.begun, completion.rev,
               writes} \subseteq Nat
           /\ \A c \in late : c.id \in Nat /\ c.begun \in Nat
           /\ Fresh = writes + 1
           /\ NoHandle.id = 0 /\ NoHandle.begun = 0 /\ NoHandle.rev = 0 /\ NoHandle.at = "none"
           /\ NoStart.rev = 0 /\ NoStart.at = "off"
           /\ NoCompletion.id = 0 /\ NoCompletion.begun = 0 /\ NoCompletion.rev = 0
           /\ NoCompletion.at = "off" /\ ~NoCompletion.rearms
BY DEF CountdownTypes, TimerType, HandleType, StartType, CompletionType, Fresh, NoHandle, NoStart,
       NoCompletion

\* A replaced handle leaves its claim.
LEMMA SentAges == ASSUME CountdownTypes, Ages PROVE \A c \in Sent : c.begun <= writes
BY DEF Sent, Ages

\* A step leaves the Timer's revision alone, or makes the next one: of the same Timer,
\* resumed or not, or of another.
LEMMA TimerMoves ==
    ASSUME CountdownTypes, [CountdownNext]_countdownVars
    PROVE  \/ /\ Same(counted', counted) /\ counted'.rev = counted.rev /\ writes' = writes
              /\ counted'.running = counted.running /\ counted'.warned = counted.warned
           \/ /\ writes' = Fresh /\ counted'.rev = Fresh
              /\ \/ counted'.id = counted.id /\ counted'.begun \in {counted.begun, Fresh}
                 \/ counted'.id = Fresh /\ counted'.begun = Fresh
<1> DEFINE Stays ==
        /\ Same(counted', counted) /\ counted'.rev = counted.rev /\ writes' = writes
        /\ counted'.running = counted.running /\ counted'.warned = counted.warned
<1> DEFINE Goes ==
        /\ writes' = Fresh /\ counted'.rev = Fresh
        /\ \/ counted'.id = counted.id /\ counted'.begun \in {counted.begun, Fresh}
           \/ counted'.id = Fresh /\ counted'.begun = Fresh
<1>0. counted \in TimerType
  BY DEF CountdownTypes
<1>1. ASSUME counted' = counted, writes' = writes PROVE Stays
  BY <1>1 DEF Same
<1>2. ASSUME NEW t \in Rewritten, Write(t) PROVE Goes
  BY <1>2, Revised DEF Write
<1>3. ASSUME Write(WarnedTimer) PROVE Goes
  BY <1>3, Fields DEF Write, Same
<1>4. CASE Pass
  BY <1>0, <1>4 DEF Pass, TimerType, Same
<1>5. CASE CommitRestart
  <2>1. PICK id \in {counted.id, Fresh}, stage \in 0..1 :
            /\ writes' = Fresh
            /\ counted' = [id |-> id, begun |-> Fresh, rev |-> Fresh, running |-> TRUE, stage |-> stage,
                          warned |-> stage = 1 /\ counted.warned]
    BY <1>5 DEF CommitRestart, Write
  <2> QED
    BY <2>1
<1>6. CASE RemoteWrite
  <2>1. PICK t \in Rewritten \cup {[counted EXCEPT !.rev = Fresh, !.warned = TRUE]} : Write(t)
    BY <1>6 DEF RemoteWrite
  <2>2. CASE t \in Rewritten
    BY <1>2, <2>1, <2>2
  <2>3. CASE t = [counted EXCEPT !.rev = Fresh, !.warned = TRUE]
    <3>1. t.rev = Fresh /\ t.id = counted.id /\ t.begun = counted.begun
      BY <1>0, <2>3 DEF TimerType
    <3> QED
      BY <2>1, <3>1 DEF Write
  <2> QED
    BY <2>1, <2>2, <2>3
<1>7. CASE ClaimCompletion
  <2>1. CASE Write([counted EXCEPT !.running = FALSE, !.rev = Fresh])
    <3> DEFINE t == [counted EXCEPT !.running = FALSE, !.rev = Fresh]
    <3>1. t.rev = Fresh /\ t.id = counted.id /\ t.begun = counted.begun
      BY <1>0 DEF TimerType
    <3> QED
      BY <2>1, <3>1 DEF Write
  <2> QED
    BY <1>1, <1>7, <2>1 DEF ClaimCompletion
<1>8. CASE NextTimer
  BY <1>8 DEF NextTimer, Write, AnotherTimer
<1>9. CASE Commit
  BY <1>2, <1>9 DEF Commit
<1>10. CASE ClaimWarning \/ CheckFails \/ \E c \in late : LateClaim(c)
  BY <1>1, <1>3, <1>10 DEF ClaimWarning, CheckFails, LateClaim
<1>11. CASE \/ Activate \/ StartEnds \/ Verify \/ StartFails \/ Fire \/ BootstrapEnds \/ CheckEnds
            \/ CompletionEnds \/ CompletionFails \/ StartUp
  BY <1>1, <1>11
  DEF Activate, StartEnds, Verify, StartFails, Fire, BootstrapEnds, CheckEnds,
      CompletionEnds, CompletionFails, StartUp
<1>12. CASE UNCHANGED countdownVars
  BY <1>1, <1>12 DEF countdownVars
<1> QED
  BY <1>4, <1>5, <1>6, <1>7, <1>8, <1>9, <1>10, <1>11, <1>12 DEF CountdownNext

\* The handle is the Timer's, the completion's, or the one it was.
LEMMA HandleMoves ==
    ASSUME CountdownTypes, [CountdownNext]_countdownVars
    PROVE  \/ handle' \in {handle, NoHandle}
           \/ \E at : /\ handle' = [handle EXCEPT !.at = at]
                      /\ at \in {"check", "checking", "claiming"} => Watches
           \/ \E at \in {"boot", "check"} : handle' = Armed(at, counted')
           \/ handle' = Armed("boot", completion)
<1>1. CASE Commit \/ NextTimer
  BY <1>1 DEF Commit, NextTimer, Handle, Refreshed, Write
<1>2. CASE \/ CommitRestart \/ Activate \/ StartEnds \/ Verify \/ BootstrapEnds \/ ClaimWarning \/ StartUp
  BY <1>2 DEF CommitRestart, Activate, StartEnds, Verify, BootstrapEnds, ClaimWarning, StartUp, Handle, Write
<1>3. CASE CheckEnds
  BY <1>3 DEF CheckEnds, Handle, Otherwise, Proceed, Watches
<1>4. CASE CompletionEnds \/ CompletionFails
  BY <1>4 DEF CompletionEnds, CompletionFails, AfterCompletion, Handle
<1>5. CASE Fire \/ CheckFails
  BY <1>5 DEF Fire, CheckFails, Proceed, Watches
<1>6. CASE RemoteWrite \/ Pass \/ StartFails \/ ClaimCompletion \/ \E c \in late : LateClaim(c)
  BY <1>6 DEF RemoteWrite, Pass, StartFails, ClaimCompletion, LateClaim
<1>7. CASE UNCHANGED countdownVars
  BY <1>7 DEF countdownVars
<1> QED
  BY <1>1, <1>2, <1>3, <1>4, <1>5, <1>6, <1>7 DEF CountdownNext

\* A claim comes late because its handle is replaced.
LEMMA LateMoves ==
    ASSUME CountdownTypes, [CountdownNext]_countdownVars
    PROVE  late' \subseteq late \cup Sent
<1>1. CASE Commit \/ CommitRestart \/ NextTimer \/ StartEnds \/ BootstrapEnds
  BY <1>1 DEF Commit, CommitRestart, NextTimer, StartEnds, BootstrapEnds, Handle
<1>2. CASE CheckEnds \/ Fire \/ CheckFails
  BY <1>2 DEF CheckEnds, Fire, CheckFails, Handle, Proceed
<1>3. CASE Activate \/ Verify \/ StartUp \/ ClaimWarning \/ \E c \in late : LateClaim(c)
  BY <1>3 DEF Activate, Verify, StartUp, ClaimWarning, LateClaim, Handle
<1>4. CASE CompletionEnds \/ CompletionFails
  BY <1>4 DEF CompletionEnds, CompletionFails, Handle
<1>5. CASE RemoteWrite \/ Pass \/ StartFails \/ ClaimCompletion
  BY <1>5 DEF RemoteWrite, Pass, StartFails, ClaimCompletion
<1>6. CASE UNCHANGED countdownVars
  BY <1>6 DEF countdownVars
<1> QED
  BY <1>1, <1>2, <1>3, <1>4, <1>5, <1>6 DEF CountdownNext

\* A start is of the Timer there is.
LEMMA StartMoves ==
    ASSUME CountdownTypes, [CountdownNext]_countdownVars
    PROVE  \/ start' = NoStart
           \/ start'.rev = start.rev
           \/ start'.rev = counted'.rev /\ (counted' = counted \/ counted'.begun = Fresh)
<1>1. CASE CommitRestart
  BY <1>1 DEF CommitRestart, Write
<1>2. CASE StartEnds
  BY <1>2 DEF StartEnds, CountdownTypes, StartType
<1>3. CASE Activate
  BY <1>3 DEF Activate
<1>6. CASE Verify \/ StartFails
  BY <1>6 DEF Verify, StartFails
<1>7. CASE StartUp
  BY <1>7 DEF StartUp
<1>4. CASE start' = start
  BY <1>4
<1>5. CASE \/ Commit \/ RemoteWrite \/ Pass \/ Fire \/ BootstrapEnds \/ CheckEnds \/ ClaimWarning
           \/ CheckFails \/ ClaimCompletion \/ NextTimer \/ CompletionEnds \/ CompletionFails
           \/ (\E c \in late : LateClaim(c)) \/ UNCHANGED countdownVars
  BY <1>4, <1>5
  DEF Commit, RemoteWrite, Pass, Fire, BootstrapEnds, CheckEnds, ClaimWarning, CheckFails,
      ClaimCompletion, NextTimer, CompletionEnds, CompletionFails, LateClaim, countdownVars
<1> QED
  BY <1>1, <1>2, <1>3, <1>5, <1>6, <1>7 DEF CountdownNext

\* So is a completion.
LEMMA CompletionMoves ==
    ASSUME CountdownTypes, [CountdownNext]_countdownVars
    PROVE  \/ completion' = NoCompletion
           \/ Same(completion', completion) /\ completion'.rev = completion.rev
           \/ Same(completion', counted') /\ completion'.rev = counted'.rev
<1>1. CASE CheckEnds \/ StartUp
  BY <1>1 DEF CheckEnds, StartUp, Completing, Same
<1>2. CASE ClaimCompletion
  <2>1. PICK at : completion' = [completion EXCEPT !.at = at]
    BY <1>2 DEF ClaimCompletion
  <2> QED
    BY <2>1, Fields
<1>3. CASE NextTimer
  BY <1>3, Fields DEF NextTimer
<1>4. CASE CompletionEnds \/ CompletionFails
  BY <1>4 DEF CompletionEnds, CompletionFails
<1>5. CASE completion' = completion
  BY <1>5 DEF Same
<1>6. CASE \/ Commit \/ CommitRestart \/ RemoteWrite \/ Pass \/ Activate \/ StartEnds \/ Verify
           \/ StartFails \/ Fire \/ BootstrapEnds \/ ClaimWarning \/ CheckFails
           \/ (\E c \in late : LateClaim(c)) \/ UNCHANGED countdownVars
  BY <1>5, <1>6
  DEF Commit, CommitRestart, RemoteWrite, Pass, Activate, StartEnds, Verify, StartFails, Fire,
      BootstrapEnds, ClaimWarning, CheckFails, LateClaim, countdownVars
<1> QED
  BY <1>1, <1>2, <1>3, <1>4, <1>6 DEF CountdownNext

\* No action knows of a revision to come.
LEMMA AgesKept ==
    ASSUME CountdownTypes, Ages, [CountdownNext]_countdownVars
    PROVE  Ages'
<1>0. /\ {counted.id, counted.begun, counted.rev, handle.id, handle.begun, handle.rev,
          start.id, start.rev, completion.id, completion.begun, completion.rev,
          writes} \subseteq Nat
      /\ \A c \in late : c.begun \in Nat
      /\ Fresh = writes + 1
      /\ NoHandle.id = 0 /\ NoHandle.begun = 0 /\ NoHandle.rev = 0
      /\ NoStart.rev = 0
      /\ NoCompletion.id = 0 /\ NoCompletion.begun = 0 /\ NoCompletion.rev = 0
  BY Numbers
<1>1. /\ counted'.rev = writes' /\ counted'.id <= writes' /\ counted'.begun <= writes'
      /\ writes <= writes' /\ {counted'.id, counted'.begun, writes'} \subseteq Nat
  BY <1>0, TimerMoves DEF Same, Ages
<1>2. handle'.id <= handle'.rev /\ handle'.rev <= writes' /\ handle'.begun <= writes'
  <2>1. CASE handle' \in {handle, NoHandle}
    BY <1>0, <1>1, <2>1 DEF Ages
  <2>2. ASSUME NEW at, handle' = [handle EXCEPT !.at = at] PROVE Same(handle', handle) /\ handle'.rev = handle.rev
    BY <2>2, Fields
  <2>3. ASSUME NEW at, handle' = Armed(at, counted') PROVE Same(handle', counted') /\ handle'.rev = counted'.rev
    BY <2>3, Fields
  <2>4. ASSUME handle' = Armed("boot", completion)
        PROVE  Same(handle', completion) /\ handle'.rev = completion.rev
    BY <2>4, Fields
  <2> QED
    BY <1>0, <1>1, <2>1, <2>2, <2>3, <2>4, HandleMoves DEF Same, Ages
<1>3. start'.rev <= writes'
  BY <1>0, <1>1, StartMoves DEF Ages
<1>4. completion'.id <= completion'.rev /\ completion'.rev <= writes' /\ completion'.begun <= writes'
  BY <1>0, <1>1, CompletionMoves DEF Same, Ages
<1>5. \A c \in late' : c.begun <= writes'
  <2> SUFFICES ASSUME NEW c \in late' PROVE c.begun <= writes'
    OBVIOUS
  <2>1. c.begun \in Nat /\ c.begun <= writes
    BY <1>0, LateMoves, SentAges DEF Sent, Ages
  <2> QED
    BY <1>0, <1>1, <2>1
<1> QED
  BY <1>1, <1>2, <1>3, <1>4, <1>5 DEF Ages

\* A handle is none in one way only, and dead for a reason.
LEMMA ShapesKept ==
    ASSUME CountdownTypes, Shapes, [CountdownNext]_countdownVars
    PROVE  Shapes'
<1>1. ASSUME handle' = NoHandle PROVE Shapes'
  BY <1>1, Numbers DEF Shapes
<1>2. ASSUME NEW at \in {"boot", "check"}, NEW t, handle' = Armed(at, t) PROVE Shapes'
  <2>1. handle'.at = at
    BY <1>2, Fields
  <2> QED
    BY <2>1 DEF Shapes
<1>3. ASSUME NEW at \in {"boot", "booting", "check", "checking", "claiming"},
             handle' = [handle EXCEPT !.at = at]
      PROVE  Shapes'
  <2>1. handle'.at = at
    BY <1>3, Fields
  <2> QED
    BY <2>1 DEF Shapes
<1>4. ASSUME handle' = handle, abandoned => abandoned' PROVE Shapes'
  BY <1>4 DEF Shapes
<1>5. CASE Commit \/ CommitRestart \/ NextTimer
  BY <1>1, <1>2, <1>5 DEF Commit, CommitRestart, NextTimer, Handle, Refreshed
<1>6. CASE Activate \/ StartEnds \/ Verify \/ BootstrapEnds \/ StartUp \/ ClaimWarning
  BY <1>1, <1>2, <1>4, <1>6
  DEF Activate, StartEnds, Verify, BootstrapEnds, StartUp, ClaimWarning, Handle
<1>7. CASE StartFails
  BY <1>4, <1>7 DEF StartFails, Shapes
<1>8. CASE Fire \/ CheckFails
  BY <1>3, <1>8 DEF Fire, CheckFails, Proceed
<1>9. CASE CheckEnds
  <2>1. CASE handle' = [handle EXCEPT !.at = "dead"] /\ abandoned' = TRUE
    <3>1. handle'.at = "dead"
      BY <2>1, Fields
    <3> QED
      BY <2>1, <3>1 DEF Shapes
  <2> QED
    BY <1>1, <1>2, <1>3, <1>9, <2>1 DEF CheckEnds, Handle, Otherwise, Proceed
<1>10. CASE CompletionEnds \/ CompletionFails
  <2>1. AfterCompletion = handle \/ AfterCompletion = Armed("boot", completion)
    BY DEF AfterCompletion
  <2> QED
    BY <1>2, <1>4, <1>10, <2>1 DEF CompletionEnds, CompletionFails, Handle
<1>11. CASE \/ RemoteWrite \/ Pass \/ ClaimCompletion \/ (\E c \in late : LateClaim(c))
            \/ UNCHANGED countdownVars
  BY <1>4, <1>11 DEF RemoteWrite, Pass, ClaimCompletion, LateClaim, countdownVars
<1> QED
  BY <1>5, <1>6, <1>7, <1>8, <1>9, <1>10, <1>11 DEF CountdownNext

\* What a handle has seen stays so until the next revision.
LEMMA SeesTimerKept ==
    ASSUME CountdownTypes, Ages, SeesTimer, [CountdownNext]_countdownVars
    PROVE  SeesTimer'
<1>0. /\ counted.rev \in Nat /\ handle.rev \in Nat /\ writes \in Nat /\ Fresh = writes + 1
      /\ NoHandle.at = "none"
  BY Numbers
<1>1. ASSUME handle' = NoHandle PROVE SeesTimer'
  BY <1>0, <1>1 DEF SeesTimer, Watches
<1>2. ASSUME NEW t, handle' = Armed("boot", t) PROVE SeesTimer'
  <2>1. handle'.at = "boot"
    BY <1>2, Fields
  <2> QED
    BY <2>1 DEF SeesTimer, Watches
<1>3. ASSUME handle' = Armed("check", counted'), counted'.running PROVE SeesTimer'
  <2>1. handle'.at = "check" /\ Same(handle', counted')
    BY <1>3, Fields
  <2> QED
    BY <1>3, <2>1 DEF SeesTimer, Watches, Same
<1>4. ASSUME counted'.rev = Fresh, handle'.rev = handle.rev PROVE SeesTimer'
  BY <1>0, <1>4 DEF SeesTimer, Ages
<1>5. ASSUME handle' = handle, counted' = counted PROVE SeesTimer'
  BY <1>5 DEF SeesTimer, Watches
<1>6. ASSUME NEW at, handle' = [handle EXCEPT !.at = at], counted' = counted,
             at = "claiming" => Current /\ counted.stage > 0 /\ ~counted.warned,
             at \in {"check", "checking", "claiming"} => Watches
      PROVE  SeesTimer'
  <2>1. handle'.at = at /\ Same(handle', handle) /\ handle'.rev = handle.rev
    BY <1>6, Fields
  <2> QED
    BY <1>6, <2>1 DEF SeesTimer, Watches, Same
<1>7. ASSUME NEW at, handle' = [handle EXCEPT !.at = at], counted'.rev = Fresh PROVE SeesTimer'
  BY <1>4, <1>7, Fields
<1>8. CASE Commit \/ NextTimer
  <2>1. ASSUME NEW t, counted' = t, Handle(Refreshed(t)) PROVE SeesTimer'
    BY <1>1, <1>2, <1>3, <2>1 DEF Handle, Refreshed
  <2> QED
    BY <1>8, <2>1 DEF Commit, NextTimer, Write
<1>9. CASE CommitRestart \/ Verify \/ StartUp
  BY <1>1, <1>5, <1>9 DEF CommitRestart, Verify, StartUp, Handle
<1>10. CASE Activate \/ StartEnds \/ BootstrapEnds
  BY <1>1, <1>3, <1>5, <1>10 DEF Activate, StartEnds, BootstrapEnds, Handle, StartedTimer
<1>11. CASE CheckEnds
  <2>1. CASE ~Current /\ Handle(Otherwise)
    BY <1>1, <1>2, <2>1 DEF Otherwise, Handle
  <2>2. CASE Current /\ counted.stage > 0 /\ ~counted.warned /\ Proceed("claiming")
    BY <1>6, <1>11, <2>2 DEF CheckEnds, Proceed, Watches
  <2>3. CASE Current /\ Handle(Armed("check", counted))
    BY <1>3, <1>11, <2>3 DEF CheckEnds, Handle, Current
  <2>4. CASE handle' = [handle EXCEPT !.at = "dead"]
    BY <1>6, <1>11, <2>4 DEF CheckEnds
  <2>5. CASE Handle(Armed("boot", counted)) \/ Handle(NoHandle)
    BY <1>1, <1>2, <2>5 DEF Handle
  <2> QED
    BY <1>11, <2>1, <2>2, <2>3, <2>4, <2>5 DEF CheckEnds
<1>12. CASE Fire
  BY <1>6, <1>12 DEF Fire, Proceed, Watches
<1>13. CASE CheckFails
  <2>1. CASE counted' = counted
    BY <1>6, <1>13, <2>1 DEF CheckFails, Proceed, Watches
  <2>2. CASE Write(WarnedTimer) /\ Proceed("check")
    BY <1>7, <2>2, Fields DEF Write, Proceed
  <2> QED
    BY <1>13, <2>1, <2>2 DEF CheckFails
<1>14. CASE ClaimWarning
  BY <1>2, <1>3, <1>14, Fields DEF ClaimWarning, Write, Warnable
<1>15. CASE CompletionEnds \/ CompletionFails
  <2>1. AfterCompletion = handle \/ AfterCompletion = Armed("boot", completion)
    BY DEF AfterCompletion
  <2> QED
    BY <1>2, <1>5, <1>15, <2>1 DEF CompletionEnds, CompletionFails, Handle
<1>16. CASE Pass
  <2>1. counted' = [counted EXCEPT !.stage = @ + 1]
    BY <1>16 DEF Pass
  <2>2. /\ counted'.rev = counted.rev /\ counted'.running = counted.running /\ Same(counted', counted)
        /\ counted'.stage = counted.stage + 1 /\ counted'.warned = counted.warned
        /\ counted.stage \in 0..2
    BY <2>1 DEF CountdownTypes, TimerType, Same
  <2>3. handle' = handle
    BY <1>16 DEF Pass
  <2> QED
    BY <2>2, <2>3 DEF SeesTimer, Watches, Same
<1>17. CASE \/ RemoteWrite \/ ClaimCompletion \/ \E c \in late : LateClaim(c)
  <2>1. handle' = handle /\ (counted' = counted \/ counted'.rev = Fresh)
    <3>1. CASE RemoteWrite
      BY <1>0, <3>1, TimerMoves DEF RemoteWrite, Write
    <3>2. CASE ClaimCompletion
      BY <1>0, <3>2, TimerMoves DEF ClaimCompletion, Write
    <3>3. CASE \E c \in late : LateClaim(c)
      BY <3>3, Fields DEF LateClaim, Write
    <3> QED
      BY <1>17, <3>1, <3>2, <3>3
  <2> QED
    BY <1>4, <1>5, <2>1
<1>18. CASE \/ StartFails \/ UNCHANGED countdownVars
  BY <1>5, <1>18 DEF StartFails, countdownVars
<1> QED
  BY <1>8, <1>9, <1>10, <1>11, <1>12, <1>13, <1>14, <1>15, <1>16, <1>17, <1>18 DEF CountdownNext

\* Without a write, a start is as it was, or over, or past what it will see.
LEMMA StartChanges ==
    ASSUME CountdownTypes, Ages, [CountdownNext]_countdownVars, counted'.rev = counted.rev,
           ~StartUp, ~Activate
    PROVE  start' = start \/ start' = NoStart \/ start'.at = "verify"
<1>1. ~CommitRestart
  <2>1. writes' = writes /\ writes \in Nat /\ Fresh = writes + 1
    BY TimerMoves, Numbers DEF Ages
  <2> QED
    BY <2>1 DEF CommitRestart, Write
<1>2. CASE StartEnds
  BY <1>2 DEF StartEnds, CountdownTypes, StartType
<1>3. CASE Verify \/ StartFails
  BY <1>3 DEF Verify, StartFails
<1>4. CASE \/ Commit \/ RemoteWrite \/ Pass \/ Fire \/ BootstrapEnds \/ CheckEnds \/ ClaimWarning
           \/ CheckFails \/ ClaimCompletion \/ NextTimer \/ CompletionEnds \/ CompletionFails
           \/ (\E c \in late : LateClaim(c)) \/ UNCHANGED countdownVars
  BY <1>4
  DEF Commit, RemoteWrite, Pass, Fire, BootstrapEnds, CheckEnds, ClaimWarning, CheckFails,
      ClaimCompletion, NextTimer, CompletionEnds, CompletionFails, LateClaim, countdownVars
<1> QED
  BY <1>1, <1>2, <1>3, <1>4 DEF CountdownNext

\* A handle that watches the Timer while it is to be warned of goes on doing so.
LEMMA WatchKept ==
    ASSUME CountdownTypes, Ages, SeesTimer, [CountdownNext]_countdownVars, ~StartUp,
           counted'.rev = counted.rev, Watches, handle.rev = counted.rev, ~counted.warned
    PROVE  Watches' /\ handle'.rev = counted.rev
<1>0. /\ counted.rev = writes /\ writes \in Nat /\ Fresh = writes + 1 /\ NoHandle.at = "none"
  BY Numbers DEF Ages
<1>1. /\ counted.running /\ handle.id = counted.id /\ handle.begun = counted.begun
      /\ handle.at = "claiming" => counted.stage > 0
  BY DEF SeesTimer
<1>2. ASSUME handle' = handle PROVE Watches' /\ handle'.rev = counted.rev
  BY <1>2 DEF Watches
<1>3. ASSUME NEW at \in {"check", "checking", "claiming"}, handle' = [handle EXCEPT !.at = at]
      PROVE  Watches' /\ handle'.rev = counted.rev
  BY <1>3, Fields DEF Watches
<1>4. ASSUME handle' = Armed("check", counted) PROVE Watches' /\ handle'.rev = counted.rev
  BY <1>4, Fields DEF Watches
<1>5. ASSUME NEW t, Write(t), t.rev = Fresh PROVE FALSE
  <2>1. t.rev = counted.rev
    BY <1>5 DEF Write
  <2> QED
    BY <1>0, <1>5, <2>1
<1>6. CASE \/ RemoteWrite \/ Pass \/ StartFails \/ ClaimCompletion \/ (\E c \in late : LateClaim(c))
           \/ UNCHANGED countdownVars
  BY <1>2, <1>6 DEF RemoteWrite, Pass, StartFails, ClaimCompletion, LateClaim, countdownVars
<1>7. ~Commit /\ ~CommitRestart /\ ~NextTimer
  <2>1. writes' = writes
    BY <1>0, TimerMoves
  <2>2. \A u : ~Write(u)
    BY <1>0, <2>1 DEF Write
  <2> QED
    BY <2>2 DEF Commit, CommitRestart, NextTimer
<1>8. CASE Activate
  BY <1>2, <1>8 DEF Activate
<1>9. CASE StartEnds
  BY <1>2, <1>4, <1>9 DEF StartEnds, Handle
<1>10. CASE Verify
  BY <1>1, <1>2, <1>10 DEF Verify, StartedTimer
<1>11. CASE BootstrapEnds
  BY <1>11 DEF BootstrapEnds, Watches
<1>12. CASE Fire
  BY <1>3, <1>12 DEF Fire, Proceed, Watches
<1>13. CASE CheckFails
  BY <1>3, <1>13 DEF CheckFails, Proceed, Watches
<1>14. CASE CheckEnds
  <2>1. Current
    BY <1>1 DEF Current
  <2>2. ~Over
    BY DEF Over
  <2> QED
    BY <1>3, <1>4, <1>14, <2>1, <2>2 DEF CheckEnds, Proceed, Handle
<1>15. ~ClaimWarning
  <2> SUFFICES ASSUME ClaimWarning PROVE FALSE
    OBVIOUS
  <2>1. Warnable(handle)
    BY <1>1 DEF ClaimWarning, Warnable
  <2> QED
    BY <1>5, <2>1, Fields DEF ClaimWarning
<1>16. CASE CompletionEnds \/ CompletionFails
  <2>1. AfterCompletion = handle
    BY <1>0 DEF AfterCompletion, Watches
  <2> QED
    BY <1>2, <1>16, <2>1 DEF CompletionEnds, CompletionFails
<1> QED
  BY <1>6, <1>7, <1>8, <1>9, <1>10, <1>11, <1>12, <1>13, <1>14, <1>15, <1>16 DEF CountdownNext

\* No claim that comes late meets a Timer being started.
LEMMA LateOnesKept ==
    ASSUME CountdownTypes, Ages, SeesTimer, LateOnes, [CountdownNext]_countdownVars
    PROVE  LateOnes'
<1> DEFINE Open == counted.rev = counted.id \/ Starting
<1>0. /\ {counted.id, counted.begun, counted.rev, handle.id, handle.begun, handle.rev,
          start.id, start.rev, completion.id, completion.begun, completion.rev,
          writes} \subseteq Nat
      /\ \A c \in late : c.begun \in Nat
      /\ Fresh = writes + 1 /\ NoHandle.at = "none" /\ NoHandle.begun = 0 /\ NoStart.at = "off"
  BY Numbers
<1>1. CASE StartUp
  BY <1>0, <1>1 DEF StartUp, LateOnes, Watches
<1>2. CASE counted'.rev = Fresh
  <2>1. Open' => counted'.begun = Fresh
    <3>1. CASE counted'.rev = counted'.id
      BY <1>0, <1>2, <3>1, TimerMoves DEF Ages, Same
    <3>2. CASE Starting'
      <4>1. start'.rev = Fresh /\ start' # NoStart
        BY <1>0, <1>2, <3>2 DEF Starting, StartedTimer
      <4>2. counted' = counted \/ counted'.begun = Fresh
        BY <1>0, <4>1, StartMoves DEF Ages
      <4> QED
        BY <1>0, <1>2, <4>2 DEF Ages
    <3> QED
      BY <3>1, <3>2
  <2>2. \A c \in late' : c.begun # Fresh
    BY <1>0, LateMoves, SentAges DEF Ages, Sent
  <2>3. Watches' /\ handle'.begun = Fresh => handle'.rev = counted'.rev
    <3>1. CASE handle' \in {handle, NoHandle}
      BY <1>0, <3>1 DEF Ages
    <3>2. ASSUME NEW at, handle' = [handle EXCEPT !.at = at] PROVE handle'.begun # Fresh
      BY <1>0, <3>2, Fields DEF Ages, Same
    <3>3. ASSUME NEW at, handle' = Armed(at, counted') PROVE handle'.rev = counted'.rev
      BY <3>3, Fields
    <3>4. ASSUME handle' = Armed("boot", completion) PROVE ~Watches'
      BY <3>4, Fields DEF Watches
    <3> QED
      BY <3>1, <3>2, <3>3, <3>4, HandleMoves
  <2> QED
    BY <2>1, <2>2, <2>3 DEF LateOnes
<1>3. CASE ~StartUp /\ counted'.rev # Fresh
  <2>1. /\ counted'.id = counted.id /\ counted'.begun = counted.begun /\ counted'.rev = counted.rev
        /\ counted'.running = counted.running /\ counted'.warned = counted.warned
    BY <1>3, TimerMoves DEF Same
  <2>2. Open' => Open
    <3> SUFFICES ASSUME Starting', ~Activate PROVE Starting
      BY <2>1 DEF Activate
    <3>1. start' # NoStart /\ start'.at \in {"prefs", "activate"}
      BY <1>0 DEF Starting
    <3>2. start' = start
      BY <1>3, <2>1, <3>1, StartChanges
    <3> QED
      BY <2>1, <3>2 DEF Starting, StartedTimer
  <2>3. ASSUME Open, NEW c \in late', c.id = counted.id, c.begun = counted.begun, ~counted.warned
        PROVE  Watches' /\ handle'.rev = counted.rev
    <3>1. Watches /\ handle.rev = counted.rev
      <4>1. CASE c \in late
        BY <2>3, <4>1 DEF LateOnes
      <4>2. CASE c \in Sent
        BY <2>3, <4>2 DEF LateOnes, Sent, Watches
      <4> QED
        BY <4>1, <4>2, LateMoves
    <3> QED
      BY <1>3, <2>1, <2>3, <3>1, WatchKept
  <2>4. ASSUME Open, Watches', handle'.id = counted.id, handle'.begun = counted.begun
        PROVE  handle'.rev = counted.rev
    <3>1. CASE handle' \in {handle, NoHandle}
      BY <1>0, <2>4, <3>1 DEF LateOnes, Watches
    <3>2. ASSUME NEW at, handle' = [handle EXCEPT !.at = at],
                 at \in {"check", "checking", "claiming"} => Watches
          PROVE  handle'.rev = counted.rev
      BY <2>4, <3>2, Fields DEF LateOnes, Watches, Same
    <3>3. ASSUME NEW at, handle' = Armed(at, counted') PROVE handle'.rev = counted.rev
      BY <2>1, <3>3, Fields
    <3>4. ASSUME handle' = Armed("boot", completion) PROVE ~Watches'
      BY <3>4, Fields DEF Watches
    <3> QED
      BY <2>4, <3>1, <3>2, <3>3, <3>4, HandleMoves
  <2> QED
    BY <2>1, <2>2, <2>3, <2>4 DEF LateOnes
<1> QED
  BY <1>1, <1>2, <1>3

\* Who takes the handle away leaves somebody at work.
LEMMA AttendedKept ==
    ASSUME CountdownTypes, Ages, Shapes, SeesTimer, LateOnes, Attended,
           [CountdownNext]_countdownVars
    PROVE  Attended'
<1>0. /\ counted.rev = writes /\ writes \in Nat /\ Fresh = writes + 1 /\ NoHandle.at = "none"
      /\ NoCompletion.at = "off" /\ ~NoCompletion.rearms /\ NoStart.at = "off"
  BY Numbers DEF Ages
<1>1. ASSUME NEW at \in {"boot", "check"}, NEW t, handle' = Armed(at, t) PROVE Attended'
  <2>1. handle'.at = at
    BY <1>1, Fields
  <2> QED
    BY <1>0, <2>1 DEF Attended
<1>2. ASSUME NEW at, at # "none", handle' = [handle EXCEPT !.at = at] PROVE Attended'
  <2>1. handle'.at = at
    BY <1>2, Fields
  <2> QED
    BY <1>0, <1>2, <2>1 DEF Attended
<1>3. ASSUME ~counted'.running PROVE Attended'
  BY <1>3 DEF Attended
<1>4. ASSUME Starting' PROVE Attended'
  BY <1>4 DEF Attended
<1>5. ASSUME UNCHANGED <<handle, counted, start, completion, ours, abandoned>> PROVE Attended'
  BY <1>5 DEF Attended, Starting, StartedTimer, Claims
<1>6. ASSUME UNCHANGED <<counted, start, completion, ours>>, handle' = handle,
             abandoned => abandoned'
      PROVE  Attended'
  BY <1>6 DEF Attended, Starting, StartedTimer, Claims
<1>7. CASE Commit
  BY <1>1, <1>3, <1>7 DEF Commit, Write, Handle, Refreshed
<1>8. CASE CommitRestart
  BY <1>4, <1>8 DEF CommitRestart, Write, Starting, StartedTimer
<1>9. CASE RemoteWrite
  BY <1>9 DEF RemoteWrite, Attended
<1>10. CASE Pass
  <2>1. counted' = [counted EXCEPT !.stage = @ + 1] /\ counted.stage < 2
        /\ UNCHANGED <<handle, start, completion, ours, abandoned>>
    BY <1>10 DEF Pass
  <2>2. /\ counted'.id = counted.id /\ counted'.rev = counted.rev /\ counted'.running = counted.running
        /\ counted.stage \in 0..2
    BY <2>1 DEF CountdownTypes, TimerType
  <2> QED
    BY <2>1, <2>2 DEF Attended, Starting, StartedTimer, Claims
<1>11. CASE Activate
  BY <1>4, <1>11 DEF Activate, Starting, StartedTimer
<1>12. CASE StartEnds
  <2>1. CASE StartedTimer
    BY <1>1, <1>12, <2>1 DEF StartEnds, Handle
  <2>2. CASE ~StartedTimer
    BY <1>12, <2>2 DEF StartEnds, Attended, Starting, Claims
  <2> QED
    BY <2>1, <2>2
<1>13. CASE Verify
  <2>1. CASE handle' = NoHandle /\ abandoned' = counted.running
    BY <1>13, <2>1 DEF Verify, Attended
  <2>2. CASE UNCHANGED <<handle, late, abandoned>>
    BY <1>13, <2>2 DEF Verify, Attended, Starting, Claims
  <2> QED
    BY <1>13, <2>1, <2>2 DEF Verify
<1>14. CASE StartFails
  <2>1. handle' = handle /\ (handle = NoHandle => abandoned')
    BY <1>0, <1>14 DEF StartFails
  <2> QED
    BY <2>1 DEF Attended
<1>15. CASE BootstrapEnds
  BY <1>1, <1>3, <1>15 DEF BootstrapEnds, Handle
<1>16. CASE CheckEnds
  <2>1. CASE Handle(NoHandle) /\ completion' = Completing(counted, TRUE)
    <3>1. completion'.rearms
      BY <2>1 DEF Completing
    <3> QED
      BY <3>1 DEF Attended
  <2> QED
    BY <1>1, <1>2, <1>3, <1>16, <2>1 DEF CheckEnds, Handle, Otherwise, Proceed
<1>17. CASE ClaimWarning
  BY <1>1, <1>17 DEF ClaimWarning
<1>18. CASE Fire \/ CheckFails
  BY <1>2, <1>18 DEF Fire, CheckFails, Proceed
<1>19. ASSUME NEW c \in late, LateClaim(c) PROVE Attended'
  <2>1. UNCHANGED <<handle, start, completion, ours, abandoned>>
    BY <1>19 DEF LateClaim
  <2>2. CASE UNCHANGED counted
    BY <1>5, <2>1, <2>2
  <2>3. CASE Warnable(c) /\ Write(WarnedTimer)
    <3>1. /\ counted'.id = counted.id /\ counted'.begun = counted.begun
          /\ counted'.running = counted.running /\ counted'.stage = counted.stage
      BY <2>3, Fields DEF Write, Same
    <3>2. handle = NoHandle => ~Starting
      BY <1>0, <2>3 DEF LateOnes, Warnable, Watches
    <3> QED
      BY <2>1, <3>1, <3>2 DEF Attended, Claims
  <2> QED
    BY <1>19, <2>2, <2>3 DEF LateClaim
<1>20. CASE ClaimCompletion
  <2>1. CASE Write([counted EXCEPT !.running = FALSE, !.rev = Fresh])
    <3>1. ~counted'.running
      BY <2>1 DEF Write, CountdownTypes, TimerType
    <3> QED
      BY <1>3, <3>1
  <2>2. CASE ~Claims /\ completion' = [completion EXCEPT !.at = "done"] /\ UNCHANGED counted
    <3>1. completion'.rearms = completion.rearms
      BY <2>2, Fields
    <3>2. UNCHANGED <<handle, start, ours, abandoned>>
      BY <1>20 DEF ClaimCompletion
    <3> QED
      BY <2>2, <3>1, <3>2 DEF Attended, Starting, StartedTimer
  <2> QED
    BY <1>20, <2>1, <2>2 DEF ClaimCompletion, Claims
<1>21. CASE NextTimer
  BY <1>1, <1>3, <1>21 DEF NextTimer, Handle, Refreshed, Write
<1>22. CASE CompletionEnds
  <2>1. CASE completion.rearms /\ handle = NoHandle
    <3>1. AfterCompletion = Armed("boot", completion)
      BY <2>1 DEF AfterCompletion
    <3>2. handle' = Armed("boot", completion)
      BY <1>22, <3>1 DEF CompletionEnds, Handle
    <3> QED
      BY <1>1, <3>2
  <2>2. CASE ~(completion.rearms /\ handle = NoHandle)
    <3>1. AfterCompletion = handle
      BY <2>2 DEF AfterCompletion
    <3>2. UNCHANGED <<handle, counted, start, ours, abandoned>> /\ ~Claims
      BY <1>22, <3>1 DEF CompletionEnds, Claims
    <3> QED
      BY <2>2, <3>2 DEF Attended, Starting, StartedTimer
  <2> QED
    BY <2>1, <2>2
<1>23. CASE CompletionFails
  <2>1. CASE AfterCompletion # handle
    <3>1. AfterCompletion = Armed("boot", completion)
      BY <2>1 DEF AfterCompletion
    <3>2. handle' = Armed("boot", completion)
      BY <1>23, <2>1, <3>1 DEF CompletionFails, Handle
    <3> QED
      BY <1>1, <3>2
  <2>2. CASE AfterCompletion = handle
    <3>1. UNCHANGED <<handle, counted, start, ours>>
      BY <1>23, <2>2 DEF CompletionFails
    <3>2. abandoned' = (abandoned \/ (~completion.rearms /\ handle = NoHandle))
      BY <1>23, <2>2 DEF CompletionFails
    <3>3. handle = NoHandle => ~completion.rearms
      <4>1. Armed("boot", completion) # NoHandle
        BY <1>0, Fields
      <4> QED
        BY <2>2, <4>1 DEF AfterCompletion
    <3> QED
      BY <3>1, <3>2, <3>3 DEF Attended
  <2> QED
    BY <2>1, <2>2
<1>24. CASE StartUp
  <2>1. UNCHANGED counted /\ (counted.running => counted.stage \in 0..2)
    BY <1>24 DEF StartUp, CountdownTypes, TimerType
  <2>2. CASE counted.running /\ counted.stage < 2
    BY <1>4, <1>24, <2>1, <2>2 DEF StartUp, Starting, StartedTimer
  <2>3. CASE counted.running /\ counted.stage = 2
    <3>1. Claims'
      BY <1>24, <2>1, <2>3 DEF StartUp, Completing, Claims
    <3> QED
      BY <3>1 DEF Attended
  <2>4. CASE ~counted.running
    BY <1>3, <2>1, <2>4
  <2> QED
    BY <2>1, <2>2, <2>3, <2>4
<1>25. CASE UNCHANGED countdownVars
  BY <1>5, <1>25 DEF countdownVars
<1> QED
  BY <1>7, <1>8, <1>9, <1>10, <1>11, <1>12, <1>13, <1>14, <1>15, <1>16, <1>17, <1>18, <1>19,
     <1>20, <1>21, <1>22, <1>23, <1>24, <1>25 DEF CountdownNext

-----------------------------------------------------------------------------
(* The theorems *)

\* The invariant holds of every behaviour.
LEMMA CountdownInvariant == CountdownSpec => []CountdownInv
<1>1. CountdownInit => CountdownInv
  <2> SUFFICES ASSUME CountdownInit PROVE CountdownInv
    OBVIOUS
  <2>1. CountdownTypes
    <3>1. /\ counted \in TimerType /\ handle \in HandleType /\ start \in StartType
          /\ completion \in CompletionType
      BY DEF CountdownInit, TimerType, HandleType, NoHandle, StartType, NoStart, CompletionType,
             NoCompletion
    <3> QED
      BY <3>1 DEF CountdownInit, CountdownTypes
  <2>2. Ages /\ Shapes
    BY DEF CountdownInit, Ages, Shapes, NoHandle, NoStart, NoCompletion
  <2>3. SeesTimer /\ LateOnes /\ Attended
    BY DEF CountdownInit, SeesTimer, LateOnes, Attended, Watches, NoHandle
  <2> QED
    BY <2>1, <2>2, <2>3 DEF CountdownInv
<1>2. CountdownInv /\ [CountdownNext]_countdownVars => CountdownInv'
  BY TypesKept, AgesKept, ShapesKept, SeesTimerKept, LateOnesKept, AttendedKept DEF CountdownInv
<1> QED
  BY <1>1, <1>2, PTL DEF CountdownSpec

\* CountdownStands: a Timer that runs by what this process did last has a countdown in
\* it, whatever writes, starts, checks, warnings and completions overlap, for any number
\* of them, unless the service left it without one in the ways the property names.
THEOREM CountdownStandsHolds == CountdownSpec => []CountdownStands
<1>1. CountdownInv => CountdownStands
  <2> SUFFICES ASSUME CountdownInv, Lost PROVE abandoned
    BY DEF CountdownStands
  <2>1. CASE handle.at = "dead"
    BY <2>1 DEF CountdownInv, Shapes
  <2>2. CASE handle.at = "none"
    <3>1. handle = NoHandle
      BY <2>2 DEF CountdownInv, Shapes
    <3>2. ~Starting /\ ~completion.rearms /\ ~Claims
      BY DEF Lost, AtRest, Starting, Claims, NoStart, NoCompletion
    <3> QED
      BY <3>1, <3>2 DEF CountdownInv, Attended, Lost
  <2> QED
    BY <2>1, <2>2 DEF Lost
<1> QED
  BY <1>1, CountdownInvariant, PTL

=============================================================================
