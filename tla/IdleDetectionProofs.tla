------------------------- MODULE IdleDetectionProofs -------------------------
(***************************************************************************)
(* The types of IdleDetection; that a durable claim never takes the user's *)
(* work away; that a completion brings at most one long break; and that a  *)
(* schedule marked ready holds what it should: for any number of replicas, *)
(* completions, preference changes, crashes and lost leases.               *)
(***************************************************************************)
EXTENDS IdleDetection, SequenceTheorems, TLAPS

LEMMA Constants == None \in Int /\ LongBreak \in Nat /\ None \notin Nat
  BY IdleAssumption DEF None

\* A reading of the account has the fields the scripts compare.
LEMMA ReadingType ==
    ASSUME TypeOK
    PROVE  Snapshot \in Reading
  BY DEF TypeOK, CountTypes, AccountTypes, Snapshot, Reading

\* A payload is made from the reading of an account with a last completion.
LEMMA PayloadType ==
    ASSUME NEW s \in Reading, s.last # None
    PROVE  Payload(s) \in Plan /\ Payload(s).check = Payload(s).last + LongBreak
<1>1. s.last \in Nat
  BY DEF Reading
<1>2. s.last + LongBreak \in Nat
  BY <1>1, Constants
<1> QED
  BY <1>1, <1>2 DEF Payload, Plan, Reading

\* Scheduling leaves payloads of the right form behind.
LEMMA ScheduleType ==
    ASSUME PlannedTypes, FlagTypes, NEW s \in Reading, Schedule(s)
    PROVE  PlannedTypes' /\ dropped' \in BOOLEAN
<1>1. planned' = {} \/ planned' = planned \/ (s.last # None /\ planned' = {Payload(s)})
  BY DEF Schedule, PlannedBy
<1>2. PlannedTypes'
  BY <1>1, PayloadType DEF PlannedTypes
<1>3. dropped' \in BOOLEAN
  BY Zenon DEF Schedule, FlagTypes
<1> QED
  BY <1>2, <1>3

\* The records a step writes into a replica's slot.
LEMMA SlotTypes ==
    /\ NoSnapshot \in Reading
    /\ IdleJob \in Job /\ [IdleJob EXCEPT !.at = "down", !.factory = FALSE] \in Job
    /\ NoCallback \in Callback
    /\ NoPass \in Pass
<1>1. NoSnapshot \in Reading
  BY Constants DEF NoSnapshot, Reading
<1>2. IdleJob \in Job
  BY <1>1 DEF IdleJob, Job
<1>3. [IdleJob EXCEPT !.at = "down", !.factory = FALSE] \in Job
  BY <1>2 DEF Job
<1> QED
  BY <1>1, <1>2, <1>3, Constants DEF NoCallback, Callback, NoPass, Pass

\* What the steps do to a replica's queue leaves a queue.
LEMMA JobUpdates ==
    ASSUME NEW j \in Job
    PROVE  /\ j.more \in Nat /\ j.snap \in Reading
           /\ Enqueue(j) \in Job /\ Provided(j) \in Job
           /\ j.more > 0 => Dequeue(j) \in Job
           /\ \A s \in Reading : [j EXCEPT !.at = "read", !.snap = s] \in Job
           /\ [j EXCEPT !.at = "written", !.snap = NoSnapshot] \in Job
           /\ [j EXCEPT !.at = "idle"] \in Job
           /\ \A n \in Nat, b \in BOOLEAN :
                [j EXCEPT !.at = "idle", !.more = n, !.factory = b] \in Job
<1>1. j.more \in Nat /\ j.snap \in Reading
  BY DEF Job
<1>2. \A n \in Nat : /\ [j EXCEPT !.more = n] \in Job
                     /\ [j EXCEPT !.more = n, !.at = "prepared"] \in Job
  BY DEF Job
<1>3. Enqueue(j) \in Job
  <2>1. j.more + 1 \in Nat
    BY <1>1
  <2> QED
    BY <1>2, <2>1 DEF Enqueue
<1>4. Provided(j) \in Job
  BY DEF Job, Provided
<1>5. j.more > 0 => Dequeue(j) \in Job
  <2>1. j.more > 0 => j.more - 1 \in Nat
    BY <1>1
  <2> QED
    BY <1>2, <2>1 DEF Dequeue
<1>6. \A s \in Reading : [j EXCEPT !.at = "read", !.snap = s] \in Job
  BY DEF Job
<1>7. [j EXCEPT !.at = "written", !.snap = NoSnapshot] \in Job
  BY SlotTypes DEF Job
<1>8. [j EXCEPT !.at = "idle"] \in Job
  BY DEF Job
<1>9. \A n \in Nat, b \in BOOLEAN :
        [j EXCEPT !.at = "idle", !.more = n, !.factory = b] \in Job
  BY DEF Job
<1> QED
  BY <1>1, <1>3, <1>4, <1>5, <1>6, <1>7, <1>8, <1>9

-----------------------------------------------------------------------------
\* Every variable keeps its type.
THEOREM IdleTypes == Spec => []TypeOK
<1>1. Init => TypeOK
  <2> SUFFICES ASSUME Init PROVE TypeOK
    OBVIOUS
  <2>1. CountTypes /\ AccountTypes /\ PlannedTypes
    BY DEF Init, CountTypes, AccountTypes, PlannedTypes
  <2>2. EffectTypes
    BY DEF Init, EffectTypes
  <2>3. FlagTypes
    BY DEF Init, FlagTypes
  <2>4. LeaderTypes /\ JobTypes /\ LocalTypes
    BY IdleAssumption, SlotTypes DEF Init, LeaderTypes, JobTypes, LocalTypes
  <2> QED
    BY <2>1, <2>2, <2>3, <2>4 DEF TypeOK
<1>2. ASSUME TypeOK, [Next]_vars PROVE TypeOK'
  <2> USE <1>2 DEF redis, leader, local, counts, PutTimer
  <2>0. /\ CountTypes /\ AccountTypes /\ EffectTypes /\ FlagTypes /\ PlannedTypes
        /\ LeaderTypes /\ JobTypes /\ LocalTypes
    BY DEF TypeOK
  <2>1. ASSUME NEW r \in Replicas, HandlerStep(r) PROVE TypeOK'
    <3>1. CASE SetLastCompletion(r)
      <4>1. CountTypes' /\ AccountTypes'
        BY <2>0, <2>1, <3>1 DEF SetLastCompletion, CountTypes, AccountTypes,
           NextGeneration
      <4>2. EffectTypes' /\ PlannedTypes'
        BY <2>0, <2>1, <3>1 DEF SetLastCompletion, EffectTypes, PlannedTypes
      <4>3. FlagTypes' /\ LeaderTypes' /\ JobTypes' /\ LocalTypes'
        BY <2>0, <2>1, <3>1 DEF SetLastCompletion, FlagTypes, LeaderTypes, JobTypes,
           LocalTypes
      <4> QED
        BY <4>1, <4>2, <4>3 DEF TypeOK
    <3>2. CASE ClearDetected(r)
      <4>1. JobTypes'
        BY <2>0, <2>1, <3>2, JobUpdates DEF ClearDetected, JobTypes
      <4>2. FlagTypes'
        BY <2>0, <2>1, <3>2 DEF ClearDetected, FlagTypes
      <4>3. CountTypes' /\ AccountTypes' /\ EffectTypes' /\ PlannedTypes'
        BY <2>0, <2>1, <3>2 DEF ClearDetected, CountTypes, AccountTypes, EffectTypes,
           PlannedTypes
      <4>4. LeaderTypes' /\ LocalTypes'
        BY <2>0, <2>1, <3>2 DEF ClearDetected, LeaderTypes, LocalTypes
      <4> QED
        BY <4>1, <4>2, <4>3, <4>4 DEF TypeOK
    <3>3. CASE AdvanceFails(r)
      <4>1. CountTypes' /\ AccountTypes' /\ EffectTypes' /\ PlannedTypes'
        BY <2>0, <2>1, <3>3 DEF AdvanceFails, CountTypes, AccountTypes, EffectTypes,
           PlannedTypes
      <4>2. FlagTypes' /\ LeaderTypes' /\ JobTypes' /\ LocalTypes'
        BY <2>0, <2>1, <3>3 DEF AdvanceFails, FlagTypes, LeaderTypes, JobTypes,
           LocalTypes
      <4> QED
        BY <4>1, <4>2 DEF TypeOK
    <3>4. ASSUME NEW state \in {"rest", "run"}, AutoAdvance(r, state) PROVE TypeOK'
      <4>1. CountTypes' /\ AccountTypes'
        BY <2>0, <2>1, <3>4 DEF AutoAdvance, CountTypes, AccountTypes
      <4>2. JobTypes'
        BY <2>0, <2>1, <3>4, JobUpdates DEF AutoAdvance, JobTypes
      <4>3. EffectTypes' /\ PlannedTypes'
        BY <2>0, <2>1, <3>4 DEF AutoAdvance, EffectTypes, PlannedTypes
      <4>4. FlagTypes' /\ LeaderTypes' /\ LocalTypes'
        BY <2>0, <2>1, <3>4 DEF AutoAdvance, FlagTypes, LeaderTypes, LocalTypes
      <4> QED
        BY <4>1, <4>2, <4>3, <4>4 DEF TypeOK
    <3> QED
      BY <2>1, <3>1, <3>2, <3>3, <3>4 DEF HandlerStep
  <2>2. ASSUME NEW r \in Replicas, JobStep(r) PROVE TypeOK'
    <3>1. CASE PrepareJob(r)
      <4>1. CountTypes'
        BY <2>0, <2>2, <3>1 DEF PrepareJob, CountTypes, NextGeneration
      <4>2. JobTypes'
        BY <2>0, <2>2, <3>1, JobUpdates DEF PrepareJob, JobTypes
      <4>3. AccountTypes' /\ EffectTypes' /\ PlannedTypes'
        BY <2>0, <2>2, <3>1 DEF PrepareJob, AccountTypes, EffectTypes, PlannedTypes
      <4>4. FlagTypes' /\ LeaderTypes' /\ LocalTypes'
        BY <2>0, <2>2, <3>1 DEF PrepareJob, FlagTypes, LeaderTypes, LocalTypes
      <4> QED
        BY <4>1, <4>2, <4>3, <4>4 DEF TypeOK
    <3>2. CASE ReadJob(r)
      <4>1. JobTypes'
        BY <2>0, <2>2, <3>2, JobUpdates, ReadingType DEF ReadJob, JobTypes
      <4>2. CountTypes' /\ AccountTypes' /\ EffectTypes' /\ PlannedTypes'
        BY <2>0, <2>2, <3>2 DEF ReadJob, CountTypes, AccountTypes, EffectTypes,
           PlannedTypes
      <4>3. FlagTypes' /\ LeaderTypes' /\ LocalTypes'
        BY <2>0, <2>2, <3>2 DEF ReadJob, FlagTypes, LeaderTypes, LocalTypes
      <4> QED
        BY <4>1, <4>2, <4>3 DEF TypeOK
    <3>3. CASE WriteJob(r)
      <4>1. JobTypes'
        BY <2>0, <2>2, <3>3, JobUpdates DEF WriteJob, JobTypes
      <4>2. PlannedTypes' /\ FlagTypes'
        <5>1. job[r].snap \in Reading
          BY <2>0, <2>2, JobUpdates DEF JobTypes
        <5>2. PlannedTypes' /\ dropped' \in BOOLEAN
          BY <2>0, <3>3, <5>1, ScheduleType DEF WriteJob
        <5> QED
          BY <2>0, <3>3, <5>2 DEF WriteJob, FlagTypes
      <4>3. CountTypes' /\ AccountTypes' /\ EffectTypes'
        BY <2>0, <2>2, <3>3 DEF WriteJob, CountTypes, AccountTypes, EffectTypes
      <4>4. LeaderTypes' /\ LocalTypes'
        BY <2>0, <2>2, <3>3 DEF WriteJob, LeaderTypes, LocalTypes
      <4> QED
        BY <4>1, <4>2, <4>3, <4>4 DEF TypeOK
    <3>4. CASE ArmJob(r)
      <4>1. JobTypes'
        BY <2>0, <2>2, <3>4, JobUpdates DEF ArmJob, JobTypes
      <4>2. LocalTypes'
        <5>1. lastDone # None => lastDone + LongBreak \in Nat
          BY <2>0, Constants DEF AccountTypes
        <5> QED
          BY <2>0, <2>2, <3>4, <5>1 DEF ArmJob, LocalTypes
      <4>3. CountTypes' /\ AccountTypes' /\ EffectTypes' /\ PlannedTypes'
        BY <2>0, <2>2, <3>4 DEF ArmJob, CountTypes, AccountTypes, EffectTypes,
           PlannedTypes
      <4>4. FlagTypes' /\ LeaderTypes'
        BY <2>0, <2>2, <3>4 DEF ArmJob, FlagTypes, LeaderTypes
      <4> QED
        BY <4>1, <4>2, <4>3, <4>4 DEF TypeOK
    <3>5. CASE Restart(r)
      <4>1. JobTypes'
        BY <2>0, <2>2, <3>5, JobUpdates DEF Restart, JobTypes
      <4>2. CountTypes' /\ AccountTypes' /\ EffectTypes' /\ PlannedTypes'
        BY <2>0, <2>2, <3>5 DEF Restart, CountTypes, AccountTypes, EffectTypes,
           PlannedTypes
      <4>3. FlagTypes' /\ LeaderTypes' /\ LocalTypes'
        BY <2>0, <2>2, <3>5 DEF Restart, FlagTypes, LeaderTypes, LocalTypes
      <4> QED
        BY <4>1, <4>2, <4>3 DEF TypeOK
    <3> QED
      BY <2>2, <3>1, <3>2, <3>3, <3>4, <3>5 DEF JobStep
  <2>3. ASSUME NEW r \in Replicas, CallbackStep(r) PROVE TypeOK'
    <3>1. CASE FireCallback(r)
      <4>1. JobTypes'
        BY <2>0, <2>3, <3>1, JobUpdates DEF FireCallback, JobTypes
      <4>2. LocalTypes'
        <5>1. [at |-> "read", last |-> lastDone, ver |-> timer.ver] \in Callback
          BY <2>0 DEF AccountTypes, Callback
        <5> QED
          BY <2>0, <2>3, <3>1, <5>1 DEF FireCallback, LocalTypes
      <4>3. CountTypes' /\ AccountTypes' /\ EffectTypes' /\ PlannedTypes'
        BY <2>0, <2>3, <3>1 DEF FireCallback, CountTypes, AccountTypes, EffectTypes,
           PlannedTypes
      <4>4. FlagTypes' /\ LeaderTypes'
        BY <2>0, <2>3, <3>1 DEF FireCallback, FlagTypes, LeaderTypes
      <4> QED
        BY <4>1, <4>2, <4>3, <4>4 DEF TypeOK
    <3>2. CASE ClaimLegacy(r)
      <4>1. LocalTypes'
        <5>1. [callback[r] EXCEPT !.at = "claimed"] \in Callback
          BY <2>0, <2>3 DEF LocalTypes, Callback
        <5>2. \/ callback' =
                    [callback EXCEPT ![r] = [callback[r] EXCEPT !.at = "claimed"]]
              \/ callback' = [callback EXCEPT ![r] = NoCallback]
          BY <2>0, <2>3, <3>2 DEF ClaimLegacy, LocalTypes
        <5>3. UNCHANGED <<armed, handler>>
          BY <3>2 DEF ClaimLegacy
        <5> QED
          BY <2>0, <2>3, <5>1, <5>2, <5>3, SlotTypes DEF LocalTypes
      <4>2. FlagTypes'
        BY <2>0, <2>3, <3>2 DEF ClaimLegacy, FlagTypes
      <4>3. CountTypes' /\ AccountTypes' /\ EffectTypes' /\ PlannedTypes'
        BY <2>0, <2>3, <3>2 DEF ClaimLegacy, CountTypes, AccountTypes, EffectTypes,
           PlannedTypes
      <4>4. LeaderTypes' /\ JobTypes'
        BY <2>0, <2>3, <3>2 DEF ClaimLegacy, LeaderTypes, JobTypes
      <4> QED
        BY <4>1, <4>2, <4>3, <4>4 DEF TypeOK
    <3>3. CASE RecordLegacy(r)
      <4>1. EffectTypes'
        <5> DEFINE credit == [by |-> "legacy", start |-> callback[r].last,
                             dur |-> now - callback[r].last, at |-> now]
        <5>1. callback[r].last \in Int /\ now \in Nat
          BY <2>0, <2>3, Constants DEF LocalTypes, Callback, CountTypes
        <5>2. credit \in Credit
          BY <5>1 DEF Credit
        <5> HIDE DEF credit
        <5>3. Append(credits, credit) \in Seq(Credit)
          BY <2>0, <5>2, AppendProperties DEF EffectTypes
        <5> QED
          BY <2>0, <3>3, <5>3 DEF RecordLegacy, EffectTypes, credit
      <4>2. LocalTypes'
        BY <2>0, <2>3, <3>3 DEF RecordLegacy, LocalTypes, Callback
      <4>3. CountTypes' /\ AccountTypes' /\ PlannedTypes'
        BY <2>0, <2>3, <3>3 DEF RecordLegacy, CountTypes, AccountTypes, PlannedTypes
      <4>4. FlagTypes' /\ LeaderTypes' /\ JobTypes'
        BY <2>0, <2>3, <3>3 DEF RecordLegacy, FlagTypes, LeaderTypes, JobTypes
      <4> QED
        BY <4>1, <4>2, <4>3, <4>4 DEF TypeOK
    <3>4. CASE ClearLastCompletion(r)
      <4>1. LocalTypes'
        BY <2>0, <2>3, <3>4 DEF ClearLastCompletion, LocalTypes, Callback
      <4>2. CountTypes' /\ AccountTypes' /\ EffectTypes' /\ PlannedTypes'
        BY <2>0, <2>3, <3>4 DEF ClearLastCompletion, CountTypes, AccountTypes,
           EffectTypes, PlannedTypes
      <4>3. FlagTypes' /\ LeaderTypes' /\ JobTypes'
        BY <2>0, <2>3, <3>4 DEF ClearLastCompletion, FlagTypes, LeaderTypes, JobTypes
      <4> QED
        BY <4>1, <4>2, <4>3 DEF TypeOK
    <3>5. CASE ClearSession(r)
      <4>1. LocalTypes'
        BY <2>0, <2>3, <3>5 DEF ClearSession, LocalTypes, Callback
      <4>2. CountTypes' /\ AccountTypes' /\ EffectTypes' /\ PlannedTypes'
        BY <2>0, <2>3, <3>5 DEF ClearSession, CountTypes, AccountTypes, EffectTypes,
           PlannedTypes
      <4>3. FlagTypes' /\ LeaderTypes' /\ JobTypes'
        BY <2>0, <2>3, <3>5 DEF ClearSession, FlagTypes, LeaderTypes, JobTypes
      <4> QED
        BY <4>1, <4>2, <4>3 DEF TypeOK
    <3>6. CASE ReplaceLegacy(r)
      <4>1. CountTypes' /\ AccountTypes'
        BY <2>0, <2>3, <3>6 DEF ReplaceLegacy, CountTypes, AccountTypes
      <4>2. LocalTypes'
        BY <2>0, <2>3, <3>6, SlotTypes DEF ReplaceLegacy, LocalTypes, DropAdvance
      <4>3. EffectTypes' /\ PlannedTypes'
        BY <2>0, <2>3, <3>6 DEF ReplaceLegacy, EffectTypes, PlannedTypes
      <4>4. FlagTypes' /\ LeaderTypes' /\ JobTypes'
        BY <2>0, <2>3, <3>6 DEF ReplaceLegacy, FlagTypes, LeaderTypes, JobTypes
      <4> QED
        BY <4>1, <4>2, <4>3, <4>4 DEF TypeOK
    <3>7. CASE CallbackFails(r)
      <4>1. LocalTypes'
        BY <2>0, <2>3, <3>7, SlotTypes DEF CallbackFails, LocalTypes
      <4>2. CountTypes' /\ AccountTypes' /\ EffectTypes' /\ PlannedTypes'
        BY <2>0, <2>3, <3>7 DEF CallbackFails, CountTypes, AccountTypes, EffectTypes,
           PlannedTypes
      <4>3. FlagTypes' /\ LeaderTypes' /\ JobTypes'
        BY <2>0, <2>3, <3>7 DEF CallbackFails, FlagTypes, LeaderTypes, JobTypes
      <4> QED
        BY <4>1, <4>2, <4>3 DEF TypeOK
    <3> QED
      BY <2>3, <3>1, <3>2, <3>3, <3>4, <3>5, <3>6, <3>7 DEF CallbackStep
  <2>4. ASSUME NEW r \in Replicas, LeaderStep(r) PROVE TypeOK'
    <3>1. CASE AcquireLease(r)
      <4>1. CountTypes' /\ AccountTypes' /\ EffectTypes' /\ PlannedTypes'
        BY <2>0, <2>4, <3>1 DEF AcquireLease, CountTypes, AccountTypes, EffectTypes,
           PlannedTypes
      <4>2. FlagTypes' /\ LeaderTypes' /\ JobTypes' /\ LocalTypes'
        BY <2>0, <2>4, <3>1 DEF AcquireLease, FlagTypes, LeaderTypes, JobTypes,
           LocalTypes
      <4> QED
        BY <4>1, <4>2 DEF TypeOK
    <3>2. CASE NoticeLoss(r)
      <4>1. LeaderTypes'
        BY <2>0, <2>4, <3>2, SlotTypes DEF NoticeLoss, LeaderTypes
      <4>2. CountTypes' /\ AccountTypes' /\ EffectTypes' /\ PlannedTypes'
        BY <2>0, <2>4, <3>2 DEF NoticeLoss, CountTypes, AccountTypes, EffectTypes,
           PlannedTypes
      <4>3. FlagTypes' /\ JobTypes' /\ LocalTypes'
        BY <2>0, <2>4, <3>2 DEF NoticeLoss, FlagTypes, JobTypes, LocalTypes
      <4> QED
        BY <4>1, <4>2, <4>3 DEF TypeOK
    <3>3. CASE StartPass(r)
      <4>1. LeaderTypes'
        <5>1. \A a \in {"scanned", "listed"} : [pass[r] EXCEPT !.gen = gen, !.at = a] \in Pass
          BY <2>0, <2>4 DEF LeaderTypes, CountTypes, Pass
        <5>2. PICK a \in {"scanned", "listed"} :
                pass' = [pass EXCEPT ![r] = [pass[r] EXCEPT !.gen = gen, !.at = a]]
          BY <3>3 DEF StartPass
        <5> QED
          BY <2>0, <2>4, <3>3, <5>1, <5>2 DEF StartPass, LeaderTypes
      <4>2. CountTypes' /\ AccountTypes' /\ EffectTypes' /\ PlannedTypes'
        BY <2>0, <2>4, <3>3 DEF StartPass, CountTypes, AccountTypes, EffectTypes,
           PlannedTypes
      <4>3. FlagTypes' /\ JobTypes' /\ LocalTypes'
        BY <2>0, <2>4, <3>3 DEF StartPass, FlagTypes, JobTypes, LocalTypes
      <4> QED
        BY <4>1, <4>2, <4>3 DEF TypeOK
    <3>4. CASE ReadAccount(r)
      <4>1. LeaderTypes'
        BY <2>0, <2>4, <3>4, ReadingType DEF ReadAccount, LeaderTypes, Pass
      <4>2. CountTypes' /\ AccountTypes' /\ EffectTypes' /\ PlannedTypes'
        BY <2>0, <2>4, <3>4 DEF ReadAccount, CountTypes, AccountTypes, EffectTypes,
           PlannedTypes
      <4>3. FlagTypes' /\ JobTypes' /\ LocalTypes'
        BY <2>0, <2>4, <3>4 DEF ReadAccount, FlagTypes, JobTypes, LocalTypes
      <4> QED
        BY <4>1, <4>2, <4>3 DEF TypeOK
    <3>5. CASE ScheduleAccount(r)
      <4>1. PlannedTypes' /\ FlagTypes'
        <5>1. pass[r].snap \in Reading
          BY <2>0, <2>4 DEF LeaderTypes, Pass
        <5>2. PlannedTypes' /\ dropped' \in BOOLEAN
          BY <2>0, <3>5, <5>1, ScheduleType DEF ScheduleAccount
        <5> QED
          BY <2>0, <3>5, <5>2 DEF ScheduleAccount, FlagTypes
      <4>2. LeaderTypes'
        BY <2>0, <2>4, <3>5, SlotTypes DEF ScheduleAccount, LeaderTypes, Pass
      <4>3. CountTypes' /\ AccountTypes' /\ EffectTypes'
        BY <2>0, <2>4, <3>5 DEF ScheduleAccount, CountTypes, AccountTypes, EffectTypes
      <4>4. JobTypes' /\ LocalTypes'
        BY <2>0, <2>4, <3>5 DEF ScheduleAccount, JobTypes, LocalTypes
      <4> QED
        BY <4>1, <4>2, <4>3, <4>4 DEF TypeOK
    <3>6. CASE MarkReady(r)
      <4>1. LeaderTypes'
        BY <2>0, <2>4, <3>6, SlotTypes DEF MarkReady, LeaderTypes
      <4>2. FlagTypes'
        BY <2>0, <3>6, Zenon DEF MarkReady, FlagTypes
      <4>3. CountTypes' /\ AccountTypes' /\ EffectTypes' /\ PlannedTypes'
        BY <2>0, <2>4, <3>6 DEF MarkReady, CountTypes, AccountTypes, EffectTypes,
           PlannedTypes
      <4>4. JobTypes' /\ LocalTypes'
        BY <2>0, <2>4, <3>6 DEF MarkReady, JobTypes, LocalTypes
      <4> QED
        BY <4>1, <4>2, <4>3, <4>4 DEF TypeOK
    <3>7. CASE ReadDue(r)
      <4>1. LeaderTypes'
        <5>1. PICK p \in planned :
                pass' = [pass EXCEPT ![r] = [@ EXCEPT !.at = "due", !.score = p.check]]
          BY <3>7 DEF ReadDue
        <5>2. p.check \in Nat /\ pass[r] \in Pass
          BY <2>0, <2>4 DEF PlannedTypes, Plan, LeaderTypes
        <5>3. [pass[r] EXCEPT !.at = "due", !.score = p.check] \in Pass
          BY <5>2 DEF Pass
        <5> QED
          BY <2>0, <2>4, <3>7, <5>1, <5>3 DEF ReadDue, LeaderTypes
      <4>2. CountTypes' /\ AccountTypes' /\ EffectTypes' /\ PlannedTypes'
        BY <2>0, <2>4, <3>7 DEF ReadDue, CountTypes, AccountTypes, EffectTypes,
           PlannedTypes
      <4>3. FlagTypes' /\ JobTypes' /\ LocalTypes'
        BY <2>0, <2>4, <3>7 DEF ReadDue, FlagTypes, JobTypes, LocalTypes
      <4> QED
        BY <4>1, <4>2, <4>3 DEF TypeOK
    <3>8. CASE ClaimDurable(r)
      <4>1. CountTypes' /\ AccountTypes'
        <5>1. \/ UNCHANGED <<fresh, runtimeRev, timer, lastDone>>
              \/ /\ fresh' = fresh + 1 /\ runtimeRev' = fresh /\ lastDone' = None
                 /\ timer' = [ver |-> fresh, state |-> "rest"]
          BY <3>8 DEF ClaimDurable
        <5>2. UNCHANGED <<now, gen, counts>>
          BY <3>8 DEF ClaimDurable
        <5> QED
          BY <2>0, <5>1, <5>2 DEF CountTypes, AccountTypes
      <4>2. EffectTypes'
        <5>1. \A p \in planned :
                [by |-> "durable", start |-> p.last, dur |-> LongBreak, at |-> now]
                  \in Credit
          BY <2>0, Constants DEF PlannedTypes, Plan, CountTypes, Credit
        <5>2. \A c \in Credit : Append(credits, c) \in Seq(Credit)
          BY <2>0, AppendProperties DEF EffectTypes
        <5> QED
          BY <2>0, <3>8, <5>1, <5>2 DEF ClaimDurable, EffectTypes
      <4>3. LeaderTypes'
        BY <2>0, <2>4, <3>8, SlotTypes DEF ClaimDurable, LeaderTypes
      <4>4. PlannedTypes'
        BY <2>0, <2>4, <3>8 DEF ClaimDurable, PlannedTypes
      <4>5. FlagTypes'
        BY <2>0, <2>4, <3>8 DEF ClaimDurable, FlagTypes
      <4>6. JobTypes' /\ LocalTypes'
        BY <2>0, <2>4, <3>8 DEF ClaimDurable, JobTypes, LocalTypes
      <4> QED
        BY <4>1, <4>2, <4>3, <4>4, <4>5, <4>6 DEF TypeOK
    <3> QED
      BY <2>4, <3>1, <3>2, <3>3, <3>4, <3>5, <3>6, <3>7, <3>8 DEF LeaderStep
  <2>5. ASSUME NEW r \in Replicas, CompleteByHandler(r) PROVE TypeOK'
    <3>1. CountTypes' /\ AccountTypes'
      BY <2>0, <2>5 DEF CompleteByHandler, CountTypes, AccountTypes
    <3>2. EffectTypes' /\ PlannedTypes'
      BY <2>0, <2>5 DEF CompleteByHandler, EffectTypes, PlannedTypes
    <3>3. FlagTypes' /\ LeaderTypes' /\ JobTypes' /\ LocalTypes'
      BY <2>0, <2>5 DEF CompleteByHandler, FlagTypes, LeaderTypes, JobTypes, LocalTypes
    <3> QED
      BY <3>1, <3>2, <3>3 DEF TypeOK
  <2>6. ASSUME NEW r \in Replicas, SavePreferences(r) PROVE TypeOK'
    <3>1. JobTypes'
      BY <2>0, <2>6, JobUpdates DEF SavePreferences, JobTypes
    <3>2. CountTypes' /\ AccountTypes' /\ EffectTypes' /\ PlannedTypes'
      BY <2>0, <2>6 DEF SavePreferences, CountTypes, AccountTypes, EffectTypes,
         PlannedTypes
    <3>3. FlagTypes' /\ LeaderTypes' /\ LocalTypes'
      BY <2>0, <2>6 DEF SavePreferences, FlagTypes, LeaderTypes, LocalTypes
    <3> QED
      BY <3>1, <3>2, <3>3 DEF TypeOK
  <2>7. ASSUME NEW r \in Replicas, Crash(r) PROVE TypeOK'
    <3>1. JobTypes'
      BY <2>0, <2>7, SlotTypes DEF Crash, JobTypes
    <3>2. LeaderTypes' /\ LocalTypes'
      BY <2>0, <2>7, SlotTypes DEF Crash, LeaderTypes, LocalTypes
    <3>3. CountTypes' /\ AccountTypes' /\ EffectTypes' /\ PlannedTypes'
      BY <2>0, <2>7 DEF Crash, CountTypes, AccountTypes, EffectTypes, PlannedTypes
    <3>4. FlagTypes'
      BY <2>0, <2>7 DEF Crash, FlagTypes
    <3> QED
      BY <3>1, <3>2, <3>3, <3>4 DEF TypeOK
  <2>8. ASSUME NEW r \in Replicas, NEW state \in {"rest", "run"}, StartTimer(r, state)
        PROVE  TypeOK'
    <3>1. CountTypes' /\ AccountTypes'
      BY <2>0, <2>8 DEF StartTimer, CountTypes, AccountTypes
    <3>2. LocalTypes'
      BY <2>0, <2>8 DEF StartTimer, LocalTypes, DropAdvance
    <3>3. EffectTypes' /\ PlannedTypes'
      BY <2>0, <2>8 DEF StartTimer, EffectTypes, PlannedTypes
    <3>4. FlagTypes' /\ LeaderTypes' /\ JobTypes'
      BY <2>0, <2>8 DEF StartTimer, FlagTypes, LeaderTypes, JobTypes
    <3> QED
      BY <3>1, <3>2, <3>3, <3>4 DEF TypeOK
  <2>9. ASSUME NEW state \in {"rest", "run", "worn"}, TouchTimer(state) PROVE TypeOK'
    <3>1. CountTypes' /\ AccountTypes'
      BY <2>0, <2>9 DEF TouchTimer, CountTypes, AccountTypes
    <3>2. EffectTypes' /\ PlannedTypes'
      BY <2>0, <2>9 DEF TouchTimer, EffectTypes, PlannedTypes
    <3>3. FlagTypes' /\ LeaderTypes' /\ JobTypes' /\ LocalTypes'
      BY <2>0, <2>9 DEF TouchTimer, FlagTypes, LeaderTypes, JobTypes, LocalTypes
    <3> QED
      BY <3>1, <3>2, <3>3 DEF TypeOK
  <2>10. CASE CompleteByStream
    <3>1. CountTypes' /\ AccountTypes'
      BY <2>0, <2>10 DEF CompleteByStream, CountTypes, AccountTypes
    <3>2. EffectTypes'
      BY <2>0, <2>10 DEF CompleteByStream, EffectTypes, CountTypes, Continuation
    <3>3. PlannedTypes'
      BY <2>0, <2>10 DEF CompleteByStream, PlannedTypes
    <3>4. FlagTypes' /\ LeaderTypes' /\ JobTypes' /\ LocalTypes'
      BY <2>0, <2>10 DEF CompleteByStream, FlagTypes, LeaderTypes, JobTypes, LocalTypes
    <3> QED
      BY <3>1, <3>2, <3>3, <3>4 DEF TypeOK
  <2>11. ASSUME NEW p \in continuations,
                ApplyContinuation(p) \/ ReapplyContinuation(p) \/ FinishContinuation(p)
         PROVE  TypeOK'
    <3> DEFINE s == [last |-> p.at, ver |-> p.next, rev |-> p.next, seen |-> writes]
    <3>1. p \in Continuation
      BY <2>0, <2>11 DEF EffectTypes
    <3>2. s \in Reading /\ s.last # None
      BY <2>0, <3>1, Constants DEF Continuation, CountTypes, Reading
    <3>3. Payload(s) \in Plan /\ Payload(s).check = Payload(s).last + LongBreak
      BY <3>2, PayloadType
    <3>4. planned' = {Payload(s)} => PlannedTypes'
      BY <3>3 DEF PlannedTypes
    <3>5. CASE ApplyContinuation(p)
      <4>1. CountTypes' /\ AccountTypes'
        BY <2>0, <3>1, <3>5 DEF ApplyContinuation, CountTypes, AccountTypes, Continuation
      <4>2. PlannedTypes'
        BY <3>4, <3>5 DEF ApplyContinuation
      <4>3. FlagTypes'
        BY <2>0, <3>5 DEF ApplyContinuation, FlagTypes
      <4>4. EffectTypes' /\ LeaderTypes' /\ JobTypes' /\ LocalTypes'
        BY <2>0, <3>5
           DEF ApplyContinuation, EffectTypes, LeaderTypes, JobTypes, LocalTypes
      <4> QED
        BY <4>1, <4>2, <4>3, <4>4 DEF TypeOK
    <3>6. CASE ReapplyContinuation(p)
      <4>1. PlannedTypes'
        BY <3>4, <3>6 DEF ReapplyContinuation
      <4>2. CountTypes' /\ AccountTypes' /\ EffectTypes' /\ FlagTypes'
        BY <2>0, <3>6
           DEF ReapplyContinuation, CountTypes, AccountTypes, EffectTypes, FlagTypes
      <4>3. LeaderTypes' /\ JobTypes' /\ LocalTypes'
        BY <2>0, <3>6 DEF ReapplyContinuation, LeaderTypes, JobTypes, LocalTypes
      <4> QED
        BY <4>1, <4>2, <4>3 DEF TypeOK
    <3>7. CASE FinishContinuation(p)
      BY <2>0, <3>7
         DEF FinishContinuation, TypeOK, CountTypes, AccountTypes, EffectTypes, FlagTypes,
             PlannedTypes, LeaderTypes, JobTypes, LocalTypes
    <3> QED
      BY <2>11, <3>5, <3>6, <3>7
  <2>12. CASE LoseLease
    <3>1. CountTypes' /\ AccountTypes' /\ EffectTypes' /\ PlannedTypes'
      BY <2>0, <2>12 DEF LoseLease, CountTypes, AccountTypes, EffectTypes, PlannedTypes
    <3>2. FlagTypes' /\ LeaderTypes' /\ JobTypes' /\ LocalTypes'
      BY <2>0, <2>12 DEF LoseLease, FlagTypes, LeaderTypes, JobTypes, LocalTypes
    <3> QED
      BY <3>1, <3>2 DEF TypeOK
  <2>13. CASE ExpireLease
    <3>1. CountTypes' /\ AccountTypes' /\ EffectTypes' /\ PlannedTypes'
      BY <2>0, <2>13 DEF ExpireLease, CountTypes, AccountTypes, EffectTypes,
         PlannedTypes
    <3>2. FlagTypes' /\ LeaderTypes' /\ JobTypes' /\ LocalTypes'
      BY <2>0, <2>13 DEF ExpireLease, FlagTypes, LeaderTypes, JobTypes, LocalTypes
    <3> QED
      BY <3>1, <3>2 DEF TypeOK
  <2>14. CASE EnableDurable
    <3>1. CountTypes' /\ AccountTypes' /\ EffectTypes' /\ PlannedTypes'
      BY <2>0, <2>14 DEF EnableDurable, CountTypes, AccountTypes, EffectTypes,
         PlannedTypes
    <3>2. FlagTypes' /\ LeaderTypes' /\ JobTypes' /\ LocalTypes'
      BY <2>0, <2>14 DEF EnableDurable, FlagTypes, LeaderTypes, JobTypes, LocalTypes
    <3> QED
      BY <3>1, <3>2 DEF TypeOK
  <2>15. CASE Tick
    <3>1. CountTypes' /\ AccountTypes' /\ EffectTypes' /\ PlannedTypes'
      BY <2>0, <2>15 DEF Tick, CountTypes, AccountTypes, EffectTypes, PlannedTypes
    <3>2. FlagTypes' /\ LeaderTypes' /\ JobTypes' /\ LocalTypes'
      BY <2>0, <2>15 DEF Tick, FlagTypes, LeaderTypes, JobTypes, LocalTypes
    <3> QED
      BY <3>1, <3>2 DEF TypeOK
  <2>16. CASE UNCHANGED vars
    BY <2>0, <2>16
       DEF vars, TypeOK, CountTypes, AccountTypes, EffectTypes, FlagTypes, PlannedTypes,
           LeaderTypes, JobTypes, LocalTypes
  <2> QED
    BY <2>1, <2>2, <2>3, <2>4, <2>5, <2>6, <2>7, <2>8, <2>9, <2>10, <2>11, <2>12, <2>13,
       <2>14, <2>15, <2>16 DEF Next, ContinuationStep
<1> QED
  BY <1>1, <1>2, PTL DEF Spec

-----------------------------------------------------------------------------
(* The fence of the durable claim *)

\* What was read of version s.ver was read before the user's next write, and a
\* continuation that may still be applied brings a version nobody has read.
Fits(s, ver, w, f, plans) ==
    /\ s.ver < f
    /\ s.ver = ver => s.seen = w
    /\ \A p \in plans : p.from = ver => s.ver # p.next

Carried(s) == Fits(s, timer.ver, writes, fresh, continuations)

\* Versions are drawn from fresh; a continuation's next Timer completes no
\* Timer of another continuation.
VersionsAhead ==
    /\ timer.ver < fresh
    /\ timer.ver = 0 => writes = 0
    /\ \A p \in continuations :
          /\ 0 < p.next /\ p.from < fresh /\ p.next < fresh
          /\ \A q \in continuations : q.from # p.next

\* The inductive invariant: a version tells what the user had written, in the
\* schedule and wherever a replica carries a reading to it.
Fenced ==
    /\ VersionsAhead
    /\ \A p, q \in planned : p = q
    /\ \A s \in planned : Carried(s)
    /\ \A r \in Replicas : Carried(job[r].snap) /\ Carried(pass[r].snap)

(* What a step may do to the versions and to the readings. *)

Quiet ==
    /\ UNCHANGED <<timer, writes>>
    /\ fresh' \in {fresh, fresh + 1} /\ continuations' \subseteq continuations

Replaced ==
    /\ timer'.ver = fresh /\ fresh' = fresh + 1 /\ UNCHANGED continuations

Completed ==
    /\ timer'.ver = fresh /\ fresh' = fresh + 2 /\ UNCHANGED writes
    /\ \E c : /\ c.from = fresh /\ c.next = fresh + 1
             /\ continuations' = continuations \cup {c}

Applied ==
    /\ UNCHANGED <<writes, fresh, continuations>>
    /\ \E p \in continuations : timer.ver = p.from /\ timer'.ver = p.next

Continued(p) == Payload([last |-> p.at, ver |-> p.next, rev |-> p.next, seen |-> writes])

ReadingsKept ==
    \A q \in Replicas : /\ job'[q].snap \in {job[q].snap, NoSnapshot, Snapshot}
                        /\ pass'[q].snap \in {pass[q].snap, NoSnapshot, Snapshot}

PlannedKept ==
    \/ planned' \subseteq planned
    \/ \E q \in Replicas : planned' \in {{Payload(job[q].snap)}, {Payload(pass[q].snap)}}
    \/ /\ UNCHANGED <<writes, continuations>>
       /\ \E p \in continuations : timer'.ver = p.next /\ planned' = {Continued(p)}

\* Every step is of one of the four kinds, carries readings only to where they
\* belong, and credits a long break only by the two claims.
LEMMA StepKinds ==
    ASSUME TypeOK, [Next]_vars
    PROVE  /\ Quiet \/ Replaced \/ Completed \/ Applied
           /\ ReadingsKept /\ PlannedKept
           /\ \/ credits' = credits
              \/ \E r \in Replicas : RecordLegacy(r) \/ ClaimDurable(r)
<1> DEFINE Kinds ==
      /\ Quiet \/ Replaced \/ Completed \/ Applied
      /\ ReadingsKept /\ PlannedKept
      /\ \/ credits' = credits
         \/ \E r \in Replicas : RecordLegacy(r) \/ ClaimDurable(r)
<1> USE DEF redis, leader, local, counts, PutTimer
<1>0. job \in [Replicas -> Job] /\ pass \in [Replicas -> Pass]
  BY DEF TypeOK, JobTypes, LeaderTypes
<1>1. ASSUME NEW r \in Replicas, HandlerStep(r) PROVE Kinds
  <2>1. CASE SetLastCompletion(r)
    <3>1. Quiet
      BY <1>1, <2>1 DEF SetLastCompletion, Quiet
    <3>2. ReadingsKept
      BY <1>0, <1>1, <2>1 DEF SetLastCompletion, ReadingsKept
    <3>3. PlannedKept
      BY <1>1, <2>1 DEF SetLastCompletion, PlannedKept
    <3> QED
      BY <1>1, <2>1, <3>1, <3>2, <3>3 DEF SetLastCompletion
  <2>2. CASE ClearDetected(r)
    <3>1. Quiet
      BY <1>1, <2>2 DEF ClearDetected, Quiet
    <3>2. ReadingsKept
      BY <1>0, <1>1, <2>2 DEF ClearDetected, ReadingsKept, Enqueue, Provided
    <3>3. PlannedKept
      BY <1>1, <2>2 DEF ClearDetected, PlannedKept
    <3> QED
      BY <1>1, <2>2, <3>1, <3>2, <3>3 DEF ClearDetected
  <2>3. CASE AdvanceFails(r)
    <3>1. Quiet
      BY <1>1, <2>3 DEF AdvanceFails, Quiet
    <3>2. ReadingsKept
      BY <1>0, <1>1, <2>3 DEF AdvanceFails, ReadingsKept
    <3>3. PlannedKept
      BY <1>1, <2>3 DEF AdvanceFails, PlannedKept
    <3> QED
      BY <1>1, <2>3, <3>1, <3>2, <3>3 DEF AdvanceFails
  <2>4. ASSUME NEW state \in {"rest", "run"}, AutoAdvance(r, state) PROVE Kinds
    <3>1. Replaced
      BY <1>1, <2>4 DEF AutoAdvance, Replaced
    <3>2. ReadingsKept
      BY <1>0, <1>1, <2>4 DEF AutoAdvance, ReadingsKept, Enqueue, Provided
    <3>3. PlannedKept
      BY <1>1, <2>4 DEF AutoAdvance, PlannedKept
    <3> QED
      BY <1>1, <2>4, <3>1, <3>2, <3>3 DEF AutoAdvance
  <2> QED
    BY <1>1, <2>1, <2>2, <2>3, <2>4 DEF HandlerStep
<1>2. ASSUME NEW r \in Replicas, JobStep(r) PROVE Kinds
  <2>1. CASE PrepareJob(r)
    <3>1. Quiet
      BY <1>2, <2>1 DEF PrepareJob, Quiet
    <3>2. ReadingsKept
      BY <1>0, <1>2, <2>1 DEF PrepareJob, ReadingsKept, Dequeue
    <3>3. PlannedKept
      BY <1>2, <2>1 DEF PrepareJob, PlannedKept
    <3> QED
      BY <1>2, <2>1, <3>1, <3>2, <3>3 DEF PrepareJob
  <2>2. CASE ReadJob(r)
    <3>1. Quiet
      BY <1>2, <2>2 DEF ReadJob, Quiet
    <3>2. ReadingsKept
      BY <1>0, <1>2, <2>2 DEF ReadJob, ReadingsKept
    <3>3. PlannedKept
      BY <1>2, <2>2 DEF ReadJob, PlannedKept
    <3> QED
      BY <1>2, <2>2, <3>1, <3>2, <3>3 DEF ReadJob
  <2>3. CASE WriteJob(r)
    <3>1. Quiet
      BY <1>2, <2>3 DEF WriteJob, Quiet
    <3>2. ReadingsKept
      BY <1>0, <1>2, <2>3 DEF WriteJob, ReadingsKept
    <3>3. PlannedKept
      BY <1>2, <2>3 DEF WriteJob, PlannedKept, Schedule, PlannedBy
    <3> QED
      BY <1>2, <2>3, <3>1, <3>2, <3>3 DEF WriteJob
  <2>4. CASE ArmJob(r)
    <3>1. Quiet
      BY <1>2, <2>4 DEF ArmJob, Quiet
    <3>2. ReadingsKept
      BY <1>0, <1>2, <2>4 DEF ArmJob, ReadingsKept
    <3>3. PlannedKept
      BY <1>2, <2>4 DEF ArmJob, PlannedKept
    <3> QED
      BY <1>2, <2>4, <3>1, <3>2, <3>3 DEF ArmJob
  <2>5. CASE Restart(r)
    <3>1. Quiet
      BY <1>2, <2>5 DEF Restart, Quiet
    <3>2. ReadingsKept
      BY <1>0, <1>2, <2>5 DEF Restart, ReadingsKept
    <3>3. PlannedKept
      BY <1>2, <2>5 DEF Restart, PlannedKept
    <3> QED
      BY <1>2, <2>5, <3>1, <3>2, <3>3 DEF Restart
  <2> QED
    BY <1>2, <2>1, <2>2, <2>3, <2>4, <2>5 DEF JobStep
<1>3. ASSUME NEW r \in Replicas, CallbackStep(r) PROVE Kinds
  <2>1. CASE FireCallback(r)
    <3>1. Quiet
      BY <1>3, <2>1 DEF FireCallback, Quiet
    <3>2. ReadingsKept
      BY <1>0, <1>3, <2>1 DEF FireCallback, ReadingsKept, Enqueue, Provided
    <3>3. PlannedKept
      BY <1>3, <2>1 DEF FireCallback, PlannedKept
    <3> QED
      BY <1>3, <2>1, <3>1, <3>2, <3>3 DEF FireCallback
  <2>2. CASE ClaimLegacy(r)
    <3>1. Quiet
      BY <1>3, <2>2 DEF ClaimLegacy, Quiet
    <3>2. ReadingsKept
      BY <1>0, <1>3, <2>2 DEF ClaimLegacy, ReadingsKept
    <3>3. PlannedKept
      BY <1>3, <2>2 DEF ClaimLegacy, PlannedKept
    <3> QED
      BY <1>3, <2>2, <3>1, <3>2, <3>3 DEF ClaimLegacy
  <2>3. CASE RecordLegacy(r)
    <3>1. Quiet
      BY <1>3, <2>3 DEF RecordLegacy, Quiet
    <3>2. ReadingsKept
      BY <1>0, <1>3, <2>3 DEF RecordLegacy, ReadingsKept
    <3>3. PlannedKept
      BY <1>3, <2>3 DEF RecordLegacy, PlannedKept
    <3> QED
      BY <1>3, <2>3, <3>1, <3>2, <3>3
  <2>4. CASE ClearLastCompletion(r)
    <3>1. Quiet
      BY <1>3, <2>4 DEF ClearLastCompletion, Quiet
    <3>2. ReadingsKept
      BY <1>0, <1>3, <2>4 DEF ClearLastCompletion, ReadingsKept
    <3>3. PlannedKept
      BY <1>3, <2>4 DEF ClearLastCompletion, PlannedKept
    <3> QED
      BY <1>3, <2>4, <3>1, <3>2, <3>3 DEF ClearLastCompletion
  <2>5. CASE ClearSession(r)
    <3>1. Quiet
      BY <1>3, <2>5 DEF ClearSession, Quiet
    <3>2. ReadingsKept
      BY <1>0, <1>3, <2>5 DEF ClearSession, ReadingsKept
    <3>3. PlannedKept
      BY <1>3, <2>5 DEF ClearSession, PlannedKept
    <3> QED
      BY <1>3, <2>5, <3>1, <3>2, <3>3 DEF ClearSession
  <2>6. CASE ReplaceLegacy(r)
    <3>1. Replaced
      BY <1>3, <2>6 DEF ReplaceLegacy, Replaced
    <3>2. ReadingsKept
      BY <1>0, <1>3, <2>6 DEF ReplaceLegacy, ReadingsKept
    <3>3. PlannedKept
      BY <1>3, <2>6 DEF ReplaceLegacy, PlannedKept
    <3> QED
      BY <1>3, <2>6, <3>1, <3>2, <3>3 DEF ReplaceLegacy
  <2>7. CASE CallbackFails(r)
    <3>1. Quiet
      BY <1>3, <2>7 DEF CallbackFails, Quiet
    <3>2. ReadingsKept
      BY <1>0, <1>3, <2>7 DEF CallbackFails, ReadingsKept
    <3>3. PlannedKept
      BY <1>3, <2>7 DEF CallbackFails, PlannedKept
    <3> QED
      BY <1>3, <2>7, <3>1, <3>2, <3>3 DEF CallbackFails
  <2> QED
    BY <1>3, <2>1, <2>2, <2>3, <2>4, <2>5, <2>6, <2>7 DEF CallbackStep
<1>4. ASSUME NEW r \in Replicas, LeaderStep(r) PROVE Kinds
  <2>1. CASE AcquireLease(r)
    <3>1. Quiet
      BY <1>4, <2>1 DEF AcquireLease, Quiet
    <3>2. ReadingsKept
      BY <1>0, <1>4, <2>1 DEF AcquireLease, ReadingsKept
    <3>3. PlannedKept
      BY <1>4, <2>1 DEF AcquireLease, PlannedKept
    <3> QED
      BY <1>4, <2>1, <3>1, <3>2, <3>3 DEF AcquireLease
  <2>2. CASE NoticeLoss(r)
    <3>1. Quiet
      BY <1>4, <2>2 DEF NoticeLoss, Quiet
    <3>2. ReadingsKept
      BY <1>0, <1>4, <2>2 DEF NoticeLoss, ReadingsKept, NoPass
    <3>3. PlannedKept
      BY <1>4, <2>2 DEF NoticeLoss, PlannedKept
    <3> QED
      BY <1>4, <2>2, <3>1, <3>2, <3>3 DEF NoticeLoss
  <2>3. CASE StartPass(r)
    <3>1. Quiet
      BY <1>4, <2>3 DEF StartPass, Quiet
    <3>2. ReadingsKept
      BY <1>0, <1>4, <2>3 DEF StartPass, ReadingsKept
    <3>3. PlannedKept
      BY <1>4, <2>3 DEF StartPass, PlannedKept
    <3> QED
      BY <1>4, <2>3, <3>1, <3>2, <3>3 DEF StartPass
  <2>4. CASE ReadAccount(r)
    <3>1. Quiet
      BY <1>4, <2>4 DEF ReadAccount, Quiet
    <3>2. ReadingsKept
      BY <1>0, <1>4, <2>4 DEF ReadAccount, ReadingsKept
    <3>3. PlannedKept
      BY <1>4, <2>4 DEF ReadAccount, PlannedKept
    <3> QED
      BY <1>4, <2>4, <3>1, <3>2, <3>3 DEF ReadAccount
  <2>5. CASE ScheduleAccount(r)
    <3>1. Quiet
      BY <1>4, <2>5 DEF ScheduleAccount, Quiet
    <3>2. ReadingsKept
      BY <1>0, <1>4, <2>5 DEF ScheduleAccount, ReadingsKept
    <3>3. PlannedKept
      BY <1>4, <2>5 DEF ScheduleAccount, PlannedKept, Schedule, PlannedBy
    <3> QED
      BY <1>4, <2>5, <3>1, <3>2, <3>3 DEF ScheduleAccount
  <2>6. CASE MarkReady(r)
    <3>1. Quiet
      BY <1>4, <2>6 DEF MarkReady, Quiet
    <3>2. ReadingsKept
      BY <1>0, <1>4, <2>6 DEF MarkReady, ReadingsKept, NoPass
    <3>3. PlannedKept
      BY <1>4, <2>6 DEF MarkReady, PlannedKept
    <3> QED
      BY <1>4, <2>6, <3>1, <3>2, <3>3 DEF MarkReady
  <2>7. CASE ReadDue(r)
    <3>1. Quiet
      BY <1>4, <2>7 DEF ReadDue, Quiet
    <3>2. ReadingsKept
      BY <1>0, <1>4, <2>7 DEF ReadDue, ReadingsKept
    <3>3. PlannedKept
      BY <1>4, <2>7 DEF ReadDue, PlannedKept
    <3> QED
      BY <1>4, <2>7, <3>1, <3>2, <3>3 DEF ReadDue
  <2>8. CASE ClaimDurable(r)
    <3>1. Quiet \/ Replaced
      <4>1. \/ UNCHANGED <<timer, fresh>>
            \/ timer' = [ver |-> fresh, state |-> "rest"] /\ fresh' = fresh + 1
        BY <2>8 DEF ClaimDurable
      <4>2. UNCHANGED <<continuations, writes>>
        BY <1>4, <2>8 DEF ClaimDurable
      <4> QED
        BY <4>1, <4>2 DEF Quiet, Replaced
    <3>2. ReadingsKept
      BY <1>0, <1>4, <2>8 DEF ClaimDurable, ReadingsKept, NoPass
    <3>3. PlannedKept
      BY <1>4, <2>8 DEF ClaimDurable, PlannedKept
    <3> QED
      BY <1>4, <2>8, <3>1, <3>2, <3>3
  <2> QED
    BY <1>4, <2>1, <2>2, <2>3, <2>4, <2>5, <2>6, <2>7, <2>8 DEF LeaderStep
<1>5. ASSUME NEW r \in Replicas, CompleteByHandler(r) PROVE Kinds
  <2>1. Replaced
    BY <1>5 DEF CompleteByHandler, Replaced
  <2>2. ReadingsKept
    BY <1>0, <1>5 DEF CompleteByHandler, ReadingsKept
  <2>3. PlannedKept
    BY <1>5 DEF CompleteByHandler, PlannedKept
  <2> QED
    BY <1>5, <2>1, <2>2, <2>3 DEF CompleteByHandler
<1>6. ASSUME NEW r \in Replicas, SavePreferences(r) PROVE Kinds
  <2>1. Quiet
    BY <1>6 DEF SavePreferences, Quiet
  <2>2. ReadingsKept
    BY <1>0, <1>6 DEF SavePreferences, ReadingsKept, Enqueue
  <2>3. PlannedKept
    BY <1>6 DEF SavePreferences, PlannedKept
  <2> QED
    BY <1>6, <2>1, <2>2, <2>3 DEF SavePreferences
<1>7. ASSUME NEW r \in Replicas, Crash(r) PROVE Kinds
  <2>1. Quiet
    BY <1>7 DEF Crash, Quiet
  <2>2. ReadingsKept
    BY <1>0, <1>7 DEF Crash, ReadingsKept, IdleJob, NoPass
  <2>3. PlannedKept
    BY <1>7 DEF Crash, PlannedKept
  <2> QED
    BY <1>7, <2>1, <2>2, <2>3 DEF Crash
<1>8. ASSUME NEW r \in Replicas, NEW state \in {"rest", "run"}, StartTimer(r, state)
      PROVE  Kinds
  <2>1. Replaced
    BY <1>8 DEF StartTimer, Replaced
  <2>2. ReadingsKept
    BY <1>0, <1>8 DEF StartTimer, ReadingsKept
  <2>3. PlannedKept
    BY <1>8 DEF StartTimer, PlannedKept
  <2> QED
    BY <1>8, <2>1, <2>2, <2>3 DEF StartTimer
<1>9. ASSUME NEW state \in {"rest", "run", "worn"}, TouchTimer(state) PROVE Kinds
  <2>1. Replaced
    BY <1>9 DEF TouchTimer, Replaced
  <2>2. ReadingsKept
    BY <1>0, <1>9 DEF TouchTimer, ReadingsKept
  <2>3. PlannedKept
    BY <1>9 DEF TouchTimer, PlannedKept
  <2> QED
    BY <1>9, <2>1, <2>2, <2>3 DEF TouchTimer
<1>10. CASE CompleteByStream
  <2>1. Completed
    BY <1>10 DEF CompleteByStream, Completed
  <2>2. ReadingsKept
    BY <1>0, <1>10 DEF CompleteByStream, ReadingsKept
  <2>3. PlannedKept
    BY <1>10 DEF CompleteByStream, PlannedKept
  <2> QED
    BY <1>10, <2>1, <2>2, <2>3 DEF CompleteByStream
<1>11. ASSUME NEW p \in continuations, ApplyContinuation(p) PROVE Kinds
  <2>1. Applied
    BY <1>11 DEF ApplyContinuation, Applied
  <2>2. ReadingsKept
    BY <1>0, <1>11 DEF ApplyContinuation, ReadingsKept
  <2>3. PlannedKept
    BY <1>11 DEF ApplyContinuation, PlannedKept, Continued
  <2> QED
    BY <1>11, <2>1, <2>2, <2>3 DEF ApplyContinuation
<1>12. ASSUME NEW p \in continuations, ReapplyContinuation(p) PROVE Kinds
  <2>1. Quiet
    BY <1>12 DEF ReapplyContinuation, Quiet
  <2>2. ReadingsKept
    BY <1>0, <1>12 DEF ReapplyContinuation, ReadingsKept
  <2>3. PlannedKept
    BY <1>12 DEF ReapplyContinuation, PlannedKept, Continued
  <2> QED
    BY <1>12, <2>1, <2>2, <2>3 DEF ReapplyContinuation
<1>13. ASSUME NEW p \in continuations, FinishContinuation(p) PROVE Kinds
  <2>1. Quiet
    BY <1>13 DEF FinishContinuation, Quiet
  <2>2. ReadingsKept
    BY <1>0, <1>13 DEF FinishContinuation, ReadingsKept
  <2>3. PlannedKept
    BY <1>13 DEF FinishContinuation, PlannedKept
  <2> QED
    BY <1>13, <2>1, <2>2, <2>3 DEF FinishContinuation
<1>14. CASE LoseLease
  <2>1. Quiet
    BY <1>14 DEF LoseLease, Quiet
  <2>2. ReadingsKept
    BY <1>0, <1>14 DEF LoseLease, ReadingsKept
  <2>3. PlannedKept
    BY <1>14 DEF LoseLease, PlannedKept
  <2> QED
    BY <1>14, <2>1, <2>2, <2>3 DEF LoseLease
<1>15. CASE ExpireLease
  <2>1. Quiet
    BY <1>15 DEF ExpireLease, Quiet
  <2>2. ReadingsKept
    BY <1>0, <1>15 DEF ExpireLease, ReadingsKept
  <2>3. PlannedKept
    BY <1>15 DEF ExpireLease, PlannedKept
  <2> QED
    BY <1>15, <2>1, <2>2, <2>3 DEF ExpireLease
<1>16. CASE EnableDurable
  <2>1. Quiet
    BY <1>16 DEF EnableDurable, Quiet
  <2>2. ReadingsKept
    BY <1>0, <1>16 DEF EnableDurable, ReadingsKept
  <2>3. PlannedKept
    BY <1>16 DEF EnableDurable, PlannedKept
  <2> QED
    BY <1>16, <2>1, <2>2, <2>3 DEF EnableDurable
<1>17. CASE Tick
  <2>1. Quiet
    BY <1>17 DEF Tick, Quiet
  <2>2. ReadingsKept
    BY <1>0, <1>17 DEF Tick, ReadingsKept
  <2>3. PlannedKept
    BY <1>17 DEF Tick, PlannedKept
  <2> QED
    BY <1>17, <2>1, <2>2, <2>3 DEF Tick
<1>18. CASE UNCHANGED vars
  <2>1. Quiet
    BY <1>18 DEF vars, Quiet
  <2>2. ReadingsKept
    BY <1>0, <1>18 DEF vars, ReadingsKept
  <2>3. PlannedKept
    BY <1>18 DEF vars, PlannedKept
  <2> QED
    BY <1>18, <2>1, <2>2, <2>3 DEF vars
<1> QED
  BY <1>1, <1>2, <1>3, <1>4, <1>5, <1>6, <1>7, <1>8, <1>9, <1>10, <1>11, <1>12, <1>13,
     <1>14, <1>15, <1>16, <1>17, <1>18 DEF Next, ContinuationStep

\* What fits the versions before a step fits them after it.
LEMMA VersionsMove ==
    ASSUME TypeOK, VersionsAhead, Quiet \/ Replaced \/ Completed \/ Applied
    PROVE  /\ VersionsAhead'
           /\ \A s : s.ver \in Nat /\ Carried(s)
                   => Fits(s, timer'.ver, writes', fresh', continuations')
<1>1. /\ timer.ver \in Nat /\ fresh \in Nat
      /\ \A p \in continuations : p.from \in Nat /\ p.next \in Nat
  BY DEF TypeOK, AccountTypes, CountTypes, EffectTypes, Continuation
<1>2. CASE Quiet
  BY <1>1, <1>2 DEF Quiet, VersionsAhead, Carried, Fits
<1>3. CASE Replaced
  BY <1>1, <1>3 DEF Replaced, VersionsAhead, Carried, Fits
<1>4. CASE Completed
  <2>1. PICK c : /\ c.from = fresh /\ c.next = fresh + 1
                 /\ continuations' = continuations \cup {c}
    BY <1>4 DEF Completed
  <2> QED
    BY <1>1, <1>4, <2>1 DEF Completed, VersionsAhead, Carried, Fits
<1>5. CASE Applied
  BY <1>1, <1>5 DEF Applied, VersionsAhead, Carried, Fits
<1> QED
  BY <1>2, <1>3, <1>4, <1>5

\* What is read now, what is read from nothing, and a payload carry the version
\* they were read at.
LEMMA ReadingsFit ==
    ASSUME TypeOK, VersionsAhead
    PROVE  /\ Carried(Snapshot) /\ Carried(NoSnapshot)
           /\ \A s : Carried(s) => Carried(Payload(s))
           /\ \A s : Payload(s).ver = s.ver
<1>1. /\ timer.ver \in Nat /\ fresh \in Nat
      /\ \A p \in continuations : p.from \in Nat /\ p.next \in Nat
  BY DEF TypeOK, AccountTypes, CountTypes, EffectTypes, Continuation
<1>2. Carried(Snapshot)
  BY <1>1 DEF VersionsAhead, Carried, Fits, Snapshot
<1>3. Carried(NoSnapshot)
  BY <1>1 DEF VersionsAhead, Carried, Fits, NoSnapshot
<1>4. \A s : Payload(s).ver = s.ver /\ Payload(s).seen = s.seen
  BY DEF Payload
<1> QED
  BY <1>2, <1>3, <1>4 DEF Carried, Fits

\* The payload of a continuation fits what the step leaves.
LEMMA ContinuedFits ==
    ASSUME TypeOK, VersionsAhead', NEW p \in continuations, p \in continuations',
           timer'.ver = p.next, UNCHANGED writes
    PROVE  Fits(Continued(p), timer'.ver, writes', fresh', continuations')
  BY DEF VersionsAhead, Fits, Continued, Payload

-----------------------------------------------------------------------------
\* The versions keep telling what the user had written.
THEOREM FenceKept == Spec => []Fenced
<1>1. Init => Fenced
  BY DEF Init, Fenced, VersionsAhead, Carried, Fits, IdleJob, NoPass, NoSnapshot
<1>2. ASSUME TypeOK, Fenced, [Next]_vars PROVE Fenced'
  <2>1. /\ Quiet \/ Replaced \/ Completed \/ Applied
        /\ ReadingsKept /\ PlannedKept
    BY <1>2, StepKinds
  <2>2. /\ VersionsAhead'
        /\ \A s : s.ver \in Nat /\ Carried(s)
                => Fits(s, timer'.ver, writes', fresh', continuations')
    BY <1>2, <2>1, VersionsMove DEF Fenced
  <2>3. /\ Carried(Snapshot) /\ Carried(NoSnapshot)
        /\ \A s : Carried(s) => Carried(Payload(s))
        /\ \A s : Payload(s).ver = s.ver
    BY <1>2, ReadingsFit DEF Fenced
  <2>4. /\ Snapshot.ver \in Nat /\ NoSnapshot.ver \in Nat
        /\ \A q \in Replicas : job[q].snap.ver \in Nat /\ pass[q].snap.ver \in Nat
        /\ \A s \in planned : s.ver \in Nat
    BY <1>2, ReadingType, SlotTypes
       DEF TypeOK, JobTypes, LeaderTypes, PlannedTypes, Job, Pass, Reading, Plan
  <2>5. ASSUME NEW q \in Replicas
        PROVE  Carried(job[q].snap)' /\ Carried(pass[q].snap)'
    BY <1>2, <2>1, <2>2, <2>3, <2>4 DEF ReadingsKept, Fenced, Carried
  <2>6. (\A p, q \in planned : p = q)' /\ (\A s \in planned : Carried(s))'
    <3>1. CASE planned' \subseteq planned
      BY <1>2, <2>2, <2>4, <3>1 DEF Fenced, Carried
    <3>2. ASSUME NEW q \in Replicas,
                 planned' \in {{Payload(job[q].snap)}, {Payload(pass[q].snap)}}
          PROVE  /\ (\A p, s \in planned : p = s)'
                 /\ (\A s \in planned : Carried(s))'
      <4>1. /\ Carried(Payload(job[q].snap)) /\ Carried(Payload(pass[q].snap))
            /\ Payload(job[q].snap).ver \in Nat /\ Payload(pass[q].snap).ver \in Nat
        BY <1>2, <2>3, <2>4, <3>2 DEF Fenced
      <4> QED
        BY <2>2, <3>2, <4>1 DEF Carried
    <3>3. ASSUME NEW p \in continuations, UNCHANGED <<writes, continuations>>,
                 timer'.ver = p.next, planned' = {Continued(p)}
          PROVE  /\ (\A q, s \in planned : q = s)'
                 /\ (\A s \in planned : Carried(s))'
      <4>1. Fits(Continued(p), timer'.ver, writes', fresh', continuations')
        BY <1>2, <2>2, <3>3, ContinuedFits
      <4> QED
        BY <3>3, <4>1 DEF Carried
    <3> QED
      BY <2>1, <3>1, <3>2, <3>3 DEF PlannedKept
  <2> QED
    BY <2>2, <2>5, <2>6 DEF Fenced
<1> QED
  BY <1>1, <1>2, IdleTypes, PTL DEF Spec

\* A durable claim takes away a Timer that waits and that the user has not
\* written since the schedule was read, however many replicas read, schedule,
\* lose their leases and die.
THEOREM UserWorkIsSafe == Spec => NeverOverwritesUserWork
<1> DEFINE Harmless ==
      credits' # credits /\ credits'[Len(credits')].by = "durable"
        => timer.state = "rest" /\ \A p \in planned : p.seen = writes
<1>1. ASSUME TypeOK, Fenced, [Next]_vars PROVE Harmless
  <2> SUFFICES ASSUME credits' # credits, credits'[Len(credits')].by = "durable"
               PROVE  timer.state = "rest" /\ \A p \in planned : p.seen = writes
    OBVIOUS
  <2>1. PICK r \in Replicas : RecordLegacy(r) \/ ClaimDurable(r)
    BY <1>1, StepKinds
  <2>2. CASE RecordLegacy(r)
    <3> DEFINE credit == [by |-> "legacy", start |-> callback[r].last,
                         dur |-> now - callback[r].last, at |-> now]
    <3>1. credits' = Append(credits, credit) /\ credit.by = "legacy"
      BY <2>2 DEF RecordLegacy
    <3>2. credits \in Seq(Credit)
      BY <1>1 DEF TypeOK, EffectTypes
    <3> HIDE DEF credit
    <3>3. credits'[Len(credits')] = credit
      BY <3>1, <3>2
    <3> QED
      BY <3>1, <3>3
  <2>3. CASE ClaimDurable(r)
    <3>1. PICK p \in planned : Claimable(p)
      BY <2>3 DEF ClaimDurable
    <3>2. timer.state = "rest" /\ timer.ver = p.ver
      BY <3>1 DEF Claimable, TimerUntouched
    <3>3. p.seen = writes
      BY <1>1, <3>1, <3>2 DEF Fenced, Carried, Fits
    <3> QED
      BY <1>1, <3>1, <3>2, <3>3 DEF Fenced
  <2> QED
    BY <2>1, <2>2, <2>3
<1>2. Spec => [][Harmless]_vars
  BY <1>1, IdleTypes, FenceKept, PTL DEF Spec
<1> QED
  BY <1>2 DEF NeverOverwritesUserWork

-----------------------------------------------------------------------------
(* One long break per completion *)

\* A long break since t is recorded, or its claimed callback will record it.
Credited(t) == \E i \in 1..Len(credits) : credits[i].start = t
Claims(r, t) == callback[r].at = "claimed" /\ callback[r].last = t
Spent(t) == Credited(t) \/ \E r \in Replicas : Claims(r, t)

\* A completion that is a long break ago.
Old(t) == t \in Nat /\ t + LongBreak <= now

\* What a callback has claimed nobody else has claimed or recorded.
ClaimedOnce ==
    /\ \A r \in Replicas : callback[r].at = "claimed" => ~Credited(callback[r].last)
    /\ \A r, q \in Replicas :
          callback[q].at = "claimed" /\ Claims(r, callback[q].last) => r = q

SpentIsOld ==
    /\ \A t : Spent(t) => Old(t)
    /\ \A r \in Replicas : callback[r].at = "read" => Old(callback[r].last)

\* No break is spent yet on a last completion that waits, nor on one that a plan or a
\* handler is about to store; and no two of them are under way at once.
Unspent ==
    /\ lastDone # None /\ ~detected => ~Spent(lastDone)
    /\ \A p \in continuations : timer.ver = p.from => timer.state = "worn" /\ ~Spent(p.at)
    /\ \A r \in Replicas : handler[r] = "clear" => lastDone \in {None, now}
    /\ \A r \in Replicas : handler[r] \in {"set", "clear"} =>
          \A p \in continuations : timer.ver # p.from

\* The inductive invariant.
OnceCredited == OneLongBreakPerIdle /\ ClaimedOnce /\ SpentIsOld /\ Unspent

(* What a step may do to the account, its plans, the handlers and the callbacks. *)

account == <<now, timer, lastDone, detected, credits, callback, handler, continuations>>

CallbackKept(q) ==
    \/ callback'[q] = callback[q]
    \/ callback'[q].at \notin {"read", "claimed"}
    \/ callback'[q].at = "read" /\ Old(callback'[q].last)

HandlerKept(q) == handler'[q] \in {handler[q], "off", "next"}

\* A plan, a handler or a request goes on; nobody claims or records.
Lives ==
    /\ UNCHANGED <<now, credits>>
    /\ \A q \in Replicas : CallbackKept(q)
    /\ \/ /\ UNCHANGED <<timer, lastDone, detected>> /\ continuations' \subseteq continuations
          /\ \A q \in Replicas : HandlerKept(q)
       \/ /\ UNCHANGED <<timer, detected, continuations>> /\ lastDone' = None
          /\ \A q \in Replicas : HandlerKept(q)
       \/ /\ UNCHANGED <<timer, detected, continuations>> /\ lastDone' = now
          /\ \E r \in Replicas : handler[r] = "set"
                                 /\ \A q \in Replicas : q # r => handler'[q] = handler[q]
       \/ /\ UNCHANGED <<timer, lastDone, continuations>>
          /\ \E r \in Replicas : handler[r] = "clear"
          /\ \A q \in Replicas : HandlerKept(q)
       \/ /\ UNCHANGED <<lastDone, detected>> /\ Replaced
          /\ \A q \in Replicas : HandlerKept(q)
       \/ /\ UNCHANGED <<lastDone, detected>> /\ Replaced
          /\ \A q \in Replicas : HandlerKept(q) \/ handler'[q] = "set"
          /\ \A q \in Replicas : handler[q] \notin {"set", "clear"}
       \/ /\ UNCHANGED <<lastDone, detected, handler>> /\ timer' = [ver |-> fresh, state |-> "worn"]
          /\ \E c : /\ c.from = fresh /\ c.at = now
                    /\ continuations' = continuations \cup {c}
          /\ \A q \in Replicas : handler[q] \notin {"set", "clear"}
       \/ /\ UNCHANGED <<handler, continuations>>
          /\ \E p \in continuations :
                timer.ver = p.from /\ timer'.ver = p.next /\ lastDone' = p.at

Passes ==
    /\ now' = now + 1 /\ \A q \in Replicas : handler[q] # "clear"
    /\ UNCHANGED <<timer, lastDone, detected, credits, callback, handler, continuations>>

\* A callback claims the last completion, and records the break later.
LocalClaim(r) ==
    /\ callback[r].at = "read" /\ callback[r].last = lastDone /\ ~detected
    /\ timer.state = "rest" /\ detected'
    /\ callback' = [callback EXCEPT ![r].at = "claimed"]
    /\ UNCHANGED <<now, timer, lastDone, credits, handler, continuations>>

LocalCredit(r) ==
    /\ callback[r].at = "claimed"
    /\ \E c \in Credit : c.start = callback[r].last /\ credits' = Append(credits, c)
    /\ callback' = [callback EXCEPT ![r].at = "recorded"]
    /\ UNCHANGED <<now, timer, lastDone, detected, handler, continuations>>

\* The leader claims it and records the break at once.
LeaderClaim ==
    /\ Old(lastDone) /\ ~detected /\ timer.state = "rest" /\ lastDone' = None
    /\ \E c \in Credit : c.start = lastDone /\ credits' = Append(credits, c)
    /\ Replaced /\ UNCHANGED <<now, callback, handler>>

CreditKinds ==
    \/ UNCHANGED account
    \/ Lives \/ Passes \/ LeaderClaim
    \/ \E r \in Replicas : LocalClaim(r) \/ LocalCredit(r)

\* Every step is one of these.
LEMMA CreditSteps ==
    ASSUME TypeOK, Next
    PROVE  CreditKinds
<1> USE DEF redis, leader, local, counts, account, CreditKinds
<1>0. /\ callback \in [Replicas -> Callback] /\ now \in Nat /\ LongBreak \in Nat
      /\ handler \in [Replicas -> {"off", "set", "clear", "next"}]
      /\ lastDone \in Nat \cup {None} /\ NoCallback.at = "off"
  BY Constants DEF TypeOK, LocalTypes, CountTypes, AccountTypes, NoCallback
<1>1. ASSUME NEW r \in Replicas,
             JobStep(r) \/ AcquireLease(r) \/ NoticeLoss(r) \/ StartPass(r) \/ ReadAccount(r)
             \/ ScheduleAccount(r) \/ MarkReady(r) \/ ReadDue(r) \/ SavePreferences(r)
      PROVE  UNCHANGED account
  BY <1>1 DEF JobStep, PrepareJob, ReadJob, WriteJob, ArmJob, Restart, AcquireLease, NoticeLoss,
     StartPass, ReadAccount, ScheduleAccount, MarkReady, ReadDue, SavePreferences
<1>2. ASSUME LoseLease \/ ExpireLease \/ EnableDurable PROVE UNCHANGED account
  BY <1>2 DEF LoseLease, ExpireLease, EnableDurable
<1>3. CASE Tick
  BY <1>3 DEF Tick, Passes
<1>4. ASSUME NEW r \in Replicas, HandlerStep(r) PROVE Lives
  <2>0. \A q \in Replicas : callback' = callback => CallbackKept(q)
    BY DEF CallbackKept
  <2>1. CASE SetLastCompletion(r)
    BY <1>0, <1>4, <2>0, <2>1 DEF SetLastCompletion, Lives, HandlerKept
  <2>2. CASE ClearDetected(r)
    BY <1>0, <1>4, <2>0, <2>2 DEF ClearDetected, Lives, HandlerKept
  <2>3. CASE AdvanceFails(r)
    BY <1>0, <1>4, <2>0, <2>3 DEF AdvanceFails, Lives, HandlerKept
  <2>4. ASSUME NEW state \in {"rest", "run"}, AutoAdvance(r, state) PROVE Lives
    BY <1>0, <1>4, <2>0, <2>4 DEF AutoAdvance, Lives, HandlerKept, Replaced, PutTimer
  <2> QED
    BY <1>4, <2>1, <2>2, <2>3, <2>4 DEF HandlerStep
<1>5. ASSUME NEW r \in Replicas, CallbackStep(r) PROVE CreditKinds
  <2>1. CASE FireCallback(r)
    <3>1. CallbackKept(r)
      <4> DEFINE taken == [at |-> "read", last |-> lastDone, ver |-> timer.ver]
      <4>1. callback'[r] = callback[r] \/ (callback'[r] = taken /\ lastDone # None
                                           /\ ~(now - lastDone < LongBreak))
        BY <1>0, <1>5, <2>1 DEF FireCallback
      <4>2. lastDone # None /\ ~(now - lastDone < LongBreak) => Old(lastDone)
        BY <1>0 DEF Old
      <4>3. taken.at = "read" /\ taken.last = lastDone
        OBVIOUS
      <4> HIDE DEF taken
      <4> QED
        BY <4>1, <4>2, <4>3 DEF CallbackKept
    <3>2. \A q \in Replicas : CallbackKept(q)
      BY <1>0, <2>1, <3>1 DEF FireCallback, CallbackKept
    <3> QED
      BY <2>1, <3>2 DEF FireCallback, Lives, HandlerKept
  <2>2. CASE ClaimLegacy(r)
    <3>1. CASE LegacyClaimable(callback[r].last, callback[r].ver)
      BY <1>5, <2>2, <3>1 DEF ClaimLegacy, LegacyClaimable, LocalClaim
    <3>2. CASE ~LegacyClaimable(callback[r].last, callback[r].ver)
      BY <1>0, <2>2, <3>2 DEF ClaimLegacy, Lives, CallbackKept, HandlerKept
    <3> QED
      BY <3>1, <3>2
  <2>3. CASE RecordLegacy(r)
    <3> DEFINE c == [by |-> "legacy", start |-> callback[r].last,
                     dur |-> now - callback[r].last, at |-> now]
    <3>1. c \in Credit /\ c.start = callback[r].last
      BY <1>0, <1>5, Constants DEF Credit, Callback
    <3>2. /\ credits' = Append(credits, c) /\ callback[r].at = "claimed"
          /\ callback' = [callback EXCEPT ![r].at = "recorded"]
          /\ UNCHANGED <<now, timer, lastDone, detected, handler, continuations>>
      BY <2>3 DEF RecordLegacy
    <3> HIDE DEF c
    <3> QED
      BY <1>5, <3>1, <3>2 DEF LocalCredit
  <2>4. CASE ClearLastCompletion(r)
    BY <1>0, <1>5, <2>4 DEF ClearLastCompletion, Lives, CallbackKept, HandlerKept
  <2>5. CASE ClearSession(r)
    BY <1>0, <1>5, <2>5 DEF ClearSession, Lives, CallbackKept, HandlerKept
  <2>6. CASE ReplaceLegacy(r)
    BY <1>0, <1>5, <2>6
       DEF ReplaceLegacy, Lives, CallbackKept, HandlerKept, Replaced, PutTimer, DropAdvance
  <2>7. CASE CallbackFails(r)
    BY <1>0, <1>5, <2>7 DEF CallbackFails, Lives, CallbackKept, HandlerKept
  <2> QED
    BY <1>5, <2>1, <2>2, <2>3, <2>4, <2>5, <2>6, <2>7 DEF CallbackStep
<1>6. ASSUME NEW r \in Replicas, ClaimDurable(r) PROVE CreditKinds
  <2>1. CASE UNCHANGED <<timer, credits, lastDone, detected>>
    BY <1>6, <2>1 DEF ClaimDurable
  <2>2. ASSUME NEW p \in planned, p.check <= now, Claimable(p),
               PutTimer("rest", fresh), fresh' = fresh + 1,
               credits' = Append(credits, [by |-> "durable", start |-> p.last,
                                           dur |-> LongBreak, at |-> now]),
               lastDone' = None
        PROVE  LeaderClaim
    <3> DEFINE c == [by |-> "durable", start |-> p.last, dur |-> LongBreak, at |-> now]
    <3>1. p.check = p.last + LongBreak /\ p.last \in Nat
      BY DEF TypeOK, PlannedTypes, Plan
    <3>2. lastDone = p.last /\ ~detected /\ timer.state = "rest"
      BY <2>2 DEF Claimable, TimerUntouched
    <3>3. Old(lastDone)
      BY <2>2, <3>1, <3>2 DEF Old
    <3>4. c \in Credit /\ c.start = lastDone
      BY <1>0, <3>1, <3>2 DEF Credit
    <3>5. credits' = Append(credits, c)
      BY <2>2
    <3> HIDE DEF c
    <3>6. Replaced /\ UNCHANGED <<now, callback, handler>>
      BY <1>6, <2>2 DEF ClaimDurable, Replaced, PutTimer
    <3> QED
      BY <2>2, <3>2, <3>3, <3>4, <3>5, <3>6 DEF LeaderClaim
  <2> QED
    BY <1>6, <2>1, <2>2 DEF ClaimDurable
<1>7. ASSUME NEW r \in Replicas,
             CompleteByHandler(r) \/ \E state \in {"rest", "run"} : StartTimer(r, state)
      PROVE  Lives
  <2>1. CASE CompleteByHandler(r)
    BY <1>0, <1>7, <2>1
       DEF CompleteByHandler, CanComplete, Lives, CallbackKept, HandlerKept, Replaced, PutTimer
  <2>2. ASSUME NEW state \in {"rest", "run"}, StartTimer(r, state) PROVE Lives
    BY <1>0, <1>7, <2>2
       DEF StartTimer, Lives, CallbackKept, HandlerKept, Replaced, PutTimer, DropAdvance
  <2> QED
    BY <1>7, <2>1, <2>2
<1>8. ASSUME NEW r \in Replicas, Crash(r) PROVE Lives
  BY <1>0, <1>8 DEF Crash, Lives, CallbackKept, HandlerKept
<1>9. ASSUME NEW state \in {"rest", "run", "worn"}, TouchTimer(state) PROVE Lives
  BY <1>0, <1>9 DEF TouchTimer, Lives, CallbackKept, HandlerKept, Replaced, PutTimer
<1>10. CASE CompleteByStream
  <2>1. PICK state \in {"rest", "run"} :
            continuations' = continuations \cup
                {[from |-> fresh, next |-> fresh + 1, state |-> state, at |-> now]}
    BY <1>10 DEF CompleteByStream
  <2>2. \E c : c.from = fresh /\ c.at = now /\ continuations' = continuations \cup {c}
    BY <2>1
  <2> QED
    BY <1>0, <1>10, <2>2
       DEF CompleteByStream, CanComplete, Lives, CallbackKept, HandlerKept, PutTimer
<1>11. ASSUME NEW p \in continuations, ApplyContinuation(p) PROVE Lives
  BY <1>0, <1>11 DEF ApplyContinuation, Lives, CallbackKept, PutTimer
<1>12. ASSUME NEW p \in continuations, ReapplyContinuation(p) PROVE UNCHANGED account
  BY <1>12 DEF ReapplyContinuation
<1>13. ASSUME NEW p \in continuations, FinishContinuation(p) PROVE Lives
  BY <1>0, <1>13 DEF FinishContinuation, Lives, CallbackKept, HandlerKept
<1> QED
  BY <1>1, <1>2, <1>3, <1>4, <1>5, <1>6, <1>7, <1>8, <1>9, <1>10, <1>11, <1>12, <1>13
     DEF Next, ContinuationStep, LeaderStep

\* A recorded break is credited from its start, the others as before.
LEMMA CreditAdded ==
    ASSUME TypeOK, NEW c \in Credit, credits' = Append(credits, c)
    PROVE  /\ \A t : Credited(t)' <=> Credited(t) \/ t = c.start
           /\ OneLongBreakPerIdle /\ ~Credited(c.start) => OneLongBreakPerIdle'
<1>1. /\ Len(credits') = Len(credits) + 1 /\ Len(credits) \in Nat
      /\ \A i \in 1..Len(credits) : credits'[i] = credits[i]
      /\ credits'[Len(credits) + 1] = c
  BY AppendProperties, LenProperties DEF TypeOK, EffectTypes
<1>2. \A i : i \in 1..Len(credits') <=> i \in 1..Len(credits) \/ i = Len(credits) + 1
  BY <1>1
<1> QED
  BY <1>1, <1>2 DEF Credited, OneLongBreakPerIdle

\* A step that neither claims nor records keeps each completion's break one.
LEMMA LivesOnce == TypeOK /\ Fenced /\ OnceCredited /\ Lives => OnceCredited'
<1> SUFFICES ASSUME TypeOK, Fenced, OnceCredited, Lives PROVE OnceCredited'
  OBVIOUS
<1>0. OneLongBreakPerIdle /\ ClaimedOnce /\ SpentIsOld /\ Unspent /\ VersionsAhead
  BY DEF OnceCredited, Fenced
<1>1. /\ timer.ver \in Nat /\ fresh \in Nat /\ now \in Nat /\ LongBreak \in Nat \ {0}
      /\ \A p \in continuations : p.from \in Nat /\ p.next \in Nat
  BY IdleAssumption DEF TypeOK, AccountTypes, CountTypes, EffectTypes, Continuation
<1>2. now' = now /\ credits' = credits /\ \A q \in Replicas : CallbackKept(q)
  BY DEF Lives
<1>3. \A q \in Replicas : callback'[q].at = "claimed" => callback'[q] = callback[q]
  BY <1>2 DEF CallbackKept
<1>4. \A q \in Replicas : callback'[q].at = "read" => Old(callback'[q].last)
  BY <1>0, <1>2 DEF CallbackKept, SpentIsOld
<1>5. /\ \A t : Credited(t)' <=> Credited(t)
      /\ \A t : Spent(t)' => Spent(t)
      /\ \A t : Old(t)' <=> Old(t)
  BY <1>2, <1>3 DEF Spent, Claims, Credited, Old
<1>6. OneLongBreakPerIdle' /\ ClaimedOnce' /\ SpentIsOld'
  <2>1. OneLongBreakPerIdle'
    BY <1>0, <1>2 DEF OneLongBreakPerIdle
  <2>2. ClaimedOnce'
    <3>1. ASSUME NEW r \in Replicas, callback'[r].at = "claimed" PROVE (~Credited(callback[r].last))'
      BY <1>0, <1>3, <1>5, <3>1 DEF ClaimedOnce
    <3>2. ASSUME NEW r \in Replicas, NEW q \in Replicas,
                 callback'[q].at = "claimed", callback'[r].at = "claimed",
                 callback'[r].last = callback'[q].last
          PROVE  r = q
      BY <1>0, <1>3, <3>2 DEF ClaimedOnce, Claims
    <3> QED
      BY <3>1, <3>2 DEF ClaimedOnce, Claims
  <2>3. SpentIsOld'
    BY <1>0, <1>4, <1>5 DEF SpentIsOld
  <2> QED
    BY <2>1, <2>2, <2>3
<1>7. \A t : Old(t) => t # now /\ t # None
  BY <1>1, Constants DEF Old
<1>8. ~Spent(now)
  BY <1>0, <1>7 DEF SpentIsOld
<1>9. /\ \A p \in continuations : p.from # fresh
      /\ \A p, q \in continuations : q.from # p.next
  BY <1>0, <1>1 DEF VersionsAhead
<1>10. Unspent'
  <2>1. CASE /\ UNCHANGED <<timer, lastDone, detected>> /\ continuations' \subseteq continuations
             /\ \A q \in Replicas : HandlerKept(q)
    BY <1>0, <1>2, <1>5, <2>1 DEF Unspent, HandlerKept
  <2>2. CASE /\ UNCHANGED <<timer, detected, continuations>> /\ lastDone' = None
             /\ \A q \in Replicas : HandlerKept(q)
    BY <1>0, <1>2, <1>5, <2>2 DEF Unspent, HandlerKept
  <2>3. CASE /\ UNCHANGED <<timer, detected, continuations>> /\ lastDone' = now
             /\ \E r \in Replicas : handler[r] = "set"
                                    /\ \A q \in Replicas : q # r => handler'[q] = handler[q]
    <3>1. (lastDone # None /\ ~detected => ~Spent(lastDone))'
      BY <1>5, <1>8, <2>3
    <3>2. \A p \in continuations' : timer'.ver = p.from => timer'.state = "worn" /\ ~Spent(p.at)'
      BY <1>0, <1>5, <2>3 DEF Unspent
    <3>3. \A q \in Replicas : handler'[q] = "clear" => lastDone' \in {None, now'}
      BY <1>2, <2>3
    <3>4. \A q \in Replicas : handler'[q] \in {"set", "clear"} =>
              \A p \in continuations' : timer'.ver # p.from
      BY <1>0, <2>3 DEF Unspent
    <3> QED
      BY <3>1, <3>2, <3>3, <3>4 DEF Unspent
  <2>4. CASE /\ UNCHANGED <<timer, lastDone, continuations>>
             /\ \E r \in Replicas : handler[r] = "clear"
             /\ \A q \in Replicas : HandlerKept(q)
    <3>1. lastDone # None => ~Spent(lastDone)
      BY <1>0, <1>8, <2>4 DEF Unspent
    <3> QED
      BY <1>0, <1>2, <1>5, <2>4, <3>1 DEF Unspent, HandlerKept
  <2>5. CASE /\ UNCHANGED <<lastDone, detected>> /\ Replaced
             /\ \A q \in Replicas : HandlerKept(q)
    BY <1>0, <1>2, <1>5, <1>9, <2>5 DEF Unspent, HandlerKept, Replaced
  <2>6. CASE /\ UNCHANGED <<lastDone, detected>> /\ Replaced
             /\ \A q \in Replicas : HandlerKept(q) \/ handler'[q] = "set"
             /\ \A q \in Replicas : handler[q] \notin {"set", "clear"}
    BY <1>0, <1>2, <1>5, <1>9, <2>6 DEF Unspent, HandlerKept, Replaced
  <2>7. CASE /\ UNCHANGED <<lastDone, detected, handler>>
             /\ timer' = [ver |-> fresh, state |-> "worn"]
             /\ \E c : /\ c.from = fresh /\ c.at = now
                       /\ continuations' = continuations \cup {c}
             /\ \A q \in Replicas : handler[q] \notin {"set", "clear"}
    <3>1. PICK c : /\ c.from = fresh /\ c.at = now
                   /\ continuations' = continuations \cup {c}
      BY <2>7
    <3>2. timer'.ver = fresh /\ timer'.state = "worn"
      BY <2>7
    <3>3. \A p \in continuations' : timer'.ver = p.from => timer'.state = "worn" /\ ~Spent(p.at)'
      BY <1>5, <1>8, <1>9, <3>1, <3>2
    <3> QED
      BY <1>0, <1>2, <1>5, <2>7, <3>3 DEF Unspent
  <2>8. CASE /\ UNCHANGED <<handler, continuations>>
             /\ \E p \in continuations :
                   timer.ver = p.from /\ timer'.ver = p.next /\ lastDone' = p.at
    <3>1. PICK p \in continuations : timer.ver = p.from /\ timer'.ver = p.next /\ lastDone' = p.at
      BY <2>8
    <3>2. \A q \in Replicas : handler[q] \notin {"set", "clear"}
      BY <1>0, <3>1 DEF Unspent
    <3>3. (~Spent(lastDone))'
      BY <1>0, <1>5, <3>1 DEF Unspent
    <3>4. \A q \in continuations' : timer'.ver # q.from
      BY <1>9, <2>8, <3>1
    <3> QED
      BY <2>8, <3>2, <3>3, <3>4 DEF Unspent
  <2> QED
    BY <2>1, <2>2, <2>3, <2>4, <2>5, <2>6, <2>7, <2>8 DEF Lives
<1> QED
  BY <1>6, <1>10 DEF OnceCredited

\* So do a claim, a record and time.
LEMMA ClaimsOnce ==
    ASSUME TypeOK, Fenced, OnceCredited,
           UNCHANGED account \/ Passes \/ LeaderClaim
           \/ \E r \in Replicas : LocalClaim(r) \/ LocalCredit(r)
    PROVE  OnceCredited'
<1>0. OneLongBreakPerIdle /\ ClaimedOnce /\ SpentIsOld /\ Unspent /\ VersionsAhead
  BY DEF OnceCredited, Fenced
<1>1. /\ timer.ver \in Nat /\ fresh \in Nat /\ now \in Nat /\ LongBreak \in Nat \ {0}
      /\ \A p \in continuations : p.from \in Nat /\ p.next \in Nat
      /\ callback \in [Replicas -> Callback]
  BY IdleAssumption DEF TypeOK, AccountTypes, CountTypes, EffectTypes, Continuation, LocalTypes
<1>2. \A t : Old(t) => t # None
  BY Constants DEF Old
<1>3. CASE UNCHANGED account
  BY <1>0, <1>3 DEF account, OnceCredited, OneLongBreakPerIdle, ClaimedOnce, SpentIsOld, Unspent,
     Spent, Credited, Claims, Old
<1>4. CASE Passes
  <2>1. \A t : (Credited(t)' <=> Credited(t)) /\ (Spent(t)' <=> Spent(t)) /\ (Old(t) => Old(t)')
    BY <1>1, <1>4 DEF Passes, Spent, Credited, Claims, Old
  <2>2. OneLongBreakPerIdle' /\ ClaimedOnce' /\ SpentIsOld'
    BY <1>0, <1>4, <2>1 DEF Passes, OneLongBreakPerIdle, ClaimedOnce, SpentIsOld, Claims
  <2>3. Unspent'
    BY <1>0, <1>4, <2>1 DEF Passes, Unspent
  <2> QED
    BY <2>2, <2>3 DEF OnceCredited
<1>5. CASE LeaderClaim
  <2>1. PICK c \in Credit : c.start = lastDone /\ credits' = Append(credits, c)
    BY <1>5 DEF LeaderClaim
  <2>2. ~Spent(lastDone)
    BY <1>0, <1>2, <1>5 DEF LeaderClaim, Unspent
  <2>3. /\ \A t : Credited(t)' <=> Credited(t) \/ t = lastDone
        /\ OneLongBreakPerIdle'
    BY <1>0, <2>1, <2>2, CreditAdded DEF Spent
  <2>4. now' = now /\ callback' = callback /\ handler' = handler /\ lastDone' = None
    BY <1>5 DEF LeaderClaim
  <2>5. \A t : (Spent(t)' <=> Spent(t) \/ t = lastDone) /\ (Old(t)' <=> Old(t))
    BY <2>3, <2>4 DEF Spent, Claims, Old
  <2>6. ClaimedOnce'
    BY <1>0, <2>2, <2>3, <2>4 DEF ClaimedOnce, Claims, Spent
  <2>7. SpentIsOld'
    BY <1>0, <1>5, <2>4, <2>5 DEF SpentIsOld, LeaderClaim
  <2>8. \A p \in continuations : p.from # fresh
    BY <1>0, <1>1 DEF VersionsAhead
  <2>9. Unspent'
    BY <1>5, <2>4, <2>8 DEF LeaderClaim, Replaced, Unspent
  <2> QED
    BY <2>3, <2>6, <2>7, <2>9 DEF OnceCredited
<1>6. ASSUME NEW r \in Replicas, LocalClaim(r) PROVE OnceCredited'
  <2>1. /\ callback[r].at = "read" /\ callback[r].last = lastDone /\ ~detected /\ detected'
        /\ timer.state = "rest"
        /\ UNCHANGED <<now, timer, lastDone, credits, handler, continuations>>
    BY <1>6 DEF LocalClaim
  <2>2. /\ callback'[r].at = "claimed" /\ callback'[r].last = lastDone
        /\ \A q \in Replicas : q # r => callback'[q] = callback[q]
    BY <1>1, <1>6, <2>1 DEF LocalClaim, Callback
  <2>3. Old(lastDone) /\ ~Spent(lastDone)
    BY <1>0, <1>2, <2>1 DEF SpentIsOld, Unspent
  <2>4. \A t : /\ Credited(t)' <=> Credited(t)
               /\ Old(t)' <=> Old(t)
               /\ Spent(t)' => Spent(t) \/ t = lastDone
    BY <2>1, <2>2 DEF Spent, Credited, Claims, Old
  <2>5. OneLongBreakPerIdle'
    BY <1>0, <2>1 DEF OneLongBreakPerIdle
  <2>6. ClaimedOnce'
    <3>1. ASSUME NEW q \in Replicas, callback'[q].at = "claimed" PROVE (~Credited(callback[q].last))'
      BY <1>0, <2>2, <2>3, <2>4, <3>1 DEF ClaimedOnce, Spent
    <3>2. ASSUME NEW q \in Replicas, NEW s \in Replicas, callback'[q].at = "claimed",
                 callback'[s].at = "claimed", callback'[s].last = callback'[q].last
          PROVE  s = q
      BY <1>0, <2>2, <2>3, <3>2 DEF ClaimedOnce, Claims, Spent
    <3> QED
      BY <3>1, <3>2 DEF ClaimedOnce, Claims
  <2>7. SpentIsOld'
    <3>1. \A q \in Replicas : callback'[q].at = "read" => callback'[q] = callback[q]
      BY <2>2
    <3> QED
      BY <1>0, <2>3, <2>4, <3>1 DEF SpentIsOld
  <2>8. Unspent'
    BY <1>0, <2>1, <2>4 DEF Unspent
  <2> QED
    BY <2>5, <2>6, <2>7, <2>8 DEF OnceCredited
<1>7. ASSUME NEW r \in Replicas, LocalCredit(r) PROVE OnceCredited'
  <2>1. PICK c \in Credit : c.start = callback[r].last /\ credits' = Append(credits, c)
    BY <1>7 DEF LocalCredit
  <2>2. /\ callback[r].at = "claimed"
        /\ UNCHANGED <<now, timer, lastDone, detected, handler, continuations>>
    BY <1>7 DEF LocalCredit
  <2>3. /\ callback'[r].at = "recorded"
        /\ \A q \in Replicas : q # r => callback'[q] = callback[q]
    BY <1>1, <1>7 DEF LocalCredit, Callback
  <2>4. /\ \A t : Credited(t)' <=> Credited(t) \/ t = callback[r].last
        /\ OneLongBreakPerIdle'
    BY <1>0, <2>1, <2>2, CreditAdded DEF ClaimedOnce
  <2>5. Spent(callback[r].last)
    BY <2>2 DEF Spent, Claims
  <2>6. \A t : (Spent(t)' => Spent(t)) /\ (Old(t)' <=> Old(t))
    BY <2>2, <2>3, <2>4, <2>5 DEF Spent, Claims, Old
  <2>7. ClaimedOnce'
    BY <1>0, <2>2, <2>3, <2>4 DEF ClaimedOnce, Claims
  <2>8. SpentIsOld'
    BY <1>0, <2>3, <2>6 DEF SpentIsOld
  <2>9. Unspent'
    BY <1>0, <2>2, <2>6 DEF Unspent
  <2> QED
    BY <2>4, <2>7, <2>8, <2>9 DEF OnceCredited
<1> QED
  BY <1>3, <1>4, <1>5, <1>6, <1>7

\* One completion is credited with one long break at most, whichever replica's callback
\* or leader decides it, wherever the mode is switched and whatever dies
\* (claimLegacyIdleDetection, CLAIM_SCHEDULED_IDLE_DETECTION_SCRIPT).
THEOREM OneBreakEach == Spec => []OneLongBreakPerIdle
<1>1. Init => OnceCredited
  <2> SUFFICES ASSUME Init PROVE OnceCredited
    OBVIOUS
  <2>1. credits = <<>> /\ continuations = {} /\ lastDone = None
        /\ \A r \in Replicas : callback[r].at = "off" /\ handler[r] = "off"
    BY DEF Init, NoCallback
  <2>2. \A t : ~Credited(t) /\ ~Spent(t)
    BY <2>1 DEF Spent, Credited, Claims
  <2> QED
    BY <2>1, <2>2 DEF OnceCredited, OneLongBreakPerIdle, ClaimedOnce, SpentIsOld, Unspent
<1>2. ASSUME TypeOK, Fenced, OnceCredited, [Next]_vars PROVE OnceCredited'
  <2>1. CASE Next
    BY <1>2, <2>1, CreditSteps, LivesOnce, ClaimsOnce DEF CreditKinds
  <2>2. CASE UNCHANGED vars
    <3>1. UNCHANGED account
      BY <2>2 DEF vars, account, redis, local
    <3> QED
      BY <1>2, <3>1, ClaimsOnce
  <2> QED
    BY <1>2, <2>1, <2>2
<1>3. OnceCredited => OneLongBreakPerIdle
  BY DEF OnceCredited
<1> QED
  BY <1>1, <1>2, <1>3, IdleTypes, FenceKept, PTL DEF Spec

-----------------------------------------------------------------------------
(* A ready schedule *)

\* No replica is down or owes a queued operation for what it has done.
Clean ==
    \A r \in Replicas : job[r].more = 0 /\ job[r].at # "down" /\ handler[r] # "clear"

ClaimableNow == \E p \in planned : Claimable(p)

\* A leader's pass of the present generation ends with a claimable payload.
PassFinds(r) ==
    /\ pass[r].at = "scanned" => ClaimableNow
    /\ pass[r].at = "read" => ClaimableNow \/ StillReads(pass[r].snap)

\* The inductive invariant.
Scheduled ==
    /\ calm <= writes
    /\ \A r \in Replicas : pass[r].gen <= gen
    /\ Waiting /\ Clean =>
          /\ ready => ClaimableNow
          /\ \A r \in Replicas : pass[r].gen = gen => PassFinds(r)

(* What a step may do to an account that waits, and to a pass. *)

\* If the account waits after the step, it has a claimable payload, or it waited
\* before and lost none.
Carries ==
    (Waiting /\ Clean)' =>
        \/ ClaimableNow'
        \/ /\ Waiting /\ Clean /\ UNCHANGED <<lastDone, timer, runtimeRev>>
           /\ ClaimableNow => ClaimableNow'

PassesStay == UNCHANGED <<ready, gen, pass>>

\* One pass begins, reads the account or ends.
PassMoves ==
    /\ UNCHANGED <<ready, gen>>
    /\ \E r \in Replicas :
          /\ \A q \in Replicas : q # r => pass'[q] = pass[q]
          /\ pass'[r].gen \in {pass[r].gen, gen, 0}
          /\ \/ pass'[r].at \notin {"read", "scanned"}
             \/ /\ pass'[r].at = "read" /\ pass'[r].snap = Snapshot
                /\ UNCHANGED <<lastDone, timer, runtimeRev>>
             \/ pass'[r].at = "scanned" /\ lastDone' = None

Marks ==
    \E r \in Replicas :
        /\ pass[r].at = "scanned" /\ gen' = gen
        /\ ready' = (ready \/ PassIsCurrent(r))
        /\ pass' = [pass EXCEPT ![r] = NoPass]

Outdates == gen' = gen + 1 /\ ready' = FALSE /\ pass' = pass

ScheduleKinds ==
    \/ Outdates
    \/ Carries /\ (PassesStay \/ PassMoves \/ Marks)
    \/ \E r \in Replicas : ScheduleAccount(r)

\* What a step leaves alone stays claimable.
LEMMA UnmovedCarries ==
    ASSUME UNCHANGED <<timer, runtimeRev, lastDone, detected, planned, writes, calm, dropped>>,
           Clean' => Clean
    PROVE  Carries
<1>1. Waiting' => Waiting
  BY DEF Waiting
<1>2. ClaimableNow => ClaimableNow'
  BY DEF ClaimableNow, Claimable, TimerUntouched
<1> QED
  BY <1>1, <1>2 DEF Carries

\* Scheduling from a reading leaves a claimable payload behind, or, if the reading is
\* outdated, everything as it was.
LEMMA ScheduleCarries ==
    ASSUME TypeOK, NEW s \in Reading, Schedule(s),
           UNCHANGED <<timer, runtimeRev, lastDone, detected, writes, calm>>,
           Clean' => Clean, Waiting', Clean'
    PROVE  \/ ClaimableNow'
           \/ ~StillReads(s) /\ Waiting /\ Clean /\ planned' = planned
<1>1. lastDone # None /\ ~detected /\ timer.state = "rest" /\ writes = calm /\ ~dropped'
  BY DEF Waiting
<1>2. s.last # None
  BY <1>1 DEF Schedule
<1>3. CASE StillReads(s)
  <2>1. planned' = {Payload(s)}
    BY <1>1, <1>2, <1>3 DEF Schedule, PlannedBy
  <2>2. Payload(s).last = s.last /\ Payload(s).ver = s.ver /\ Payload(s).rev = s.rev
    BY DEF Payload
  <2>3. /\ lastDone' = Payload(s).last /\ ~detected' /\ timer'.ver = Payload(s).ver
        /\ runtimeRev' = Payload(s).rev /\ timer'.state = "rest"
    BY <1>1, <1>3, <2>2 DEF StillReads
  <2> HIDE DEF Payload
  <2> QED
    BY <2>1, <2>3 DEF ClaimableNow, Claimable, TimerUntouched
<1>4. CASE ~StillReads(s)
  <2>1. planned' = planned /\ dropped' = (dropped /\ ~StillReads(s))
    BY <1>1, <1>2, <1>4 DEF Schedule, PlannedBy
  <2>2. ~dropped
    BY <1>1, <1>4, <2>1
  <2> QED
    BY <1>1, <1>4, <2>1, <2>2 DEF Waiting
<1> QED
  BY <1>3, <1>4

\* Every step is one of these, and calm never runs ahead of the user's writes.
LEMMA ScheduleSteps ==
    ASSUME TypeOK, Fenced, calm <= writes, [Next]_vars
    PROVE  ScheduleKinds /\ calm' <= writes'
<1> USE DEF redis, leader, local, counts, PutTimer, PassesStay
<1>0. /\ job \in [Replicas -> Job] /\ pass \in [Replicas -> Pass]
      /\ callback \in [Replicas -> Callback]
      /\ handler \in [Replicas -> {"off", "set", "clear", "next"}]
      /\ writes \in Nat /\ calm \in Nat
      /\ \A r \in Replicas : job[r].more \in Nat
  BY DEF TypeOK, JobTypes, LeaderTypes, LocalTypes, CountTypes, Job
<1>a. UNCHANGED <<job, handler>> => (Clean' => Clean)
  BY DEF Clean
<1>b. ~Waiting' => Carries
  BY DEF Carries
<1>c. ~Clean' => Carries
  BY DEF Carries
<1>d. \A r \in Replicas : Enqueue(job[r]).more # 0 /\ Provided(Enqueue(job[r])).more # 0
  <2>1. ASSUME NEW r \in Replicas PROVE Enqueue(job[r]).more = job[r].more + 1
    BY <1>0 DEF Enqueue, Job
  <2>2. ASSUME NEW r \in Replicas PROVE Provided(Enqueue(job[r])).more = job[r].more + 1
    BY <1>0 DEF Enqueue, Provided, Job
  <2> QED
    BY <1>0, <2>1, <2>2
<1>1. ASSUME NEW r \in Replicas, HandlerStep(r) PROVE ScheduleKinds /\ calm' <= writes'
  <2>1. CASE SetLastCompletion(r)
    BY <2>1 DEF SetLastCompletion, NextGeneration, Outdates, ScheduleKinds
  <2>2. CASE ClearDetected(r)
    <3>1. ~Clean'
      BY <1>0, <1>1, <1>d, <2>2 DEF ClearDetected, Clean
    <3> QED
      BY <1>c, <2>2, <3>1 DEF ClearDetected, ScheduleKinds
  <2>3. CASE AdvanceFails(r)
    <3>1. Clean' => Clean
      BY <1>0, <1>1, <2>3 DEF AdvanceFails, Clean
    <3> QED
      BY <2>3, <3>1, UnmovedCarries DEF AdvanceFails, ScheduleKinds
  <2>4. ASSUME NEW state \in {"rest", "run"}, AutoAdvance(r, state)
        PROVE  ScheduleKinds /\ calm' <= writes'
    <3>1. ~Clean'
      BY <1>0, <1>1, <1>d, <2>4 DEF AutoAdvance, Clean
    <3> QED
      BY <1>0, <1>c, <2>4, <3>1 DEF AutoAdvance, ScheduleKinds
  <2> QED
    BY <1>1, <2>1, <2>2, <2>3, <2>4 DEF HandlerStep
<1>2. ASSUME NEW r \in Replicas, JobStep(r) PROVE ScheduleKinds /\ calm' <= writes'
  <2>1. CASE PrepareJob(r)
    BY <2>1 DEF PrepareJob, NextGeneration, Outdates, ScheduleKinds
  <2>2. CASE ReadJob(r)
    <3>1. Clean' => Clean
      BY <1>0, <1>2, <2>2 DEF ReadJob, Clean, Job
    <3> QED
      BY <2>2, <3>1, UnmovedCarries DEF ReadJob, ScheduleKinds
  <2>3. CASE WriteJob(r)
    <3>1. Clean' => Clean
      BY <1>0, <1>2, <2>3 DEF WriteJob, Clean, Job
    <3>2. job[r].snap \in Reading /\ Schedule(job[r].snap)
      BY <1>0, <1>2, <2>3 DEF WriteJob, Job
    <3>3. UNCHANGED <<timer, runtimeRev, lastDone, detected, writes, calm>> /\ PassesStay
      BY <2>3 DEF WriteJob
    <3>4. planned' = planned => (ClaimableNow => ClaimableNow')
      BY <3>3 DEF ClaimableNow, Claimable, TimerUntouched
    <3>5. Carries
      BY <3>1, <3>2, <3>3, <3>4, ScheduleCarries DEF Carries
    <3> QED
      BY <3>3, <3>5 DEF ScheduleKinds
  <2>4. CASE ArmJob(r)
    <3>1. Clean' => Clean
      BY <1>0, <1>2, <2>4 DEF ArmJob, Clean, Job
    <3> QED
      BY <2>4, <3>1, UnmovedCarries DEF ArmJob, ScheduleKinds
  <2>5. CASE Restart(r)
    <3>1. timer.state # "run" => ~Clean'
      BY <1>0, <1>2, <2>5 DEF Restart, Clean, Job
    <3>2. timer.state = "run" => ~Waiting'
      BY <2>5 DEF Restart, Waiting
    <3> QED
      BY <1>b, <1>c, <2>5, <3>1, <3>2 DEF Restart, ScheduleKinds
  <2> QED
    BY <1>2, <2>1, <2>2, <2>3, <2>4, <2>5 DEF JobStep
<1>3. ASSUME NEW r \in Replicas, CallbackStep(r) PROVE ScheduleKinds /\ calm' <= writes'
  <2>1. CASE FireCallback(r)
    <3>1. Clean' => Clean
      <4>1. job' = [job EXCEPT ![r] = Enqueue(@)] => ~Clean'
        BY <1>0, <1>3, <1>d DEF Clean
      <4> QED
        BY <1>a, <2>1, <4>1 DEF FireCallback
    <3> QED
      BY <2>1, <3>1, UnmovedCarries DEF FireCallback, ScheduleKinds
  <2>2. CASE ClaimLegacy(r)
    <3>1. CASE LegacyClaimable(callback[r].last, callback[r].ver)
      <4>1. ~Waiting'
        BY <2>2, <3>1 DEF ClaimLegacy, Waiting
      <4> QED
        BY <1>b, <2>2, <4>1 DEF ClaimLegacy, ScheduleKinds
    <3>2. CASE ~LegacyClaimable(callback[r].last, callback[r].ver)
      BY <1>a, <2>2, <3>2, UnmovedCarries DEF ClaimLegacy, ScheduleKinds
    <3> QED
      BY <3>1, <3>2
  <2>3. CASE RecordLegacy(r)
    BY <1>a, <2>3, UnmovedCarries DEF RecordLegacy, ScheduleKinds
  <2>4. ASSUME ClearLastCompletion(r) \/ ClearSession(r) \/ ReplaceLegacy(r)
        PROVE  ScheduleKinds /\ calm' <= writes'
    <3>1. ~Waiting'
      BY <2>4 DEF ClearLastCompletion, ClearSession, ReplaceLegacy, Waiting
    <3> QED
      BY <1>b, <2>4, <3>1 DEF ClearLastCompletion, ClearSession, ReplaceLegacy, ScheduleKinds
  <2>5. CASE CallbackFails(r)
    BY <1>a, <2>5, UnmovedCarries DEF CallbackFails, ScheduleKinds
  <2> QED
    BY <1>3, <2>1, <2>2, <2>3, <2>4, <2>5 DEF CallbackStep
<1>4. ASSUME NEW r \in Replicas, LeaderStep(r) PROVE ScheduleKinds /\ calm' <= writes'
  <2>0. NoPass.at = "idle" /\ NoPass.gen = 0
    BY DEF NoPass
  <2>1. CASE AcquireLease(r)
    BY <1>a, <2>1, UnmovedCarries DEF AcquireLease, ScheduleKinds
  <2>2. CASE NoticeLoss(r)
    <3>1. PassMoves
      BY <1>0, <1>4, <2>0, <2>2 DEF NoticeLoss, PassMoves
    <3> QED
      BY <1>a, <2>2, <3>1, UnmovedCarries DEF NoticeLoss, ScheduleKinds
  <2>3. CASE StartPass(r)
    <3>1. PassMoves
      BY <1>0, <1>4, <2>3 DEF StartPass, PassMoves, Pass
    <3> QED
      BY <1>a, <2>3, <3>1, UnmovedCarries DEF StartPass, ScheduleKinds
  <2>4. CASE ReadAccount(r)
    <3>1. PassMoves
      BY <1>0, <1>4, <2>4 DEF ReadAccount, PassMoves, Pass
    <3> QED
      BY <1>a, <2>4, <3>1, UnmovedCarries DEF ReadAccount, ScheduleKinds
  <2>5. CASE ScheduleAccount(r)
    BY <1>4, <2>5 DEF ScheduleAccount, ScheduleKinds
  <2>6. CASE MarkReady(r)
    <3>1. Marks
      BY <1>4, <2>6 DEF MarkReady, Marks
    <3> QED
      BY <1>a, <2>6, <3>1, UnmovedCarries DEF MarkReady, ScheduleKinds
  <2>7. CASE ReadDue(r)
    <3>1. PassMoves
      BY <1>0, <1>4, <2>7 DEF ReadDue, PassMoves, Pass
    <3> QED
      BY <1>a, <2>7, <3>1, UnmovedCarries DEF ReadDue, ScheduleKinds
  <2>8. CASE ClaimDurable(r)
    <3>1. PassMoves /\ calm' <= writes' /\ UNCHANGED <<job, handler, writes, calm, dropped>>
      BY <1>0, <1>4, <2>0, <2>8 DEF ClaimDurable, PassMoves
    <3>2. CASE lastDone' = None
      <4>1. ~Waiting'
        BY <3>2 DEF Waiting
      <4> QED
        BY <1>b, <3>1, <4>1 DEF ScheduleKinds
    <3>3. CASE UNCHANGED <<timer, runtimeRev, lastDone, detected, planned>>
      BY <1>a, <3>1, <3>3, UnmovedCarries DEF ScheduleKinds
    <3>4. ASSUME NEW p \in planned, ~Claimable(p),
                 UNCHANGED <<timer, runtimeRev, lastDone, detected>>
          PROVE  Carries
      <4>1. ~ClaimableNow
        BY <3>4 DEF ClaimableNow, Fenced
      <4>2. (Waiting' => Waiting) /\ (Clean' => Clean)
        BY <1>a, <3>1, <3>4 DEF Waiting
      <4> QED
        BY <3>4, <4>1, <4>2 DEF Carries
    <3> QED
      BY <2>8, <3>1, <3>2, <3>3, <3>4 DEF ClaimDurable, ScheduleKinds
  <2> QED
    BY <1>4, <2>1, <2>2, <2>3, <2>4, <2>5, <2>6, <2>7, <2>8 DEF LeaderStep
<1>5. ASSUME NEW r \in Replicas, SavePreferences(r) PROVE ScheduleKinds /\ calm' <= writes'
  <2>1. ~Clean'
    BY <1>0, <1>5, <1>d DEF SavePreferences, Clean
  <2> QED
    BY <1>c, <1>5, <2>1 DEF SavePreferences, ScheduleKinds
<1>6. ASSUME NEW r \in Replicas, CompleteByHandler(r) PROVE ScheduleKinds /\ calm' <= writes'
  <2>1. ~Waiting'
    BY <1>6 DEF CompleteByHandler, Waiting
  <2> QED
    BY <1>b, <1>6, <2>1 DEF CompleteByHandler, ScheduleKinds
<1>7. CASE CompleteByStream
  <2>1. ~Waiting'
    BY <1>7 DEF CompleteByStream, Waiting
  <2> QED
    BY <1>b, <1>7, <2>1 DEF CompleteByStream, ScheduleKinds
<1>8. ASSUME \/ \E r \in Replicas, state \in {"rest", "run"} : StartTimer(r, state)
             \/ \E state \in {"rest", "run", "worn"} : TouchTimer(state)
      PROVE  ScheduleKinds /\ calm' <= writes'
  <2>1. writes' = writes + 1 /\ calm' = calm /\ PassesStay
    BY <1>8 DEF StartTimer, TouchTimer
  <2>2. writes' # calm' /\ calm' <= writes'
    BY <1>0, <2>1
  <2>3. ~Waiting'
    BY <2>2 DEF Waiting
  <2> QED
    BY <1>b, <2>1, <2>2, <2>3 DEF ScheduleKinds
<1>9. ASSUME NEW r \in Replicas, Crash(r) PROVE ScheduleKinds /\ calm' <= writes'
  <2>1. ~Clean'
    BY <1>0, <1>9 DEF Crash, Clean, IdleJob
  <2>2. PassMoves
    BY <1>0, <1>9 DEF Crash, PassMoves, NoPass
  <2> QED
    BY <1>c, <1>9, <2>1, <2>2 DEF Crash, ScheduleKinds
<1>10. ASSUME NEW p \in continuations, ApplyContinuation(p) \/ ReapplyContinuation(p)
       PROVE  ScheduleKinds /\ calm' <= writes'
  <2> DEFINE s == Continued(p)
  <2>1. s.last = p.at /\ s.ver = p.next /\ s.rev = p.next
    BY DEF Continued, Payload
  <2> HIDE DEF s
  <2>2. /\ planned' = {s} /\ lastDone' = s.last /\ timer'.ver = s.ver /\ runtimeRev' = s.rev
        /\ ~detected'
    BY <1>10, <2>1 DEF ApplyContinuation, ReapplyContinuation, Continued, s
  <2>3. Waiting' => ClaimableNow'
    BY <2>2 DEF Waiting, ClaimableNow, Claimable, TimerUntouched
  <2>4. PassesStay /\ calm' <= writes'
    BY <1>0, <1>10 DEF ApplyContinuation, ReapplyContinuation
  <2> QED
    BY <2>3, <2>4 DEF Carries, ScheduleKinds
<1>11. ASSUME NEW p \in continuations, FinishContinuation(p)
       PROVE  ScheduleKinds /\ calm' <= writes'
  BY <1>a, <1>11, UnmovedCarries DEF FinishContinuation, ScheduleKinds
<1>12. ASSUME LoseLease \/ ExpireLease \/ EnableDurable \/ Tick
       PROVE  ScheduleKinds /\ calm' <= writes'
  BY <1>a, <1>12, UnmovedCarries DEF LoseLease, ExpireLease, EnableDurable, Tick, ScheduleKinds
<1>13. CASE UNCHANGED vars
  BY <1>a, <1>13, UnmovedCarries DEF vars, ScheduleKinds
<1> QED
  BY <1>1, <1>2, <1>3, <1>4, <1>5, <1>6, <1>7, <1>8, <1>9, <1>10, <1>11, <1>12, <1>13
     DEF Next, ContinuationStep

\* If every Timer read as JSON and written again is what is stored, a schedule that is
\* marked ready has a claimable payload for an account that waits, whatever passes,
\* queued operations, retries and user writes overtake each other
\* (prepareIdleDetectionScheduleChange, markIdleDetectionScheduleReady).
THEOREM ReadyIsScheduled ==
    ASSUME Reencodes
    PROVE  Spec => []ReadyMeansScheduled
<1>1. Init => Scheduled
  BY DEF Init, Scheduled, Waiting, NoPass
<1>2. ASSUME TypeOK, Fenced, Scheduled, [Next]_vars PROVE Scheduled'
  <2>0. /\ calm <= writes /\ \A r \in Replicas : pass[r].gen <= gen
        /\ Waiting /\ Clean /\ ready => ClaimableNow
        /\ Waiting /\ Clean => \A r \in Replicas : pass[r].gen = gen => PassFinds(r)
    BY <1>2 DEF Scheduled
  <2>1. ScheduleKinds /\ calm' <= writes'
    BY <1>2, <2>0, ScheduleSteps
  <2>2. /\ gen \in Nat /\ pass \in [Replicas -> Pass]
        /\ \A r \in Replicas : pass[r].gen \in Nat /\ pass[r].snap \in Reading
    BY <1>2 DEF TypeOK, CountTypes, LeaderTypes, Pass
  <2>3. NoPass.gen = 0 /\ NoPass.at = "idle"
    BY DEF NoPass
  <2>4. CASE Outdates
    <3>1. gen' = gen + 1 /\ ready' = FALSE /\ \A r \in Replicas : pass'[r].gen < gen'
      BY <2>0, <2>2, <2>4 DEF Outdates
    <3> QED
      BY <2>1, <2>2, <2>4, <3>1 DEF Outdates, Scheduled
  <2>5. CASE Carries /\ PassesStay
    <3>1. ASSUME Waiting', Clean', NEW r \in Replicas, pass[r].gen = gen PROVE PassFinds(r)'
      BY <2>0, <2>5, <3>1 DEF Carries, PassesStay, PassFinds, StillReads
    <3>2. Waiting' /\ Clean' /\ ready' => ClaimableNow'
      BY <2>0, <2>5 DEF Carries, PassesStay
    <3> QED
      BY <2>0, <2>1, <2>5, <3>1, <3>2 DEF PassesStay, Scheduled
  <2>6. CASE Carries /\ PassMoves
    <3>1. PICK r \in Replicas :
              /\ \A q \in Replicas : q # r => pass'[q] = pass[q]
              /\ pass'[r].gen \in {pass[r].gen, gen, 0}
              /\ \/ pass'[r].at \notin {"read", "scanned"}
                 \/ /\ pass'[r].at = "read" /\ pass'[r].snap = Snapshot
                    /\ UNCHANGED <<lastDone, timer, runtimeRev>>
                 \/ pass'[r].at = "scanned" /\ lastDone' = None
      BY <2>6 DEF PassMoves
    <3>2. UNCHANGED <<ready, gen>>
      BY <2>6 DEF PassMoves
    <3>3. \A q \in Replicas : pass'[q].gen <= gen'
      BY <2>0, <2>2, <3>1, <3>2
    <3>4. ASSUME Waiting' PROVE PassFinds(r)'
      <4>1. lastDone' # None
        BY <3>4 DEF Waiting
      <4>2. UNCHANGED <<lastDone, timer, runtimeRev>> => StillReads(Snapshot)'
        BY DEF StillReads, Snapshot
      <4> QED
        BY <3>1, <4>1, <4>2 DEF PassFinds, StillReads, Snapshot
    <3>5. ASSUME Waiting', Clean', NEW q \in Replicas, q # r, pass'[q].gen = gen'
          PROVE  PassFinds(q)'
      BY <2>0, <2>6, <3>1, <3>2, <3>5 DEF Carries, PassFinds, StillReads
    <3>6. Waiting' /\ Clean' /\ ready' => ClaimableNow'
      BY <2>0, <2>6, <3>2 DEF Carries
    <3> QED
      BY <2>1, <3>3, <3>4, <3>5, <3>6 DEF Scheduled
  <2>7. CASE Carries /\ Marks
    <3>1. PICK r \in Replicas :
              /\ pass[r].at = "scanned" /\ gen' = gen
              /\ ready' = (ready \/ PassIsCurrent(r))
              /\ pass' = [pass EXCEPT ![r] = NoPass]
      BY <2>7 DEF Marks
    <3>2. \A q \in Replicas : pass'[q] = IF q = r THEN NoPass ELSE pass[q]
      BY <2>2, <3>1
    <3>3. \A q \in Replicas : pass'[q].gen <= gen'
      BY <2>0, <2>2, <2>3, <3>1, <3>2
    <3>4. ASSUME Waiting', Clean', NEW q \in Replicas, pass'[q].gen = gen' PROVE PassFinds(q)'
      BY <2>0, <2>3, <2>7, <3>1, <3>2, <3>4 DEF Carries, PassFinds, StillReads
    <3>5. ASSUME Waiting', Clean', ready' PROVE ClaimableNow'
      <4>1. CASE ready
        BY <2>0, <2>7, <3>5, <4>1 DEF Carries
      <4>2. CASE PassIsCurrent(r)
        BY <2>0, <2>7, <3>1, <3>5, <4>2 DEF Carries, PassIsCurrent, PassFinds
      <4> QED
        BY <3>1, <3>5, <4>1, <4>2
    <3> QED
      BY <2>1, <3>3, <3>4, <3>5 DEF Scheduled
  <2>8. ASSUME NEW r \in Replicas, ScheduleAccount(r) PROVE Scheduled'
    <3>1. /\ pass[r].at = "read" /\ Schedule(pass[r].snap)
          /\ pass' = [pass EXCEPT ![r] = [@ EXCEPT !.at = "scanned", !.snap = NoSnapshot]]
          /\ UNCHANGED <<timer, runtimeRev, lastDone, detected, writes, calm>>
          /\ UNCHANGED <<ready, gen, job, handler>>
      BY <2>8 DEF ScheduleAccount, redis, local, counts
    <3>2. /\ pass'[r].gen = pass[r].gen /\ pass'[r].at = "scanned"
          /\ \A q \in Replicas : q # r => pass'[q] = pass[q]
      BY <2>2, <3>1 DEF Pass
    <3>3. \A q \in Replicas : pass'[q].gen <= gen'
      BY <2>0, <3>1, <3>2
    <3>4. Clean' => Clean
      BY <3>1 DEF Clean
    <3>5. ASSUME Waiting', Clean'
          PROVE  ClaimableNow' \/ (~StillReads(pass[r].snap) /\ Waiting /\ Clean /\ planned' = planned)
      BY <1>2, <2>2, <3>1, <3>4, <3>5, ScheduleCarries
    <3>6. planned' = planned => (ClaimableNow <=> ClaimableNow')
      BY <3>1 DEF ClaimableNow, Claimable, TimerUntouched
    <3>7. Waiting' /\ Clean' /\ ready' => ClaimableNow'
      BY <2>0, <3>1, <3>5, <3>6
    <3>8. ASSUME Waiting', Clean', NEW q \in Replicas, pass'[q].gen = gen' PROVE PassFinds(q)'
      <4>1. CASE ClaimableNow'
        BY <4>1 DEF PassFinds
      <4>2. CASE ~StillReads(pass[r].snap) /\ Waiting /\ Clean /\ planned' = planned
        <5>1. PassFinds(q)
          BY <2>0, <3>1, <3>2, <3>8, <4>2
        <5>2. CASE q = r
          BY <3>1, <3>6, <4>2, <5>1, <5>2 DEF PassFinds
        <5>3. CASE q # r
          BY <3>1, <3>2, <3>6, <4>2, <5>1, <5>3 DEF PassFinds, StillReads
        <5> QED
          BY <5>2, <5>3
      <4> QED
        BY <3>5, <3>8, <4>1, <4>2
    <3> QED
      BY <2>1, <3>3, <3>7, <3>8 DEF Scheduled
  <2> QED
    BY <2>1, <2>4, <2>5, <2>6, <2>7, <2>8 DEF ScheduleKinds
<1>3. Scheduled => ReadyMeansScheduled
  BY DEF Scheduled, ReadyMeansScheduled, Settled, Clean, ClaimableNow
<1> QED
  BY <1>1, <1>2, <1>3, IdleTypes, FenceKept, PTL DEF Spec
=============================================================================
