---------------------------- MODULE WorkersProofs ----------------------------
(* Theorems about ContinuationWorker, for any number of sources, workers,    *)
(* failures and edits, and about NotificationWorker, for any number of rows, *)
(* workers and breakdowns.                                                   *)
EXTENDS ContinuationWorker, NotificationWorker, FiniteSetTheorems, SequenceTheorems, TLAPS

-----------------------------------------------------------------------------
(* The continuation worker: its inductive invariant *)

Claimed == {s \in Sources : claim[s] # None}

\* The types of the table's columns, and that a row is claimed while processed.
TableTypes ==
    /\ overdue \subseteq Claimed
    /\ row \in [Sources -> RowStates]
    /\ claim \in [Sources -> Workers \cup {None}]
    /\ plan \in [Sources -> Workers \cup {None, Old}]
    /\ \A s \in Sources : claim[s] # None <=> row[s] = "processing"

\* The types of the workers' jobs, and that a worker without jobs is idle.
JobTypes ==
    /\ jobs \in [Workers -> Seq(Sources)]
    /\ place \in [Workers -> JobPlaces]
    /\ \A w \in Workers : jobs[w] = <<>> <=> place[w] = "idle"

OtherTypes ==
    /\ owed \subseteq Sources /\ lost \subseteq Workers
    /\ userLock \in Workers \cup {None}
    /\ seen \in [Workers -> [Sources -> Workers \cup {None, Old}]]
    /\ result \in [Workers -> {None, "applied", "superseded"}]
    /\ undo \in Seq(Sources \cup {"user"})
    /\ landed \subseteq Sources \X Workers
    /\ lapse \in BOOLEAN

Types == TableTypes /\ JobTypes /\ OtherTypes

\* No plan is known for a row that is not there.
NoRowNoPlan ==
    \A s \in Sources : row[s] = None => plan[s] = None /\ \A w \in Workers : seen[w][s] = None

\* A Timer whose completion is not committed has no row, a job has one.
RowsFollow ==
    /\ \A s \in owed : row[s] = None
    /\ \A w \in Workers : \A i \in 1..Len(jobs[w]) : row[jobs[w][i]] # None

\* A plan that a worker has read is still the one in the row.
ReadIsStored ==
    \A w \in Workers, s \in Sources : seen[w][s] \in Workers => plan[s] = seen[w][s]

\* Past its planning a worker has the plan.
Planned ==
    \A w \in Workers : place[w] \in {"fence", "apply"} => seen[w][Job(w)] \in Workers

\* Once the script has answered, the Timer is not at the source any more.
MovedOn ==
    \A w \in Workers : place[w] \in {"after", "peek", "push", "mark"} =>
        timer # Completed(Job(w)) /\ result[w] \in {"applied", "superseded"}

ContinuationInv ==
    /\ Types
    /\ NoRowNoPlan /\ RowsFollow /\ ReadIsStored /\ Planned /\ MovedOn
    /\ NotLeftBehind /\ OneSuccessor

-----------------------------------------------------------------------------
(* Jobs *)

LEMMA JobInSources ==
    ASSUME JobTypes, NEW w \in Workers, place[w] # "idle"
    PROVE  /\ Job(w) \in Sources /\ Len(jobs[w]) \in Nat \ {0} /\ Job(w) = jobs[w][1]
           /\ Tail(jobs[w]) \in Seq(Sources)
           /\ Len(Tail(jobs[w])) = Len(jobs[w]) - 1
           /\ \A i \in 1..Len(Tail(jobs[w])) : Tail(jobs[w])[i] = jobs[w][i + 1]
<1>1. jobs[w] \in Seq(Sources) /\ jobs[w] # <<>>
  BY DEF JobTypes
<1>2. QED
  BY <1>1, HeadTailProperties, EmptySeq DEF Job

LEMMA NextJobTypes ==
    ASSUME JobTypes, NEW w \in Workers, place[w] # "idle", NextJob(w)
    PROVE  JobTypes'
<1>1. Tail(jobs[w]) = <<>> <=> Len(jobs[w]) = 1
  <2>1. Tail(jobs[w]) # <<>> => Len(Tail(jobs[w])) # 0
    BY JobInSources, EmptySeq
  <2>2. Tail(jobs[w]) = <<>> => Len(Tail(jobs[w])) = 0
    BY EmptySeq
  <2>3. QED
    BY <2>1, <2>2, JobInSources
<1>2. Tail(jobs[w]) \in Seq(Sources)
  BY JobInSources
<1>3. jobs' \in [Workers -> Seq(Sources)] /\ place' \in [Workers -> JobPlaces]
  BY <1>2 DEF JobTypes, NextJob, Goto, JobPlaces
<1>4. ASSUME NEW v \in Workers
      PROVE  jobs'[v] = <<>> <=> place'[v] = "idle"
  <2>1. CASE v = w
    BY <2>1, <1>1 DEF JobTypes, NextJob, Goto
  <2>2. CASE v # w
    BY <2>2 DEF JobTypes, NextJob, Goto
  <2>3. QED
    BY <2>1, <2>2
<1>5. QED
  BY <1>3, <1>4 DEF JobTypes

LEMMA GotoTypes ==
    ASSUME JobTypes, NEW w \in Workers, place[w] # "idle",
           NEW p \in JobPlaces, p # "idle", Goto(w, p), UNCHANGED jobs
    PROVE  JobTypes'
BY DEF JobTypes, Goto

\* A batch is a sequence of rows that can be claimed, and it is not empty.
LEMMA BatchTypes ==
    ASSUME Types, Claimable # {}, NEW batch \in SetToSeqs(Claimable)
    PROVE  /\ batch \in Seq(Sources) /\ batch # <<>>
           /\ \A i \in 1..Len(batch) : batch[i] \in Claimable
<1>1. Claimable \subseteq Sources
  BY DEF Claimable, Types, TableTypes, Claimed
<1>2. IsFiniteSet(Claimable)
  BY <1>1, FS_Subset, ContinuationAssumption
<1>3. Cardinality(Claimable) \in Nat /\ Cardinality(Claimable) # 0
  BY <1>2, FS_CardinalityType, FS_EmptySet
<1>4. batch \in [1..Cardinality(Claimable) -> Claimable]
  BY DEF SetToSeqs
<1>5. batch \in Seq(Claimable) /\ Len(batch) = Cardinality(Claimable)
  BY <1>3, <1>4
<1>6. batch \in Seq(Sources)
  BY <1>1, <1>5, SeqMonotonic
<1>7. batch # <<>>
  BY <1>3, <1>5, EmptySeq
<1>8. \A i \in 1..Len(batch) : batch[i] \in Claimable
  BY <1>4, <1>5
<1>9. QED
  BY <1>6, <1>7, <1>8

-----------------------------------------------------------------------------
(* Types *)

LEMMA ReleaseTypes ==
    ASSUME TableTypes, JobTypes, NEW w \in Workers, place[w] # "idle", UNCHANGED plan,
           \/ Release(w)
           \/ \E how \in {"applied", "superseded", "failed"} : MarkProcessed(w, how)
    PROVE  TableTypes' /\ \A s \in Sources : row[s] # None => row'[s] # None
<1>1. Job(w) \in Sources
  BY JobInSources
<1>2. CASE Release(w)
  BY <1>1, <1>2, ContinuationAssumption DEF Release, Owns, TableTypes, Claimed, RowStates, None
<1>3. ASSUME NEW how \in {"applied", "superseded", "failed"}, MarkProcessed(w, how)
      PROVE  TableTypes' /\ \A s \in Sources : row[s] # None => row'[s] # None
  BY <1>1, <1>3, ContinuationAssumption DEF MarkProcessed, Owns, TableTypes, Claimed, RowStates, None
<1>4. QED
  BY <1>2, <1>3

LEMMA TableTyped ==
    ASSUME ContinuationInv, ContinuationNext
    PROVE  TableTypes' /\ \A s \in Sources : row[s] # None => row'[s] # None
<1> USE DEF ContinuationInv, Types
<1>1. ASSUME NEW w \in Workers,
             \/ LockBusy(w) \/ RejectPayload(w) \/ JobFails(w)
             \/ (ResolvePlan(w) /\ Release(w) /\ UNCHANGED plan)
             \/ (Conclude(w) /\ MarkProcessed(w, result[w]))
      PROVE  TableTypes' /\ \A s \in Sources : row[s] # None => row'[s] # None
  <2>1. place[w] # "idle" /\ UNCHANGED plan
    BY <1>1 DEF LockBusy, RejectPayload, JobFails, Beating, ResolvePlan, Conclude
  <2>2. Conclude(w) => result[w] \in {"applied", "superseded"}
    BY DEF Conclude, MovedOn
  <2>3. QED
    BY <1>1, <2>1, <2>2, ReleaseTypes DEF LockBusy, RejectPayload, JobFails
<1>2. ASSUME NEW w \in Workers, ClaimRows(w)
      PROVE  TableTypes' /\ \A s \in Sources : row[s] # None => row'[s] # None
  BY <1>2, ContinuationAssumption DEF ClaimRows, TableTypes, Claimed, RowStates, None
<1>3. ASSUME NEW w \in Workers, ResolvePlan(w), UNCHANGED <<row, claim, overdue>>
      PROVE  TableTypes' /\ \A s \in Sources : row[s] # None => row'[s] # None
  <2>1. plan' = plan \/ plan' = [plan EXCEPT ![Job(w)] = w]
    BY <1>3 DEF ResolvePlan
  <2>2. plan' \in [Sources -> Workers \cup {None, Old}]
    BY <2>1 DEF TableTypes
  <2>3. QED
    BY <1>3, <2>2 DEF TableTypes, Claimed
<1>4. ASSUME NEW s \in Sources, RowArrives(s)
      PROVE  TableTypes' /\ \A t \in Sources : row[t] # None => row'[t] # None
  <2>1. row[s] = None
    BY <1>4 DEF RowArrives, RowsFollow
  <2>2. PICK p \in {None, Old} : plan' = [plan EXCEPT ![s] = p]
    BY <1>4 DEF RowArrives
  <2>3. QED
    BY <1>4, <2>1, <2>2 DEF RowArrives, TableTypes, Claimed, RowStates, None
<1>5. ASSUME UNCHANGED <<row, claim, plan>>, overdue' \subseteq Claimed
      PROVE  TableTypes' /\ \A s \in Sources : row[s] # None => row'[s] # None
  BY <1>5 DEF TableTypes, Claimed
<1>6. ASSUME NEW w \in Workers,
             \/ TakeLock(w) \/ Fence(w) \/ ApplyPlan(w) \/ Activate(w) \/ PeekUndo(w)
             \/ PushUndo(w) \/ Unlock(w) \/ Heartbeat(w) \/ CleanupFails(w)
             \/ HeartbeatFails(w) \/ WorkerCrash(w)
             \/ (Conclude(w) /\ UNCHANGED <<row, claim>>)
      PROVE  UNCHANGED <<row, claim, plan>> /\ overdue' \subseteq Claimed
  <2>1. overdue \subseteq Claimed /\ Renewed(w) \subseteq Claimed
    BY DEF TableTypes, Renewed
  <2>2. CASE Fence(w) \/ Activate(w) \/ Heartbeat(w)
    BY <2>1, <2>2 DEF Fence, Activate, Heartbeat
  <2>3. CASE \/ TakeLock(w) \/ ApplyPlan(w) \/ PeekUndo(w) \/ PushUndo(w) \/ Unlock(w)
             \/ CleanupFails(w) \/ HeartbeatFails(w) \/ WorkerCrash(w)
    BY <2>1, <2>3 DEF TakeLock, ApplyPlan, PeekUndo, PushUndo, Unlock, CleanupFails,
       HeartbeatFails, WorkerCrash, table
  <2>4. CASE Conclude(w) /\ UNCHANGED <<row, claim>>
    <3>1. UNCHANGED plan
      BY <2>4 DEF Conclude
    <3>2. overdue' = overdue \/ overdue' = Renewed(w) \/ MarkProcessed(w, result[w])
      BY <2>4 DEF Conclude
    <3>3. MarkProcessed(w, result[w]) => overdue' \in {overdue, overdue \ {Job(w)}}
      BY DEF MarkProcessed
    <3>4. QED
      BY <2>1, <2>4, <3>1, <3>2, <3>3
  <2>5. QED
    BY <1>6, <2>2, <2>3, <2>4
<1>7. ASSUME NEW w \in Workers, Stall(w)
      PROVE  UNCHANGED <<row, claim, plan>> /\ overdue' \subseteq Claimed
  <2>1. jobs[w] \in Seq(Sources)
    BY DEF JobTypes
  <2>2. ToSet(jobs[w]) \subseteq Sources
    BY <2>1, ElementOfSeq DEF ToSet
  <2>3. QED
    BY <1>7, <2>2, ContinuationAssumption DEF Stall, TableTypes, Claimed, None
<1>8. ASSUME NEW s \in Sources, LeaseRunsOut(s) \/ Complete(s)
      PROVE  UNCHANGED <<row, claim, plan>> /\ overdue' \subseteq Claimed
  BY <1>8 DEF LeaseRunsOut, Complete, TableTypes, Claimed, table
<1>9. ASSUME LockRunsOut \/ Edit
      PROVE  UNCHANGED <<row, claim, plan>> /\ overdue' \subseteq Claimed
  BY <1>9 DEF LockRunsOut, Edit, TableTypes, table
<1>10. ASSUME NEW w \in Workers, ResolvePlan(w)
       PROVE  (Release(w) /\ UNCHANGED plan) \/ UNCHANGED <<row, claim, overdue>>
  BY <1>10 DEF ResolvePlan
<1>11. ASSUME NEW w \in Workers, Conclude(w)
       PROVE  MarkProcessed(w, result[w]) \/ UNCHANGED <<row, claim>>
  BY <1>11 DEF Conclude
<1>12. QED
  BY <1>1, <1>2, <1>3, <1>4, <1>5, <1>6, <1>7, <1>8, <1>9, <1>10, <1>11
     DEF ContinuationNext, JobStep, WorkerFails

LEMMA JobsTyped ==
    ASSUME ContinuationInv, ContinuationNext
    PROVE  JobTypes'
<1> USE DEF ContinuationInv, Types
<1>1. ASSUME NEW w \in Workers, ClaimRows(w)
      PROVE  JobTypes'
  <2>1. PICK batch \in SetToSeqs(Claimable) : jobs' = [jobs EXCEPT ![w] = batch]
    BY <1>1 DEF ClaimRows
  <2>2. batch \in Seq(Sources) /\ batch # <<>>
    BY <1>1, <2>1, BatchTypes DEF ClaimRows
  <2>3. QED
    BY <1>1, <2>1, <2>2 DEF ClaimRows, Goto, JobTypes, JobPlaces
<1>2. ASSUME NEW w \in Workers, LockBusy(w) \/ Unlock(w) \/ CleanupFails(w)
      PROVE  JobTypes'
  BY <1>2, NextJobTypes DEF LockBusy, Unlock, CleanupFails
<1>3. ASSUME NEW w \in Workers,
             \/ TakeLock(w) \/ RejectPayload(w) \/ ResolvePlan(w) \/ Fence(w) \/ ApplyPlan(w)
             \/ Activate(w) \/ PeekUndo(w) \/ PushUndo(w) \/ Conclude(w) \/ JobFails(w)
      PROVE  JobTypes'
  <2>1. place[w] # "idle" /\ UNCHANGED jobs
    BY <1>3 DEF TakeLock, RejectPayload, ResolvePlan, Fence, ApplyPlan, Activate, PeekUndo,
       PushUndo, Conclude, JobFails, Beating, LeaveJob
  <2>2. \E p \in JobPlaces \ {"idle"} : Goto(w, p)
    BY <1>3 DEF TakeLock, RejectPayload, ResolvePlan, Fence, ApplyPlan, Activate, PeekUndo,
       PushUndo, Conclude, JobFails, LeaveJob, JobPlaces
  <2>3. QED
    BY <2>1, <2>2, GotoTypes
<1>4. ASSUME NEW w \in Workers, WorkerCrash(w)
      PROVE  JobTypes'
  BY <1>4, EmptySeq DEF WorkerCrash, Goto, JobTypes, JobPlaces
<1>5. ASSUME UNCHANGED <<jobs, place>>
      PROVE  JobTypes'
  BY <1>5 DEF JobTypes
<1>6. ASSUME NEW w \in Workers, Heartbeat(w) \/ Stall(w) \/ HeartbeatFails(w)
      PROVE  UNCHANGED <<jobs, place>>
  BY <1>6 DEF Heartbeat, Stall, HeartbeatFails, worker
<1>7. ASSUME NEW s \in Sources, RowArrives(s) \/ LeaseRunsOut(s) \/ Complete(s)
      PROVE  UNCHANGED <<jobs, place>>
  BY <1>7 DEF RowArrives, LeaseRunsOut, Complete, worker
<1>8. ASSUME LockRunsOut \/ Edit
      PROVE  UNCHANGED <<jobs, place>>
  BY <1>8 DEF LockRunsOut, Edit, worker
<1>9. QED
  BY <1>1, <1>2, <1>3, <1>4, <1>5, <1>6, <1>7, <1>8 DEF ContinuationNext, JobStep, WorkerFails

LEMMA OthersTyped ==
    ASSUME ContinuationInv, ContinuationNext
    PROVE  OtherTypes'
<1> USE DEF ContinuationInv, Types
<1>1. ASSUME NEW w \in Workers,
             \/ TakeLock(w) \/ LockBusy(w) \/ RejectPayload(w) \/ Fence(w) \/ Conclude(w)
             \/ Activate(w) \/ PeekUndo(w) \/ Heartbeat(w) \/ JobFails(w) \/ HeartbeatFails(w)
      PROVE  OtherTypes'
  <2>1. UNCHANGED <<owed, seen, result, undo, landed, lapse>>
    BY <1>1 DEF TakeLock, LockBusy, RejectPayload, Fence, Conclude, Activate, PeekUndo, Heartbeat,
       JobFails, HeartbeatFails, LeaveJob, runtime
  <2>2. lost' \in {lost, lost \ {w}, lost \cup {w}} /\ userLock' \in {userLock, w}
    BY <1>1 DEF TakeLock, LockBusy, RejectPayload, Fence, Conclude, Activate, PeekUndo, Heartbeat,
       JobFails, HeartbeatFails, LeaveJob, NextJob
  <2>3. QED
    BY <2>1, <2>2 DEF OtherTypes
<1>2. ASSUME NEW w \in Workers, Unlock(w) \/ CleanupFails(w) \/ WorkerCrash(w)
      PROVE  OtherTypes'
  <2>1. UNCHANGED <<owed, seen, undo, landed, lapse>> /\ lost' = lost \ {w}
        /\ userLock' \in {userLock, None} /\ result' = [result EXCEPT ![w] = None]
    BY <1>2 DEF Unlock, CleanupFails, WorkerCrash, NextJob, runtime
  <2>2. QED
    BY <2>1 DEF OtherTypes
<1>3. ASSUME NEW w \in Workers, ClaimRows(w)
      PROVE  OtherTypes'
  BY <1>3 DEF ClaimRows, OtherTypes, TableTypes, runtime
<1>4. ASSUME NEW w \in Workers, ResolvePlan(w)
      PROVE  OtherTypes'
  <2>1. seen' \in {seen, [seen EXCEPT ![w] = [seen[w] EXCEPT ![Job(w)] = w]]}
    BY <1>4 DEF ResolvePlan
  <2>2. [seen[w] EXCEPT ![Job(w)] = w] \in [Sources -> Workers \cup {None, Old}]
    BY DEF OtherTypes
  <2>3. seen' \in [Workers -> [Sources -> Workers \cup {None, Old}]]
    BY <2>1, <2>2 DEF OtherTypes
  <2>4. QED
    BY <1>4, <2>3 DEF ResolvePlan, OtherTypes, runtime
<1>5. ASSUME NEW w \in Workers, ApplyPlan(w)
      PROVE  OtherTypes'
  <2>1. Job(w) \in Sources /\ seen[w][Job(w)] \in Workers
    BY <1>5, JobInSources DEF ApplyPlan, Planned
  <2>2. UNCHANGED <<owed, seen, lost, userLock, lapse>>
    BY <1>5 DEF ApplyPlan, LeaveJob
  <2>3. undo' \in {undo, <<>>} /\ landed' \in {landed, landed \cup {<<Job(w), seen[w][Job(w)]>>}}
    BY <1>5 DEF ApplyPlan, runtime
  <2>4. result' \in {result, [result EXCEPT ![w] = "applied"], [result EXCEPT ![w] = "superseded"]}
    BY <1>5 DEF ApplyPlan, LeaveJob
  <2>5. undo' \in Seq(Sources \cup {"user"})
    BY <2>3, EmptySeq DEF OtherTypes
  <2>6. QED
    BY <2>1, <2>2, <2>3, <2>4, <2>5 DEF OtherTypes
<1>6. ASSUME NEW w \in Workers, PushUndo(w)
      PROVE  OtherTypes'
  <2>1. Job(w) \in Sources
    BY <1>6, JobInSources DEF PushUndo
  <2>2. undo' \in Seq(Sources \cup {"user"})
    BY <1>6, <2>1 DEF PushUndo, OtherTypes
  <2>3. QED
    BY <1>6, <2>2 DEF PushUndo, OtherTypes
<1>7. ASSUME NEW w \in Workers, Stall(w)
      PROVE  OtherTypes'
  BY <1>7 DEF Stall, OtherTypes, runtime, worker
<1>8. ASSUME NEW s \in Sources, RowArrives(s) \/ LeaseRunsOut(s) \/ Complete(s)
      PROVE  OtherTypes'
  BY <1>8 DEF RowArrives, LeaseRunsOut, Complete, OtherTypes, runtime, worker
<1>9. ASSUME LockRunsOut \/ Edit
      PROVE  OtherTypes'
  <2>1. undo' \in {undo, Append(undo, "user")}
    BY <1>9 DEF LockRunsOut, Edit, runtime
  <2>2. undo' \in Seq(Sources \cup {"user"})
    BY <2>1 DEF OtherTypes
  <2>3. QED
    BY <1>9, <2>2 DEF LockRunsOut, Edit, OtherTypes, worker
<1>10. QED
  BY <1>1, <1>2, <1>3, <1>4, <1>5, <1>6, <1>7, <1>8, <1>9
     DEF ContinuationNext, JobStep, WorkerFails

-----------------------------------------------------------------------------
(* Rows, plans and successors *)

\* Only three actions change what is planned or read.
LEMMA PlansChange ==
    ASSUME ContinuationNext
    PROVE  \/ \E w \in Workers : ClaimRows(w) \/ ResolvePlan(w)
           \/ \E s \in Sources : RowArrives(s)
           \/ UNCHANGED <<plan, seen>>
<1>1. ASSUME NEW w \in Workers, JobStep(w) \/ Heartbeat(w) \/ WorkerFails(w), ~ResolvePlan(w)
      PROVE  UNCHANGED <<plan, seen>>
  BY <1>1 DEF JobStep, WorkerFails, TakeLock, LockBusy, RejectPayload, Fence, ApplyPlan, Activate,
     PeekUndo, PushUndo, Conclude, Unlock, Heartbeat, Stall, JobFails, CleanupFails,
     HeartbeatFails, WorkerCrash, LeaveJob, table, worker
<1>2. ASSUME NEW s \in Sources, LeaseRunsOut(s) \/ Complete(s)
      PROVE  UNCHANGED <<plan, seen>>
  BY <1>2 DEF LeaseRunsOut, Complete, table, worker
<1>3. ASSUME LockRunsOut \/ Edit
      PROVE  UNCHANGED <<plan, seen>>
  BY <1>3 DEF LockRunsOut, Edit, table, worker
<1>4. QED
  BY <1>1, <1>2, <1>3 DEF ContinuationNext

\* Planning replaces a plan that nobody can have read as a plan.
LEMMA Planning ==
    ASSUME ContinuationInv, NEW w \in Workers, ResolvePlan(w)
    PROVE  \/ UNCHANGED <<plan, seen>>
           \/ /\ plan[Job(w)] \notin Workers
              /\ plan' = [plan EXCEPT ![Job(w)] = w]
              /\ seen' = [seen EXCEPT ![w] = [seen[w] EXCEPT ![Job(w)] = w]]
<1>1. ~(UNCHANGED <<plan, seen>>) => seen[w][Job(w)] \in {None, Old} /\ Stores(w)
  BY DEF ResolvePlan
<1>2. None \notin Workers /\ Old \notin Workers
  BY ContinuationAssumption DEF None, Old
<1>3. QED
  BY <1>1, <1>2 DEF ResolvePlan, Stores

LEMMA NoRowNoPlanKeeps ==
    ASSUME ContinuationInv, ContinuationNext
    PROVE  NoRowNoPlan'
<1> USE DEF ContinuationInv, Types
<1>1. \A s \in Sources : row[s] # None => row'[s] # None
  BY TableTyped
<1>2. ASSUME NEW w \in Workers, ClaimRows(w)
      PROVE  NoRowNoPlan'
  BY <1>1, <1>2 DEF ClaimRows, NoRowNoPlan, OtherTypes
<1>3. ASSUME NEW w \in Workers, ResolvePlan(w)
      PROVE  NoRowNoPlan'
  <2>1. CASE UNCHANGED <<plan, seen>>
    BY <1>1, <2>1 DEF NoRowNoPlan
  <2>2. CASE /\ plan' = [plan EXCEPT ![Job(w)] = w]
             /\ seen' = [seen EXCEPT ![w] = [seen[w] EXCEPT ![Job(w)] = w]]
    <3>1. Job(w) \in Sources /\ 1 \in 1..Len(jobs[w]) /\ Job(w) = jobs[w][1]
      BY <1>3, JobInSources DEF ResolvePlan
    <3>2. row[Job(w)] # None
      BY <3>1 DEF RowsFollow
    <3>3. row'[Job(w)] # None
      BY <1>1, <3>1, <3>2
    <3>4. \A s \in Sources : s # Job(w) => plan'[s] = plan[s]
                                           /\ \A v \in Workers : seen'[v][s] = seen[v][s]
      BY <2>2, <3>1 DEF TableTypes, OtherTypes
    <3>5. QED
      BY <1>1, <3>3, <3>4 DEF NoRowNoPlan
  <2>3. QED
    BY <1>3, <2>1, <2>2, Planning
<1>4. ASSUME NEW s \in Sources, RowArrives(s)
      PROVE  NoRowNoPlan'
  <2>1. PICK p \in {None, Old} : plan' = [plan EXCEPT ![s] = p]
    BY <1>4 DEF RowArrives
  <2>2. row'[s] = "pending" /\ UNCHANGED seen
    BY <1>4 DEF RowArrives, TableTypes, worker
  <2>3. QED
    BY <1>1, <2>1, <2>2 DEF NoRowNoPlan, TableTypes, None
<1>5. CASE UNCHANGED <<plan, seen>>
  BY <1>1, <1>5 DEF NoRowNoPlan
<1>6. QED
  BY <1>2, <1>3, <1>4, <1>5, PlansChange

LEMMA ReadIsStoredKeeps ==
    ASSUME ContinuationInv, ContinuationNext
    PROVE  ReadIsStored'
<1> USE DEF ContinuationInv, Types
<1>1. ASSUME NEW w \in Workers, ClaimRows(w)
      PROVE  ReadIsStored'
  BY <1>1 DEF ClaimRows, ReadIsStored, OtherTypes
<1>2. ASSUME NEW w \in Workers, ResolvePlan(w)
      PROVE  ReadIsStored'
  <2>1. Job(w) \in Sources
    BY <1>2, JobInSources DEF ResolvePlan
  <2>2. CASE UNCHANGED <<plan, seen>>
    BY <2>2 DEF ReadIsStored
  <2>3. CASE /\ plan[Job(w)] \notin Workers
             /\ plan' = [plan EXCEPT ![Job(w)] = w]
             /\ seen' = [seen EXCEPT ![w] = [seen[w] EXCEPT ![Job(w)] = w]]
    <3>1. \A v \in Workers, s \in Sources :
             seen'[v][s] = IF v = w /\ s = Job(w) THEN w ELSE seen[v][s]
      BY <2>1, <2>3 DEF OtherTypes
    <3>2. \A s \in Sources : plan'[s] = IF s = Job(w) THEN w ELSE plan[s]
      BY <2>1, <2>3 DEF TableTypes
    <3>3. \A v \in Workers : seen[v][Job(w)] \notin Workers
      BY <2>1, <2>3 DEF ReadIsStored
    <3>4. QED
      BY <2>1, <3>1, <3>2, <3>3 DEF ReadIsStored
  <2>4. QED
    BY <1>2, <2>2, <2>3, Planning
<1>3. ASSUME NEW s \in Sources, RowArrives(s)
      PROVE  ReadIsStored'
  <2>1. row[s] = None
    BY <1>3 DEF RowArrives, RowsFollow
  <2>2. \A w \in Workers : seen[w][s] \notin Workers
    BY <2>1, ContinuationAssumption DEF NoRowNoPlan, None
  <2>3. PICK p \in {None, Old} : plan' = [plan EXCEPT ![s] = p]
    BY <1>3 DEF RowArrives
  <2>4. UNCHANGED seen
    BY <1>3 DEF RowArrives, worker
  <2>5. QED
    BY <2>2, <2>3, <2>4 DEF ReadIsStored, TableTypes
<1>4. CASE UNCHANGED <<plan, seen>>
  BY <1>4 DEF ReadIsStored
<1>5. QED
  BY <1>1, <1>2, <1>3, <1>4, PlansChange

\* A plan in a row is never replaced: that is what makes the successor unique.
LEMMA PlansStay ==
    ASSUME ContinuationInv, ContinuationNext
    PROVE  \A s \in Sources : plan[s] \in Workers => plan'[s] = plan[s]
<1> USE DEF ContinuationInv, Types
<1>1. ASSUME NEW w \in Workers, ClaimRows(w)
      PROVE  UNCHANGED plan
  BY <1>1 DEF ClaimRows
<1>2. ASSUME NEW w \in Workers, ResolvePlan(w)
      PROVE  \A s \in Sources : plan[s] \in Workers => plan'[s] = plan[s]
  BY <1>2, Planning DEF TableTypes
<1>3. ASSUME NEW s \in Sources, RowArrives(s)
      PROVE  \A t \in Sources : plan[t] \in Workers => plan'[t] = plan[t]
  <2>1. row[s] = None
    BY <1>3 DEF RowArrives, RowsFollow
  <2>2. plan[s] \notin Workers
    BY <2>1, ContinuationAssumption DEF NoRowNoPlan, None
  <2>3. PICK p \in {None, Old} : plan' = [plan EXCEPT ![s] = p]
    BY <1>3 DEF RowArrives
  <2>4. QED
    BY <2>2, <2>3 DEF TableTypes
<1>4. QED
  BY <1>1, <1>2, <1>3, PlansChange

LEMMA OneSuccessorKeeps ==
    ASSUME ContinuationInv, ContinuationNext
    PROVE  OneSuccessor'
<1> USE DEF ContinuationInv, Types
<1>1. ASSUME NEW l \in landed
      PROVE  plan'[l[1]] = l[2]
  BY <1>1, PlansStay DEF OneSuccessor, OtherTypes
<1>2. ASSUME NEW w \in Workers, ApplyPlan(w)
      PROVE  OneSuccessor'
  <2>1. Job(w) \in Sources /\ seen[w][Job(w)] \in Workers
    BY <1>2, JobInSources DEF ApplyPlan, Planned
  <2>2. plan[Job(w)] = seen[w][Job(w)] /\ UNCHANGED plan
    BY <1>2, <2>1 DEF ReadIsStored, ApplyPlan, table
  <2>3. landed' \in {landed, landed \cup {<<Job(w), seen[w][Job(w)]>>}}
    BY <1>2 DEF ApplyPlan
  <2>4. QED
    BY <1>1, <2>2, <2>3 DEF OneSuccessor
<1>3. ASSUME UNCHANGED landed
      PROVE  OneSuccessor'
  BY <1>1, <1>3 DEF OneSuccessor
<1>4. ASSUME NEW w \in Workers, ~ApplyPlan(w),
             ClaimRows(w) \/ JobStep(w) \/ Heartbeat(w) \/ WorkerFails(w)
      PROVE  UNCHANGED landed
  BY <1>4 DEF ClaimRows, JobStep, WorkerFails, TakeLock, LockBusy, RejectPayload, ResolvePlan,
     Fence, Activate, PeekUndo, PushUndo, Conclude, Unlock, Heartbeat, Stall, JobFails,
     CleanupFails, HeartbeatFails, WorkerCrash
<1>5. ASSUME NEW s \in Sources, RowArrives(s) \/ LeaseRunsOut(s) \/ Complete(s)
      PROVE  UNCHANGED landed
  BY <1>5 DEF RowArrives, LeaseRunsOut, Complete
<1>6. ASSUME LockRunsOut \/ Edit
      PROVE  UNCHANGED landed
  BY <1>6 DEF LockRunsOut, Edit
<1>7. QED
  BY <1>2, <1>3, <1>4, <1>5, <1>6 DEF ContinuationNext

-----------------------------------------------------------------------------
(* Workers in their jobs *)

\* What a step leaves alone of the worker v.
Unmoved(v) ==
    /\ place'[v] = place[v] /\ jobs'[v] = jobs[v]
    /\ seen'[v] = seen[v] /\ result'[v] = result[v]

\* A worker is moved by its own steps only.
LEMMA MovesItself ==
    ASSUME ContinuationInv, ContinuationNext, NEW v \in Workers
    PROVE  ClaimRows(v) \/ JobStep(v) \/ WorkerFails(v) \/ Unmoved(v)
<1> USE DEF ContinuationInv, Types, JobTypes, OtherTypes
<1>1. ASSUME NEW w \in Workers, w # v, ClaimRows(w) \/ JobStep(w)
      PROVE  Unmoved(v)
  BY <1>1 DEF ClaimRows, JobStep, TakeLock, LockBusy, RejectPayload, ResolvePlan, Fence, ApplyPlan,
     Activate, PeekUndo, PushUndo, Conclude, Unlock, LeaveJob, NextJob, Goto, Unmoved
<1>2. ASSUME NEW w \in Workers, w # v, WorkerFails(w)
      PROVE  Unmoved(v)
  BY <1>2 DEF WorkerFails, Stall, JobFails, CleanupFails, HeartbeatFails, WorkerCrash, NextJob,
     Goto, Unmoved, worker
<1>3. ASSUME NEW w \in Workers, Heartbeat(w)
      PROVE  Unmoved(v)
  BY <1>3 DEF Heartbeat, Unmoved
<1>4. ASSUME NEW s \in Sources, RowArrives(s) \/ LeaseRunsOut(s) \/ Complete(s)
      PROVE  Unmoved(v)
  BY <1>4 DEF RowArrives, LeaseRunsOut, Complete, Unmoved, worker
<1>5. ASSUME LockRunsOut \/ Edit
      PROVE  Unmoved(v)
  BY <1>5 DEF LockRunsOut, Edit, Unmoved, worker
<1>6. QED
  BY <1>1, <1>2, <1>3, <1>4, <1>5 DEF ContinuationNext

\* The jobs of a worker are those of a batch it claims, or what is left of them.
LEMMA JobsChange ==
    ASSUME ContinuationInv, ContinuationNext, NEW v \in Workers
    PROVE  \/ ClaimRows(v)
           \/ jobs'[v] = jobs[v] \/ jobs'[v] = <<>>
           \/ place[v] # "idle" /\ jobs'[v] = Tail(jobs[v])
<1> USE DEF ContinuationInv, Types, JobTypes
<1>1. ASSUME JobStep(v)
      PROVE  jobs'[v] = jobs[v] \/ (place[v] # "idle" /\ jobs'[v] = Tail(jobs[v]))
  BY <1>1 DEF JobStep, TakeLock, LockBusy, RejectPayload, ResolvePlan, Fence, ApplyPlan,
     Activate, PeekUndo, PushUndo, Conclude, Unlock, LeaveJob, NextJob
<1>2. ASSUME WorkerFails(v)
      PROVE  \/ jobs'[v] = jobs[v] \/ jobs'[v] = <<>>
             \/ (place[v] # "idle" /\ jobs'[v] = Tail(jobs[v]))
  BY <1>2 DEF WorkerFails, Stall, JobFails, CleanupFails, HeartbeatFails, WorkerCrash, NextJob,
     worker
<1>3. QED
  BY <1>1, <1>2, MovesItself DEF Unmoved

\* Of all rows, a step changes that of w's job.
Touched(w) == \E x : row' = [row EXCEPT ![Job(w)] = x]

LEMMA RowsFollowKeeps ==
    ASSUME ContinuationInv, ContinuationNext
    PROVE  RowsFollow'
<1> USE DEF ContinuationInv, Types
<1>1. \A s \in Sources : row[s] # None => row'[s] # None
  BY TableTyped
<1>2. ASSUME NEW v \in Workers, NEW i \in 1..Len(jobs'[v])
      PROVE  row'[jobs'[v][i]] # None
  <2>1. jobs[v] \in Seq(Sources)
    BY DEF JobTypes
  <2>2. CASE jobs'[v] = jobs[v]
    BY <1>1, <1>2, <2>1, <2>2, ElementOfSeq DEF RowsFollow
  <2>3. CASE jobs'[v] = <<>>
    BY <1>2, <2>3, EmptySeq
  <2>4. CASE place[v] # "idle" /\ jobs'[v] = Tail(jobs[v])
    <3>1. i + 1 \in 1..Len(jobs[v]) /\ jobs'[v][i] = jobs[v][i + 1]
      BY <1>2, <2>4, JobInSources
    <3>2. row[jobs[v][i + 1]] # None /\ jobs[v][i + 1] \in Sources
      BY <2>1, <3>1, ElementOfSeq DEF RowsFollow
    <3>3. QED
      BY <1>1, <3>1, <3>2
  <2>5. CASE ClaimRows(v)
    <3>1. PICK batch \in SetToSeqs(Claimable) : jobs' = [jobs EXCEPT ![v] = batch]
      BY <2>5 DEF ClaimRows
    <3>2. jobs'[v] = batch
      BY <3>1 DEF JobTypes
    <3>3. batch[i] \in Claimable
      BY <1>2, <2>5, <3>2, BatchTypes DEF ClaimRows
    <3>4. Claimable \subseteq Sources
      BY DEF Claimable, TableTypes, Claimed
    <3>5. QED
      BY <2>5, <3>2, <3>3, <3>4 DEF ClaimRows, None
  <2>6. QED
    BY <2>2, <2>3, <2>4, <2>5, JobsChange
<1>3. ASSUME NEW s \in owed'
      PROVE  row'[s] = None
  <2>1. ASSUME NEW t \in Sources, RowArrives(t)
        PROVE  row'[s] = None
    BY <1>3, <2>1 DEF RowArrives, RowsFollow, TableTypes
  <2>2. ASSUME NEW t \in Sources, Complete(t)
        PROVE  row'[s] = None
    BY <1>3, <2>2 DEF Complete, RowsFollow, table
  <2>3. ASSUME UNCHANGED owed, \A t \in Sources : row'[t] = row[t] \/ row[t] # None
        PROVE  row'[s] = None
    BY <1>3, <2>3 DEF RowsFollow, OtherTypes
  <2>4. ASSUME NEW w \in Workers, ClaimRows(w)
        PROVE  UNCHANGED owed /\ \A t \in Sources : row'[t] = row[t] \/ row[t] # None
    <3>1. \A t \in Claimable : row[t] # None
      BY DEF Claimable, TableTypes, Claimed, None
    <3>2. QED
      BY <2>4, <3>1 DEF ClaimRows
  <2>5. ASSUME NEW w \in Workers, JobStep(w) \/ WorkerFails(w)
        PROVE  UNCHANGED owed /\ \A t \in Sources : row'[t] = row[t] \/ row[t] # None
    <3>1. UNCHANGED owed /\ (UNCHANGED row \/ (place[w] # "idle" /\ Touched(w)))
      <4>1. Release(w) => UNCHANGED row \/ Touched(w)
        BY DEF Release, Touched
      <4>2. \A how : MarkProcessed(w, how) => UNCHANGED row \/ Touched(w)
        BY DEF MarkProcessed, Touched
      <4>3. CASE \/ LockBusy(w) \/ RejectPayload(w) \/ ResolvePlan(w) \/ Conclude(w)
                 \/ JobFails(w)
        BY <4>1, <4>2, <4>3 DEF LockBusy, RejectPayload, ResolvePlan, Conclude, JobFails, Beating
      <4>4. CASE JobStep(w) /\ ~(\/ LockBusy(w) \/ RejectPayload(w) \/ ResolvePlan(w)
                                 \/ Conclude(w))
        BY <4>4 DEF JobStep, TakeLock, Fence, ApplyPlan, Activate, PeekUndo, PushUndo, Unlock, table
      <4>5. CASE WorkerFails(w) /\ ~JobFails(w)
        BY <4>5 DEF WorkerFails, Stall, CleanupFails, HeartbeatFails, WorkerCrash, table
      <4>6. QED
        BY <2>5, <4>3, <4>4, <4>5 DEF JobStep, WorkerFails
    <3>2. place[w] # "idle" => Job(w) \in Sources /\ 1 \in 1..Len(jobs[w]) /\ Job(w) = jobs[w][1]
      BY JobInSources
    <3>3. place[w] # "idle" => row[Job(w)] # None
      BY <3>2 DEF RowsFollow
    <3>4. QED
      BY <3>1, <3>3 DEF TableTypes, Touched
  <2>6. ASSUME NEW w \in Workers, Heartbeat(w)
        PROVE  UNCHANGED owed /\ UNCHANGED row
    BY <2>6 DEF Heartbeat
  <2>7. ASSUME \/ \E t \in Sources : LeaseRunsOut(t)
               \/ LockRunsOut \/ Edit
        PROVE  UNCHANGED owed /\ UNCHANGED row
    BY <2>7 DEF LeaseRunsOut, LockRunsOut, Edit, table
  <2>8. QED
    BY <2>1, <2>2, <2>3, <2>4, <2>5, <2>6, <2>7 DEF ContinuationNext
<1>4. QED
  BY <1>2, <1>3 DEF RowsFollow

LEMMA PlannedKeeps ==
    ASSUME ContinuationInv, ContinuationNext, NEW v \in Workers,
           place'[v] \in {"fence", "apply"}
    PROVE  seen'[v][jobs'[v][1]] \in Workers
<1> USE DEF ContinuationInv, Types
<1>1. CASE Unmoved(v)
  <2>1. place[v] # "idle"
    BY <1>1 DEF Unmoved
  <2>2. QED
    BY <1>1, <2>1, JobInSources DEF Unmoved, Planned
<1>2. CASE ResolvePlan(v)
  <2>1. place[v] = "plan" /\ UNCHANGED jobs
    BY <1>2 DEF ResolvePlan
  <2>2. Job(v) \in Sources /\ jobs'[v][1] = Job(v)
    BY <2>1, JobInSources
  <2>3. seen'[v][Job(v)] \notin {None, Old}
    <3>1. CASE seen[v][Job(v)] \notin {None, Old}
      BY <1>2, <3>1 DEF ResolvePlan
    <3>2. CASE seen' = [seen EXCEPT ![v] = [seen[v] EXCEPT ![Job(v)] = v]]
      BY <2>2, <3>2, ContinuationAssumption DEF OtherTypes, None, Old
    <3>3. CASE Goto(v, "unlock")
      BY <3>3 DEF Goto, JobTypes
    <3>4. QED
      BY <1>2, <3>1, <3>2, <3>3 DEF ResolvePlan
  <2>4. seen'[v][Job(v)] \in Workers \cup {None, Old}
    BY <2>2, OthersTyped DEF OtherTypes
  <2>5. QED
    BY <2>2, <2>3, <2>4
<1>3. CASE Fence(v)
  <2>1. place[v] = "fence" /\ UNCHANGED <<jobs, seen>>
    BY <1>3 DEF Fence, LeaveJob
  <2>2. QED
    BY <2>1, JobInSources DEF Planned
<1>4. CASE Stall(v) \/ HeartbeatFails(v)
  <2>1. UNCHANGED <<place, jobs, seen>>
    BY <1>4 DEF Stall, HeartbeatFails, worker
  <2>2. QED
    BY <2>1, JobInSources DEF Planned
<1>5. ASSUME \/ ClaimRows(v) \/ TakeLock(v) \/ LockBusy(v) \/ RejectPayload(v) \/ ApplyPlan(v)
             \/ Activate(v) \/ PeekUndo(v) \/ PushUndo(v) \/ Conclude(v) \/ Unlock(v)
             \/ JobFails(v) \/ CleanupFails(v) \/ WorkerCrash(v)
      PROVE  FALSE
  BY <1>5 DEF ClaimRows, TakeLock, LockBusy, RejectPayload, ApplyPlan, Activate, PeekUndo,
     PushUndo, Conclude, Unlock, JobFails, CleanupFails, WorkerCrash, NextJob, LeaveJob, Goto,
     JobTypes
<1>6. QED
  BY <1>1, <1>2, <1>3, <1>4, <1>5, MovesItself DEF JobStep, WorkerFails

\* A Timer that has moved on from a completion does not come back to it.
LEMMA NeverBack ==
    ASSUME ContinuationInv, ContinuationNext, NEW s \in Sources, row[s] # None,
           timer # Completed(s)
    PROVE  timer' # Completed(s)
<1> USE DEF ContinuationInv, Types
<1>1. ASSUME NEW w \in Workers, ApplyPlan(w)
      PROVE  timer' # Completed(s)
  BY <1>1 DEF ApplyPlan, Successor, Completed, runtime
<1>2. ASSUME NEW t \in Sources, Complete(t)
      PROVE  timer' # Completed(s)
  BY <1>2 DEF Complete, Completed
<1>3. ASSUME NEW w \in Workers, ~ApplyPlan(w),
             ClaimRows(w) \/ JobStep(w) \/ Heartbeat(w) \/ WorkerFails(w)
      PROVE  UNCHANGED timer
  BY <1>3 DEF ClaimRows, JobStep, WorkerFails, TakeLock, LockBusy, RejectPayload, ResolvePlan,
     Fence, Activate, PeekUndo, PushUndo, Conclude, Unlock, Heartbeat, Stall, JobFails,
     CleanupFails, HeartbeatFails, WorkerCrash, runtime
<1>4. ASSUME \/ \E t \in Sources : RowArrives(t) \/ LeaseRunsOut(t)
             \/ LockRunsOut
      PROVE  UNCHANGED timer
  BY <1>4 DEF RowArrives, LeaseRunsOut, LockRunsOut, runtime
<1>5. ASSUME Edit
      PROVE  timer' # Completed(s)
  BY <1>5 DEF Edit, UserTimer, Completed
<1>6. QED
  BY <1>1, <1>2, <1>3, <1>4, <1>5 DEF ContinuationNext

LEMMA MovedOnKeeps ==
    ASSUME ContinuationInv, ContinuationNext, NEW v \in Workers,
           place'[v] \in {"after", "peek", "push", "mark"}
    PROVE  timer' # Completed(jobs'[v][1]) /\ result'[v] \in {"applied", "superseded"}
<1> USE DEF ContinuationInv, Types
<1>1. ASSUME place[v] # "idle", jobs'[v] = jobs[v]
      PROVE  jobs'[v][1] = Job(v) /\ Job(v) \in Sources /\ row[Job(v)] # None
  <2>1. Job(v) \in Sources /\ Job(v) = jobs[v][1] /\ 1 \in 1..Len(jobs[v])
    BY <1>1, JobInSources
  <2>2. QED
    BY <1>1, <2>1 DEF RowsFollow
<1>2. ASSUME place[v] \in {"after", "peek", "push", "mark"}, jobs'[v] = jobs[v],
             result'[v] = result[v]
      PROVE  timer' # Completed(jobs'[v][1]) /\ result'[v] \in {"applied", "superseded"}
  BY <1>1, <1>2, NeverBack DEF MovedOn
<1>3. CASE ApplyPlan(v)
  <2>1. place[v] = "apply" /\ UNCHANGED jobs
    BY <1>3 DEF ApplyPlan, LeaveJob
  <2>2. result'[v] \in {"applied", "superseded"}
    BY <1>3 DEF ApplyPlan, LeaveJob, Goto, JobTypes, OtherTypes
  <2>3. timer' # Completed(Job(v))
    BY <1>3 DEF ApplyPlan, LeaveJob, Goto, JobTypes, Follows, Successor, Completed, runtime
  <2>4. QED
    BY <1>1, <2>1, <2>2, <2>3
<1>4. ASSUME \/ Activate(v) \/ PeekUndo(v) \/ PushUndo(v) \/ Stall(v) \/ HeartbeatFails(v)
             \/ Unmoved(v)
      PROVE  /\ place[v] \in {"after", "peek", "push", "mark"}
             /\ jobs'[v] = jobs[v] /\ result'[v] = result[v]
  BY <1>4 DEF Activate, PeekUndo, PushUndo, Stall, HeartbeatFails, Unmoved, worker
<1>5. ASSUME \/ ClaimRows(v) \/ TakeLock(v) \/ LockBusy(v) \/ RejectPayload(v) \/ ResolvePlan(v)
             \/ Fence(v) \/ Conclude(v) \/ Unlock(v) \/ JobFails(v) \/ CleanupFails(v)
             \/ WorkerCrash(v)
      PROVE  FALSE
  BY <1>5 DEF ClaimRows, TakeLock, LockBusy, RejectPayload, ResolvePlan, Fence, Conclude, Unlock,
     JobFails, CleanupFails, WorkerCrash, NextJob, LeaveJob, Goto, JobTypes
<1>6. QED
  BY <1>2, <1>3, <1>4, <1>5, MovesItself DEF JobStep, WorkerFails

LEMMA NotLeftBehindKeeps ==
    ASSUME ContinuationInv, ContinuationNext
    PROVE  NotLeftBehind'
<1> USE DEF ContinuationInv, Types
<1>1. SUFFICES ASSUME NEW s \in Sources, row'[s] \in {"applied", "superseded"}
               PROVE  timer' # Completed(s)
  BY DEF NotLeftBehind, Completed
<1>2. CASE row[s] \in {"applied", "superseded"}
  BY <1>2, NeverBack DEF NotLeftBehind, None
<1>3. ASSUME NEW w \in Workers, Conclude(w)
      PROVE  timer' # Completed(s)
  <2>1. UNCHANGED timer /\ timer # Completed(Job(w))
    BY <1>3 DEF Conclude, MovedOn, runtime
  <2>2. \A t \in Sources : t # Job(w) => row'[t] = row[t]
    BY <1>3 DEF Conclude, MarkProcessed, TableTypes
  <2>3. QED
    BY <1>1, <1>2, <2>1, <2>2
<1>4. ASSUME row[s] \notin {"applied", "superseded"},
             \/ \E w \in Workers : \/ ClaimRows(w) \/ (JobStep(w) /\ ~Conclude(w))
                                   \/ Heartbeat(w) \/ WorkerFails(w)
             \/ \E t \in Sources : RowArrives(t) \/ LeaseRunsOut(t) \/ Complete(t)
             \/ LockRunsOut \/ Edit
      PROVE  FALSE
  <2>1. ASSUME NEW w \in Workers, Release(w) \/ MarkProcessed(w, "failed")
        PROVE  FALSE
    BY <1>1, <1>4, <2>1 DEF Release, MarkProcessed, TableTypes
  <2>2. ASSUME NEW w \in Workers, LockBusy(w) \/ RejectPayload(w) \/ JobFails(w) \/ ResolvePlan(w)
        PROVE  Release(w) \/ MarkProcessed(w, "failed") \/ UNCHANGED row
    BY <2>2 DEF LockBusy, RejectPayload, JobFails, ResolvePlan
  <2>3. ASSUME NEW w \in Workers,
               \/ TakeLock(w) \/ Fence(w) \/ ApplyPlan(w) \/ Activate(w) \/ PeekUndo(w)
               \/ PushUndo(w) \/ Unlock(w) \/ Heartbeat(w) \/ Stall(w) \/ CleanupFails(w)
               \/ HeartbeatFails(w) \/ WorkerCrash(w)
        PROVE  UNCHANGED row
    BY <2>3 DEF TakeLock, Fence, ApplyPlan, Activate, PeekUndo, PushUndo, Unlock, Heartbeat, Stall,
       CleanupFails, HeartbeatFails, WorkerCrash, table
  <2>4. ASSUME \/ \E t \in Sources : LeaseRunsOut(t) \/ Complete(t)
               \/ LockRunsOut \/ Edit
        PROVE  UNCHANGED row
    BY <2>4 DEF LeaseRunsOut, Complete, LockRunsOut, Edit, table
  <2>5. ASSUME NEW w \in Workers, ClaimRows(w)
        PROVE  FALSE
    BY <1>1, <1>4, <2>5 DEF ClaimRows
  <2>6. ASSUME NEW t \in Sources, RowArrives(t)
        PROVE  FALSE
    BY <1>1, <1>4, <2>6 DEF RowArrives, TableTypes
  <2>7. QED
    BY <1>1, <1>4, <2>1, <2>2, <2>3, <2>4, <2>5, <2>6 DEF JobStep, WorkerFails
<1>5. QED
  BY <1>1, <1>2, <1>3, <1>4 DEF ContinuationNext

-----------------------------------------------------------------------------

LEMMA ContinuationInvInit == ContinuationInit => ContinuationInv
<1> SUFFICES ASSUME ContinuationInit PROVE ContinuationInv
  OBVIOUS
<1> USE DEF ContinuationInit
<1>1. TableTypes
  BY DEF TableTypes, Claimed, RowStates, None
<1>2. JobTypes
  BY EmptySeq DEF JobTypes, JobPlaces
<1>3. OtherTypes
  BY EmptySeq DEF OtherTypes
<1>4. RowsFollow
  BY EmptySeq DEF RowsFollow
<1>5. NoRowNoPlan /\ ReadIsStored /\ Planned /\ MovedOn
  BY ContinuationAssumption DEF NoRowNoPlan, ReadIsStored, Planned, MovedOn, None
<1>6. NotLeftBehind /\ OneSuccessor
  BY DEF NotLeftBehind, OneSuccessor, None
<1>7. QED
  BY <1>1, <1>2, <1>3, <1>4, <1>5, <1>6 DEF ContinuationInv, Types

LEMMA ContinuationInvNext ==
    ContinuationInv /\ [ContinuationNext]_continuationVars => ContinuationInv'
<1> SUFFICES ASSUME ContinuationInv, [ContinuationNext]_continuationVars PROVE ContinuationInv'
  OBVIOUS
<1>1. CASE ContinuationNext
  <2>1. Types'
    BY <1>1, TableTyped, JobsTyped, OthersTyped DEF Types
  <2>2. NoRowNoPlan' /\ RowsFollow' /\ ReadIsStored' /\ NotLeftBehind' /\ OneSuccessor'
    BY <1>1, NoRowNoPlanKeeps, RowsFollowKeeps, ReadIsStoredKeeps, NotLeftBehindKeeps,
       OneSuccessorKeeps
  <2>3. ASSUME NEW v \in Workers, place'[v] # "idle"
        PROVE  Job(v)' = jobs'[v][1]
    <3>1. jobs'[v] \in Seq(Sources) /\ jobs'[v] # <<>>
      BY <2>1, <2>3 DEF Types, JobTypes
    <3>2. QED
      BY <3>1 DEF Job
  <2>4. Planned'
    BY <1>1, <2>3, PlannedKeeps DEF Planned
  <2>5. MovedOn'
    BY <1>1, <2>3, MovedOnKeeps DEF MovedOn, Completed
  <2>6. QED
    BY <2>1, <2>2, <2>4, <2>5 DEF ContinuationInv
<1>2. CASE UNCHANGED continuationVars
  <2> USE <1>2 DEF continuationVars, runtime, table, worker
  <2>1. Types'
    BY DEF ContinuationInv, Types, TableTypes, Claimed, JobTypes, OtherTypes
  <2>2. NoRowNoPlan' /\ RowsFollow' /\ ReadIsStored'
    BY DEF ContinuationInv, NoRowNoPlan, RowsFollow, ReadIsStored
  <2>3. Planned' /\ MovedOn'
    BY DEF ContinuationInv, Planned, MovedOn, Job, Completed
  <2>4. NotLeftBehind' /\ OneSuccessor'
    BY DEF ContinuationInv, NotLeftBehind, OneSuccessor, Completed
  <2>5. QED
    BY <2>1, <2>2, <2>3, <2>4 DEF ContinuationInv
<1>3. QED
  BY <1>1, <1>2

LEMMA ContinuationInvHolds == ContinuationSpec => []ContinuationInv
BY ContinuationInvInit, ContinuationInvNext, PTL DEF ContinuationSpec

\* The variables keep their types, a row is claimed exactly while a worker
\* processes it, and a worker without jobs is idle.
THEOREM ContinuationTyped == ContinuationSpec => []ContinuationTypes
<1>1. ContinuationInv => ContinuationTypes
  BY DEF ContinuationInv, Types, TableTypes, Claimed, JobTypes, OtherTypes, ContinuationTypes
<1>2. QED
  BY <1>1, ContinuationInvHolds, PTL

\* However many workers claim a row, lose it, die or come back to it, and
\* whatever the user does to the Timer: once a row is processed the account is
\* not on the completed Timer any more.
THEOREM NotLeftBehindHolds == ContinuationSpec => []NotLeftBehind
<1>1. ContinuationInv => NotLeftBehind
  BY DEF ContinuationInv
<1>2. QED
  BY <1>1, ContinuationInvHolds, PTL

\* All plans applied for a completed Timer are the one its row holds, although
\* every worker makes up identities of its own.
THEOREM OneSuccessorHolds == ContinuationSpec => []OneSuccessor
<1>1. ContinuationInv => OneSuccessor
  BY DEF ContinuationInv
<1>2. QED
  BY <1>1, ContinuationInvHolds, PTL

-----------------------------------------------------------------------------
(* The undo history *)

\* Until a lease or lock ran out under a live worker, whoever is past the lock
\* holds it.
Exclusive == ~lapse => \A w \in Workers : Beating(w) => userLock = w

\* What a worker found out about the newest entry stays true until it writes.
StillUnrecorded ==
    ~lapse => \A w \in Workers : place[w] = "push" => ~AlreadyRecorded(Job(w))

UndoInv == Exclusive /\ StillUnrecorded /\ OneUndoEntry

LEMMA LapseStays ==
    ASSUME ContinuationInv, ContinuationNext, ~lapse'
    PROVE  ~lapse
<1>1. ASSUME NEW w \in Workers, ClaimRows(w) \/ JobStep(w) \/ Heartbeat(w)
      PROVE  UNCHANGED lapse
  BY <1>1 DEF ClaimRows, JobStep, TakeLock, LockBusy, RejectPayload, ResolvePlan, Fence,
     ApplyPlan, Activate, PeekUndo, PushUndo, Conclude, Unlock, Heartbeat
<1>2. ASSUME NEW w \in Workers, WorkerFails(w), ~Stall(w)
      PROVE  UNCHANGED lapse
  BY <1>2 DEF WorkerFails, JobFails, CleanupFails, HeartbeatFails, WorkerCrash
<1>3. ASSUME NEW w \in Workers, Stall(w)
      PROVE  ~lapse
  BY <1>3 DEF Stall, ContinuationInv, Types, OtherTypes
<1>4. ASSUME \/ \E s \in Sources : RowArrives(s) \/ LeaseRunsOut(s) \/ Complete(s)
             \/ LockRunsOut \/ Edit
      PROVE  UNCHANGED lapse
  BY <1>4 DEF RowArrives, LeaseRunsOut, Complete, LockRunsOut, Edit
<1>5. QED
  BY <1>1, <1>2, <1>3, <1>4 DEF ContinuationNext

LEMMA ExclusiveKeeps ==
    ASSUME ContinuationInv, ContinuationNext, Exclusive
    PROVE  Exclusive'
<1> USE DEF ContinuationInv, Types
<1>1. SUFFICES ASSUME ~lapse', NEW v \in Workers, place'[v] \notin {"idle", "lock"}
               PROVE  userLock' = v
  BY DEF Exclusive, Beating
<1>2. ASSUME NEW w \in Workers, Stall(w)
      PROVE  ~lapse /\ UNCHANGED <<place, userLock>>
  BY <1>1, <1>2 DEF Stall, worker, OtherTypes
<1>3. ~lapse
  BY <1>1, LapseStays
<1>4. \A w \in Workers : place[w] \notin {"idle", "lock"} => userLock = w
  BY <1>3 DEF Exclusive, Beating
<1>5. ASSUME NEW w \in Workers, TakeLock(w)
      PROVE  userLock' = v
  <2>1. userLock = None /\ userLock' = w /\ \A u \in Workers \ {w} : place'[u] = place[u]
    BY <1>5 DEF TakeLock, Goto, JobTypes
  <2>2. QED
    BY <1>1, <1>4, <2>1, ContinuationAssumption DEF None
<1>6. ASSUME NEW w \in Workers, Unlock(w)
      PROVE  userLock' = v
  <2>1. place'[w] \in {"idle", "lock"} /\ \A u \in Workers \ {w} : place'[u] = place[u]
    BY <1>6 DEF Unlock, NextJob, Goto, JobTypes
  <2>2. QED
    BY <1>1, <1>4, <1>6, <2>1 DEF Unlock
<1>7. ASSUME place[v] \notin {"idle", "lock"}, UNCHANGED userLock
      PROVE  userLock' = v
  BY <1>4, <1>7
<1>8. ASSUME NEW w \in Workers, ~TakeLock(w), ~Unlock(w),
             ClaimRows(w) \/ JobStep(w) \/ Heartbeat(w) \/ WorkerFails(w)
      PROVE  place[v] \notin {"idle", "lock"} /\ UNCHANGED userLock
  <2>1. CASE \/ RejectPayload(w) \/ ResolvePlan(w) \/ Fence(w) \/ ApplyPlan(w) \/ Activate(w)
             \/ PeekUndo(w) \/ PushUndo(w) \/ Conclude(w) \/ JobFails(w)
    <3>1. UNCHANGED userLock /\ place[w] \notin {"idle", "lock"}
      BY <2>1 DEF RejectPayload, ResolvePlan, Fence, ApplyPlan, Activate, PeekUndo, PushUndo,
         Conclude, JobFails, Beating
    <3>2. \A u \in Workers \ {w} : place'[u] = place[u]
      BY <2>1 DEF RejectPayload, ResolvePlan, Fence, ApplyPlan, Activate, PeekUndo, PushUndo,
         Conclude, JobFails, LeaveJob, Goto, JobTypes
    <3>3. QED
      BY <1>1, <3>1, <3>2
  <2>2. CASE ClaimRows(w) \/ LockBusy(w) \/ CleanupFails(w) \/ WorkerCrash(w)
    <3>1. UNCHANGED userLock /\ place'[w] \in {"idle", "lock"}
      BY <2>2 DEF ClaimRows, LockBusy, CleanupFails, WorkerCrash, NextJob, Goto, JobTypes
    <3>2. \A u \in Workers \ {w} : place'[u] = place[u]
      BY <2>2 DEF ClaimRows, LockBusy, CleanupFails, WorkerCrash, NextJob, Goto, JobTypes
    <3>3. QED
      BY <1>1, <3>1, <3>2
  <2>3. CASE Heartbeat(w) \/ HeartbeatFails(w)
    BY <1>1, <2>3 DEF Heartbeat, HeartbeatFails
  <2>4. CASE Stall(w)
    BY <1>1, <1>2, <2>4
  <2>5. QED
    BY <1>8, <2>1, <2>2, <2>3, <2>4 DEF JobStep, WorkerFails
<1>9. ASSUME LockRunsOut
      PROVE  userLock' = v
  <2>1. place'[v] = place[v] /\ userLock \in Workers /\ place[userLock] \in {"idle", "lock"}
    BY <1>9 DEF LockRunsOut, Beating, OtherTypes, worker
  <2>2. QED
    BY <1>1, <1>4, <2>1
<1>10. ASSUME Edit \/ \E s \in Sources : RowArrives(s) \/ LeaseRunsOut(s) \/ Complete(s)
       PROVE  place[v] \notin {"idle", "lock"} /\ UNCHANGED userLock
  BY <1>1, <1>10 DEF Edit, RowArrives, LeaseRunsOut, Complete, worker
<1>11. QED
  BY <1>5, <1>6, <1>7, <1>8, <1>9, <1>10 DEF ContinuationNext

LEMMA UndoChanges ==
    ASSUME ContinuationInv, ContinuationNext
    PROVE  \/ UNCHANGED undo
           \/ undo' = <<>>
           \/ undo' = Append(undo, "user")
           \/ \E w \in Workers : PushUndo(w)
<1>1. ASSUME NEW w \in Workers, ~ApplyPlan(w), ~PushUndo(w),
             ClaimRows(w) \/ JobStep(w) \/ Heartbeat(w) \/ WorkerFails(w)
      PROVE  UNCHANGED undo
  BY <1>1 DEF ClaimRows, JobStep, WorkerFails, TakeLock, LockBusy, RejectPayload, ResolvePlan,
     Fence, Activate, PeekUndo, Conclude, Unlock, Heartbeat, Stall, JobFails, CleanupFails,
     HeartbeatFails, WorkerCrash, runtime
<1>2. ASSUME NEW w \in Workers, ApplyPlan(w)
      PROVE  UNCHANGED undo \/ undo' = <<>>
  BY <1>2 DEF ApplyPlan, runtime
<1>3. ASSUME \/ \E s \in Sources : RowArrives(s) \/ LeaseRunsOut(s) \/ Complete(s)
             \/ LockRunsOut
      PROVE  UNCHANGED undo
  BY <1>3 DEF RowArrives, LeaseRunsOut, Complete, LockRunsOut, runtime
<1>4. QED
  BY <1>1, <1>2, <1>3 DEF ContinuationNext, Edit

\* An entry appended to the history is its last one, after all the others.
LEMMA AppendedLast ==
    ASSUME NEW h, NEW S, h \in Seq(S), NEW x \in S
    PROVE  /\ Append(h, x) # <<>> /\ Last(Append(h, x)) = x
           /\ Len(Append(h, x)) = Len(h) + 1
           /\ \A i \in 1..Len(h) : Append(h, x)[i] = h[i]
           /\ Append(h, x)[Len(h) + 1] = x
           /\ h # <<>> => Last(h) = h[Len(h)]
<1>1. Append(h, x) \in Seq(S) /\ Len(Append(h, x)) = Len(h) + 1 /\ Len(h) \in Nat
  OBVIOUS
<1>2. \A i \in 1..Len(h) : Append(h, x)[i] = h[i]
  OBVIOUS
<1>3. Append(h, x)[Len(h) + 1] = x
  OBVIOUS
<1>4. QED
  BY <1>1, <1>2, <1>3, EmptySeq DEF Last

LEMMA StillUnrecordedKeeps ==
    ASSUME ContinuationInv, ContinuationNext, Exclusive, StillUnrecorded, ~lapse',
           NEW v \in Workers, place'[v] = "push"
    PROVE  ~(undo' # <<>> /\ Last(undo') = jobs'[v][1])
<1> USE DEF ContinuationInv, Types
<1>1. ~lapse
  BY LapseStays
<1>2. ASSUME jobs'[v] = jobs[v], place[v] # "idle"
      PROVE  jobs'[v][1] = Job(v) /\ Job(v) \in Sources
  BY <1>2, JobInSources
<1>3. CASE PeekUndo(v)
  <2>1. ~AlreadyRecorded(Job(v)) /\ UNCHANGED <<undo, jobs>> /\ place[v] # "idle"
    BY <1>3 DEF PeekUndo, Goto, JobTypes, runtime
  <2>2. QED
    BY <1>2, <2>1 DEF AlreadyRecorded
<1>4. ASSUME place[v] = "push", jobs'[v] = jobs[v]
      PROVE  ~(undo' # <<>> /\ Last(undo') = jobs'[v][1])
  <2>1. ~AlreadyRecorded(Job(v)) /\ jobs'[v][1] = Job(v) /\ Job(v) \in Sources
    BY <1>1, <1>2, <1>4 DEF StillUnrecorded
  <2>2. CASE UNCHANGED undo
    BY <2>1, <2>2 DEF AlreadyRecorded
  <2>3. CASE undo' = <<>>
    BY <2>3
  <2>4. CASE undo' = Append(undo, "user")
    <3>1. Last(undo') = "user"
      BY <2>4, AppendedLast DEF OtherTypes
    <3>2. QED
      BY <2>1, <3>1, ContinuationAssumption
  <2>5. ASSUME NEW w \in Workers, PushUndo(w)
        PROVE  FALSE
    <3>1. w # v
      BY <2>5 DEF PushUndo, Goto, JobTypes
    <3>2. userLock = w /\ userLock = v
      BY <1>1, <1>4, <2>5 DEF Exclusive, Beating, PushUndo
    <3>3. QED
      BY <3>1, <3>2
  <2>6. QED
    BY <2>2, <2>3, <2>4, <2>5, UndoChanges
<1>5. ASSUME Stall(v) \/ HeartbeatFails(v) \/ Unmoved(v)
      PROVE  place[v] = "push" /\ jobs'[v] = jobs[v]
  BY <1>5 DEF Stall, HeartbeatFails, Unmoved, worker
<1>6. ASSUME \/ ClaimRows(v) \/ TakeLock(v) \/ LockBusy(v) \/ RejectPayload(v) \/ ResolvePlan(v)
             \/ Fence(v) \/ ApplyPlan(v) \/ Activate(v) \/ PushUndo(v) \/ Conclude(v) \/ Unlock(v)
             \/ JobFails(v) \/ CleanupFails(v) \/ WorkerCrash(v)
      PROVE  FALSE
  BY <1>6 DEF ClaimRows, TakeLock, LockBusy, RejectPayload, ResolvePlan, Fence, ApplyPlan, Activate,
     PushUndo, Conclude, Unlock, JobFails, CleanupFails, WorkerCrash, NextJob, LeaveJob, Goto,
     JobTypes
<1>7. QED
  BY <1>3, <1>4, <1>5, <1>6, MovesItself DEF JobStep, WorkerFails

LEMMA OneUndoEntryKeeps ==
    ASSUME ContinuationInv, ContinuationNext, UndoInv
    PROVE  OneUndoEntry'
<1> USE DEF ContinuationInv, Types
<1>1. SUFFICES ASSUME ~lapse', NEW i \in 2..Len(undo'), undo'[i] # "user"
               PROVE  undo'[i] # undo'[i - 1]
  BY DEF OneUndoEntry
<1>2. ~lapse
  BY <1>1, LapseStays
<1>3. \A k \in 2..Len(undo) : undo[k] # "user" => undo[k] # undo[k - 1]
  BY <1>2 DEF UndoInv, OneUndoEntry
<1>4. CASE UNCHANGED undo
  BY <1>1, <1>3, <1>4
<1>5. CASE undo' = <<>>
  BY <1>1, <1>5, EmptySeq
<1>6. CASE undo' = Append(undo, "user")
  <2>1. /\ Len(undo') = Len(undo) + 1 /\ Len(undo) \in Nat
        /\ \A k \in 1..Len(undo) : undo'[k] = undo[k]
        /\ undo'[Len(undo) + 1] = "user"
    BY <1>6, AppendedLast DEF OtherTypes
  <2>2. i \in 2..Len(undo)
    BY <1>1, <2>1
  <2>3. QED
    BY <1>1, <1>3, <2>1, <2>2
<1>7. ASSUME NEW w \in Workers, PushUndo(w)
      PROVE  undo'[i] # undo'[i - 1]
  <2>1. place[w] = "push" /\ undo' = Append(undo, Job(w)) /\ Job(w) \in Sources
    BY <1>7, JobInSources DEF PushUndo
  <2>2. /\ Len(undo') = Len(undo) + 1 /\ Len(undo) \in Nat
        /\ \A k \in 1..Len(undo) : undo'[k] = undo[k]
        /\ undo'[Len(undo) + 1] = Job(w)
        /\ undo # <<>> => Last(undo) = undo[Len(undo)]
    BY <2>1, AppendedLast DEF OtherTypes
  <2>3. CASE i \in 2..Len(undo)
    BY <1>1, <1>3, <2>2, <2>3
  <2>4. CASE i = Len(undo) + 1
    <3>1. undo # <<>>
      BY <1>1, <2>4, EmptySeq
    <3>2. Last(undo) # Job(w)
      BY <1>2, <2>1, <3>1 DEF UndoInv, StillUnrecorded, AlreadyRecorded
    <3>3. QED
      BY <1>1, <2>2, <2>4, <3>1, <3>2
  <2>5. QED
    BY <1>1, <2>2, <2>3, <2>4
<1>8. QED
  BY <1>4, <1>5, <1>6, <1>7, UndoChanges

LEMMA UndoInvNext ==
    ContinuationInv /\ ContinuationInv' /\ UndoInv /\ [ContinuationNext]_continuationVars
       => UndoInv'
<1> SUFFICES ASSUME ContinuationInv, ContinuationInv', UndoInv,
                    [ContinuationNext]_continuationVars
             PROVE  UndoInv'
  OBVIOUS
<1>1. CASE ContinuationNext
  <2>1. ASSUME NEW v \in Workers, place'[v] = "push"
        PROVE  Job(v)' = jobs'[v][1]
    <3>1. jobs'[v] \in Seq(Sources) /\ jobs'[v] # <<>>
      BY <2>1 DEF ContinuationInv, Types, JobTypes
    <3>2. QED
      BY <3>1 DEF Job
  <2>2. StillUnrecorded'
    BY <1>1, <2>1, StillUnrecordedKeeps DEF UndoInv, StillUnrecorded, AlreadyRecorded
  <2>3. QED
    BY <1>1, <2>2, ExclusiveKeeps, OneUndoEntryKeeps DEF UndoInv
<1>2. CASE UNCHANGED continuationVars
  BY <1>2 DEF UndoInv, Exclusive, Beating, StillUnrecorded, AlreadyRecorded, Job, OneUndoEntry,
     continuationVars, runtime, worker
<1>3. QED
  BY <1>1, <1>2

\* As long as no lease or lock ran out under a live worker, the lock keeps the
\* check of the newest undo entry and the write together: a completion that is
\* taken up again does not get a second entry next to its first.
THEOREM OneUndoEntryHolds == ContinuationSpec => []OneUndoEntry
<1>1. ContinuationInit => UndoInv
  BY EmptySeq DEF ContinuationInit, UndoInv, Exclusive, Beating, StillUnrecorded, OneUndoEntry
<1>2. UndoInv => OneUndoEntry
  BY DEF UndoInv
<1>3. QED
  BY <1>1, <1>2, UndoInvNext, ContinuationInvHolds, PTL DEF ContinuationSpec

-----------------------------------------------------------------------------
(* The notification worker: its inductive invariant *)

Held == {n \in Notices : holder[n] # Nobody}

RowsTyped ==
    /\ status \in [Notices -> {"absent", "pending", "processing", "processed", "failed"}]
    /\ holder \in [Notices -> Senders \cup {Nobody}]
    /\ \A n \in Notices : holder[n] # Nobody <=> status[n] = "processing"
    /\ expired \subseteq Held

SendersTyped ==
    /\ notice \in [Senders -> Notices \cup {0}]
    /\ stage \in [Senders -> {"idle", "renew", "send", "mark"}]
    /\ doubtful \subseteq Senders
    /\ \A w \in Senders : stage[w] # "idle" <=> notice[w] # 0

HistoriesTyped == deliveries \in Seq(Notices) /\ attempted \subseteq Notices

\* What a worker works on was claimed, and at "mark" the user has it.
AtTheRow ==
    \A w \in Senders : stage[w] # "idle" =>
        /\ notice[w] \in attempted
        /\ stage[w] = "mark" => Got(notice[w])

\* The user gets what was claimed only; what is processed he has.
Delivered ==
    /\ \A n \in Notices : Got(n) => n \in attempted
    /\ \A n \in Notices : status[n] = "processed" => Got(n)

\* m needs not be heard of any more, or not before later ones.
Settled(m) == Got(m) \/ status[m] \in {"absent", "failed"} \/ m \in overtaken

\* A row is claimed when all before it are settled, and stay so.
ClaimedInOrder == \A m \in Notices, n \in attempted : m < n => Settled(m)

NoticeInv ==
    /\ RowsTyped /\ SendersTyped /\ HistoriesTyped
    /\ AtTheRow /\ Delivered /\ ClaimedInOrder

-----------------------------------------------------------------------------

LEMMA WorksOnRow ==
    ASSUME NoticeInv, NEW w \in Senders, stage[w] # "idle"
    PROVE  notice[w] \in Notices /\ notice[w] # 0
BY DEF NoticeInv, SendersTyped

LEMMA EndJobTypes ==
    ASSUME SendersTyped, NEW w \in Senders, EndJob(w)
    PROVE  SendersTyped'
BY DEF SendersTyped, EndJob

LEMMA MarkTypes ==
    ASSUME NoticeInv, NEW w \in Senders, stage[w] # "idle",
           NEW how \in {"pending", "processed", "failed"}, Mark(w, how)
    PROVE  RowsTyped'
<1>1. notice[w] \in Notices
  BY WorksOnRow
<1>2. QED
  BY <1>1, NotificationAssumption DEF Mark, Holds, NoticeInv, RowsTyped, Held, Nobody

LEMMA RowsKeepTypes ==
    ASSUME NoticeInv, NoticeNext
    PROVE  RowsTyped'
<1> USE DEF NoticeInv
<1>1. ASSUME NEW w \in Senders, NEW n \in Notices, ClaimNotice(w, n)
      PROVE  RowsTyped'
  BY <1>1, NotificationAssumption DEF ClaimNotice, RowsTyped, Held, Nobody
<1>2. ASSUME NEW w \in Senders, RejectNotice(w) \/ MarkNotice(w) \/ SendFails(w)
      PROVE  RowsTyped'
  <2>1. stage[w] # "idle"
    BY <1>2 DEF RejectNotice, MarkNotice, SendFails
  <2>2. \/ Mark(w, "failed") \/ Mark(w, "processed") \/ Mark(w, "pending")
        \/ UNCHANGED <<status, holder, expired>>
    BY <1>2 DEF RejectNotice, MarkNotice, SendFails
  <2>3. QED
    BY <2>1, <2>2, MarkTypes DEF RowsTyped, Held
<1>3. ASSUME NEW n \in Notices, CommitNotice(n)
      PROVE  RowsTyped'
  BY <1>3 DEF CommitNotice, RowsTyped, Held
<1>4. ASSUME UNCHANGED <<status, holder>>, expired' \subseteq Held
      PROVE  RowsTyped'
  BY <1>4 DEF RowsTyped, Held
<1>5. ASSUME \/ \E w \in Senders : \/ RenewNotice(w) \/ Deliver(w) \/ NoticeHeartbeat(w)
                                   \/ SenderCrash(w) \/ SenderDoubts(w)
             \/ \E n \in Notices : NoticeLeaseRunsOut(n) \/ RetryDue(n)
      PROVE  UNCHANGED <<status, holder>> /\ expired' \subseteq Held
  BY <1>5, NotificationAssumption DEF RenewNotice, Deliver, NoticeHeartbeat, SenderCrash,
     SenderDoubts, NoticeLeaseRunsOut, RetryDue, RowsTyped, Held, outboxRows
<1>6. ASSUME NEW w \in Senders, SenderStalls(w)
      PROVE  UNCHANGED <<status, holder>> /\ expired' \subseteq Held
  <2>1. notice[w] \in Notices
    BY <1>6, WorksOnRow DEF SenderStalls
  <2>2. QED
    BY <1>6, <2>1, NotificationAssumption DEF SenderStalls, Holds, RowsTyped, Held, Nobody
<1>7. QED
  BY <1>1, <1>2, <1>3, <1>4, <1>5, <1>6 DEF NoticeNext, SenderStep, SenderFails

LEMMA SendersKeepTypes ==
    ASSUME NoticeInv, NoticeNext
    PROVE  SendersTyped'
<1> USE DEF NoticeInv
<1>1. ASSUME NEW w \in Senders, NEW n \in Notices, ClaimNotice(w, n)
      PROVE  SendersTyped'
  BY <1>1, NotificationAssumption DEF ClaimNotice, SendersTyped
<1>2. ASSUME NEW w \in Senders,
             RejectNotice(w) \/ MarkNotice(w) \/ SendFails(w) \/ SenderCrash(w)
      PROVE  SendersTyped'
  BY <1>2, EndJobTypes DEF RejectNotice, MarkNotice, SendFails, SenderCrash
<1>3. ASSUME NEW w \in Senders, RenewNotice(w)
      PROVE  SendersTyped'
  <2>1. CASE EndJob(w)
    BY <2>1, EndJobTypes
  <2>2. CASE stage' = [stage EXCEPT ![w] = "send"] /\ UNCHANGED <<notice, doubtful>>
    BY <1>3, <2>2 DEF RenewNotice, SendersTyped
  <2>3. QED
    BY <1>3, <2>1, <2>2 DEF RenewNotice
<1>4. ASSUME NEW w \in Senders, Deliver(w)
      PROVE  SendersTyped'
  BY <1>4 DEF Deliver, SendersTyped
<1>5. ASSUME NEW w \in Senders, NoticeHeartbeat(w) \/ SenderStalls(w) \/ SenderDoubts(w)
      PROVE  SendersTyped'
  BY <1>5 DEF NoticeHeartbeat, SenderStalls, SenderDoubts, SendersTyped, senders
<1>6. ASSUME NEW n \in Notices, CommitNotice(n) \/ NoticeLeaseRunsOut(n) \/ RetryDue(n)
      PROVE  SendersTyped'
  BY <1>6 DEF CommitNotice, NoticeLeaseRunsOut, RetryDue, SendersTyped, senders
<1>7. QED
  BY <1>1, <1>2, <1>3, <1>4, <1>5, <1>6 DEF NoticeNext, SenderStep, SenderFails

\* Deliveries are added, and only of a row that a worker is about to send.
LEMMA DeliveriesChange ==
    ASSUME NoticeInv, NoticeNext
    PROVE  \/ UNCHANGED deliveries
           \/ \E w \in Senders : stage[w] = "send" /\ deliveries' = Append(deliveries, notice[w])
<1>1. ASSUME NEW w \in Senders, SenderStep(w) \/ NoticeHeartbeat(w)
      PROVE  \/ UNCHANGED deliveries
             \/ stage[w] = "send" /\ deliveries' = Append(deliveries, notice[w])
  BY <1>1 DEF SenderStep, ClaimNotice, RenewNotice, RejectNotice, Deliver, MarkNotice,
     NoticeHeartbeat
<1>2. ASSUME NEW w \in Senders, SenderFails(w)
      PROVE  \/ UNCHANGED deliveries
             \/ stage[w] = "send" /\ deliveries' = Append(deliveries, notice[w])
  BY <1>2 DEF SenderFails, SenderStalls, SendFails, SenderCrash, SenderDoubts
<1>3. ASSUME NEW n \in Notices, CommitNotice(n) \/ NoticeLeaseRunsOut(n) \/ RetryDue(n)
      PROVE  UNCHANGED deliveries
  BY <1>3 DEF CommitNotice, NoticeLeaseRunsOut, RetryDue
<1>4. QED
  BY <1>1, <1>2, <1>3 DEF NoticeNext

LEMMA GotChanges ==
    ASSUME NoticeInv, NoticeNext
    PROVE  /\ deliveries' \in Seq(Notices)
           /\ \A n : Got(n) => Got(n)'
           /\ \A n : Got(n)' => Got(n) \/ n \in attempted
<1> USE DEF NoticeInv, HistoriesTyped
<1>1. ASSUME NEW w \in Senders, stage[w] = "send", deliveries' = Append(deliveries, notice[w])
      PROVE  /\ deliveries' \in Seq(Notices)
             /\ \A n : Got(n) => Got(n)'
             /\ \A n : Got(n)' => Got(n) \/ n \in attempted
  <2>1. notice[w] \in Notices /\ notice[w] \in attempted
    BY <1>1, WorksOnRow DEF AtTheRow
  <2>2. /\ deliveries' \in Seq(Notices)
        /\ Len(deliveries') = Len(deliveries) + 1 /\ Len(deliveries) \in Nat
        /\ \A i \in 1..Len(deliveries) : deliveries'[i] = deliveries[i]
        /\ deliveries'[Len(deliveries) + 1] = notice[w]
    BY <1>1, <2>1
  <2>3. QED
    BY <2>1, <2>2 DEF Got
<1>2. CASE UNCHANGED deliveries
  BY <1>2 DEF Got
<1>3. QED
  BY <1>1, <1>2, DeliveriesChange

LEMMA AttemptedChanges ==
    ASSUME NoticeInv, NoticeNext
    PROVE  /\ attempted' \subseteq Notices /\ attempted \subseteq attempted'
           /\ UNCHANGED attempted
              \/ \E w \in Senders, n \in Notices :
                    ClaimNotice(w, n) /\ attempted' = attempted \cup {n}
<1> USE DEF NoticeInv, HistoriesTyped
<1>1. ASSUME NEW w \in Senders, NEW n \in Notices, ClaimNotice(w, n)
      PROVE  attempted' = attempted \cup {n}
  BY <1>1 DEF ClaimNotice
<1>2. ASSUME \/ \E w \in Senders : \/ RenewNotice(w) \/ Deliver(w) \/ NoticeHeartbeat(w)
                                   \/ RejectNotice(w) \/ MarkNotice(w) \/ SenderFails(w)
             \/ \E n \in Notices : CommitNotice(n) \/ NoticeLeaseRunsOut(n) \/ RetryDue(n)
      PROVE  UNCHANGED attempted
  BY <1>2 DEF RenewNotice, Deliver, NoticeHeartbeat, RejectNotice, MarkNotice, SenderFails,
     SenderStalls, SendFails, SenderCrash, SenderDoubts, CommitNotice, NoticeLeaseRunsOut,
     RetryDue, outboxRows
<1>3. QED
  BY <1>1, <1>2 DEF NoticeNext, SenderStep

LEMMA AtTheRowKeeps ==
    ASSUME NoticeInv, NoticeNext
    PROVE  AtTheRow'
<1> USE DEF NoticeInv, SendersTyped
<1>1. SUFFICES ASSUME NEW v \in Senders, stage'[v] # "idle"
               PROVE  /\ notice'[v] \in attempted'
                      /\ stage'[v] = "mark" => Got(notice[v])'
  BY DEF AtTheRow
<1>2. ASSUME notice'[v] = notice[v], stage[v] # "idle", stage'[v] = "mark" => stage[v] = "mark"
      PROVE  /\ notice'[v] \in attempted'
             /\ stage'[v] = "mark" => Got(notice[v])'
  <2>1. notice[v] \in attempted /\ (stage[v] = "mark" => Got(notice[v]))
    BY <1>2 DEF AtTheRow
  <2>2. Got(notice[v]) => Got(notice[v])'
    BY <1>2, GotChanges DEF Got
  <2>3. QED
    BY <1>2, <2>1, <2>2, AttemptedChanges
<1>3. ASSUME NEW n \in Notices, ClaimNotice(v, n)
      PROVE  notice'[v] \in attempted' /\ stage'[v] = "renew"
  BY <1>3 DEF ClaimNotice
<1>4. CASE Deliver(v)
  <2>1. notice'[v] = notice[v] /\ notice[v] \in attempted
    BY <1>4 DEF Deliver, AtTheRow
  <2>2. notice[v] \in Notices
    BY <1>4, WorksOnRow DEF Deliver
  <2>3. Len(deliveries') = Len(deliveries) + 1 /\ Len(deliveries) \in Nat
        /\ deliveries'[Len(deliveries) + 1] = notice[v]
    BY <1>4, <2>2 DEF Deliver, HistoriesTyped
  <2>4. Got(notice[v])'
    BY <2>1, <2>3 DEF Got
  <2>5. QED
    BY <2>1, <2>4, AttemptedChanges
<1>5. CASE RenewNotice(v)
  <2>1. stage[v] # "idle" /\ notice'[v] = notice[v] /\ stage'[v] # "mark"
    BY <1>1, <1>5 DEF RenewNotice, EndJob
  <2>2. QED
    BY <1>2, <2>1
<1>6. ASSUME RejectNotice(v) \/ MarkNotice(v) \/ SendFails(v) \/ SenderCrash(v)
      PROVE  FALSE
  BY <1>1, <1>6 DEF RejectNotice, MarkNotice, SendFails, SenderCrash, EndJob
<1>7. ASSUME NEW w \in Senders, w # v, SenderStep(w) \/ SendFails(w) \/ SenderCrash(w)
      PROVE  notice'[v] = notice[v] /\ stage'[v] = stage[v]
  BY <1>7 DEF SenderStep, ClaimNotice, RenewNotice, RejectNotice, Deliver, MarkNotice, SendFails,
     SenderCrash, EndJob
<1>8. ASSUME \/ \E w \in Senders : NoticeHeartbeat(w) \/ SenderStalls(w) \/ SenderDoubts(w)
             \/ \E n \in Notices : CommitNotice(n) \/ NoticeLeaseRunsOut(n) \/ RetryDue(n)
      PROVE  notice'[v] = notice[v] /\ stage'[v] = stage[v]
  BY <1>8 DEF NoticeHeartbeat, SenderStalls, SenderDoubts, CommitNotice, NoticeLeaseRunsOut,
     RetryDue, senders
<1>9. QED
  BY <1>1, <1>2, <1>3, <1>4, <1>5, <1>6, <1>7, <1>8 DEF NoticeNext, SenderStep, SenderFails

\* How a row can come to be processed, and what ceases to be absent or failed.
LEMMA StatusChanges ==
    ASSUME NoticeInv, NoticeNext, NEW m \in Notices
    PROVE  /\ status'[m] = "processed" => status[m] = "processed" \/ Got(m)
           /\ status[m] = "failed" => status'[m] = "failed"
           /\ status[m] = "absent" => \/ status'[m] = "absent"
                                      \/ CommitNotice(m)
<1> USE DEF NoticeInv, RowsTyped
<1>1. ASSUME NEW w \in Senders, NEW n \in Notices, ClaimNotice(w, n)
      PROVE  /\ status'[m] = "processed" => status[m] = "processed"
             /\ status[m] \in {"failed", "absent"} => status'[m] = status[m]
  <2>1. status' = [status EXCEPT ![n] = "processing"]
    BY <1>1 DEF ClaimNotice
  <2>2. status[n] \notin {"failed", "absent"}
    BY <1>1 DEF ClaimNotice, Available, Held
  <2>3. QED
    BY <2>1, <2>2
<1>2. ASSUME NEW w \in Senders, stage[w] # "idle", NEW how, Mark(w, how),
             how = "processed" => Got(notice[w])
      PROVE  /\ status'[m] = "processed" => status[m] = "processed" \/ Got(m)
             /\ status[m] \in {"failed", "absent"} => status'[m] = status[m]
  <2>1. notice[w] \in Notices
    BY <1>2, WorksOnRow
  <2>2. Holds(w) => status[notice[w]] = "processing"
    BY <2>1, NotificationAssumption DEF Holds, Nobody
  <2>3. QED
    BY <1>2, <2>1, <2>2 DEF Mark
<1>3. ASSUME NEW w \in Senders, RejectNotice(w) \/ MarkNotice(w) \/ SendFails(w)
      PROVE  /\ status'[m] = "processed" => status[m] = "processed" \/ Got(m)
             /\ status[m] \in {"failed", "absent"} => status'[m] = status[m]
  <2>1. stage[w] # "idle"
    BY <1>3 DEF RejectNotice, MarkNotice, SendFails
  <2>2. \/ Mark(w, "failed") \/ Mark(w, "pending")
        \/ (Mark(w, "processed") /\ stage[w] = "mark")
        \/ UNCHANGED status
    BY <1>3 DEF RejectNotice, MarkNotice, SendFails
  <2>3. stage[w] = "mark" => Got(notice[w])
    BY DEF AtTheRow
  <2>4. QED
    BY <1>2, <2>1, <2>2, <2>3
<1>4. ASSUME NEW n \in Notices, CommitNotice(n)
      PROVE  /\ status'[m] = "processed" => status[m] = "processed"
             /\ status[m] = "failed" => status'[m] = "failed"
             /\ status[m] = "absent" => status'[m] = "absent" \/ n = m
  BY <1>4 DEF CommitNotice
<1>5. ASSUME \/ \E w \in Senders : \/ RenewNotice(w) \/ Deliver(w) \/ NoticeHeartbeat(w)
                                   \/ SenderStalls(w) \/ SenderCrash(w) \/ SenderDoubts(w)
             \/ \E n \in Notices : NoticeLeaseRunsOut(n) \/ RetryDue(n)
      PROVE  UNCHANGED status
  BY <1>5 DEF RenewNotice, Deliver, NoticeHeartbeat, SenderStalls, SenderCrash, SenderDoubts,
     NoticeLeaseRunsOut, RetryDue, outboxRows
<1>6. QED
  BY <1>1, <1>3, <1>4, <1>5 DEF NoticeNext, SenderStep, SenderFails

LEMMA DeliveredKeeps ==
    ASSUME NoticeInv, NoticeNext
    PROVE  Delivered'
<1> USE DEF NoticeInv
<1>1. \A n \in Notices : Got(n)' => n \in attempted'
  BY GotChanges, AttemptedChanges DEF Delivered
<1>2. \A n \in Notices : status'[n] = "processed" => Got(n)'
  BY GotChanges, StatusChanges DEF Delivered
<1>3. QED
  BY <1>1, <1>2 DEF Delivered, Got

\* What is settled stays so, as long as the rows after it have been tried.
LEMMA SettledStays ==
    ASSUME NoticeInv, NoticeNext, NEW m \in Notices, NEW n \in attempted, m < n, Settled(m)
    PROVE  Settled(m)'
<1> USE DEF NoticeInv
<1>1. CASE Got(m)
  BY <1>1, GotChanges DEF Settled
<1>2. CASE status[m] = "failed"
  BY <1>2, StatusChanges DEF Settled
<1>3. CASE m \in overtaken
  <2>1. overtaken \subseteq overtaken'
    <3>1. ASSUME NEW k \in Notices, CommitNotice(k)
          PROVE  overtaken \subseteq overtaken'
      BY <3>1 DEF CommitNotice
    <3>2. ASSUME \/ \E w \in Senders : SenderStep(w) \/ NoticeHeartbeat(w) \/ SenderFails(w)
                 \/ \E k \in Notices : NoticeLeaseRunsOut(k) \/ RetryDue(k)
          PROVE  UNCHANGED overtaken
      BY <3>2 DEF SenderStep, ClaimNotice, RenewNotice, RejectNotice, Deliver, MarkNotice,
         NoticeHeartbeat, SenderFails, SenderStalls, SendFails, SenderCrash, SenderDoubts,
         NoticeLeaseRunsOut, RetryDue
    <3>3. QED
      BY <3>1, <3>2 DEF NoticeNext
  <2>2. QED
    BY <1>3, <2>1 DEF Settled
<1>4. CASE status[m] = "absent"
  <2>1. CommitNotice(m) => m \in overtaken'
    BY DEF CommitNotice
  <2>2. QED
    BY <1>4, <2>1, StatusChanges DEF Settled
<1>5. QED
  BY <1>1, <1>2, <1>3, <1>4 DEF Settled

LEMMA ClaimedInOrderKeeps ==
    ASSUME NoticeInv, NoticeNext
    PROVE  ClaimedInOrder'
<1> USE DEF NoticeInv
<1>1. ASSUME NEW m \in Notices, NEW n \in attempted, m < n
      PROVE  Settled(m)'
  BY <1>1, SettledStays DEF ClaimedInOrder
<1>2. ASSUME NEW w \in Senders, NEW n \in Notices, ClaimNotice(w, n), NEW m \in Notices, m < n
      PROVE  Settled(m)'
  <2>1. status[m] \in {"processed", "failed", "absent"}
    BY <1>2 DEF ClaimNotice, NoneEarlier, Done
  <2>2. status'[m] = status[m]
    BY <1>2, NotificationAssumption DEF ClaimNotice, RowsTyped
  <2>3. status[m] = "processed" => Got(m)'
    BY GotChanges DEF Delivered
  <2>4. QED
    BY <2>1, <2>2, <2>3 DEF Settled
<1>3. QED
  BY <1>1, <1>2, AttemptedChanges DEF ClaimedInOrder, Settled, Got

-----------------------------------------------------------------------------

LEMMA NoticeInvInit == NoticeInit => NoticeInv
BY EmptySeq, NotificationAssumption
   DEF NoticeInit, NoticeInv, RowsTyped, Held, SendersTyped, HistoriesTyped, AtTheRow, Delivered,
       ClaimedInOrder, Got, Nobody

LEMMA NoticeInvNext == NoticeInv /\ [NoticeNext]_noticeVars => NoticeInv'
<1> SUFFICES ASSUME NoticeInv, [NoticeNext]_noticeVars PROVE NoticeInv'
  OBVIOUS
<1>1. CASE NoticeNext
  <2>1. HistoriesTyped'
    BY <1>1, GotChanges, AttemptedChanges DEF HistoriesTyped
  <2>2. QED
    BY <1>1, <2>1, RowsKeepTypes, SendersKeepTypes, AtTheRowKeeps, DeliveredKeeps,
       ClaimedInOrderKeeps DEF NoticeInv
<1>2. CASE UNCHANGED noticeVars
  BY <1>2 DEF NoticeInv, RowsTyped, Held, SendersTyped, HistoriesTyped, AtTheRow, Delivered,
     ClaimedInOrder, Settled, Got, noticeVars, outboxRows, senders
<1>3. QED
  BY <1>1, <1>2

LEMMA NoticeInvHolds == NoticeSpec => []NoticeInv
BY NoticeInvInit, NoticeInvNext, PTL DEF NoticeSpec

\* The variables keep their types, and a row has a holder exactly while it is
\* being processed.
THEOREM NoticesTyped == NoticeSpec => []NoticeTypes
<1>1. NoticeInv => NoticeTypes
  BY DEF NoticeInv, RowsTyped, SendersTyped, NoticeTypes
<1>2. QED
  BY <1>1, NoticeInvHolds, PTL

\* Whatever workers die, stall or fail: no notification is marked that was not
\* delivered, and none is delivered before an earlier one, unless the earlier
\* one's transaction committed after the later one had been claimed.
THEOREM HeardInOrderHolds == NoticeSpec => []HeardInOrder
<1>1. NoticeInv => HeardInOrder
  BY DEF NoticeInv, Delivered, ClaimedInOrder, Settled, HeardInOrder
<1>2. QED
  BY <1>1, NoticeInvHolds, PTL
=============================================================================
