------------------------- MODULE ContinuationWorker -------------------------
(***************************************************************************)
(* The worker behind timer_continuation_outbox: it gives a completed Timer *)
(* of one account its successor.  Every replica runs one                   *)
(* TimerContinuationWorkerService loop (Workers).  A loop claims rows      *)
(* under a lease, takes the account's lock in Redis, fixes a plan with     *)
(* random identities in the row, applies it to the current Timer by one    *)
(* script, writes the undo entry of an auto-started Timer and marks the    *)
(* row.  A heartbeat renews lease and lock meanwhile.                      *)
(*                                                                         *)
(* One action runs from one await to the next.  A claim token is the name  *)
(* of its worker, since a worker has at most one claim on a row; a plan is *)
(* the name of the worker that built it.                                   *)
(***************************************************************************)
EXTENDS Integers, Sequences, FiniteSets, SequencesExt

CONSTANTS
    Sources,      \* Timers of the account that complete, each with its row
    Workers,      \* worker loops, one per replica
    Malformed,    \* sources whose payload no worker can parse
    AutoStarted,  \* sources that were started automatically
    Legacy,       \* sources whose row may hold a plan of version 1
    MaxSlips,     \* bound on crashes, failed calls and stalls
    MaxEdits      \* bound on the user's own writes of the Timer

ASSUME ContinuationAssumption ==
    /\ IsFiniteSet(Sources)
    /\ Malformed \subseteq Sources /\ AutoStarted \subseteq Sources
    /\ Legacy \subseteq Sources
    /\ MaxSlips \in Nat /\ MaxEdits \in Nat
    /\ Workers \cap {"none", "old"} = {} /\ "user" \notin Sources

VARIABLES
    timer,     \* the current Timer
    undo,      \* the undo history: "user", or the source whose completion it takes back
    owed,      \* sources that completed and whose row is not committed yet
    row,       \* row[s]: the row's status, and its outcome once it is processed
    claim,     \* claim[s]: its claimToken
    overdue,   \* rows whose lease has run out
    plan,      \* plan[s]: the plan stored in it
    userLock,  \* the account's continuation lock
    jobs,      \* jobs[w]: the rest of w's batch
    seen,      \* seen[w][s]: the plan the row held when w claimed it
    place,     \* place[w]: what w does next
    result,    \* result[w]: what the script answered
    lost,      \* workers whose heartbeat has failed (ownershipLost)
    landed,    \* history: the plans ever applied, as <<source, plan>>
    lapse,     \* history: a lease or lock ran out under a live worker
    slips, edits

table == <<row, claim, overdue, plan>>
runtime == <<timer, undo>>
worker == <<jobs, seen, place, result, lost>>
continuationVars == <<runtime, owed, table, userLock, worker, landed, lapse, slips, edits>>

None == "none"
Old == "old"   \* a plan stored by the release before this one

Completed(s) == [kind |-> "completed", source |-> s, plan |-> None]
Successor(s, p) == [kind |-> "next", source |-> s, plan |-> p]
UserTimer == [kind |-> "user", source |-> None, plan |-> None]

Job(w) == Head(jobs[w])
Owns(w) == claim[Job(w)] = w
Processed(s) == row[s] \in {"applied", "superseded", "failed"}

Slip == slips < MaxSlips /\ slips' = slips + 1
Goto(w, p) == place' = [place EXCEPT ![w] = p]

\* The next job of the batch.
NextJob(w) ==
    /\ jobs' = [jobs EXCEPT ![w] = Tail(@)]
    /\ Goto(w, IF Len(jobs[w]) = 1 THEN "idle" ELSE "lock")
    /\ lost' = lost \ {w}

-----------------------------------------------------------------------------
(* Rows and their claims *)

\* The transaction of the completion commits its row; a worker of the release
\* before may have planned it and died.
RowArrives(s) ==
    /\ s \in owed
    /\ owed' = owed \ {s}
    /\ row' = [row EXCEPT ![s] = "pending"]
    /\ \E p \in {None} \cup (IF s \in Legacy THEN {Old} ELSE {}) : plan' = [plan EXCEPT ![s] = p]
    /\ UNCHANGED <<runtime, claim, overdue, userLock, worker, landed, lapse, slips, edits>>

\* Mutant: a row whose worker died stays with it.
PendingOnly == {s \in Sources : row[s] = "pending"}

Claimable == {s \in Sources : row[s] = "pending" \/ s \in overdue}

\* claimPendingTimerContinuations: rows are not ordered within an account.
ClaimRows(w) ==
    /\ place[w] = "idle" /\ Claimable # {}
    /\ \E batch \in SetToSeqs(Claimable) : jobs' = [jobs EXCEPT ![w] = batch]
    /\ row' = [s \in Sources |-> IF s \in Claimable THEN "processing" ELSE row[s]]
    /\ claim' = [s \in Sources |-> IF s \in Claimable THEN w ELSE claim[s]]
    /\ overdue' = {}
    /\ seen' = [seen EXCEPT ![w] = plan]
    /\ Goto(w, "lock")
    /\ UNCHANGED <<runtime, owed, plan, userLock, result, lost, landed, lapse, slips, edits>>

\* Mutant: the claim is not cleared.
KeepsClaim(w) ==
    IF Owns(w) THEN row' = [row EXCEPT ![Job(w)] = "pending"] /\ UNCHANGED <<claim, overdue>>
    ELSE UNCHANGED <<row, claim, overdue>>

\* Mutant: a job that fails is acknowledged.
MarksApplied(w) ==
    IF Owns(w)
    THEN /\ row' = [row EXCEPT ![Job(w)] = "applied"]
         /\ claim' = [claim EXCEPT ![Job(w)] = None]
         /\ overdue' = overdue \ {Job(w)}
    ELSE UNCHANGED <<row, claim, overdue>>

\* releaseClaimedTimerContinuation: only the holder of the claim changes the row.
Release(w) ==
    IF Owns(w)
    THEN /\ row' = [row EXCEPT ![Job(w)] = "pending"]
         /\ claim' = [claim EXCEPT ![Job(w)] = None]
         /\ overdue' = overdue \ {Job(w)}
    ELSE UNCHANGED <<row, claim, overdue>>

\* markClaimedTimerContinuationProcessed
MarkProcessed(w, how) ==
    IF Owns(w)
    THEN /\ row' = [row EXCEPT ![Job(w)] = how]
         /\ claim' = [claim EXCEPT ![Job(w)] = None]
         /\ overdue' = overdue \ {Job(w)}
    ELSE UNCHANGED <<row, claim, overdue>>

\* The heartbeat runs while a job is in progress.
Beating(w) == place[w] \notin {"idle", "lock"}

\* renewTimerContinuationLease: a lease that ran out is renewed as long as
\* nobody else has claimed the row.
Renewed(w) == overdue \ {s \in Sources : Owns(w) /\ s = Job(w)}

\* Every ten seconds; what cannot be renewed is noticed.
Heartbeat(w) ==
    /\ Beating(w) /\ w \notin lost
    /\ overdue' = Renewed(w)
    /\ IF Owns(w) /\ userLock = w THEN overdue' # overdue /\ UNCHANGED lost
       ELSE lost' = lost \cup {w}
    /\ UNCHANGED <<runtime, owed, row, claim, plan, userLock, jobs, seen, place, result, landed,
                   lapse, slips, edits>>

\* claimedUntil passes, and the holder is gone.
LeaseRunsOut(s) ==
    /\ claim[s] # None /\ s \notin overdue \cup ToSet(jobs[claim[s]])
    /\ overdue' = overdue \cup {s}
    /\ UNCHANGED <<runtime, owed, row, claim, plan, userLock, worker, landed, lapse, slips, edits>>

\* The lock's PX passes, and the holder is gone.
LockRunsOut ==
    /\ userLock # None /\ ~Beating(userLock)
    /\ userLock' = None
    /\ UNCHANGED <<runtime, owed, table, worker, landed, lapse, slips, edits>>

\* A live worker is slow, with this job or with those before it in its batch:
\* a lease runs out, or its lock, or both.
Stall(w) ==
    /\ place[w] # "idle" /\ Slip
    /\ \E s \in {t \in ToSet(jobs[w]) : claim[t] = w}, keeps \in BOOLEAN :
          /\ overdue' = overdue \cup {s}
          /\ userLock' = IF userLock = w /\ ~keeps THEN None ELSE userLock
          /\ lapse' = (lapse \/ s = Job(w) \/ userLock' # userLock)
    /\ UNCHANGED <<runtime, owed, row, claim, plan, worker, landed, edits>>

-----------------------------------------------------------------------------
(* processJob *)

TakeLock(w) ==
    /\ place[w] = "lock" /\ userLock = None
    /\ userLock' = w
    /\ Goto(w, "plan")
    /\ UNCHANGED <<runtime, owed, table, jobs, seen, result, lost, landed, lapse, slips, edits>>

LockBusy(w) ==
    /\ place[w] = "lock" /\ userLock # None
    /\ Release(w)
    /\ NextJob(w)
    /\ UNCHANGED <<runtime, owed, plan, userLock, seen, result, landed, lapse, slips, edits>>

\* parsePayload fails: the row is a dead letter.
RejectPayload(w) ==
    /\ place[w] = "plan" /\ Job(w) \in Malformed
    /\ MarkProcessed(w, "failed")
    /\ Goto(w, "unlock")
    /\ UNCHANGED <<runtime, owed, plan, userLock, jobs, seen, result, lost, landed, lapse, slips,
                   edits>>

\* Mutant: the row takes the plan of whoever comes last.
StoresAlways(w) == TRUE

\* storeClaimedTimerContinuationPlan, upgradeClaimedTimerContinuationPlan: of
\* the holder, and only in place of what it has read.
Stores(w) == Owns(w) /\ plan[Job(w)] = seen[w][Job(w)]

\* resolvePlan: the stored plan, or one that is new or upgraded and must be
\* stored first.
ResolvePlan(w) ==
    /\ place[w] = "plan" /\ Job(w) \notin Malformed
    /\ IF seen[w][Job(w)] \notin {None, Old}
       THEN /\ Goto(w, "fence")
            /\ UNCHANGED <<row, claim, overdue, plan, seen>>
       ELSE IF Stores(w)
       THEN /\ Goto(w, "fence")
            /\ plan' = [plan EXCEPT ![Job(w)] = w]
            /\ seen' = [seen EXCEPT ![w] = [seen[w] EXCEPT ![Job(w)] = w]]
            /\ UNCHANGED <<row, claim, overdue>>
       ELSE /\ Goto(w, "unlock")
            /\ Release(w)
            /\ UNCHANGED <<plan, seen>>
    /\ UNCHANGED <<runtime, owed, userLock, jobs, result, lost, landed, lapse, slips, edits>>

\* The job ends here without a word: its claim runs out.
LeaveJob(w) ==
    /\ Goto(w, "unlock")
    /\ UNCHANGED <<result, jobs, seen, lost>>

\* Both renewals before the plan is applied.
Fence(w) ==
    /\ place[w] = "fence"
    /\ IF w \in lost \/ ~Owns(w) THEN LeaveJob(w) /\ UNCHANGED overdue
       ELSE /\ overdue' = Renewed(w)
            /\ Goto(w, IF userLock = w THEN "apply" ELSE "unlock")
            /\ UNCHANGED <<result, jobs, seen, lost>>
    /\ UNCHANGED <<runtime, owed, row, claim, plan, userLock, landed, lapse, slips, edits>>

\* The script's second comparison: the Timer is the one that completed.
Follows(s) == timer = Completed(s)

\* APPLY_TIMER_CONTINUATION_PLAN_SCRIPT; it clears the histories.
ApplyPlan(w) ==
    /\ place[w] = "apply"
    /\ LET s == Job(w)
           next == Successor(s, seen[w][s])
       IN  IF userLock # w THEN LeaveJob(w) /\ UNCHANGED <<runtime, landed>>
           ELSE /\ Goto(w, "after")
                /\ IF timer = next
                   THEN result' = [result EXCEPT ![w] = "applied"] /\ UNCHANGED <<runtime, landed>>
                   ELSE IF Follows(s)
                   THEN /\ result' = [result EXCEPT ![w] = "applied"]
                        /\ timer' = next /\ undo' = <<>>
                        /\ landed' = landed \cup {<<s, seen[w][s]>>}
                   ELSE /\ result' = [result EXCEPT ![w] = "superseded"]
                        /\ UNCHANGED <<runtime, landed>>
                /\ UNCHANGED <<jobs, seen, lost>>
    /\ UNCHANGED <<owed, table, userLock, lapse, slips, edits>>

\* renewOwnership, which attempts both renewals.
StillOwner(w) == w \notin lost /\ Owns(w) /\ userLock = w

\* After the script: the successor is activated if it is still current, and an
\* auto-started source gets its undo entry.
Activate(w) ==
    /\ place[w] = "after"
    /\ overdue' = IF w \in lost THEN overdue ELSE Renewed(w)
    /\ Goto(w, IF ~StillOwner(w) THEN "unlock"
               ELSE IF /\ result[w] = "applied"
                       /\ timer = Successor(Job(w), seen[w][Job(w)])
                       /\ Job(w) \in AutoStarted
               THEN "peek" ELSE "mark")
    /\ UNCHANGED <<runtime, owed, row, claim, plan, userLock, jobs, seen, result, lost, landed,
                   lapse, slips, edits>>

\* Mutant: an entry is written on every attempt.
NeverRecorded(s) == FALSE

\* peekUndoHistoryCandidate: the newest entry is that of this completion.
AlreadyRecorded(s) == undo # <<>> /\ Last(undo) = s

\* recordAutoStartCompletionHistory, its check ...
PeekUndo(w) ==
    /\ place[w] = "peek"
    /\ Goto(w, IF AlreadyRecorded(Job(w)) THEN "mark" ELSE "push")
    /\ UNCHANGED <<runtime, owed, table, userLock, jobs, seen, result, lost, landed, lapse, slips,
                   edits>>

\* ... and, several reads later, its write.
PushUndo(w) ==
    /\ place[w] = "push"
    /\ undo' = Append(undo, Job(w))
    /\ Goto(w, "mark")
    /\ UNCHANGED <<timer, owed, table, userLock, jobs, seen, result, lost, landed, lapse, slips,
                   edits>>

Conclude(w) ==
    /\ place[w] = "mark"
    /\ IF StillOwner(w) THEN MarkProcessed(w, result[w])
       ELSE /\ overdue' = IF w \in lost THEN overdue ELSE Renewed(w)
            /\ UNCHANGED <<row, claim>>
    /\ Goto(w, "unlock")
    /\ UNCHANGED <<runtime, owed, plan, userLock, jobs, seen, result, lost, landed, lapse, slips,
                   edits>>

\* finally: releaseTimerContinuationUserLock deletes its own lock only.
Unlock(w) ==
    /\ place[w] = "unlock"
    /\ userLock' = IF userLock = w THEN None ELSE userLock
    /\ NextJob(w)
    /\ result' = [result EXCEPT ![w] = None]
    /\ UNCHANGED <<runtime, owed, table, seen, landed, lapse, slips, edits>>

-----------------------------------------------------------------------------
(* Failures *)

\* An await inside the job throws: the row is released for a later attempt.
JobFails(w) ==
    /\ Beating(w) /\ place[w] # "unlock" /\ Slip
    /\ Release(w)
    /\ Goto(w, "unlock")
    /\ UNCHANGED <<runtime, owed, plan, userLock, jobs, seen, result, lost, landed, lapse, edits>>

\* Taking or deleting the lock, or releasing the row, throws as well.
CleanupFails(w) ==
    /\ place[w] \in {"lock", "unlock"} /\ Slip
    /\ NextJob(w)
    /\ result' = [result EXCEPT ![w] = None]
    /\ UNCHANGED <<runtime, owed, table, userLock, seen, landed, lapse, edits>>

\* A renewal by the heartbeat throws.
HeartbeatFails(w) ==
    /\ Beating(w) /\ w \notin lost /\ Slip
    /\ lost' = lost \cup {w}
    /\ UNCHANGED <<runtime, owed, table, userLock, jobs, seen, place, result, landed, lapse, edits>>

\* The replica dies and another one takes its place.
WorkerCrash(w) ==
    /\ place[w] # "idle" /\ Slip
    /\ jobs' = [jobs EXCEPT ![w] = <<>>]
    /\ Goto(w, "idle")
    /\ result' = [result EXCEPT ![w] = None]
    /\ lost' = lost \ {w}
    /\ UNCHANGED <<runtime, owed, table, userLock, seen, landed, lapse, edits>>

-----------------------------------------------------------------------------
(* The account *)

\* The current Timer completes.
Complete(s) ==
    /\ timer.kind # "completed" /\ row[s] = None /\ s \notin owed
    /\ timer' = Completed(s)
    /\ owed' = owed \cup {s}
    /\ UNCHANGED <<undo, table, userLock, worker, landed, lapse, slips, edits>>

\* The user replaces the Timer; the action is recorded in the same step here.
Edit ==
    /\ edits < MaxEdits
    /\ edits' = edits + 1
    /\ timer' = UserTimer
    /\ undo' = Append(undo, "user")
    /\ UNCHANGED <<owed, table, userLock, worker, landed, lapse, slips>>

-----------------------------------------------------------------------------

ContinuationInit ==
    /\ timer = UserTimer /\ undo = <<>> /\ owed = {}
    /\ row = [s \in Sources |-> None] /\ claim = [s \in Sources |-> None]
    /\ plan = [s \in Sources |-> None] /\ overdue = {}
    /\ userLock = None
    /\ jobs = [w \in Workers |-> <<>>]
    /\ seen = [w \in Workers |-> [s \in Sources |-> None]]
    /\ place = [w \in Workers |-> "idle"]
    /\ result = [w \in Workers |-> None]
    /\ lost = {} /\ landed = {} /\ lapse = FALSE /\ slips = 0 /\ edits = 0

JobStep(w) ==
    \/ TakeLock(w) \/ LockBusy(w) \/ RejectPayload(w) \/ ResolvePlan(w) \/ Fence(w) \/ ApplyPlan(w)
    \/ Activate(w) \/ PeekUndo(w) \/ PushUndo(w) \/ Conclude(w) \/ Unlock(w)

WorkerFails(w) == Stall(w) \/ JobFails(w) \/ CleanupFails(w) \/ HeartbeatFails(w) \/ WorkerCrash(w)

ContinuationNext ==
    \/ \E w \in Workers : ClaimRows(w) \/ JobStep(w) \/ Heartbeat(w) \/ WorkerFails(w)
    \/ \E s \in Sources : RowArrives(s) \/ LeaseRunsOut(s) \/ Complete(s)
    \/ LockRunsOut \/ Edit

ContinuationSpec == ContinuationInit /\ [][ContinuationNext]_continuationVars

\* The loops keep polling, what they await ends, transactions commit, and time
\* passes for leases and locks without a live owner.
ContinuationFairness ==
    /\ \A w \in Workers : WF_continuationVars(ClaimRows(w) \/ JobStep(w))
    /\ \A s \in Sources : WF_continuationVars(RowArrives(s))
    /\ \A s \in Sources : WF_continuationVars(LeaseRunsOut(s))
    /\ WF_continuationVars(LockRunsOut)

FairContinuationSpec == ContinuationSpec /\ ContinuationFairness

-----------------------------------------------------------------------------
(* Properties *)

JobPlaces == {"idle", "lock", "plan", "fence", "apply", "after", "peek", "push", "mark", "unlock"}
RowStates == {None, "pending", "processing", "applied", "superseded", "failed"}

\* The types; a row is claimed exactly while it is being processed, and a worker
\* without jobs is idle.
ContinuationTypes ==
    /\ owed \subseteq Sources /\ overdue \subseteq Sources /\ lost \subseteq Workers
    /\ row \in [Sources -> RowStates]
    /\ claim \in [Sources -> Workers \cup {None}]
    /\ plan \in [Sources -> Workers \cup {None, Old}]
    /\ userLock \in Workers \cup {None}
    /\ jobs \in [Workers -> Seq(Sources)]
    /\ place \in [Workers -> JobPlaces]
    /\ \A s \in Sources : claim[s] # None <=> row[s] = "processing"
    /\ \A w \in Workers : jobs[w] = <<>> <=> place[w] = "idle"

\* Nobody is left on a completed Timer: when a row is processed the account has
\* moved on from its source, whichever replicas crashed or lost their leases.
NotLeftBehind ==
    \A s \in Sources : row[s] \in {"applied", "superseded"} => timer # Completed(s)

\* A completed Timer gets one successor, the one whose identity its row holds,
\* however many workers planned one.
OneSuccessor ==
    \A l \in landed : plan[l[1]] = l[2]

\* Unless a lease runs out under a live worker, retries leave one undo entry per
\* completion.  (If the user writes the Timer between the check of the newest
\* entry and the write, there are two, with the user's own in between.)
OneUndoEntry ==
    ~lapse => \A i \in 2..Len(undo) : undo[i] # "user" => undo[i] # undo[i - 1]

\* Every completion that was committed is processed in the end.
ContinuationsSettle ==
    \A s \in Sources : s \in owed ~> Processed(s)
=============================================================================
