---------------------------- MODULE TimerRuntime ----------------------------
(***************************************************************************)
(* The Redis side of one account's Timer: the current Timer, its member in *)
(* the global completion index, the completion stream, and the processes   *)
(* that race on them.                                                      *)
(*                                                                         *)
(*   - request handlers (Clients) read the Timer, compute the next one and *)
(*     write it back with TimerStore.replaceCurrentTimer, a compare-and-   *)
(*     set on (Timer ID, scheduleRevision);                                *)
(*   - every backend replica (Replicas) runs a process-local countdown     *)
(*     that claims the completion by (ID, startTime);                      *)
(*   - one replica at a time, under a Redis lease, rebuilds the index and  *)
(*     claims due members of it.                                           *)
(*                                                                         *)
(* Each Lua script of timer-store.ts is one action: Redis runs a script    *)
(* atomically.  What happens between two scripts of the same handler is    *)
(* up to the interleaving.  One request of an account is run by its action *)
(* queue; the assistant's finalize endpoint, task completion and a second  *)
(* queue worker after the 60 s queue lock lapsed run beside it.            *)
(* Random UUIDs (Timer IDs, schedule and runtime revisions) are drawn from *)
(* the counter fresh: only whether two of them are equal ever matters.     *)
(* Time is Redis time in ticks; a replica whose own clock runs ahead is    *)
(* covered because LocalRead never looks at the clock.                     *)
(***************************************************************************)
EXTENDS Integers, Sequences

CONSTANTS
    Clients,      \* request handlers that can be in flight at once
    Replicas,     \* backend replicas
    Durations,    \* durations a new Timer may get from the preferences
    Increment,    \* what addFiveMinutesTimer adds
    NotifyBefore, \* preferences.notifyBeforeTime
    Ops,          \* the user operations enabled, a subset of AllOps
    MaxTime,      \* bound on the clock
    MaxFresh,     \* bound on the UUIDs user operations may draw
    MaxFaults     \* bound on replica crashes and leases lost while in use

AllOps == {"start", "reset", "pause", "resume", "extend", "touch", "undo"}

ASSUME RuntimeAssumption ==
    /\ Durations \subseteq Nat \ {0}
    /\ Increment \in Nat \ {0}
    /\ NotifyBefore \in Nat
    /\ Ops \subseteq AllOps
    /\ MaxTime \in Nat /\ MaxFresh \in Nat /\ MaxFaults \in Nat
    /\ "nobody" \notin Replicas

VARIABLES
    now,        \* Redis TIME
    fresh,      \* the next unused UUID
    timer,      \* user:<id>:current_timer
    schedule,   \* the score of completion:<id> in the index: {} or {deadline}
    runtimeRev, \* user:<id>:timer_runtime_revision
    history,    \* user:<id>:timer_undo_history, the Timer each entry restores
    mode,       \* pomi:timer-completion:mode
    stream,     \* completion events ever appended to the stream
    locals,     \* completions claimed by a process-local countdown in legacy mode
    lease,      \* holder of the scheduler lock key
    ready,      \* the index-is-rebuilt marker
    holds,      \* replica has a leaderToken in memory
    scan,       \* replica's reconciliation pass: "idle", "clean" or "corrupt"
    due,        \* replica's index member read and not yet claimed
    check,      \* replica's countdown: what it read and is about to claim
    req,        \* client's request in flight
    faults,     \* faults injected so far
    owed        \* history variable: the duration all acknowledged writes add up to

store == <<timer, schedule, runtimeRev, history, mode, stream, locals>>
scheduler == <<lease, ready, holds, scan, due>>
vars == <<now, fresh, store, scheduler, check, req, faults, owed>>

-----------------------------------------------------------------------------
(* Timers *)

Status == {"none", "running", "paused", "completed"}

Timer == [id: Nat, rev: Nat, status: Status, start: Int, dur: Nat, rem: Nat,
          warned: BOOLEAN, valid: BOOLEAN]

\* No current Timer: replaceCurrentTimer's `expected` is null exactly then.
NoTimer == [id |-> 0, rev |-> 0, status |-> "none", start |-> 0, dur |-> 0,
            rem |-> 0, warned |-> FALSE, valid |-> TRUE]

AtLeastZero(n) == IF n < 0 THEN 0 ELSE n

Running(t) == t.status = "running"

Deadline(t) == t.start + t.dur

\* Mutant: the remaining time without its Math.max(0, ...).
RemainingUnclamped(t, at) ==
    IF Running(t) THEN t.dur - (at - t.start) ELSE t.rem

\* refreshRunningTimerRemainingTime: only a running Timer's remainingTime moves.
Remaining(t, at) ==
    IF Running(t) THEN AtLeastZero(t.dur - (at - t.start)) ELSE t.rem

SameVersion(t, u) == t.id = u.id /\ t.rev = u.rev

\* Mutant: the zadd is forgotten.
IndexOfWithoutZadd(t) == {}

\* zrem, then zadd with startTime + duration when the Timer runs.
IndexOf(t) == IF Running(t) THEN {Deadline(t)} ELSE {}

NewTimer(id, at, d, paused) ==
    [id |-> id, rev |-> id, status |-> IF paused THEN "paused" ELSE "running",
     start |-> IF paused THEN 0 ELSE at, dur |-> d, rem |-> d,
     warned |-> FALSE, valid |-> TRUE]

Resumed(t, at) ==
    [t EXCEPT !.status = "running", !.start = at - (t.dur - t.rem)]

-----------------------------------------------------------------------------
(* User operations: what a handler computes from what it read *)

Request == [phase: {"idle", "prepared", "committed"}, op: AllOps, seen: Timer,
            at: Nat, dur: Nat, runtime: Nat, entry: Timer]

NoRequest == [phase |-> "idle", op |-> "start", seen |-> NoTimer, at |-> 0,
              dur |-> 0, runtime |-> 0, entry |-> NoTimer]

\* The early returns and required state of each TimerService operation.
Applicable(op) ==
    CASE op = "start"  -> TRUE
      [] op = "pause"  -> timer.status = "running"
      [] op = "resume" -> timer.status = "paused"
      [] op = "undo"   -> history # << >>
      [] OTHER         -> timer.status # "none"

Extended(t, at) ==
    LET left == Remaining(t, at) + Increment
    IN  [t EXCEPT !.dur = t.dur + Increment, !.rem = left,
                  !.warned = t.warned /\ left <= NotifyBefore]

\* The Timer the handler of request q writes; u is the UUID it may need.
Computed(q, u) ==
    CASE q.op = "start"  -> NewTimer(u, q.at, q.dur, FALSE)
      [] q.op = "reset"  -> NewTimer(u, q.at, q.dur, q.seen.status = "paused")
      [] q.op = "pause"  -> [q.seen EXCEPT !.status = "paused",
                                           !.rem = Remaining(q.seen, q.at)]
      [] q.op = "resume" -> Resumed(q.seen, q.at)
      [] q.op = "extend" -> Extended(q.seen, q.at)
      [] q.op = "touch"  -> [q.seen EXCEPT !.rem = Remaining(q.seen, q.at)]
      [] q.op = "undo"   -> IF Running(q.entry) THEN Resumed(q.entry, q.at)
                            ELSE q.entry

\* The handler reads the current Timer (undo also reads the runtime revision
\* and the top of the history, and retries until nothing moved in between).
Prepare(c, op, d) ==
    /\ req[c].phase = "idle"
    /\ fresh <= MaxFresh
    /\ Applicable(op)
    /\ req' = [req EXCEPT ![c] =
                [phase |-> "prepared", op |-> op, seen |-> timer, at |-> now,
                 dur |-> d, runtime |-> IF op = "undo" THEN runtimeRev ELSE 0,
                 entry |-> IF op = "undo" THEN history[Len(history)] ELSE NoTimer]]
    /\ UNCHANGED <<now, fresh, store, scheduler, check, faults, owed>>

\* Mutant: a compare-and-set on the Timer ID alone.
WriteAllowedById(q) ==
    /\ timer.id = q.seen.id
    /\ q.op = "undo" => history # << >>

\* The fences of replaceCurrentTimer's script.
WriteAllowed(q) ==
    /\ SameVersion(timer, q.seen)
    /\ q.op = "undo" =>
         /\ runtimeRev = q.runtime
         /\ history # << >> /\ history[Len(history)] = q.entry

\* What the acknowledged writes add up to with the one of q.
OwedAfter(q) ==
    IF q.op = "extend" THEN owed + Increment
    ELSE IF q.op \in {"start", "reset"} THEN q.dur
    ELSE IF q.op = "undo" THEN q.entry.dur
    ELSE owed

\* The whole script: Timer, index, history transition and runtime revision.
CommitWrite(c) ==
    /\ req[c].phase = "prepared"
    /\ WriteAllowed(req[c])
    /\ LET next == [Computed(req[c], fresh) EXCEPT !.rev = fresh]
       IN  /\ timer' = next
           /\ schedule' = IndexOf(next)
    /\ owed' = OwedAfter(req[c])
    /\ runtimeRev' = fresh
    /\ fresh' = fresh + 1
    /\ history' = IF req[c].op = "undo" THEN SubSeq(history, 1, Len(history) - 1)
                  ELSE history
    /\ req' = [req EXCEPT ![c] =
                 IF @.op \in {"extend", "reset", "undo"}
                 THEN [@ EXCEPT !.phase = "committed"] ELSE NoRequest]
    /\ UNCHANGED <<now, mode, stream, locals, scheduler, check, faults>>

\* A conflict: ConflictException, nothing is written.
CommitConflict(c) ==
    /\ req[c].phase = "prepared"
    /\ ~WriteAllowed(req[c])
    /\ req' = [req EXCEPT ![c] = NoRequest]
    /\ UNCHANGED <<now, fresh, store, scheduler, check, faults, owed>>

\* What the handler writes after the Timer: pushTimerHistory, or the companion
\* state an undo restores.  Either way the runtime revision moves again.
FollowUp(c) ==
    /\ req[c].phase = "committed"
    /\ history' = IF req[c].op = "undo" THEN history
                  ELSE Append(history,
                         [req[c].seen EXCEPT !.rem = Remaining(req[c].seen, req[c].at)])
    /\ runtimeRev' = fresh
    /\ fresh' = fresh + 1
    /\ req' = [req EXCEPT ![c] = NoRequest]
    /\ UNCHANGED <<now, timer, schedule, mode, stream, locals, scheduler, check,
                   faults, owed>>

\* The replica serving the request dies, or an await throws.
Abandon(c) ==
    /\ req[c].phase # "idle"
    /\ faults < MaxFaults
    /\ faults' = faults + 1
    /\ req' = [req EXCEPT ![c] = NoRequest]
    /\ UNCHANGED <<now, fresh, store, scheduler, check, owed>>

-----------------------------------------------------------------------------
(* Completion *)

Event == [id: Nat, rev: Nat, completedAt: Int, claimedAt: Int]

\* Mutant: the claim keeps the revision its racing writers have read.
CompletedUnrevised(t, u) == [t EXCEPT !.status = "completed", !.rem = 0]

Completed(t, u) == [t EXCEPT !.status = "completed", !.rem = 0, !.rev = u]

EventOf(t, u) ==
    [id |-> t.id, rev |-> u, completedAt |-> Deadline(t), claimedAt |-> now]

\* The writes both claim scripts share, once their guards have passed.
Complete ==
    /\ timer' = Completed(timer, fresh)
    /\ schedule' = {}
    /\ runtimeRev' = fresh
    /\ fresh' = fresh + 1

\* What handleTimerCompletion carries from its read to its claim, and from its
\* claim to clearTimerHistory.
Check == [phase: {"idle", "read", "claimed"}, id: Nat, start: Int]

NoCheck == [phase |-> "idle", id |-> 0, start |-> 0]

\* Mutant: the warning's threshold is used for the completion.
DueSoon == now >= Deadline(timer) - NotifyBefore

Due == now >= Deadline(timer)

\* A countdown check, a read of the Timer or the startup restoration finds a
\* running Timer it takes to be due.
LocalRead(r) ==
    /\ check[r].phase = "idle"
    /\ Running(timer)
    /\ check' = [check EXCEPT ![r] =
                   [phase |-> "read", id |-> timer.id, start |-> timer.start]]
    /\ UNCHANGED <<now, fresh, store, scheduler, req, faults, owed>>

\* Mutant: the status is not compared again.
LocalMatchAnyStatus(r) == timer.id = check[r].id /\ timer.start = check[r].start

LocalMatch(r) ==
    /\ timer.id = check[r].id
    /\ Running(timer)
    /\ timer.start = check[r].start

\* claimRunningTimerCompletionByMode: the script returns nil.
LocalMiss(r) ==
    /\ check[r].phase = "read"
    /\ ~LocalMatch(r) \/ (timer.valid /\ ~Due)
    /\ check' = [check EXCEPT ![r] = NoCheck]
    /\ UNCHANGED <<now, fresh, store, scheduler, req, faults, owed>>

\* ... quarantines a Timer that fails the stream contract ...
LocalQuarantine(r) ==
    /\ check[r].phase = "read"
    /\ LocalMatch(r) /\ ~timer.valid
    /\ schedule' = {}
    /\ check' = [check EXCEPT ![r] = NoCheck]
    /\ UNCHANGED <<now, fresh, timer, runtimeRev, history, mode, stream, locals,
                   scheduler, req, faults, owed>>

\* ... or completes the Timer, with an event when the mode is stream.
LocalClaim(r) ==
    /\ check[r].phase = "read"
    /\ LocalMatch(r) /\ timer.valid /\ Due
    /\ Complete
    /\ IF mode = "stream"
       THEN /\ stream' = stream \cup {EventOf(timer, fresh)}
            /\ check' = [check EXCEPT ![r] = NoCheck]
            /\ UNCHANGED locals
       ELSE /\ locals' = locals \cup {EventOf(timer, fresh)}
            /\ check' = [check EXCEPT ![r].phase = "claimed"]
            /\ UNCHANGED stream
    /\ UNCHANGED <<now, history, mode, scheduler, req, faults, owed>>

\* handleTimerCompletion goes on with clearTimerHistory after a legacy claim.
LocalClearHistory(r) ==
    /\ check[r].phase = "claimed"
    /\ history' = << >>
    /\ runtimeRev' = fresh
    /\ fresh' = fresh + 1
    /\ check' = [check EXCEPT ![r] = NoCheck]
    /\ UNCHANGED <<now, timer, schedule, mode, stream, locals, scheduler, req,
                   faults, owed>>

\* Mutant: the claim of the warning leaves the revision alone.
WarnedUnrevised(t, u) ==
    [t EXCEPT !.rem = AtLeastZero(Deadline(t) - now), !.warned = TRUE]

Warned(t, u) ==
    [t EXCEPT !.rem = AtLeastZero(Deadline(t) - now), !.warned = TRUE, !.rev = u]

\* claimRunningTimerWarning: fenced by (ID, startTime) and the flag itself, so
\* it must revise the Timer for the writers that are fenced by the revision.
Warn ==
    /\ Running(timer) /\ ~timer.warned
    /\ Deadline(timer) - now <= NotifyBefore
    /\ timer' = Warned(timer, fresh)
    /\ schedule' = {Deadline(timer)}
    /\ runtimeRev' = fresh
    /\ fresh' = fresh + 1
    /\ UNCHANGED <<now, history, mode, stream, locals, scheduler, check, req,
                   faults, owed>>

-----------------------------------------------------------------------------
(* The distributed scheduler *)

ClaimLease(r) ==
    /\ ~holds[r] /\ lease = "nobody"
    /\ lease' = r
    /\ holds' = [holds EXCEPT ![r] = TRUE]
    /\ UNCHANGED <<now, fresh, store, ready, scan, due, check, req, faults, owed>>

\* Renewal, or any fenced script, answered that the lease is gone.
NoticeLoss(r) ==
    /\ holds[r] /\ lease # r
    /\ holds' = [holds EXCEPT ![r] = FALSE]
    /\ scan' = [scan EXCEPT ![r] = "idle"]
    /\ due' = [due EXCEPT ![r] = {}]
    /\ UNCHANGED <<now, fresh, store, lease, ready, check, req, faults, owed>>

\* The key of a holder that stopped renewing reaches its PX expiry.
LeaseLapse ==
    /\ lease # "nobody" /\ ~holds[lease]
    /\ lease' = "nobody"
    /\ UNCHANGED <<now, fresh, store, ready, holds, scan, due, check, req, faults,
                   owed>>

\* It expires under a holder that still believes in it (a pause longer than
\* the lease).
LeaseLost ==
    /\ lease # "nobody" /\ holds[lease]
    /\ faults < MaxFaults
    /\ faults' = faults + 1
    /\ lease' = "nobody"
    /\ UNCHANGED <<now, fresh, store, ready, holds, scan, due, check, req, owed>>

\* Mutant: zadd NX, which keeps the score of a member that is there.
ReconciledIfAbsent == IF schedule # {} THEN schedule ELSE IndexOf(timer)

\* The member reconciliation leaves.  The scan runs over current_timer keys, so
\* the stale member of an account without a Timer is not visited.
Reconciled ==
    IF timer.status = "none" THEN schedule
    ELSE IF timer.valid THEN IndexOf(timer) ELSE {}

\* reconcileTimerCompletionSchedule on this account during a scan.
Reconcile(r) ==
    /\ holds[r] /\ ~ready /\ lease = r /\ scan[r] = "idle"
    /\ schedule' = Reconciled
    /\ scan' = [scan EXCEPT ![r] =
                  IF Running(timer) /\ ~timer.valid THEN "corrupt" ELSE "clean"]
    /\ UNCHANGED <<now, fresh, timer, runtimeRev, history, mode, stream, locals,
                   lease, ready, holds, due, check, req, faults, owed>>

\* The end of the pass: markTimerCompletionScheduleReady, unless a corrupt
\* Timer was found; the next iteration then scans again.
FinishScan(r) ==
    /\ holds[r] /\ lease = r /\ scan[r] # "idle"
    /\ ready' = (ready \/ scan[r] = "clean")
    /\ scan' = [scan EXCEPT ![r] = "idle"]
    /\ UNCHANGED <<now, fresh, store, lease, holds, due, check, req, faults, owed>>

\* getDueTimerCompletions.
ReadDue(r) ==
    /\ holds[r] /\ ready /\ scan[r] = "idle" /\ due[r] = {}
    /\ mode = "stream"
    /\ \E d \in schedule : d <= now
    /\ due' = [due EXCEPT ![r] = schedule]
    /\ UNCHANGED <<now, fresh, store, lease, ready, holds, scan, check, req,
                   faults, owed>>

\* claimScheduledTimerCompletion, up to its score check.
ScheduledMatch(r) ==
    /\ due[r] # {}
    /\ lease = r /\ mode = "stream" /\ schedule = due[r]

Overdue == Running(timer) /\ timer.valid /\ Due

\* 'legacy' and 'early' leave everything alone, 'stale' too when the score moved.
ScheduledMiss(r) ==
    /\ due[r] # {} /\ lease = r
    /\ \/ mode # "stream" \/ schedule # due[r]
       \/ Running(timer) /\ timer.valid /\ IndexOf(timer) = schedule /\ ~Overdue
    /\ due' = [due EXCEPT ![r] = {}]
    /\ UNCHANGED <<now, fresh, store, lease, ready, holds, scan, check, req,
                   faults, owed>>

\* 'stale' for a Timer that no longer runs, 'corrupt', and 'repaired'.
ScheduledRepair(r) ==
    /\ ScheduledMatch(r)
    /\ ~Running(timer) \/ ~timer.valid \/ IndexOf(timer) # schedule
    /\ schedule' = IF timer.valid THEN IndexOf(timer) ELSE {}
    /\ due' = [due EXCEPT ![r] = {}]
    /\ UNCHANGED <<now, fresh, timer, runtimeRev, history, mode, stream, locals,
                   lease, ready, holds, scan, check, req, faults, owed>>

ScheduledClaim(r) ==
    /\ ScheduledMatch(r)
    /\ Overdue /\ IndexOf(timer) = schedule
    /\ Complete
    /\ stream' = stream \cup {EventOf(timer, fresh)}
    /\ due' = [due EXCEPT ![r] = {}]
    /\ UNCHANGED <<now, history, mode, locals, lease, ready, holds, scan, check,
                   req, faults, owed>>

\* A replica dies: its memory goes, its lease stays until it lapses.
Crash(r) ==
    /\ faults < MaxFaults
    /\ faults' = faults + 1
    /\ holds' = [holds EXCEPT ![r] = FALSE]
    /\ scan' = [scan EXCEPT ![r] = "idle"]
    /\ due' = [due EXCEPT ![r] = {}]
    /\ check' = [check EXCEPT ![r] = NoCheck]
    /\ UNCHANGED <<now, fresh, store, lease, ready, req, owed>>

-----------------------------------------------------------------------------
(* Environment *)

Tick ==
    /\ now < MaxTime
    /\ now' = now + 1
    /\ UNCHANGED <<fresh, store, scheduler, check, req, faults, owed>>

\* The operator flips the producer gate, in either direction.
SetMode ==
    /\ mode' = IF mode = "stream" THEN "legacy" ELSE "stream"
    /\ UNCHANGED <<now, fresh, timer, schedule, runtimeRev, history, stream,
                   locals, scheduler, check, req, faults, owed>>

-----------------------------------------------------------------------------

\* A Timer written by a release that kept no index, or a stale member of one;
\* the payload may also fail the stream contract.
LegacyTimers ==
    {NoTimer} \cup {NewTimer(1, 0, d, FALSE) : d \in Durations}
    \cup {[NewTimer(1, 0, d, FALSE) EXCEPT !.valid = FALSE] : d \in Durations}

Init ==
    /\ now = 0
    /\ fresh = 2
    /\ timer \in LegacyTimers
    /\ schedule \in {{}, {0}} \cup {{d} : d \in Durations}
    /\ runtimeRev = 1
    /\ history = << >>
    /\ mode \in {"legacy", "stream"}
    /\ stream = {} /\ locals = {}
    /\ lease = "nobody" /\ ready = FALSE
    /\ holds = [r \in Replicas |-> FALSE]
    /\ scan = [r \in Replicas |-> "idle"]
    /\ due = [r \in Replicas |-> {}]
    /\ check = [r \in Replicas |-> NoCheck]
    /\ req = [c \in Clients |-> NoRequest]
    /\ faults = 0
    /\ owed = timer.dur

ClientStep(c) ==
    \/ \E op \in Ops, d \in Durations : Prepare(c, op, d)
    \/ CommitWrite(c) \/ CommitConflict(c) \/ FollowUp(c) \/ Abandon(c)

CountdownStep(r) ==
    \/ LocalRead(r) \/ LocalMiss(r) \/ LocalQuarantine(r) \/ LocalClaim(r)
    \/ LocalClearHistory(r)

SchedulerStep(r) ==
    \/ ClaimLease(r) \/ NoticeLoss(r) \/ Reconcile(r) \/ FinishScan(r)
    \/ ReadDue(r) \/ ScheduledMiss(r) \/ ScheduledRepair(r) \/ ScheduledClaim(r)

Next ==
    \/ \E c \in Clients : ClientStep(c)
    \/ \E r \in Replicas : CountdownStep(r)
    \/ \E r \in Replicas : SchedulerStep(r)
    \/ \E r \in Replicas : Crash(r)
    \/ Warn \/ LeaseLapse \/ LeaseLost \/ Tick \/ SetMode

Spec == Init /\ [][Next]_vars

\* The scheduler loop runs on every replica, and Redis expires dead leases.
\* Nothing is assumed of users, countdowns, clocks or the operator.
FairSpec ==
    /\ Spec
    /\ \A r \in Replicas : WF_vars(SchedulerStep(r))
    /\ WF_vars(LeaseLapse)

-----------------------------------------------------------------------------
(* Properties *)

\* The types of all variables.
TypeOK ==
    /\ now \in Nat /\ fresh \in Nat \ {0} /\ runtimeRev \in Nat /\ faults \in Nat
    /\ timer \in Timer
    /\ schedule \in SUBSET Int
    /\ history \in Seq(Timer)
    /\ mode \in {"legacy", "stream"}
    /\ stream \in SUBSET Event /\ locals \in SUBSET Event
    /\ lease \in Replicas \cup {"nobody"} /\ ready \in BOOLEAN
    /\ holds \in [Replicas -> BOOLEAN]
    /\ scan \in [Replicas -> {"idle", "clean", "corrupt"}]
    /\ due \in [Replicas -> SUBSET Int]
    /\ check \in [Replicas -> Check]
    /\ req \in [Clients -> Request]
    /\ owed \in Nat

Completions == stream \cup locals

\* A Timer ID is completed at most once, whoever claims it: two countdowns, a
\* countdown and the scheduler, or two replicas that both take themselves for
\* the scheduler, with user writes in between that were computed from the
\* running Timer.  (Undo is left out: see the run timer_undo_completed.)
OneCompletionPerTimerId ==
    \A e, f \in Completions : e.id = f.id => e = f

\* No completion is claimed before the deadline it reports, however stale the
\* index member or the countdown that led to the claim.
NeverEarly == \A e \in Completions : e.completedAt <= e.claimedAt

\* Once the index is marked rebuilt it follows the Timer for good: the only
\* member of a running Timer is its deadline, and a Timer that does not run has
\* none.  (A Timer that fails the stream contract may have been quarantined; an
\* account without a Timer may keep a stale member until that comes due.)
InSync ==
    /\ Running(timer) /\ timer.valid  => schedule = {Deadline(timer)}
    /\ Running(timer) /\ ~timer.valid => schedule \subseteq {Deadline(timer)}
    /\ timer.status \in {"paused", "completed"} => schedule = {}

ScheduleAgrees == ready => InSync

\* No lost update: the duration of the Timer is what the acknowledged writes add
\* up to, in spite of handlers that compute it from what they read earlier.
ExtensionsKept == timer.dur = owed

\* A completed Timer never runs again under its own ID: a write computed before
\* the claim is refused after it.
CompletedStaysCompleted ==
    [][timer.status = "completed" /\ timer'.id = timer.id
         => timer'.status = "completed"]_vars

\* The warning of a Timer is claimed once: the flag goes back only with more
\* time on the Timer, although the claim is not fenced by the revision the
\* other writers use.
WarningKept ==
    [][timer.warned /\ timer'.id = timer.id /\ ~timer'.warned
         => timer'.dur > timer.dur]_vars

\* With the producer gate left open, the scheduler alone gets every overdue
\* Timer completed: no countdown, user or clock step is needed, whichever
\* replica crashes or loses its lease.
EventuallyCompleted == <>[](mode = "stream") => (Overdue ~> ~Overdue)

\* ADR 0015 "Store one PostgreSQL completion receipt per Timer ID": the event
\* stream must not hold two completions of one Timer ID.
OneEventPerTimerId == \A e, f \in stream : e.id = f.id => e = f

\* CONTEXT.md "The ordered record of reversible user-triggered timer actions":
\* the history lists the Timers in the order the actions replaced them.
HistoryInCommitOrder ==
    \A i, j \in 1 .. Len(history) : i < j => history[i].rev <= history[j].rev
=============================================================================
