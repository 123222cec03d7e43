--------------------------- MODULE IdleDetection ---------------------------
(***************************************************************************)
(* Long-break detection of one account: a Timer that a completion left     *)
(* waiting and that nobody touches for LongBreak is taken back, a long     *)
(* break is credited for the time since the completion, and a paused work  *)
(* Timer is put in its place.  Four parties work on the same Redis keys:   *)
(*                                                                         *)
(*   - the user's requests, and the completions they lead to: the handler  *)
(*     of a replica (legacy) or the continuation worker (stream);          *)
(*   - TimerIdleService of every replica, whose per-account queue (job)    *)
(*     persists the schedule and, in legacy mode, arms a local callback;   *)
(*   - the callback, which detects and credits step by step;               *)
(*   - the scheduler leader, which rebuilds the schedule (pass) and, in    *)
(*     durable mode, claims due members of it in one script.               *)
(*                                                                         *)
(* The account has long-break detection switched on, and its Timers are    *)
(* of work and short breaks; starting a long break and undo, which clear   *)
(* or restore the last completion, are not here.  The index member and the *)
(* payload key are set and deleted by the same scripts: both are planned.  *)
(* A Timer is the (ID, scheduleRevision) pair every script compares, ver.  *)
(***************************************************************************)
EXTENDS Integers, Sequences, FiniteSets

CONSTANTS
    Replicas,       \* backend replicas
    LongBreak,      \* preferences.sessionLongBreakDuration
    StartMode,      \* pomi:timer-idle-detection:mode at the start
    Reencodes,      \* a Timer read and written as JSON again is what is stored
    MaxTime,        \* bound on the clock
    MaxWrites,      \* bound on the user's writes to the Timer
    MaxCompletions, \* bound on completed Timers
    MaxSaves,       \* bound on saved preferences
    MaxFaults       \* bound on crashes and leases lost while in use

None == -1  \* no last completion

ASSUME IdleAssumption ==
    /\ "nobody" \notin Replicas
    /\ LongBreak \in Nat \ {0}
    /\ StartMode \in {"legacy", "durable"} /\ Reencodes \in BOOLEAN
    /\ {MaxTime, MaxWrites, MaxCompletions, MaxSaves, MaxFaults} \subseteq Nat

VARIABLES
    now,            \* Redis TIME; the replicas' clocks agree with it
    fresh,          \* the next unused UUID
    timer,          \* ver; state: "rest" (paused and whole), "run" or "worn"
    runtimeRev,     \* user:<id>:timer_runtime_revision
    lastDone,       \* user:<id>:last_completion
    detected,       \* user:<id>:idle_detected
    planned,        \* the idle schedule: {} or {payload}
    mode,           \* "legacy" or "durable"
    ready, gen,     \* readiness and generation of the idle schedule
    lease, holds,   \* scheduler lease; replica believes it holds it
    pass,           \* replica's leader pass over the schedule
    job,            \* replica's queue of schedule operations
    armed,          \* deadline of the replica's local callback: {} or {time}
    callback,       \* replica's local callback in progress
    handler,        \* replica's legacy completion handler in progress
    continuations,  \* continuation plans of stream completions
    credits,        \* synthetic long breaks, in the order they were decided
    writes,         \* user writes to the Timer so far
    calm,           \* history variable: writes when the Timer was put to rest
    dropped,        \* history variable: a late step undid a newer schedule
    completions, saves, faults

redis == <<timer, runtimeRev, lastDone, detected, planned, mode, ready, gen>>
leader == <<lease, holds, pass>>
local == <<job, armed, callback, handler>>
counts == <<writes, calm, completions, saves, faults>>
vars == <<now, fresh, redis, leader, local, continuations, credits, dropped, counts>>

-----------------------------------------------------------------------------
(* The schedule: TimerStore.scheduleIdleDetection *)

\* What it reads before its script.  The three keys are read one by one; a
\* torn reading fails the script's comparison as an old one does.  seen is
\* history: the user's writes at that moment.
Snapshot == [last |-> lastDone, ver |-> timer.ver, rev |-> runtimeRev, seen |-> writes]
NoSnapshot == [last |-> None, ver |-> 0, rev |-> 0, seen |-> 0]

\* Mutant: a payload due at the completion itself.
PayloadWithoutBreak(s) == [last |-> s.last, check |-> s.last, ver |-> s.ver,
                           rev |-> s.rev, seen |-> s.seen]

Payload(s) == [last |-> s.last, check |-> s.last + LongBreak, ver |-> s.ver,
               rev |-> s.rev, seen |-> s.seen]

\* The script's comparison with what was read.  It compares the stored text of
\* the Timer with JSON.stringify of what was parsed from it: cjson, which wrote
\* it, escapes a slash and orders numeric keys in its own way.
StillReads(s) ==
    Reencodes /\ lastDone = s.last /\ timer.ver = s.ver /\ runtimeRev = s.rev

\* Mutant: the script does not compare.
PlannedUnchecked(s) == IF s.last = None \/ detected THEN {} ELSE {Payload(s)}

\* The schedule the call leaves behind.  Having read no completion it removes
\* the schedule without comparing anything.
PlannedBy(s) ==
    IF s.last = None \/ (StillReads(s) /\ detected) THEN {}
    ELSE IF StillReads(s) THEN {Payload(s)}
    ELSE planned

Schedule(s) ==
    /\ planned' = PlannedBy(s)
    /\ dropped' = IF s.last = None THEN dropped \/ lastDone # None
                  ELSE dropped /\ ~StillReads(s)

\* The generation a schedule change moves on to.
NextGeneration == gen + 1

(* A replica's queue of schedule operations *)

\* more: operations waiting; factory: scheduleIdleDetectionCheck has been given
\* one since the replica started.
IdleJob == [at |-> "idle", more |-> 0, snap |-> NoSnapshot, factory |-> TRUE]

Enqueue(j) == [j EXCEPT !.more = j.more + 1]
Dequeue(j) == [j EXCEPT !.more = j.more - 1, !.at = "prepared"]
Provided(j) == [j EXCEPT !.factory = TRUE]

-----------------------------------------------------------------------------
(* The user's Timer: every replaceCurrentTimer draws one revision for both *)

PutTimer(state, v) == timer' = [ver |-> v, state |-> state] /\ runtimeRev' = v

\* clearAutoAdvance: a replica that puts a new Timer in place forgets the one
\* it was about to put there.
DropAdvance(h) == IF h = "next" THEN "off" ELSE h

\* A new Timer: start, reset, skip.
StartTimer(r, state) ==
    /\ job[r].at # "down" /\ writes < MaxWrites
    /\ PutTimer(state, fresh) /\ fresh' = fresh + 1
    /\ writes' = writes + 1
    /\ handler' = [handler EXCEPT ![r] = DropAdvance(@)]
    /\ UNCHANGED <<now, lastDone, detected, planned, mode, ready, gen, leader, job, armed,
                   callback, continuations, credits, dropped, calm, completions, saves,
                   faults>>

\* Pause, resume, extend, a selection or the paused-Timer reminder.
TouchTimer(state) ==
    /\ writes < MaxWrites
    /\ timer.state = "worn" => state # "rest"
    /\ timer.state = "rest" => state # "worn"
    /\ PutTimer(state, fresh) /\ fresh' = fresh + 1
    /\ writes' = writes + 1
    /\ UNCHANGED <<now, lastDone, detected, planned, mode, ready, gen, leader, local,
                   continuations, credits, dropped, calm, completions, saves, faults>>

-----------------------------------------------------------------------------
(* Completions.  In stream mode a plan for the next Timer is stored and    *)
(* applied later; in legacy mode the replica's handler goes on.            *)

\* A Timer lasts at least a tick, and longer than a handler's two writes for the
\* completion before it.
CanComplete ==
    /\ timer.state = "run" /\ lastDone < now /\ \A p \in continuations : p.at < now
    /\ \A r \in Replicas : handler[r] \notin {"set", "clear"}
    /\ completions < MaxCompletions /\ now + LongBreak <= MaxTime

CompleteByStream ==
    /\ CanComplete
    /\ PutTimer("worn", fresh) /\ fresh' = fresh + 2
    /\ completions' = completions + 1
    /\ \E state \in {"rest", "run"} :
          continuations' = continuations \cup
              {[from |-> fresh, next |-> fresh + 1, state |-> state, at |-> now]}
    /\ UNCHANGED <<now, lastDone, detected, planned, mode, ready, gen, leader, local,
                   credits, dropped, writes, calm, saves, faults>>

\* APPLY_TIMER_CONTINUATION_PLAN_SCRIPT on the completed Timer: the next
\* Timer, the completion time and the schedule in one step.
ApplyContinuation(p) ==
    /\ timer.ver = p.from
    /\ PutTimer(p.state, p.next)
    /\ lastDone' = p.at /\ detected' = FALSE
    /\ planned' = {Payload([last |-> p.at, ver |-> p.next, rev |-> p.next, seen |-> writes])}
    /\ calm' = writes /\ dropped' = FALSE
    /\ UNCHANGED <<now, fresh, mode, ready, gen, leader, local, continuations, credits,
                   writes, completions, saves, faults>>

\* The worker retries a plan that was applied: the schedule is put back, but
\* only while nothing else has happened.
ReapplyContinuation(p) ==
    /\ timer.ver = p.next
    /\ runtimeRev = p.next /\ lastDone = p.at /\ ~detected
    /\ planned' = {Payload([last |-> p.at, ver |-> p.next, rev |-> p.next, seen |-> writes])}
    /\ dropped' = FALSE
    /\ UNCHANGED <<now, fresh, timer, runtimeRev, lastDone, detected, mode, ready, gen,
                   leader, local, continuations, credits, counts>>

\* The row is marked processed: applied, or superseded by the user's write.
FinishContinuation(p) ==
    /\ timer.ver # p.from
    /\ continuations' = continuations \ {p}
    /\ UNCHANGED <<now, fresh, redis, leader, local, credits, dropped, counts>>

CompleteByHandler(r) ==
    /\ CanComplete /\ handler[r] = "off" /\ job[r].at # "down"
    /\ PutTimer("worn", fresh) /\ fresh' = fresh + 1
    /\ completions' = completions + 1
    /\ handler' = [handler EXCEPT ![r] = "set"]
    /\ UNCHANGED <<now, lastDone, detected, planned, mode, ready, gen, leader, job, armed,
                   callback, continuations, credits, dropped, writes, calm, saves, faults>>

\* setLastCompletionTimestamp
SetLastCompletion(r) ==
    /\ handler[r] = "set"
    /\ lastDone' = now /\ runtimeRev' = fresh /\ fresh' = fresh + 1
    /\ ready' = FALSE /\ gen' = NextGeneration
    /\ dropped' = FALSE
    /\ handler' = [handler EXCEPT ![r] = "clear"]
    /\ UNCHANGED <<now, timer, detected, planned, mode, leader, job, armed, callback,
                   continuations, credits, counts>>

\* clearIdleDetected, and the schedule operation queued right after it.
ClearDetected(r) ==
    /\ handler[r] = "clear"
    /\ detected' = FALSE /\ runtimeRev' = fresh /\ fresh' = fresh + 1
    /\ job' = [job EXCEPT ![r] = Provided(Enqueue(@))]
    /\ handler' = [handler EXCEPT ![r] = "next"]
    /\ UNCHANGED <<now, timer, lastDone, planned, mode, ready, gen, leader, armed,
                   callback, continuations, credits, dropped, counts>>

\* scheduleAutoAdvance: the Timer of that moment is replaced by the next one,
\* or resumed if it is of the same type and not completed.
AutoAdvance(r, state) ==
    /\ handler[r] = "next"
    /\ PutTimer(state, fresh) /\ fresh' = fresh + 1
    /\ job' = [job EXCEPT ![r] = Provided(Enqueue(@))]
    /\ handler' = [handler EXCEPT ![r] = "off"]
    /\ calm' = writes
    /\ UNCHANGED <<now, lastDone, detected, planned, mode, ready, gen, leader, armed, callback,
                   continuations, credits, dropped, writes, completions, saves, faults>>

\* The rest of the handler throws, or its write conflicts with another one or
\* lacks a required intention: nothing is queued.
AdvanceFails(r) ==
    /\ handler[r] = "next"
    /\ handler' = [handler EXCEPT ![r] = "off"]
    /\ UNCHANGED <<now, fresh, redis, leader, job, armed, callback, continuations, credits,
                   dropped, counts>>

-----------------------------------------------------------------------------
(* TimerIdleService: the account's queue on one replica                    *)

\* The next operation starts: prepareIdleDetectionScheduleChange.
PrepareJob(r) ==
    /\ job[r].at = "idle" /\ job[r].more > 0
    /\ job' = [job EXCEPT ![r] = Dequeue(@)]
    /\ armed' = [armed EXCEPT ![r] = {}]
    /\ ready' = FALSE /\ gen' = NextGeneration
    /\ UNCHANGED <<now, fresh, timer, runtimeRev, lastDone, detected, planned, mode, leader,
                   callback, handler, continuations, credits, dropped, counts>>

ReadJob(r) ==
    /\ job[r].at = "prepared"
    /\ job' = [job EXCEPT ![r] = [@ EXCEPT !.at = "read", !.snap = Snapshot]]
    /\ UNCHANGED <<now, fresh, redis, leader, armed, callback, handler, continuations,
                   credits, dropped, counts>>

WriteJob(r) ==
    /\ job[r].at = "read"
    /\ Schedule(job[r].snap)
    /\ job' = [job EXCEPT ![r] = [@ EXCEPT !.at = "written", !.snap = NoSnapshot]]
    /\ UNCHANGED <<now, fresh, timer, runtimeRev, lastDone, detected, mode, ready, gen,
                   leader,
                   armed, callback, handler, continuations, credits, counts>>

\* Arms the local callback unless the mode is durable, on a replica that
\* TimerService has given its factory of work Timers to.
ArmJob(r) ==
    /\ job[r].at = "written"
    /\ job' = [job EXCEPT ![r] = [@ EXCEPT !.at = "idle"]]
    /\ armed' = [armed EXCEPT ![r] =
          IF job[r].factory /\ mode = "legacy" /\ lastDone # None
          THEN {lastDone + LongBreak} ELSE @]
    /\ UNCHANGED <<now, fresh, redis, leader, callback, handler, continuations, credits,
                   dropped, counts>>

\* The user saves preferences through replica r.
SavePreferences(r) ==
    /\ job[r].at # "down" /\ saves < MaxSaves
    /\ saves' = saves + 1
    /\ job' = [job EXCEPT ![r] = Enqueue(@)]
    /\ UNCHANGED <<now, fresh, redis, leader, armed, callback, handler, continuations,
                   credits, dropped, writes, calm, completions, faults>>

-----------------------------------------------------------------------------
(* The local callback: checkForLongIdlePeriod *)

\* The timeout fires.  The callback gives up in durable mode and on a Timer
\* that is not at rest, and queues a new schedule if it is too early.
FireCallback(r) ==
    /\ \E t \in armed[r] : t <= now
    /\ callback[r].at = "off"
    /\ armed' = [armed EXCEPT ![r] = {}]
    /\ LET waits == mode = "legacy" /\ timer.state = "rest" /\ lastDone # None
           early == now - lastDone < LongBreak
       IN  /\ job' = IF waits /\ early THEN [job EXCEPT ![r] = Enqueue(@)] ELSE job
           /\ callback' = IF waits /\ ~early
                          THEN [callback EXCEPT ![r] = [at |-> "read", last |-> lastDone,
                                                        ver |-> timer.ver]]
                          ELSE callback
    /\ UNCHANGED <<now, fresh, redis, leader, handler, continuations, credits, dropped,
                   counts>>

\* Mutant: an earlier detection is not looked for.
LegacyClaimableAgain(last, ver) ==
    mode # "durable" /\ lastDone = last /\ timer.ver = ver /\ timer.state = "rest"

\* claimLegacyIdleDetection's conditions.
LegacyClaimable(last, ver) ==
    /\ mode # "durable" /\ ~detected
    /\ lastDone = last /\ timer.ver = ver /\ timer.state = "rest"

NoCallback == [at |-> "off", last |-> None, ver |-> 0]

ClaimLegacy(r) ==
    /\ callback[r].at = "read"
    /\ IF LegacyClaimable(callback[r].last, callback[r].ver)
       THEN /\ detected' = TRUE /\ planned' = {}
            /\ runtimeRev' = fresh /\ fresh' = fresh + 1
            /\ callback' = [callback EXCEPT ![r].at = "claimed"]
       ELSE /\ callback' = [callback EXCEPT ![r] = NoCallback]
            /\ UNCHANGED <<detected, planned, runtimeRev, fresh>>
    /\ UNCHANGED <<now, timer, lastDone, mode, ready, gen, leader, job, armed, handler,
                   continuations, credits, dropped, counts>>

\* statisticsService.recordCompletedTimer, with the time that really passed.
RecordLegacy(r) ==
    /\ callback[r].at = "claimed"
    /\ credits' = Append(credits, [by |-> "legacy", start |-> callback[r].last,
                                   dur |-> now - callback[r].last, at |-> now])
    /\ callback' = [callback EXCEPT ![r].at = "recorded"]
    /\ UNCHANGED <<now, fresh, redis, leader, job, armed, handler, continuations,
                   dropped, counts>>

\* clearLastCompletionTimestamp compares nothing.
ClearLastCompletion(r) ==
    /\ callback[r].at = "recorded"
    /\ lastDone' = None /\ planned' = {}
    /\ dropped' = (dropped \/ lastDone # callback[r].last)
    /\ runtimeRev' = fresh /\ fresh' = fresh + 1
    /\ callback' = [callback EXCEPT ![r].at = "cleared"]
    /\ UNCHANGED <<now, timer, detected, mode, ready, gen, leader, job, armed, handler,
                   continuations, credits, counts>>

\* clearSessionState revises the runtime once more.
ClearSession(r) ==
    /\ callback[r].at = "cleared"
    /\ runtimeRev' = fresh /\ fresh' = fresh + 1
    /\ dropped' = (dropped \/ lastDone # None)
    /\ callback' = [callback EXCEPT ![r].at = "reset"]
    /\ UNCHANGED <<now, timer, lastDone, detected, planned, mode, ready, gen, leader, job,
                   armed, handler, continuations, credits, counts>>

\* createWorkTimer: the Timer of that moment is replaced by a paused one.
ReplaceLegacy(r) ==
    /\ callback[r].at = "reset"
    /\ PutTimer("rest", fresh) /\ fresh' = fresh + 1
    /\ callback' = [callback EXCEPT ![r] = NoCallback]
    /\ handler' = [handler EXCEPT ![r] = DropAdvance(@)]
    /\ dropped' = (dropped \/ lastDone # None)
    /\ UNCHANGED <<now, lastDone, detected, planned, mode, ready, gen, leader, job, armed,
                   continuations, credits, counts>>

\* A write of the claimed callback throws, or createWorkTimer's conflicts.
CallbackFails(r) ==
    /\ callback[r].at \in {"claimed", "recorded", "cleared", "reset"}
    /\ callback' = [callback EXCEPT ![r] = NoCallback]
    /\ UNCHANGED <<now, fresh, redis, leader, job, armed, handler, continuations, credits,
                   dropped, counts>>

-----------------------------------------------------------------------------
(* The scheduler leader *)

NoPass == [at |-> "idle", gen |-> 0, snap |-> NoSnapshot, score |-> None]

\* The lease's token is in the leader's hands and in Redis.
Leads(r) == holds[r] /\ lease = r

AcquireLease(r) ==
    /\ job[r].at # "down" /\ ~holds[r] /\ lease = "nobody"
    /\ lease' = r /\ holds' = [holds EXCEPT ![r] = TRUE]
    /\ UNCHANGED <<now, fresh, redis, pass, local, continuations, credits, dropped, counts>>

\* A renewal or a script finds the lease gone.
NoticeLoss(r) ==
    /\ holds[r] /\ lease # r
    /\ holds' = [holds EXCEPT ![r] = FALSE]
    /\ pass' = [pass EXCEPT ![r] = NoPass]
    /\ UNCHANGED <<now, fresh, redis, lease, local, continuations, credits, dropped,
                   counts>>

\* The lease of a replica that still uses it runs out.
LoseLease ==
    /\ lease # "nobody" /\ holds[lease] /\ faults < MaxFaults
    /\ lease' = "nobody" /\ faults' = faults + 1
    /\ UNCHANGED <<now, fresh, redis, holds, pass, local, continuations, credits, dropped,
                   writes, calm, completions, saves>>

\* The lease of a replica that died runs out.
ExpireLease ==
    /\ lease # "nobody" /\ ~holds[lease]
    /\ lease' = "nobody"
    /\ UNCHANGED <<now, fresh, redis, holds, pass, local, continuations, credits,
                   dropped, counts>>

\* A pass reads the generation and lists the account if it has a last
\* completion (a schedule change between the two only has the pass refused).
StartPass(r) ==
    /\ Leads(r) /\ pass[r].at = "idle" /\ ~ready
    /\ pass' = [pass EXCEPT ![r] = [@ EXCEPT !.gen = gen,
                                           !.at = IF lastDone = None THEN "scanned"
                                                  ELSE "listed"]]
    /\ UNCHANGED <<now, fresh, redis, lease, holds, local, continuations, credits,
                   dropped, counts>>

ReadAccount(r) ==
    /\ pass[r].at = "listed"
    /\ pass' = [pass EXCEPT ![r] = [@ EXCEPT !.at = "read", !.snap = Snapshot]]
    /\ UNCHANGED <<now, fresh, redis, lease, holds, local, continuations, credits,
                   dropped, counts>>

ScheduleAccount(r) ==
    /\ pass[r].at = "read" /\ Leads(r)
    /\ Schedule(pass[r].snap)
    /\ pass' = [pass EXCEPT ![r] = [@ EXCEPT !.at = "scanned", !.snap = NoSnapshot]]
    /\ UNCHANGED <<now, fresh, timer, runtimeRev, lastDone, detected, mode, ready, gen,
                   lease,
                   holds, local, continuations, credits, counts>>

\* markIdleDetectionScheduleReady refuses a pass that a schedule change
\* overtook.
PassIsCurrent(r) == gen = pass[r].gen

MarkReady(r) ==
    /\ pass[r].at = "scanned" /\ Leads(r)
    /\ ready' = (ready \/ PassIsCurrent(r))
    /\ pass' = [pass EXCEPT ![r] = NoPass]
    /\ UNCHANGED <<now, fresh, timer, runtimeRev, lastDone, detected, planned, mode, gen,
                   lease,
                   holds, local, continuations, credits, dropped, counts>>

\* The operator turns the durable mode on.
EnableDurable ==
    /\ lease # "nobody" /\ ready /\ mode = "legacy"
    /\ mode' = "durable"
    /\ UNCHANGED <<now, fresh, timer, runtimeRev, lastDone, detected, planned, ready,
                   gen, leader,
                   local, continuations, credits, dropped, counts>>

ReadDue(r) ==
    /\ Leads(r) /\ pass[r].at = "idle" /\ ready /\ mode = "durable"
    /\ \E p \in planned :
          /\ p.check <= now
          /\ pass' = [pass EXCEPT ![r] = [@ EXCEPT !.at = "due", !.score = p.check]]
    /\ UNCHANGED <<now, fresh, redis, lease, holds, local, continuations, credits,
                   dropped, counts>>

\* Mutant: the Timer's condition is looked at, not whether it is the same one.
TimerAtRest(p) == timer.state = "rest" /\ p.rev \in Nat

\* The Timer is the one the payload was made for, and nobody is using it.
TimerUntouched(p) ==
    /\ timer.ver = p.ver /\ runtimeRev = p.rev /\ timer.state = "rest"

\* CLAIM_SCHEDULED_IDLE_DETECTION_SCRIPT.  A payload whose deadline is not
\* that of its own completion is never made: every quarantine is left out.
Claimable(p) == lastDone = p.last /\ ~detected /\ TimerUntouched(p)

ClaimDurable(r) ==
    /\ pass[r].at = "due" /\ Leads(r)
    /\ pass' = [pass EXCEPT ![r] = NoPass]
    /\ \/ \E p \in planned :
             /\ p.check = pass[r].score /\ p.check <= now /\ Claimable(p)
             /\ PutTimer("rest", fresh) /\ fresh' = fresh + 1
             /\ credits' = Append(credits, [by |-> "durable", start |-> p.last,
                                            dur |-> LongBreak, at |-> now])
             /\ planned' = {} /\ lastDone' = None /\ detected' = TRUE
       \/ /\ \E p \in planned : p.check = pass[r].score /\ ~Claimable(p)
          /\ planned' = {}
          /\ UNCHANGED <<timer, runtimeRev, fresh, credits, lastDone, detected>>
       \/ /\ \A p \in planned : p.check # pass[r].score
          /\ UNCHANGED <<timer, runtimeRev, fresh, credits, lastDone, detected, planned>>
    /\ UNCHANGED <<now, mode, ready, gen, lease, holds, local, continuations, dropped,
                   counts>>

-----------------------------------------------------------------------------
(* Crashes *)

Crash(r) ==
    /\ job[r].at # "down" /\ faults < MaxFaults
    /\ faults' = faults + 1
    /\ job' = [job EXCEPT ![r] = [IdleJob EXCEPT !.at = "down", !.factory = FALSE]]
    /\ armed' = [armed EXCEPT ![r] = {}]
    /\ callback' = [callback EXCEPT ![r] = NoCallback]
    /\ handler' = [handler EXCEPT ![r] = "off"]
    /\ holds' = [holds EXCEPT ![r] = FALSE]
    /\ pass' = [pass EXCEPT ![r] = NoPass]
    /\ UNCHANGED <<now, fresh, redis, lease, continuations, credits, dropped, writes, calm,
                   completions, saves>>

\* Mutant: a restart restores countdowns only.
RestartWithoutSchedule(r) ==
    /\ job[r].at = "down"
    /\ job' = [job EXCEPT ![r] = [@ EXCEPT !.at = "idle"]]
    /\ UNCHANGED <<now, fresh, redis, leader, armed, callback, handler, continuations,
                   credits, dropped, counts>>

\* restoreActiveTimersOnStartup queues a schedule for a Timer that is not running.
Restart(r) ==
    /\ job[r].at = "down"
    /\ job' = [job EXCEPT ![r] = [@ EXCEPT !.at = "idle",
                                         !.more = IF timer.state = "run" THEN 0 ELSE 1,
                                         !.factory = timer.state # "run"]]
    /\ UNCHANGED <<now, fresh, redis, leader, armed, callback, handler, continuations,
                   credits, dropped, counts>>

\* A handler's two writes of one completion are prompt: the second one is not
\* a whole tick behind the first.
Tick ==
    /\ now < MaxTime /\ \A r \in Replicas : handler[r] # "clear"
    /\ now' = now + 1
    /\ UNCHANGED <<fresh, redis, leader, local, continuations, credits, dropped, counts>>

-----------------------------------------------------------------------------
Init ==
    /\ now = 0 /\ fresh = 1
    /\ timer = [ver |-> 0, state |-> "run"] /\ runtimeRev = 0
    /\ lastDone = None /\ detected = FALSE /\ planned = {}
    /\ mode = StartMode /\ ready = FALSE /\ gen = 0
    /\ lease = "nobody" /\ holds = [r \in Replicas |-> FALSE]
    /\ pass = [r \in Replicas |-> NoPass]
    /\ job = [r \in Replicas |-> IdleJob]
    /\ armed = [r \in Replicas |-> {}]
    /\ callback = [r \in Replicas |-> NoCallback]
    /\ handler = [r \in Replicas |-> "off"]
    /\ continuations = {} /\ credits = <<>>
    /\ writes = 0 /\ calm = 0 /\ dropped = FALSE /\ completions = 0
    /\ saves = 0 /\ faults = 0

\* What the backend does by itself.
HandlerStep(r) ==
    \/ SetLastCompletion(r) \/ ClearDetected(r) \/ AdvanceFails(r)
    \/ \E state \in {"rest", "run"} : AutoAdvance(r, state)

JobStep(r) == PrepareJob(r) \/ ReadJob(r) \/ WriteJob(r) \/ ArmJob(r) \/ Restart(r)

CallbackStep(r) ==
    \/ FireCallback(r) \/ ClaimLegacy(r) \/ RecordLegacy(r)
    \/ ClearLastCompletion(r) \/ ClearSession(r) \/ ReplaceLegacy(r)
    \/ CallbackFails(r)

LeaderStep(r) ==
    \/ AcquireLease(r) \/ NoticeLoss(r) \/ StartPass(r) \/ ReadAccount(r)
    \/ ScheduleAccount(r) \/ MarkReady(r) \/ ReadDue(r) \/ ClaimDurable(r)

ContinuationStep ==
    \E p \in continuations :
       ApplyContinuation(p) \/ ReapplyContinuation(p) \/ FinishContinuation(p)

Next ==
    \/ \E r \in Replicas :
          \/ HandlerStep(r) \/ JobStep(r) \/ CallbackStep(r) \/ LeaderStep(r)
          \/ CompleteByHandler(r) \/ SavePreferences(r) \/ Crash(r)
          \/ \E state \in {"rest", "run"} : StartTimer(r, state)
    \/ \E state \in {"rest", "run", "worn"} : TouchTimer(state)
    \/ CompleteByStream \/ ContinuationStep
    \/ LoseLease \/ ExpireLease \/ EnableDurable \/ Tick

Spec == Init /\ [][Next]_vars

\* Promises are settled, timeouts fire, the leader's loop never returns and a
\* replica is restarted; users owe nothing.
FairSpec ==
    /\ Spec
    /\ \A r \in Replicas : /\ WF_vars(HandlerStep(r)) /\ WF_vars(JobStep(r))
                           /\ WF_vars(CallbackStep(r)) /\ WF_vars(LeaderStep(r))
    /\ WF_vars(\E p \in continuations : ApplyContinuation(p) \/ FinishContinuation(p))
    /\ WF_vars(ExpireLease) /\ WF_vars(Tick)

-----------------------------------------------------------------------------
(* Properties *)

Reading == [last: Nat \cup {None}, ver: Nat, rev: Nat, seen: Nat]

Plan == [last: Nat, check: Nat, ver: Nat, rev: Nat, seen: Nat]

Pass == [at: {"idle", "listed", "read", "scanned", "due"}, gen: Nat, snap: Reading,
         score: Nat \cup {None}]

Job == [at: {"idle", "prepared", "read", "written", "down"}, more: Nat, snap: Reading,
        factory: BOOLEAN]

Callback == [at: {"off", "read", "claimed", "recorded", "cleared", "reset"},
             last: Nat \cup {None}, ver: Nat]

Continuation == [from: Nat, next: Nat, state: {"rest", "run"}, at: Nat]

Credit == [by: {"legacy", "durable"}, start: Int, dur: Int, at: Nat]

CountTypes ==
    /\ now \in Nat /\ fresh \in Nat /\ runtimeRev \in Nat /\ gen \in Nat
    /\ writes \in Nat /\ calm \in Nat
    /\ completions \in Nat /\ saves \in Nat /\ faults \in Nat

AccountTypes ==
    /\ timer \in [ver: Nat, state: {"rest", "run", "worn"}]
    /\ lastDone \in Nat \cup {None}

EffectTypes == continuations \subseteq Continuation /\ credits \in Seq(Credit)

FlagTypes == detected \in BOOLEAN /\ ready \in BOOLEAN /\ dropped \in BOOLEAN

\* A payload is due a long break after its completion, which the claim relies
\* on and quarantines otherwise.
PlannedTypes ==
    /\ planned \subseteq Plan
    /\ \A p \in planned : p.check = p.last + LongBreak

LeaderTypes ==
    /\ mode \in {"legacy", "durable"} /\ lease \in Replicas \cup {"nobody"}
    /\ holds \in [Replicas -> BOOLEAN]
    /\ pass \in [Replicas -> Pass]

JobTypes == job \in [Replicas -> Job]

LocalTypes ==
    /\ armed \in [Replicas -> SUBSET Nat]
    /\ callback \in [Replicas -> Callback]
    /\ handler \in [Replicas -> {"off", "set", "clear", "next"}]

\* The types of all variables.
TypeOK ==
    /\ CountTypes /\ AccountTypes /\ EffectTypes /\ FlagTypes /\ PlannedTypes
    /\ LeaderTypes /\ JobTypes /\ LocalTypes

\* A durable claim takes away a Timer that waits, and one the user has not
\* written since the schedule's reading: not a start, not a pause, not a
\* selection made while the scheduler already held the due member.
NeverOverwritesUserWork ==
    [][credits' # credits /\ credits'[Len(credits')].by = "durable"
       => timer.state = "rest" /\ \A p \in planned : p.seen = writes]_vars

\* One completion leads to one synthetic long break at most, whichever
\* replica's callback or leader decides it and wherever the mode is switched.
OneLongBreakPerIdle ==
    \A i, j \in 1..Len(credits) : credits[i].start = credits[j].start => i = j

\* No part of the backend still has anything to do for the schedule.
Settled ==
    \A r \in Replicas : /\ job[r].at = "idle" /\ job[r].more = 0
                        /\ callback[r].at = "off" /\ handler[r] = "off"

\* The account waits since its completion, and nothing removed its schedule
\* by an operation that was late (dropped).
Waiting ==
    /\ lastDone # None /\ ~detected /\ timer.state = "rest"
    /\ writes = calm /\ ~dropped

\* A schedule that is marked ready holds a claimable payload for an account
\* that waits: nobody scans again, so a missing one would stay missing.
ReadyMeansScheduled == ready /\ Settled /\ Waiting => \E p \in planned : Claimable(p)

WaitsSince(t) == Waiting /\ lastDone = t
CreditedSince(t) == \E i \in 1..Len(credits) : credits[i].start = t

\* An account that waits has its long break credited in the end, unless it
\* stops waiting before: by durable claims here, whatever crashes.
IdleIsDetected ==
    \A t \in 0..(MaxTime - LongBreak) : WaitsSince(t) ~> (~WaitsSince(t) \/ CreditedSince(t))

\* ADR 0015 of the local callback: it "continues legacy effects while the
\* durable index is only being prewarmed".
CallbackStillDetects ==
    \A t \in 0..(MaxTime - LongBreak) :
       (mode = "legacy" /\ WaitsSince(t)) ~>
          (mode = "durable" \/ ~WaitsSince(t) \/ CreditedSince(t))

\* The idle stream's parseEvent, on the only fields the claim computes.
Accepted(c) == c.start + c.dur = c.at

\* ADR 0015: an idle event is persisted, then acknowledged and deleted.  An
\* event its consumer does not accept stays pending for ever.
IdleEventsAreAccepted ==
    \A i \in 1..Len(credits) : credits[i].by = "durable" => Accepted(credits[i])
=============================================================================
