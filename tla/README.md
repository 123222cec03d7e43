# A formal model of Pomi's concurrent core

TLA+ modules, TLC configurations and TLAPS proofs kept beside Pomi. They cover what the
code cannot show by itself: what happens when several requests, replicas, Redis,
PostgreSQL, and the processes, tabs and devices of one account act in an order nobody
wrote a test for.

Backend paths are relative to `src/packages/backend/src/`, frontend paths to
`src/packages/frontend/src/` (they start with `utils/` or `stores/`); `docs/` and
`CONTEXT.md` are both below `src/`. `PROJECT.json` lists, for every definition that models
code, the lines it stands for.

## 1. The system

Pomi is a Pomodoro timer with Tasks: a NestJS backend that runs as several replicas over
Redis and PostgreSQL, a web frontend, native shells and a watch. A **Timer** (work, break,
long break) is a JSON value in Redis, one current Timer per account. Everything else that
must be right about it follows from one event, its **completion**. What a user does goes
through a queue in the application and a queue in the backend; what it changes comes back
over a feed.

```
 application: action queue <--> accepted-action gateway --> request handlers
   ^    session, refresh credential      (user-actions/)       |
   |                                                           |  compare-and-set
   |                                                           v
   |   countdown of each replica ----------------> Redis: Timer, index, history
   |   scheduler leader ------------------------->             |
   |                                        completion stream, idle stream
   |                                                           |
   |                          stream consumers, one per replica, one transaction per entry
   |                                                           |
   |   PostgreSQL: receipts, statistics, notification outbox, continuation outbox
   |                             |                         |
   +-- notification worker <-----+                         +--> continuation worker
   |                                                             --> Redis: next Timer
   +-- change feed <-- PostgreSQL: Tasks <-- vacation, reminders, request handlers
```

| Component | State | Operations | Module |
|---|---|---|---|
| Timer runtime (`timer/timer-store.ts`, `timer/timer.service.ts`) | current Timer, completion index, runtime revision, undo history | start, reset, pause, resume, extend, metadata, undo; compare-and-set scripts | `TimerRuntime` |
| Countdown (`timer/timer-countdown.service.ts`) | one handle per account and replica | start, check, warn, claim, restart | `TimerCountdown`; its claims also in `TimerRuntime` |
| Scheduler (`timer/timer-completion-scheduler.service.ts`) | Redis lease, ready markers | rebuild the indexes, claim due members | `TimerRuntime`, `IdleDetection` |
| Completion delivery (`timer/timer-completion-stream.service.ts`, `timer/timer-completion-effects.service.ts`) | consumer group, receipts, statistics, outbox rows | read, recover, persist, acknowledge and delete | `CompletionDelivery`, `ExactlyOnceEffects` |
| Idle detection (`timer/timer-idle.service.ts`, idle parts of `timer-store.ts`) | last completion, idle schedule, generation, mode, local callbacks | schedule, detect locally, claim durably | `IdleDetection` |
| Continuation worker (`timer/timer-continuation-worker.service.ts`, `timer-continuation-outbox.service.ts`) | row lease, account lock, stored plan, undo entry | claim, plan, apply, record, acknowledge | `ContinuationWorker` |
| Notification outbox and worker (`timer/timer-completion-outbox.service.ts`, `timer-completion-notification-worker.service.ts`) | rows with leases | claim, renew, send, release, dead-letter | `NotificationWorker` |
| Accepted-action gateway (`user-actions/`) | lifecycle records, payloads, queue, lock | submit, cancel, work off, recover | `UserActions`, `ActionLedger` |
| Application's action queue (`utils/userActionQueue.ts`) | queue, what it shows, checkpoint | submit, poll, cancel, settle, clear, recover | `ActionQueue` |
| Sessions (`auth/`, `stores/authStore.ts`) | session rows, vault or cookie, sign-out flag | refresh, log in, sign out | `AuthSessions` |
| Change feed (`tasks/task-list-change-feed.service.ts`, `timer/timer.gateway.ts`, `stores/timerStore.ts`, `stores/tasksStore.ts`) | revisions, envelopes, the device's Tasks | publish, connect, recover, load | `TaskListFeed` |
| Vacation (`vacation/vacation.service.ts`) | vacation row, due dates | start, end, configure, daily pass | `Vacation` |
| Reminders (`tasks/task-notification.service.ts`) | reminder columns, claims | scan, send, mark, rebuild | `TaskReminders` |
| Task lifecycle and recurrence, continuation plan, lists, intentions, statistics, assistant, transport, administration, rendering | rows, pure functions | CRUD, choice, aggregation | section 8 |

### How the parts interact, and what is hard about it

* **Everybody writes the Timer.** A request handler reads it, computes the next one in
  memory and writes it back in a script that compares `(Timer ID, scheduleRevision)`.
  The countdown claims by `(ID, startTime)`, the warning by `(ID, startTime)` and its
  flag, the leader by the score of the index member, the continuation worker by the
  source's identity. Each fence is different, so each pair of writers has to be compatible.
* **Two sources of completions.** A replica's countdown and the scheduler leader. The
  leader holds a lease it may outlive.
* **An index that mirrors the Timers**, rebuilt once by a leader while users write.
* **At-least-once delivery, additive effects.** Entries and rows are taken over from slow
  or dead owners; minutes, undo entries and successors must come once.
* **Two leases at once.** The continuation worker holds a PostgreSQL row lease and a Redis
  lock with different clocks.
* **Two queues in a row.** The application cannot know whether a submission arrived, and
  the gateway cannot know whether an action it was executing took effect.
* **Rotating credentials.** Answers to refreshes get lost or arrive after a sign-out.
* **Snapshots and deltas.** A device merges list answers, snapshots and envelopes, each
  cut from another revision, from several processes.
* **Rows saved as they were read.** TypeORM writes every column of a Task back, also those
  that a reminder scan, a claim or a vacation pass changed meanwhile.
* **Rollout switches.** Completion mode (`legacy`/`stream`) and idle mode
  (`legacy`/`durable`) are independent, and code of both kinds runs at once.

### What makes each part correct

* Runtime: no acknowledged write is lost; a Timer ID completes at most once, not early,
  and stays completed; a rebuilt index follows the Timer; the warning is claimed once;
  an overdue Timer is completed whoever is gone; a replica that started a Timer counts it.
* Delivery: an event leaves the stream only after its own effects; every effect once;
  an entry that nobody accepts does not keep others waiting.
* Idle detection: the user's work is never replaced by a durable claim; one long break
  per completion; a schedule marked ready is complete; an account left alone is detected.
* Continuation and notification: one successor and one undo entry per completion, nobody
  left on a completed Timer, notifications in order, and everything committed is processed.
* Gateway and queue: accepted actions run in order, at most once; a cancellation that was
  confirmed holds; what the application shows is true, and nothing accepted is forgotten.
* Sessions: a native application is never taken for a thief; only a login signs in.
* Feed: a device never shows less than its revision says, and is current when all is quiet.
* Vacation and reminders: no day or reminder counts twice without a cause, none is lost.

## 2. Plan

Done: all modules of section 3 with their runs, and the proofs of section 6: every property
of a passing run is proved except the liveness properties.

Left, in this order:

1. Task lifecycle: completion and its undo (a stale undo of an older completion rewinds a
   recurring Task, `tasks/tasks.service.ts:1951`), recurrence rules against a reference
   definition over bounded dates.
2. `ContinuationPlan`: the pure choice of the next Timer against a reference definition.
3. The watch's queue, the assistant's preparation store.

Proof style: constants carry named assumptions; actions are one per script or await;
invariants are conjunctions of named parts; no module that is proved about declares a
RECURSIVE operator.

## 3. The modules and the code

In every module an action is what happens between two awaits, or one script or
transaction; whatever is between two actions of one process interleaves with everything
else. Identities (UUIDs, tokens, secrets) are numbers or names, since only their equality
matters. Definitions marked "Mutant" are not part of the models (section 4).

### TimerRuntime

One account.

| Action | Code |
|---|---|
| `Prepare`, `CommitWrite`, `CommitConflict`, `FollowUp` | a handler's read and computation; `replaceCurrentTimer`; `ConflictException`; `pushTimerHistory` or what undo restores beside the Timer |
| `Abandon` | the process dies, or an await throws, between those |
| `LocalRead`, `LocalMiss`, `LocalQuarantine`, `LocalClaim`, `LocalClearHistory` | countdown or startup restoration, `claimRunningTimerCompletionByMode` with each of its outcomes, `clearTimerHistory` |
| `Warn` | `claimRunningTimerWarning` |
| `ClaimLease`, `NoticeLoss`, `LeaseLapse`, `LeaseLost` | `ensureLeadership`; the PX expiry of a dead holder; that of a live one |
| `Reconcile`, `FinishScan` | one account's part of `ensureCompletionScheduleReady`; setting the marker |
| `ReadDue`, `ScheduledMiss`, `ScheduledRepair`, `ScheduledClaim` | `getDueTimerCompletions`, then the outcomes of the claim script |
| `Crash`, `Tick`, `SetMode` | a replica dies; Redis time; the operator |

A Timer is an ID, a revision, a status, start, duration, remaining time, the warning flag
and whether the strict stream contract accepts it. `Init` allows what older releases left
behind: a Timer with no member or with a stale one, or one that fails the contract. `owed`
is a history variable: the duration that all acknowledged writes add up to.

### TimerCountdown

One process, one account. `handle` is the entry of `intervals` and where its check is,
`start` and `completion` are the two other activities that may be under way, `late` holds
warning claims whose handle was replaced after they were sent. `Commit` and
`CommitRestart` are a request's write with the refresh or stop-and-start that follows;
`Activate`, `StartEnds`, `Verify` are `activateTimerContinuation` and `startCountdown`;
`Fire`, `BootstrapEnds`, `CheckEnds`, `ClaimWarning`, `LateClaim` the timeout and
`runScheduledCheck`; `ClaimCompletion`, `NextTimer`, `CompletionEnds` the completion;
`StartFails`, `CheckFails`, `CompletionFails`, `StartUp` what fails, and a restart.
`RemoteWrite` and `Pass` are other processes and time. `abandoned` is history: the code
has left the Timer without a countdown for one of the reasons `CountdownStands` names.

### ExactlyOnceEffects and CompletionDelivery

`ExactlyOnceEffects` has two actions: an event is published; the effects of a published
event happen, all together, once per Timer ID, an extension's only on top of its
original's. `CompletionDelivery` is the consumer group. `ReadNew`, `Age`, `Recover`
move entries between the group and the consumers' hands (a pending entry is taken over
from any consumer, also from a slow living one); `Persist` is the transaction of
`persistCompletionEffects` with its receipt, its duplicate branch and its unique keys;
`Reject` and `CallFails` leave the entry pending; `Acknowledge` is the script that
deletes an entry only if it acknowledged it. The refinement maps `applied` to the
receipts and `minutes` to the statistics. The transaction is one action: transactions
on one Timer ID wait for each other on the receipt's key, those on one statistic on its
row.

### IdleDetection

One account, all parties. `PrepareJob` / `ReadJob` / `WriteJob` / `ArmJob` are the steps
of `persistIdleDetectionSchedule` in the per-account promise queue; `FireCallback`,
`ClaimLegacy`, `RecordLegacy`, `ClearLastCompletion`, `ClearSession`, `ReplaceLegacy`
those of `checkForLongIdlePeriod`, each of which may be the last one (`CallbackFails`);
`StartPass`, `ReadAccount`, `ScheduleAccount`, `MarkReady`, `ReadDue`, `ClaimDurable`
those of the leader. Completions come from the legacy handler (`CompleteByHandler`,
`SetLastCompletion`, `ClearDetected`, `AutoAdvance`) or from the stream
(`CompleteByStream`, then the continuation script: `ApplyContinuation`,
`ReapplyContinuation`, `FinishContinuation`). The Timer is its version and whether it
runs, is paused and whole ("rest") or is partly used or completed ("worn"), which is all
any of the scripts look at, but for one thing: a schedule's snapshot of the Timer is compared
as text, and `Reencodes` says whether a Timer that is read as JSON and written again is the
stored text (section 7). `calm` and `seen` are history (the user's writes when the
Timer came to rest, or when a snapshot was read).

Three restrictions are deliberate. `dropped` marks states after a late, unfenced removal
(`cancelIdleDetectionSchedule` in the branch that read no completion, and the tail of
the legacy callback) threw away a newer completion or schedule; the code does that and
the model does too, and the properties about the schedule are stated for the other
states. `Tick` waits while a handler is between `setLastCompletionTimestamp` and
`clearIdleDetected`: the two calls are milliseconds apart, a tick is a whole long break.
And `CanComplete` waits for the same two calls of the completion before: a Timer lasts
minutes. Without the last one, one long break per completion is false (section 7). A crash
between the two calls is in the model.

### ContinuationWorker

The rows of one account and all replicas' loops. `ClaimRows` is
`claimPendingTimerContinuations` for a batch; `TakeLock`, `LockBusy`, `RejectPayload`,
`ResolvePlan`, `Fence`, `ApplyPlan`, `Activate`, `PeekUndo`, `PushUndo`, `Conclude`,
`Unlock` are `processJob` from await to await; `Heartbeat` renews both leases.
`LeaseRunsOut`, `LockRunsOut` are those of a dead owner, `Stall` those of a live one;
`JobFails`, `CleanupFails`, `HeartbeatFails`, `WorkerCrash` what fails. A plan is the name
of the worker that made it up, `Old` one of the previous release, which is upgraded.
`Complete` and `Edit` are the rest of the system. `landed` and `lapse` are history.

### NotificationWorker

The rows of one account, numbered by `createdAt`. `ClaimNotice` with its `NOT EXISTS
(earlier)`, `RenewNotice`, `RejectNotice`, `Deliver`, `MarkNotice`, `NoticeHeartbeat` are
the loop; `RetryDue`, `NoticeLeaseRunsOut` time; `SenderStalls`, `SendFails`,
`SenderCrash`, `SenderDoubts` what fails. `CommitNotice` may come in another order than
the numbers, as `createdAt` is when the transaction began.

### ActionLedger, UserActions and ActionQueue

`ActionLedger` is what ADR 0012 promises, as far as the code keeps it: accept or cancel,
whichever is first; start in the order of acceptance; take effect at most once; finish with
a status that tells the truth or admits that nobody knows. There is one exception. Most
handlers commit first and do more afterwards, and if that fails the gateway calls the
action failed although it took effect (finding 5). The ledger admits this where it happens
(`FollowUpFails`, `broken`) and nowhere else: never of an action that leaves a receipt
(`VoiceCommits`), and never of one whose worker died.

`UserActions` implements it: `Submit` and `Cancel` are the scripts; `AcquireLock`,
`PeekQueue`, `SkipFinished`, `Abandoned`, `WaitForLease`, `TakeUp`, `MarkRunning`,
`ExecuteWithEffect`, `ExecuteInVain`, `WriteVerdict`, `PopQueue`, `ReleaseLock`,
`ResumeQueuedWork`, `RetryTimer` are `processUserQueue` and its retries; `AcquireFails`,
`CallThrows` (carried out or not), `SuccessNotWritten` (likewise), `ReleaseFails`,
`ResumeFails`, `GatewayCrash`, `LockLapses`, `PayloadExpires` what fails. Any action may
take effect and throw all the same, or throw without effect; `Caught` and
`CaughtBehindEffect` are what the catch block makes of it: a receipt proves the success of a
voice commit, unless it cannot be read; everything else has failed, and only a skip's
`TimerMutationOutcomeUnknown` says that nobody knows. The histories `lapsed`, `torn` (the
write of a success threw although it was carried out, and the catch block writes again) and
`missed` mark what the code does not promise to survive (section 7).

`ActionQueue` is the application in front of the ledger, of which it uses the actions and
nothing else (`GatewayRuns`, `PostArrives`, `DeleteArrives`). `TakeHead` has the four
ways a head is taken up; `ReceiptArrives`, `PostFails`, `PostRefused`, `PollAnswers`, `PollFails`,
`DeleteAnswers`, `DeleteRefused`, `DeleteFails`, `Refreshed`, `RefreshFails` the ends of
its awaits; `SocketUpdate`, `Clear`, `Reopen`, `Hydrate` what comes from outside. `unseen`
is what the stored checkpoint does not cover, `target` the item that carries the next one.

### AuthSessions

Session rows, and either a native process with a vault or browser tabs with one cookie.
`Inspect` and `Rotate` are the two steps of the server's refresh, `Receive` and
`BreakOff` its answer's arrival or loss; `BeginRefresh` to `ApplyRefreshed`, `BeginLogin`
to `ApplyLogin` and `BeginSignOut` to `FinishSignOut` the store's operations with their
vault writes (`Notify` is the log-out at the backend: two updates of which the second may
fail, or a 401); `Load` and `Close` a process's life. A secret is the number of rotations
before it: a row accepts the current and the previous one.

### TaskListFeed

`Change` commits a revision; `ReadCounter`, `Compare`, `ReadRows` cut an envelope in one
process, `ReadFails` sends a reset instead, before or after its mark has moved; `Deliver`
brings it; `Connect`, `PrimeRead`, `PrimeSet` are a connection's start;
`SnapshotRead`, `SnapshotApplied` the recovery; `OpenPage`, `ListRead`, `ListApplied` a
list load, with `overlay` and `fresh` for what the socket delivered meanwhile. A Task's
contents are the revision that gave it them. `missed` is history (section 7).

### Vacation and TaskReminders

`Vacation`: `StartPass` and `Process` are the minutely pass (its date is taken before the
row's lock), `ReadStart`/`Activate` (its date and time zone are taken before the
transaction), `ReadEnding`/`SaveEnding`, `Uncover`/`CoverChosen`/`Exclude`/`ResetDay` the
user's start, end and configuration (an update each: intentions, lists, exclusions),
`ReadItem`/`SaveItem` an edit of an item,
`SavePreferences`, `NextDay` the rest. Days are numbers; `joined` and `before` are history.

`TaskReminders`: `ClaimDue`, `ReadTask`, `Send`, `MarkDue`, `MarkRepeat`, `ReadAgain`,
`ReleaseTask` are a scan; `ReadRebuild`, `WriteRebuild` a rebuild; `EditRead`, `EditSave`
an update of the Task with the columns it read; `LeaseRunsOut`, `ScanFails`,
`RebuildFails`, `Crash` what fails. `causes` counts what may cost a spare reminder: a scan
that comes late (its lease ran out), fails or dies, a save that undoes a mark, and a late
scan's unconditional mark that sets the last repeat's time back (`SetBack`).

## 4. The runs

All passing runs are exhaustive within their bounds.

| Run | Instance | Shows |
|---|---|---|
| `timer_writes` | 2 handlers (all operations but undo), 1 replica, clock to 2, 3 UUIDs; or the countdown of one process, 4 writes, 1 trouble | no lost update, never early, a completed Timer stays completed, the warning is not taken back; the countdown stands |
| `timer_liveness` | 1 handler (extend, undo), 2 replicas, 1 fault, fair | one completion per Timer ID (undo meets no completion within 4 UUIDs), the index follows, an overdue Timer is completed by the scheduler alone |
| `idle_safety` | 2 replicas, legacy at first, 1 completion, one of a user's write, a save and a fault | one long break per completion, ready means scheduled |
| `core_liveness` | idle detection: 1 replica, durable, 1 write, 1 fault; or delivery: 3 events, one of them unparsable, 2 consumers, 2 faults; fair | an account left alone is detected, no durable claim over the user's work; every deliverable event is persisted and leaves the stream |
| `workers` | 2 continuation workers, 2 rows, 1 slip, 1 edit; or 2 senders, 3 notifications, 2 breakdowns; or the application's queue, 2 actions, 1 trouble, 1 clearing; fair | one successor, one undo entry, nobody left behind, notifications in order; everything settles |
| `actions` | 2 replicas, a voice commit and an ordinary action, 1 mishap, fair | gateway: at most once, cancellation wins, accepted is queued, the ledger is implemented, accepted is finished |
| `safety` | a native process, or 2 tabs, 3 refreshes, 1 accident; or a device, 2 processes, 2 changes; or 4 events, 2 consumers, 1 fault; or the application's queue with 2 sessions | never taken for a replay, only a login signs in; never behind, quiet is current; nothing lost or stranded, sums exact, exactly-once effects; next waits for the refresh, shown is true, nothing forgotten |
| `records` | 1 item of an intention, 2 processes, 3 days, 3 acts; or one Task, 2 processes, clock to 2, 1 edit, 1 trouble; fair | no day counts twice, every day counts; no spare reminder, none lost |
| `timer_undo_completed` | 1 handler (extend, undo) | **violated**: undo revives a completed Timer ID (finding 1) |
| `timer_undo_order` | 2 handlers (extend) | **violated**: the history is not in commit order (finding 2) |
| `idle_event_time` | 1 replica, durable, clock to 2 | **violated**: the event of a late claim is refused (finding 3) |
| `idle_stream_legacy` | 1 replica, legacy, fair | **violated**: stream completions arm no callback (finding 4) |

Some runs hold several models. An `MC` module composes them with a variable `part`, chosen
at the start, that says which of them moves while the others stay as they began. They
share no variable, so the run is the union of the models' own runs; the fairness of a
part that stands still is of actions that are not enabled there, or is guarded by `part`.

Every property of a passing run is paired in `PROJECT.json` ("mutants") with a changed
definition, the kind of slip the code could have (a dropped comparison, a forgotten
`zrem`, a duplicate counted again), under which the same run finds it violated. The
changed definitions stand in the modules, marked "Mutant".

### Why the bounds are enough

* Two of each racing party: every fence compares one party's reading with the current
  value, so a second writer between reading and writing is the case that matters. Two
  replicas suffice for a lease (one that holds it, one that believes it does). Three
  notifications give one before and one after the one that breaks down.
* The Timer's clock runs to 2 with durations of 1 and an increment of 1: before, at and
  after a deadline, with and without an extension. In the idle runs one tick is a whole
  long break; `idle_event_time` needs 2.
* `MaxFresh` bounds how many revisions user operations draw; claims may always draw one,
  so a bound never keeps the scheduler from acting.
* One fault, slip, mishap, trouble or accident takes every process, lease or call down at
  every point once; two where losing an answer and then the process is a case of its own
  (delivery, notifications).
* The constraints: `OneTrouble` (in `idle_safety`, a user's write, a save or a fault),
  `TwoUpsets` (in `safety`, two of a trouble, a clearing and a new session of the queue),
  `OneChangeWithBoth` (in `safety`, a page that opens and a failure meet one change). The
  invariants the proof of `idle_safety`'s properties rests on were searched for three ticks
  and two completions as well (6 million states).
* For what is proved (section 6) no bound matters: the bounds are constants there.
* Symmetry is used only in runs without liveness properties, on sets that the
  modules never order.

### Deadlock

All configurations say `CHECK_DEADLOCK FALSE`: the clock, the UUIDs, the completions
and the faults are bounded, so the models stop where the system would wait for its next
user. That nobody waits for anybody for ever is what the liveness properties say.

## 5. Fairness

* `TimerRuntime!FairSpec`: weak fairness of each replica's scheduler steps, since
  `runLoop` never returns and catches every error, and of the expiry of a dead lease,
  which Redis guarantees. Nothing is assumed of users, countdowns, the clock or the
  operator. `EventuallyCompleted` is conditional on the producer gate being left open.
* `CompletionDelivery!FairSpec`: weak fairness of each entry's step (a promise settles)
  and of the thirty seconds' passing; strong fairness of `ReadNew` and of `Recover`,
  each separately. One iteration of `runLoop` recovers if the last recovery is 30 s old
  and then reads in any case, so neither can be postponed for ever by the other; weak
  fairness would allow that, because working on a batch disables both over and over.
  Faults are bounded: a database that is down for ever persists nothing.
* `IdleDetection!FairSpec`: weak fairness of each replica's handler, queue, callback and
  leader loop, of the continuation worker (not of its retries), of lease expiry and of
  the clock; a replica that died is started again by its supervisor.
* `ContinuationFairness`, `NoticeFairness`: each loop goes on, transactions commit, leases
  and locks without a live owner expire, a retry's delay passes.
* `GatewayFairness`: the steps of each replica, its retry timers and `resumeQueuedWork`, the
  restart of a dead replica, the ageing of a running record, the expiry of an orphaned lock.
* `QueueFairness`: the event loop takes the head up, the retry timer fires, each request ends
  one way or another, and the gateway finishes what it accepted. Nothing is assumed of
  the user: an application that is closed and never opened settles nothing.
* `VacationFairness`, and for reminders scans, rebuilds, leases and the clock: intervals of
  each process go on, and a handler that began comes to its end.

`AuthSessions`, `TaskListFeed` and `TimerCountdown` are checked for safety only.

## 6. What is proved

For every value of the constants that satisfies the modules' named assumptions
(`RuntimeAssumption`, `DeliveryAssumption`, `IdleAssumption`, `ContinuationAssumption`,
`NotificationAssumption`, `GatewayAssumption`, `QueueAssumption`, `SessionConstants`,
`FeedConstants`, `VacationConstants`, `ReminderConstants`, `LedgerAssumption`: sets of naturals, finite sets of
sources, actions or processes, no process, token or item called "nobody" or "nothing", stream
IDs that identify events). The bounds are constants too, so the theorems do not depend on them.
`TimerCountdown` assumes nothing about its constants.

`TimerProofs`, about `TimerRuntime`:

* `TypeCorrect`. Lemmas give the type of every computed Timer.
* `VersionsHold`: what a handler read under the version that is current now is the
  current Timer. This is what makes the compare-and-set mean something. It needs that
  no version in use has still to be drawn (`VersionsDrawn`), so that a write under a new
  one is told apart from everything read before it; with `VersionIdentifies` and the
  types this is `VersionInv`.
* `NoLostUpdate` (`ExtensionsKept`): a write that passes the compare-and-set was computed
  from the Timer it replaces (by `VersionInv`), and `ComputedDuration` says what each
  operation does to the duration.
* `CompletedOnce`, `NeverRevived`: for `"undo" \notin Ops`. `CompletionInv` adds that
  a completed ID is either retired (new IDs are fresh) or that of the completed current
  Timer, and that a pause or a resume in flight was computed from a Timer that had not
  completed, so that it no longer matches the version of one that has. With undo both are
  false: finding 1.
* `WarningStays` (`WarningKept`), an action property, for `"undo" \notin Ops` as well:
  a write was computed from the Timer it replaces, so while the ID stays the flag goes back
  only with an extension, which adds time and with it another warning.
* `ClaimsNeverEarly`: with undo as well; both claim scripts compare Redis time with the
  deadline of the Timer they complete.
* `IndexFollowsTimer` (`ScheduleAgrees`): not inductive, as the marker may be set by any
  leader whose pass is over. The strengthening is `Visited => InSync`: as soon as some
  pass has visited the account, every step keeps its member in step with the Timer,
  whichever leader later finishes.

and about `TimerCountdown`:

* `CountdownStandsHolds` (`CountdownStands`) from `CountdownInv`. `Attended` is its heart:
  while a running Timer of this process has no handle, somebody is at work who leaves one
  (a start, a completion that will re-arm, or one that has still to claim the Timer), or the
  code has given up for one of the reasons the property names. It needs that what a
  watching handle saw holds as long as the Timer is not revised (`SeesTimer`), which
  needs that every write draws a revision nothing knows yet (`Ages`); that a late
  warning claim of a handle that was replaced revises no Timer that is being started
  (`LateOnes`); and `Shapes`.

`CompletionDeliveryProofs`:

* `DeliveryTypes`; `NoEventLost` and `NoEntryStranded` from `DeliveryInv`: what a consumer
  is about to acknowledge has a receipt (`HandsHonest`), idle entries are pending, the
  stream holds published events only.
* `DeliveryImplementsPromise`: each step maps to one step of `ExactlyOnceEffects` or to a
  stutter. The only interesting case, `PersistApplies`, needs that hands hold published
  events only (`HandsPublished`).

* `StatisticsAddUp` (`StatisticsExact`): the sum over the receipts grows by what a new one
  adds. The sum is a recursive function over finite sets, and the library's induction over
  them cannot be instantiated; `TotalAdd` takes a smallest counterexample instead, which
  exists because the strict subsets of a finite set are well-founded (`MinimalSubset`).

`IdleDetectionProofs`:

* `IdleTypes`: the type invariant, one step per action.
* `UserWorkIsSafe` (`NeverOverwritesUserWork`): a due member and a leader's pass may be
  old, so what the scheduler knows of the account is stale. The invariant `Fenced`
  (`FenceKept`) says why that is harmless: of every reading that is in the schedule or on
  its way there, the Timer version is already drawn; if it is the current version then
  the user has written nothing since; and a continuation that may still be applied
  brings a version that no reading holds. The last part is needed because a
  continuation's version is drawn long before it becomes current. `StepKinds` sorts the
  actions into four kinds of change of the versions, `VersionsMove` shows that each keeps
  what fitted before; the claim then compares the version and finds the user's writes
  unchanged.
* `OneBreakEach` (`OneLongBreakPerIdle`): that credits are few says nothing of what comes
  next. `OnceCredited` adds that whatever names a credited completion can claim nothing
  any more: `ClaimedOnce` (what a callback has claimed nobody else has claimed or recorded),
  `SpentIsOld` (a credited completion lies a long break back) and `Unspent` (none is credited
  of a last completion that waits, nor of one a plan or a handler is about to store).
  `CreditKinds` sorts the steps by what they do to credits, last completion and mark.
* `ReadyIsScheduled` (`ReadyMeansScheduled`), which assumes `Reencodes`: the marker is set at the end of a pass that
  began before the completion, the save or the continuation it should have seen.
  `Scheduled` says why that is right while nothing was dropped: a pass of the present
  generation that still has the account before it, or has read it, will write what is
  needed or was overtaken by somebody who wrote it; and once ready the schedule can be
  claimed as soon as it is due. A generation that was replaced binds nobody. `ScheduleKinds`
  sorts the steps into those that leave the account alone, move a pass, mark or outdate.

`WorkersProofs`, about `ContinuationWorker`:

* `ContinuationTyped`; `NotLeftBehindHolds`, `OneSuccessorHolds` from `ContinuationInv`: a row
  that was never committed has no plan; a row exists for completed sources only
  (`RowsFollow`); what a worker is going to apply is the plan the row holds, unless it has
  lost the row (`ReadIsStored`), and a stored plan never changes again (`Planned`,
  `PlansStay`); a worker past the script has moved the account on (`MovedOn`).
* `OneUndoEntryHolds` from `UndoInv`: as long as nothing lapses, two workers are never past
  the lock with the same row (`Exclusive`), so that what one saw in the history is still
  so when it writes (`StillUnrecorded`).

and about `NotificationWorker`: `NoticesTyped`; `HeardInOrderHolds`. What is settled stays settled
(`SettledStays`), and a row that was claimed has only settled or overtaken ones before it
(`ClaimedInOrder`), which survives lost leases because it is about the row and not its worker.

`ActionsProofs`, about `UserActions`:

* `NeverReplayedHolds`, `CancellationWinsHolds`, `AcceptedIsQueuedHolds` from `GatewayInv`.
  `LedgerChanges` sorts all steps into those that accept, cancel, mark, affect, conclude or
  pop. Until a lock lapses, one replica is at work at most (`Holding`), on the queue's head
  (`AtHead`, `OnRecord`), what waits has left no trace in the log (`WaitsUntouched`), what it
  is about to write is true, or is a failure with an error behind the effect and without a
  receipt (`TrueVerdict`), and the queue is the arrivals that are not over,
  in order (`Line`).
* `GatewayImplementsLedger`: each step is a step of `ActionLedger` or a stutter; that a start
  respects the order of acceptance (`HeadIsNext`) needs `Line`.

and about `ActionQueue`:

* `QueueInvHolds`. Beside the types (`QueueTypes`), `QueueInv` says: what the queue waits for
  concerns its head (`Phases`); an item stands in it once (`Once`); what was never sent has
  no record (`Histories`); what was sent is settled or the head, or was recovered
  (`SentBefore`); an effect belongs to an accepted action (`EffectsTold`); every final status
  shown is what the record says, and records are final for good (`ToldTrue`); and what the
  stored checkpoint does not cover is found again, what it is about to cover is settled
  (`Remembered`). `StepSorts` sorts every step by what it does to records, items and
  checkpoint, and each sort is shown to keep `Kept`.
* `ShownIsTrueHolds`, `NextWaitsForRefreshHolds`, `NothingForgottenHolds` follow.
* `QueueSeesLedger`: the queue with its environment implements `ActionLedger`. With
  `GatewayImplementsLedger` this joins the two models: all the queue relies on is what the
  gateway does until a lock lapses or the write of a success throws that was carried out.

`AuthSessionsProofs`: `SessionsTyped`; `ShapeHolds` (who waits for which request, what a dead
process has); `OnlyLoginReturnsHolds`, an action property: every operation that could sign a
process in compares what it began with; `NeverTakenForReplayHolds`: in a native process the
vault's secret is at most one rotation old, because at most one refresh of it is under way,
and one that was broken off either did not rotate or has left its secret as the previous one.

`TaskListFeedProofs`:

* `FeedTyped`: the type invariant.
* `NeverBehindHolds` from `FeedInv`: nothing anywhere (marks, envelopes, readings, loads)
  knows a revision that is still to come (`Past`); what the device shows, what the socket
  left in the overlay and what a list load brings are each up to date with the revision
  that stands beside them (`UpToDate`). A merge of two such is up to the later of the two.
* `QuietIsCurrentHolds` from `OwingInv`: as long as nothing was `missed`, whatever a
  connected device lacks is still owed to it (`Owing`): its process has it to announce, an
  envelope that says so is on its way, its connection is being primed, or it is catching up
  itself. Marks and readings go forward only (`Forward`), so no envelope hides a gap.

`RecordsProofs`:

* `VacationInvHolds`, `NeverOvershiftsHolds` from `VacationInv`: an item was moved, since it
  joined, by no more than the days up to its last shifted one (`Bounds`), in the database as
  well as in a copy that an edit read and will save. This needs that what was read was once
  so (`Reads`), that what is covered joined no later than it was touched or the vacation
  began (`Joins`, `Clocks`), and what a deactivation that comes late may write (`Rows`): it
  puts an older row back, ended, or has read the days of the present run.
* `ReminderInvHolds`, `NoSpareReminderHolds` from `ReminderInv`, which keeps accounts: every
  scan that goes on without its claim has a cause of its own (`StrayCount`); due reminders
  sent, one if another may still be sent, and the scans without a claim that will bring one
  about are at most one more than the causes (`DueCount`); repeats sent and those about to be
  sent are at most the intervals that have passed up to some instant and the causes, where the
  instant is one after which the claim's holder sends no second (`RepeatCount`). That a save
  keeps what it did not mean to change is `DraftOk`. Sets of scans are finite because the
  processes are.

Steps that preserve an invariant are proved action by action, or by kinds of action where
many do the same to what the invariant speaks of.

Checked with TLC only are the liveness properties, because fairness and ENABLED are beyond
the prover: `EventuallyCompleted`, `AcceptedIsFinished`, `EverythingSettles`, `IdleIsDetected`,
`QueuedIsSettled`, `ContinuationsSettle`, `NoticesSettle`, `VacationCatchesUp` and
`RemindersCatchUp`.

## 7. Findings

Each of the first four is a run that TLC finds violated by what the code does; the last two
are cases the models contain and the properties are stated around.

1. `timer_undo_completed`: with completions in stream mode the undo history survives the
   claim until the continuation is applied, so undo restores the completed Timer under
   its own ID and it completes again. The second event has the ID of the first one's
   receipt and another payload: it is rejected on every delivery
   (`timer/timer.service.ts:1298`, ADR 0015).
2. `timer_undo_order`: the Timer is written by a compare-and-set and its history entry by
   a later, unfenced call; two actions in flight are recorded in the wrong order
   (`timer/timer.service.ts:1725`, `CONTEXT.md:240`).
3. `idle_event_time`: the durable idle claim reports the time of the claim as `detectedAt`,
   its consumers require start plus duration to equal it. A claim that is late by a
   millisecond replaces the Timer, and its long break is never recorded
   (`timer/timer-store.ts:593`, `timer/timer-idle-detection-stream.service.ts:268`).
4. `idle_stream_legacy`: with stream completions and legacy idle detection no callback is
   armed after a completion (`timer/timer.service.ts:2398`, ADR 0015).
5. An action that took effect and then threw is reported as failed with a known outcome.
   `addFiveMinutesTimer` commits and then builds and pushes its history entry
   (`timer/timer.service.ts:1240`), either of which may throw; `startLongBreakTimer` (`:1256`)
   and `convertLongBreakToBreak` (`:1280`) have the same shape, and a skip's
   `createOrResumeTimer` stands before the block that turns errors into
   `TimerMutationOutcomeUnknown`. The catch block writes a plain `failed`
   (`user-actions/user-actions.service.ts:462`), after which the application does not refresh
   and submits the next action, although ADR 0012 has it wait for the refreshed state, and a
   test names the intent ("marks a committed Timer transition with failed effects as outcome
   unknown", `test/unit/user-actions.service.test.ts:578`). The same happens when the write of
   a success fails. `ActionLedger` permits it (`broken`), and `ImplementsLedger` says that it
   happens in no other case.
6. `scheduleIdleDetection` compares the stored text of the Timer with `JSON.stringify` of what
   was parsed from it (`timer/timer-store.ts:1371`, `:1395`), while the scripts store what
   `cjson.encode` makes (`:907`). A slash in a text (`\/`) or the order of numeric keys differs,
   so such a Timer is stale for ever; a pass then marks the schedule ready without the
   account, contrary to ADR 0015 ("Reconcile legacy last-completion keys under the scheduler
   lease before publishing idle-schedule readiness"). With `Reencodes = FALSE` the
   model shows it; the runs and `ReadyIsScheduled` are for Timers that read back as stored.

What else the code does and the properties therefore leave out, or hazards without a property:

* Idle detection: a legacy handler stalled between its two writes for longer than the next
  Timer and a long break clears the mark of a stream completion that was claimed, and the
  break is credited twice; the attempt to prove `OneBreakEach` found this, and `CanComplete`
  now excludes it. A late removal throws a newer schedule away (`timer-store.ts:1325`,
  `dropped`); the legacy callback clears the last completion and creates a Timer unfenced
  (`timer-idle.service.ts:257`).
* Countdown: no handle is left after a start that failed behind its stop, when a check meets
  the completion before it (`timer-countdown.service.ts:259`), when an activation stops its
  own (`timer.service.ts:2420`); a warning claim may be lost with a replaced handle (`:232`).
* Scheduler: one corrupt Timer keeps the index from ever being ready
  (`timer-completion-scheduler.service.ts:149`).
* Effects: an extension whose original's statistic was deleted is rejected for ever
  (`timer-completion-effects.service.ts:225`).
* Notifications: one that fails on every attempt blocks its account
  (`timer-completion-outbox.service.ts:157`).
* Gateway: a lock that lapses under a holder that goes on lets two replicas pop and execute
  (`lapsed`); a success that was written although its call threw is written over with a
  failure (`torn`); a retry
  timer that fires while its worker is busy is spent (`missed`,
  `user-actions.service.ts:489`).
* Application's queue: clearing hides recovered actions that run (`dropped`,
  `utils/userActionQueue.ts:1084`); a cancellation answered "succeeded" is not refreshed
  (`wants`, `:807`); after a change of account the old loop removes an item of the new one
  (`:873`).
* Sessions: browser tabs share a cookie, and a late `Set-Cookie` can put a secret two
  rotations old back, which revokes the session; `acceptSession` does not bump the epoch
  (`stores/authStore.ts:160`).
* Feed: an envelope applied while an older snapshot loads is overwritten, a reset to
  revision 0 says nothing to catch up to, a process that dies loses its announcement
  (`timer.gateway.ts:105`) (all `missed`); a deleted Task leaves no overlay.
* Reminders: a scan that outlasts its lease sends a spare repeat, and its mark, which is
  unconditional, then sets `lastUrgentReminderAt` back, so that a further spare one follows
  (`tasks/task-notification.service.ts:369`). That is two for one stalled scan, which the runs'
  clock is too short to show; the attempt to prove `NoSpareReminder` found it, and `SetBack`
  now counts the second as well.
* Tasks: `updateTask` saves every column as it read it and undoes a concurrent reminder mark,
  claim or vacation shift; ending and restarting a vacation on one day moves due dates twice;
  a stale undo of an older completion rewinds a recurring Task
  (`tasks/tasks.service.ts:1951`).

`PROJECT.json` lists the hazards at their lines, with a note where no property covers one.

## 8. What is not modelled, and why

* *Inside the modelled parts*: redo, skip and the conversion to a long break as operations
  of their own (they write through the compare-and-set); the contents of quarantines; slug
  renames; preferences that switch idle detection off; long-break Timers in `IdleDetection`;
  deleting a statistic or an account while its events are pending; keys lost by Redis; the
  wording and devices of notifications; a change of account in the application; Lists in the
  feed; the choice of items a vacation covers; several accounts anywhere (they share only
  batches).
* *A torn reading*: `scheduleIdleDetection` reads three keys one by one. The model reads
  them at once; a mixture fails the script's comparisons as an overtaken reading does.
* *Planned* (section 2): Task lifecycle and recurrence, the continuation plan, the watch's
  queue, the assistant's preparation.
* *Left out*: CRUD services without shared in-memory state (intentions, lists,
  descriptions, feedback), aggregation queries (statistics), the assistant (an external
  model provider), push transport, translations, administrative transfer, rendering and
  native shells.

## 9. Working with it

    tlc -workers 2 -config timer_writes.cfg MCTimerWrites
    tlapm IdleDetectionProofs.tla

`PROJECT.json` names the module of each configuration. The runs take one to three minutes
each, the longest proofs (`ActionsProofs`, `TimerProofs`,
`IdleDetectionProofs`, `RecordsProofs`) some minutes.
