---------------------------- MODULE UserActions ----------------------------
(***************************************************************************)
(* The accepted-action gateway of one user: UserActionsService on several  *)
(* backend replicas over UserActionsStore in Redis.  A submission is one   *)
(* script that records the action and appends it to the queue.  Whichever  *)
(* replica holds the user's lock works the queue off: it reads the head,   *)
(* marks it running, executes it, writes its final status and pops the     *)
(* queue.  Each of these is a Redis call of its own, and between any two   *)
(* of them the process may die, a call may fail with or without having     *)
(* been carried out, or the lock may lapse although its holder goes on     *)
(* (its heartbeats fail silently, or it stalls for LOCK_TTL_MS).           *)
(*                                                                         *)
(* The domain call (executeAction) is one step that takes effect or does   *)
(* not, and may throw in either case: most handlers commit first and have  *)
(* follow-ups, such as the Timer's history entry, that can still fail.  A  *)
(* process that is told to stop is one that dies: onModuleDestroy clears   *)
(* what a dead process loses.  Records (7 days) and tombstones (10         *)
(* minutes) outlive the behaviours looked at here.                         *)
(***************************************************************************)
EXTENDS ActionLedger

CONSTANTS
    Replicas,   \* backend processes
    MaxMishaps  \* bound on crashes, failed calls, lapsed locks, expired payloads

Free == "free"
Orphan == "orphan"  \* the token of a call that nobody renews or releases
Nothing == "nothing"

ASSUME GatewayAssumption ==
    /\ {Free, Orphan} \cap Replicas = {} /\ Nothing \notin Actions
    /\ MaxMishaps \in Nat

VARIABLES
    payload,   \* actions whose execution payload is stored
    queue,     \* the user's queue
    lock,      \* holder of the user's lock
    stale,     \* running actions whose record is older than RUNNING_LEASE_MS
    at,        \* at[r]: where r's processUserQueue is
    head,      \* head[r]: the action it works on, or Nothing
    verdict,   \* verdict[r]: the final status it is going to write, or Nothing
    retry,     \* retry[r]: a queue retry timer is set
    resuming,  \* resuming[r]: resumeQueuedWork is under way
    torn,      \* the write of a "succeeded" threw although it was carried out
    missed,    \* a retry timer fired when it could do nothing
    lapsed,    \* a lock has expired under a holder that goes on
    mishaps    \* mishaps so far

store == <<payload, queue, lock, stale>>
process == <<at, head, verdict, retry, resuming>>
history == <<torn, missed, lapsed, mishaps>>
gatewayVars == <<ledgerVars, store, process, history>>

Over(a) == record[a] \in Terminal

-----------------------------------------------------------------------------
(* Handlers *)

Move(r, place) == at' = [at EXCEPT ![r] = place]

Decide(r, place, status) ==
    /\ Move(r, place)
    /\ verdict' = [verdict EXCEPT ![r] = status]

\* The loop is left, and its local variables with it.
Leave(r, place) ==
    /\ Move(r, place)
    /\ head' = [head EXCEPT ![r] = Nothing]
    /\ verdict' = [verdict EXCEPT ![r] = Nothing]

\* processUserQueue: one at a time in a process.
Kicked(r, places) == IF places[r] = "idle" THEN [places EXCEPT ![r] = "lock"] ELSE places

\* The script finds neither a record nor a tombstone.
IsNew(a) == record[a] = "none"

\* submit, and the kick for a status that is or was accepted.
Submit(r, a) ==
    /\ at[r] # "down"
    /\ IF IsNew(a)
       THEN /\ record' = [record EXCEPT ![a] = "accepted"]
            /\ arrivals' = Append(arrivals, a)
            /\ payload' = payload \cup {a}
            /\ queue' = Append(queue, a)
       ELSE UNCHANGED <<record, arrivals, payload, queue>>
    /\ at' = IF record'[a] = "accepted" THEN Kicked(r, at) ELSE at
    /\ UNCHANGED <<log, broken, lock, stale, head, verdict, retry, resuming, history>>

\* Mutant: cancellation does not look for a record.
CancelsAnything(a) == ~Over(a)

\* cancel: acceptance wins, otherwise the tombstone does.
Cancellable(a) == record[a] = "none"

Cancel(a) ==
    /\ Cancellable(a)
    /\ record' = [record EXCEPT ![a] = "cancelled"]
    /\ UNCHANGED <<arrivals, log, broken, store, process, history>>

\* The timer of scheduleQueueRetry fires, possibly while this process is still
\* at work on the queue: then the wake-up is spent on nothing.
RetryTimer(r) ==
    /\ retry[r]
    /\ retry' = [retry EXCEPT ![r] = FALSE]
    /\ at' = Kicked(r, at)
    /\ missed' = (missed \/ at[r] # "idle")
    /\ UNCHANGED <<ledgerVars, store, head, verdict, resuming, torn, lapsed, mishaps>>

-----------------------------------------------------------------------------
(* processUserQueue *)

\* A replica that finds the lock taken tries again.
RetryWhenBusy(r) == [retry EXCEPT ![r] = TRUE]

AcquireLock(r) ==
    /\ at[r] = "lock"
    /\ IF lock = Free
       THEN lock' = r /\ Move(r, "peek") /\ UNCHANGED retry
       ELSE Move(r, "idle") /\ retry' = RetryWhenBusy(r) /\ UNCHANGED lock
    /\ UNCHANGED <<ledgerVars, payload, queue, stale, head, verdict, resuming, history>>

\* queueHead; an empty queue clears the retry timer.
PeekQueue(r) ==
    /\ at[r] = "peek"
    /\ IF queue = <<>>
       THEN /\ Move(r, "release")
            /\ retry' = [retry EXCEPT ![r] = FALSE]
            /\ UNCHANGED head
       ELSE /\ Move(r, "read")
            /\ head' = [head EXCEPT ![r] = Head(queue)]
            /\ UNCHANGED retry
    /\ UNCHANGED <<ledgerVars, store, verdict, resuming, history>>

\* readStatus of an action that is over, or that has no record any more.
SkipFinished(r) ==
    /\ at[r] = "read"
    /\ record[head[r]] \notin {"accepted", "running"}
    /\ Move(r, "pop")
    /\ UNCHANGED <<ledgerVars, store, head, verdict, retry, resuming, history>>

\* recoverRunningAction: a receipt proves success, but it is written behind
\* the effect, and reading it may fail.
Recovered(a) == {"unknown"} \cup (IF a \in VoiceCommits /\ InEffect(a) THEN {"succeeded"} ELSE {})

\* Mutant: what a dead worker left behind is executed again.
ReplayAbandoned(r) ==
    /\ record[head[r]] = "running" /\ head[r] \in stale
    /\ Move(r, "execute")
    /\ UNCHANGED verdict

\* Mutant: what a dead worker left behind has simply failed.
AbandonedFails(r) ==
    /\ record[head[r]] = "running" /\ head[r] \in stale
    /\ Decide(r, "close", "failed")

\* A running action whose lease is over: a receipt, or nobody knows.
GiveUp(r) ==
    /\ record[head[r]] = "running" /\ head[r] \in stale
    /\ \E s \in Recovered(head[r]) : Decide(r, "close", s)

\* readStatus of an abandoned action.
Abandoned(r) ==
    /\ at[r] = "read"
    /\ GiveUp(r)
    /\ UNCHANGED <<ledgerVars, store, head, retry, resuming, history>>

\* readStatus of an action that is running somewhere: come back later.
WaitForLease(r) ==
    /\ at[r] = "read"
    /\ record[head[r]] = "running" /\ head[r] \notin stale
    /\ Leave(r, "release")
    /\ retry' = [retry EXCEPT ![r] = TRUE]
    /\ UNCHANGED <<ledgerVars, store, resuming, history>>

\* readStatus of an accepted action clears the retry timer.
TakeUp(r) ==
    /\ at[r] = "read"
    /\ record[head[r]] = "accepted"
    /\ Move(r, "mark")
    /\ retry' = [retry EXCEPT ![r] = FALSE]
    /\ UNCHANGED <<ledgerVars, store, head, verdict, resuming, history>>

Marked(a) == [record EXCEPT ![a] = "running"]

\* writeStatus(running), whatever the record says by now.
MarkRunning(r) ==
    /\ at[r] = "mark"
    /\ record' = Marked(head[r])
    /\ stale' = stale \ {head[r]}
    /\ Move(r, "execute")
    /\ UNCHANGED <<arrivals, log, broken, payload, queue, lock, head, verdict, retry, resuming,
                   history>>

-----------------------------------------------------------------------------
(* Execution and its outcome *)

\* The catch block: whatever is no voice commit has failed, and nothing more.
Caught(a) == IF a \in VoiceCommits THEN Recovered(a) ELSE {"failed"}

\* What it makes of an error behind the effect.  Only the follow-ups of a skip
\* throw TimerMutationOutcomeUnknown; every other error is a plain failure.
CaughtBehindEffect(a) ==
    {"unknown"} \cup (IF a \in VoiceCommits THEN {"succeeded"} ELSE {"failed"})

\* readExecutionAction and executeAction, which takes effect.  The second
\* alternative throws all the same.
ExecuteWithEffect(r) ==
    /\ at[r] = "execute"
    /\ head[r] \in payload
    /\ log' = Append(log, head[r])
    /\ \/ Decide(r, "write", "succeeded") /\ UNCHANGED broken
       \/ /\ \E s \in CaughtBehindEffect(head[r]) : Decide(r, "close", s)
          /\ broken' = broken \cup {head[r]}
    /\ UNCHANGED <<record, arrivals, store, head, retry, resuming, history>>

\* The payload has expired, or the domain refuses.
ExecuteInVain(r) ==
    /\ at[r] = "execute"
    /\ \E s \in Caught(head[r]) : Decide(r, "close", s)
    /\ UNCHANGED <<ledgerVars, store, head, retry, resuming, history>>

WriteStatus(a, status) ==
    /\ record' = [record EXCEPT ![a] = status]
    /\ stale' = stale \ {a}
    /\ broken' = broken \ {a}

\* writeStatus(verdict), in the try block ("write") or outside it ("close").
WriteVerdict(r) ==
    /\ at[r] \in {"write", "close"}
    /\ WriteStatus(head[r], verdict[r])
    /\ Move(r, "pop")
    /\ verdict' = [verdict EXCEPT ![r] = Nothing]
    /\ UNCHANGED <<arrivals, log, payload, queue, lock, head, retry, resuming, history>>

\* Mutant: the whole queue is deleted.
QueueDeleted(r) == <<>>

\* LPOP removes the head, whichever action that is by now.
Popped(r) == IF queue = <<>> THEN queue ELSE Tail(queue)

\* removeExecutionAction and removeQueueHead.
PopQueue(r) ==
    /\ at[r] = "pop"
    /\ payload' = payload \ {head[r]}
    /\ queue' = Popped(r)
    /\ Leave(r, "peek")
    /\ UNCHANGED <<ledgerVars, lock, stale, retry, resuming, history>>

\* The finally block: releaseLock compares the token.
ReleaseLock(r) ==
    /\ at[r] = "release"
    /\ lock' = IF lock = r THEN Free ELSE lock
    /\ Move(r, "idle")
    /\ resuming' = [resuming EXCEPT ![r] = TRUE]
    /\ UNCHANGED <<ledgerVars, payload, queue, stale, head, verdict, retry, history>>

\* Mutant: work accepted while the lock was being released is left alone.
NothingToResume(r) == FALSE

\* resumeQueuedWork finds a head that is not running.
WorkLeft(r) == queue # <<>> /\ record[Head(queue)] # "running"

ResumeQueuedWork(r) ==
    /\ resuming[r]
    /\ resuming' = [resuming EXCEPT ![r] = FALSE]
    /\ at' = IF WorkLeft(r) THEN Kicked(r, at) ELSE at
    /\ UNCHANGED <<ledgerVars, store, head, verdict, retry, history>>

-----------------------------------------------------------------------------
(* What goes wrong *)

Mishap == mishaps < MaxMishaps /\ mishaps' = mishaps + 1

\* acquireLock throws: the lock may have been taken all the same.
AcquireFails(r) ==
    /\ at[r] = "lock" /\ Mishap
    /\ Move(r, "idle")
    /\ retry' = [retry EXCEPT ![r] = TRUE]
    /\ lock' \in {lock, IF lock = Free THEN Orphan ELSE lock}
    /\ UNCHANGED <<ledgerVars, payload, queue, stale, head, verdict, resuming, torn, missed, lapsed>>

\* A call inside the loop throws, having been carried out or not: the outer
\* catch block schedules a retry, the finally block releases the lock.
CallThrows(r) ==
    /\ at[r] \in {"peek", "read", "mark", "close", "pop"} /\ Mishap
    /\ Leave(r, "release")
    /\ retry' = [retry EXCEPT ![r] = TRUE]
    /\ \/ UNCHANGED <<record, broken, payload, queue, stale>>
       \/ /\ at[r] = "mark"
          /\ record' = Marked(head[r]) /\ stale' = stale \ {head[r]}
          /\ UNCHANGED <<broken, payload, queue>>
       \/ /\ at[r] = "close"
          /\ WriteStatus(head[r], verdict[r])
          /\ UNCHANGED <<payload, queue>>
       \/ /\ at[r] = "pop"
          /\ payload' = payload \ {head[r]} /\ queue' \in {queue, Popped(r)}
          /\ UNCHANGED <<record, broken, stale>>
    /\ UNCHANGED <<arrivals, log, lock, resuming, torn, missed, lapsed>>

\* writeStatus(succeeded) throws inside the try block, carried out or not: the
\* catch block takes it for an error of the action.
SuccessNotWritten(r) ==
    /\ at[r] = "write" /\ Mishap
    /\ \E s \in Caught(head[r]) : Decide(r, "close", s)
    /\ \/ broken' = broken \cup {head[r]} /\ UNCHANGED <<record, stale, torn>>
       \/ WriteStatus(head[r], "succeeded") /\ torn' = TRUE
    /\ UNCHANGED <<arrivals, log, payload, queue, lock, head, retry, resuming, missed, lapsed>>

\* releaseLock throws, which is ignored: the lock stays until it expires.
ReleaseFails(r) ==
    /\ at[r] = "release" /\ Mishap
    /\ lock' = IF lock = r THEN Orphan ELSE lock
    /\ Move(r, "idle")
    /\ resuming' = [resuming EXCEPT ![r] = TRUE]
    /\ UNCHANGED <<ledgerVars, payload, queue, stale, head, verdict, retry, torn, missed, lapsed>>

\* resumeQueuedWork throws.
ResumeFails(r) ==
    /\ resuming[r] /\ Mishap
    /\ resuming' = [resuming EXCEPT ![r] = FALSE]
    /\ retry' = [retry EXCEPT ![r] = TRUE]
    /\ UNCHANGED <<ledgerVars, store, at, head, verdict, torn, missed, lapsed>>

\* A process dies, with its timers.
GatewayCrash(r) ==
    /\ at[r] # "down" /\ Mishap
    /\ Leave(r, "down")
    /\ retry' = [retry EXCEPT ![r] = FALSE]
    /\ resuming' = [resuming EXCEPT ![r] = FALSE]
    /\ lock' = IF lock = r THEN Orphan ELSE lock
    /\ UNCHANGED <<ledgerVars, payload, queue, stale, torn, missed, lapsed>>

\* onModuleInit goes to work on every queue there is.
FirstMove(r) == IF queue = <<>> THEN "idle" ELSE "lock"

GatewayRestart(r) ==
    /\ at[r] = "down"
    /\ Move(r, FirstMove(r))
    /\ UNCHANGED <<ledgerVars, store, head, verdict, retry, resuming, history>>

\* The lock of nobody expires.
OrphanExpires ==
    /\ lock = Orphan
    /\ lock' = Free
    /\ UNCHANGED <<ledgerVars, payload, queue, stale, process, history>>

\* The lock expires under a holder that goes on.
LockLapses(r) ==
    /\ lock = r
    /\ Mishap
    /\ lapsed' = TRUE
    /\ lock' = Free
    /\ UNCHANGED <<ledgerVars, payload, queue, stale, process, torn, missed>>

\* Sixty seconds have passed since the record of a became running.
RunningAges(a) ==
    /\ record[a] = "running" /\ a \notin stale
    /\ stale' = stale \cup {a}
    /\ UNCHANGED <<ledgerVars, payload, queue, lock, process, history>>

\* A day has passed since a was accepted.
PayloadExpires(a) ==
    /\ a \in payload /\ Mishap
    /\ payload' = payload \ {a}
    /\ UNCHANGED <<ledgerVars, queue, lock, stale, process, torn, missed, lapsed>>

-----------------------------------------------------------------------------

GatewayInit ==
    /\ LedgerInit
    /\ payload = {} /\ stale = {} /\ torn = FALSE /\ missed = FALSE /\ lapsed = FALSE
    /\ queue = <<>> /\ lock = Free
    /\ at = [r \in Replicas |-> "idle"]
    /\ head = [r \in Replicas |-> Nothing]
    /\ verdict = [r \in Replicas |-> Nothing]
    /\ retry = [r \in Replicas |-> FALSE]
    /\ resuming = [r \in Replicas |-> FALSE]
    /\ mishaps = 0

WorkerStep(r) ==
    \/ AcquireLock(r) \/ PeekQueue(r)
    \/ SkipFinished(r) \/ Abandoned(r) \/ WaitForLease(r) \/ TakeUp(r)
    \/ MarkRunning(r) \/ ExecuteWithEffect(r) \/ ExecuteInVain(r)
    \/ WriteVerdict(r) \/ PopQueue(r) \/ ReleaseLock(r)

Fault(r) ==
    \/ AcquireFails(r) \/ CallThrows(r) \/ SuccessNotWritten(r)
    \/ ReleaseFails(r) \/ ResumeFails(r)
    \/ GatewayCrash(r) \/ LockLapses(r)

GatewayNext ==
    \/ \E r \in Replicas :
          \/ \E a \in Actions : Submit(r, a)
          \/ RetryTimer(r) \/ ResumeQueuedWork(r) \/ GatewayRestart(r)
          \/ WorkerStep(r)
          \/ Fault(r)
    \/ \E a \in Actions : Cancel(a) \/ RunningAges(a) \/ PayloadExpires(a)
    \/ OrphanExpires

GatewaySpec == GatewayInit /\ [][GatewayNext]_gatewayVars

\* Promises are kept up to scheduling, timers fire, keys expire, the clock goes
\* on, and a dead process is started again.
GatewayFairness ==
    /\ \A r \in Replicas :
         /\ WF_gatewayVars(WorkerStep(r))
         /\ WF_gatewayVars(RetryTimer(r))
         /\ WF_gatewayVars(ResumeQueuedWork(r))
         /\ WF_gatewayVars(GatewayRestart(r))
    /\ \A a \in Actions : WF_gatewayVars(RunningAges(a))
    /\ WF_gatewayVars(OrphanExpires)

FairGatewaySpec == GatewaySpec /\ GatewayFairness

-----------------------------------------------------------------------------
(* Properties *)

GatewayPlaces ==
    {"down", "idle", "lock", "peek", "read", "mark", "execute", "write", "close", "pop",
     "release"}

\* The types of the gateway's variables.
GatewayTypes ==
    /\ LedgerTypes
    /\ payload \subseteq Actions /\ stale \subseteq Actions
    /\ torn \in BOOLEAN /\ missed \in BOOLEAN /\ lapsed \in BOOLEAN
    /\ queue \in Seq(Actions)
    /\ lock \in Replicas \cup {Free, Orphan}
    /\ at \in [Replicas -> GatewayPlaces]
    /\ head \in [Replicas -> Actions \cup {Nothing}]
    /\ verdict \in [Replicas -> {"succeeded", "failed", "unknown", Nothing}]
    /\ retry \in [Replicas -> BOOLEAN] /\ resuming \in [Replicas -> BOOLEAN]
    /\ mishaps \in Nat

\* As long as no lock lapsed under its holder, no action takes effect twice,
\* whatever crashes, fails or is submitted again.
NeverReplayed ==
    ~lapsed => \A i, j \in 1..Len(log) : log[i] = log[j] => i = j

\* An action whose cancellation won never takes effect, lapse or no lapse, and
\* is in nobody's hands.
CancellationWins ==
    \A a \in Actions : record[a] = "cancelled" => ~InEffect(a)

\* As long as no lock lapsed, an accepted action waits in the queue until it
\* has a final status: a process that starts finds all the work there is.
AcceptedIsQueued ==
    ~lapsed =>
        \A a \in Actions : record[a] \in {"accepted", "running"} =>
            \E i \in 1..Len(queue) : queue[i] = a

\* Until a lock lapses, or the write of a success throws although it was
\* carried out, every step of the gateway is one of the ledger or leaves it
\* alone: acceptance and cancellation exclude each other, actions run one at a
\* time in order, a final status is final, "succeeded" is true, and a "failed"
\* action took no effect unless an error came behind it and it leaves no
\* receipt.  What a dead worker left behind is never called failed.
ImplementsLedger ==
    [][lapsed' \/ torn' \/ [LedgerNext]_ledgerVars]_gatewayVars

\* What was accepted is finished in the end, as long as no lock lapses and no
\* retry timer fires in vain.
AcceptedIsFinished ==
    \A a \in Actions :
        record[a] = "accepted" ~> (Over(a) \/ lapsed \/ missed)
=============================================================================
