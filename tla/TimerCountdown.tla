--------------------------- MODULE TimerCountdown ---------------------------
(* The countdown a process keeps for one account (timer-countdown.service.ts): *)
(* one handle, a timeout and what follows it, that warns before the Timer is   *)
(* over and claims its completion.  Requests, checks and completions await in  *)
(* between, replace one another's handle, and notice so when they go on.       *)
(*                                                                             *)
(* Redis answers a process in the order it asked, and every script is followed *)
(* by one more call: whatever is asked after a script is answered after the    *)
(* code that follows it.  So a call and that code are one step here, and only  *)
(* calls that were asked before may come later (late, start, completion).      *)
(* A timeout may fire early: MAX_TIMEOUT_MS caps it, and the clocks of the     *)
(* process and of Redis differ.  The Timer is one of work, warned about.       *)
EXTENDS Naturals

CONSTANTS
    MaxWrites,      \* bound: writes of the Timer
    MaxTroubles     \* bound: failing calls and restarts

VARIABLES
    counted,     \* the Timer in Redis: [id, begun, rev, running, stage, warned], the
                 \* stage 0, 1 after the warning's time, 2 when it is over
    handle,      \* [at, id, begun, rev]: the entry of intervals, and its check
    late,        \* warning claims under way for handles that were replaced
    start,       \* startCountdown under way: [at, id, rev]
    completion,  \* onComplete under way: [at, id, begun, rev, rearms]
    ours,        \* history: the Timer was last started or written here
    abandoned,   \* history: why no countdown is left (CountdownStands)
    writes, troubles

countdownVars ==
    <<counted, handle, late, start, completion, ours, abandoned, writes, troubles>>

Trouble == troubles < MaxTroubles /\ troubles' = troubles + 1

NoHandle == [at |-> "none", id |-> 0, begun |-> 0, rev |-> 0]
NoStart == [at |-> "off", id |-> 0, rev |-> 0]
NoCompletion == [at |-> "off", id |-> 0, begun |-> 0, rev |-> 0, rearms |-> FALSE]
Completing(t, rearms) ==
    [at |-> "claim", id |-> t.id, begun |-> t.begun, rev |-> t.rev, rearms |-> rearms]
Armed(at, t) == [at |-> at, id |-> t.id, begun |-> t.begun, rev |-> t.rev]

\* A warning claim that was sent for the handle.
Sent == IF handle.at = "claiming" THEN {[id |-> handle.id, begun |-> handle.begun]} ELSE {}

\* The handle is replaced, or removed: what was under way for it goes on to its next
\* look at intervals and returns there; a warning claim is sent by then.
Handle(h) ==
    /\ handle' = h
    /\ late' = late \cup Sent
    /\ abandoned' = IF h.at = "none" THEN abandoned ELSE FALSE

\* The handle's own check goes on: nothing is superseded.
Proceed(at) == handle' = [handle EXCEPT !.at = at] /\ UNCHANGED <<late, abandoned>>

-----------------------------------------------------------------------------
(* Writes of the Timer *)

Fresh == writes + 1
AnotherTimer(running) ==
    [id |-> Fresh, begun |-> Fresh, rev |-> Fresh, running |-> running, stage |-> 0, warned |-> FALSE]

\* What a request may make of the Timer: another one, the same with other details or
\* more time, a pause, a resumption.
Rewritten ==
    {AnotherTimer(running) : running \in BOOLEAN}
    \cup {[counted EXCEPT !.rev = Fresh], [counted EXCEPT !.rev = Fresh, !.stage = 0, !.warned = FALSE]}
    \cup {[counted EXCEPT !.rev = Fresh, !.begun = Fresh, !.running = ~counted.running]}

Write(t) == writes < MaxWrites /\ writes' = Fresh /\ counted' = t

\* Another process writes the Timer, warns, or completes it.
RemoteWrite ==
    \E t \in Rewritten \cup {[counted EXCEPT !.rev = Fresh, !.warned = TRUE]} :
        /\ Write(t)
        /\ ours' = FALSE
        /\ UNCHANGED <<handle, late, start, completion, abandoned, troubles>>

\* The Timer's time passes.
Pass ==
    /\ counted.running /\ counted.stage < 2
    /\ counted' = [counted EXCEPT !.stage = @ + 1]
    /\ UNCHANGED <<handle, late, start, completion, ours, abandoned, writes, troubles>>

-----------------------------------------------------------------------------
(* Starting and refreshing *)

\* refreshCountdown: the preferences of the handle are taken over for the same Timer.
Refreshed(t) ==
    IF ~t.running THEN NoHandle
    ELSE IF handle.at \in {"check", "checking", "claiming", "dead"} /\ handle.id = t.id
         THEN Armed("check", t)
    ELSE Armed("boot", t)

\* commitCurrentTimer, with the refresh that follows it.
Commit ==
    \E t \in Rewritten :
        /\ Write(t)
        /\ Handle(Refreshed(t))
        /\ ours' = TRUE
        /\ UNCHANGED <<start, completion, troubles>>

\* The same by undo, redo and resumeExtension, which then stop the countdown and
\* start it anew; a start that was under way is outdated by its generation.
CommitRestart ==
    \E id \in {counted.id, Fresh}, stage \in 0..1 :
        LET t == [id |-> id, begun |-> Fresh, rev |-> Fresh, running |-> TRUE, stage |-> stage,
                  warned |-> stage = 1 /\ counted.warned]
        IN  /\ Write(t)
            /\ Handle(NoHandle)
            /\ start' = [at |-> "prefs", id |-> t.id, rev |-> t.rev]
            /\ ours' = TRUE
            /\ UNCHANGED <<completion, troubles>>

\* activateTimerContinuation, for the new Timer the worker has put in place: the
\* handle goes if it is the source's.
Activate ==
    \E stops \in {handle.rev # counted.rev, FALSE} :
        /\ counted.running /\ counted.rev = counted.id /\ ~ours
        /\ IF stops THEN Handle(NoHandle) ELSE UNCHANGED <<handle, late, abandoned>>
        /\ start' = [at |-> "activate", id |-> counted.id, rev |-> counted.rev]
        /\ ours' = TRUE
        /\ UNCHANGED <<counted, completion, writes, troubles>>

StartedTimer == counted.running /\ counted.id = start.id /\ counted.rev = start.rev

\* startCountdown has read the preferences and the Timer.
StartEnds ==
    /\ start.at \in {"prefs", "activate"}
    /\ start' = IF start.at = "prefs" THEN NoStart ELSE [start EXCEPT !.at = "verify"]
    /\ \/ StartedTimer /\ Handle(Armed("check", counted))
       \/ ~StartedTimer /\ UNCHANGED <<handle, late, abandoned>>
    /\ UNCHANGED <<counted, completion, ours, writes, troubles>>

\* An activation that finds another Timer afterwards stops its own countdown.
Verify ==
    /\ start.at = "verify"
    /\ start' = NoStart
    /\ \/ /\ ~StartedTimer /\ handle.id = start.id /\ handle.rev = start.rev
          /\ handle' = NoHandle /\ abandoned' = counted.running
          /\ late' = late \cup Sent
       \/ /\ StartedTimer \/ handle.id # start.id \/ handle.rev # start.rev
          /\ UNCHANGED <<handle, late, abandoned>>
    /\ UNCHANGED <<counted, completion, ours, writes, troubles>>

StartFails ==
    /\ Trouble /\ start # NoStart
    /\ start' = NoStart
    /\ abandoned' = (handle.at \in {"none", "dead"})
    /\ UNCHANGED <<counted, handle, late, completion, ours, writes>>

-----------------------------------------------------------------------------
(* The timeout and its check *)

Fire ==
    /\ \/ handle.at = "boot" /\ Proceed("booting")
       \/ handle.at = "check" /\ Proceed("checking")
    /\ UNCHANGED <<counted, start, completion, ours, writes, troubles>>

\* bootstrapAuthoritativeCountdown.
BootstrapEnds ==
    /\ handle.at = "booting"
    /\ Handle(IF counted.running THEN Armed("check", counted) ELSE NoHandle)
    /\ UNCHANGED <<counted, start, completion, ours, writes, troubles>>

Current == counted.running /\ counted.id = handle.id /\ counted.rev = handle.rev

\* Mutant: a Timer that was written elsewhere is none of this process's business.
OtherwiseStopped == NoHandle

\* The Timer is not the handle's any more.
Otherwise == IF counted.running THEN Armed("boot", counted) ELSE NoHandle

Over == Current /\ counted.stage = 2 /\ counted.warned

\* handleTimerCompletion returns at once when it works on that Timer already, for
\* the start-up; of another Timer the start-up has nothing left to do.
StartUpCompletes == completion # NoCompletion /\ ~completion.rearms /\ completion.id = counted.id

\* runScheduledCheck, up to its claims.  A check that finds the completion before it
\* under way returns, and leaves its handle with nothing to follow.
CheckEnds ==
    /\ handle.at = "checking"
    /\ \/ ~Current /\ Handle(Otherwise) /\ UNCHANGED completion
       \/ /\ Current /\ counted.stage > 0 /\ ~counted.warned
          /\ Proceed("claiming") /\ UNCHANGED completion
       \/ /\ Current /\ (counted.stage = 0 \/ (counted.stage = 1 /\ counted.warned))
          /\ Handle(Armed("check", counted)) /\ UNCHANGED completion
       \/ /\ Over /\ completion.rearms
          /\ handle' = [handle EXCEPT !.at = "dead"] /\ abandoned' = TRUE
          /\ UNCHANGED <<late, completion>>
       \/ /\ Over /\ StartUpCompletes /\ Handle(Armed("boot", counted)) /\ UNCHANGED completion
       \/ /\ Over /\ ~completion.rearms /\ ~StartUpCompletes
          /\ Handle(NoHandle)
          /\ completion' = Completing(counted, TRUE)
    /\ UNCHANGED <<counted, start, ours, writes, troubles>>

\* claimRunningTimerWarning, which revises the Timer.
Warnable(c) ==
    /\ counted.running /\ counted.id = c.id /\ counted.begun = c.begun
    /\ counted.stage > 0 /\ ~counted.warned
WarnedTimer == [counted EXCEPT !.warned = TRUE, !.rev = Fresh]

ClaimWarning ==
    /\ handle.at = "claiming"
    /\ \/ Warnable(handle) /\ Write(WarnedTimer) /\ handle' = Armed("check", WarnedTimer)
       \/ /\ ~Warnable(handle) /\ handle' = Armed("boot", counted)
          /\ UNCHANGED <<counted, writes>>
    /\ UNCHANGED <<late, start, completion, ours, abandoned, troubles>>

LateClaim(c) ==
    /\ late' = late \ {c}
    /\ \/ Warnable(c) /\ Write(WarnedTimer)
       \/ ~Warnable(c) /\ UNCHANGED <<counted, writes>>
    /\ UNCHANGED <<handle, start, completion, ours, abandoned, troubles>>

\* A failing call leaves its handle to a retry; a claim may have been made.
CheckFails ==
    /\ Trouble
    /\ \/ handle.at = "booting" /\ Proceed("boot") /\ UNCHANGED <<counted, writes>>
       \/ handle.at \in {"checking", "claiming"} /\ Proceed("check") /\ UNCHANGED <<counted, writes>>
       \/ handle.at = "claiming" /\ Warnable(handle) /\ Proceed("check") /\ Write(WarnedTimer)
    /\ UNCHANGED <<start, completion, ours>>

-----------------------------------------------------------------------------
(* Completion: handleTimerCompletion *)

\* In stream mode the event is all; in legacy mode the effects follow here.
ClaimCompletion ==
    LET mine == counted.running /\ counted.id = completion.id /\ counted.begun = completion.begun
                /\ counted.stage = 2
    IN  /\ completion.at = "claim"
        /\ \/ /\ mine /\ Write([counted EXCEPT !.running = FALSE, !.rev = Fresh])
              /\ \E mode \in {"legacy", "stream"} :
                    completion' = [completion EXCEPT !.at = IF mode = "legacy" THEN "effects" ELSE "done"]
           \/ ~mine /\ completion' = [completion EXCEPT !.at = "done"] /\ UNCHANGED <<counted, writes>>
        /\ UNCHANGED <<handle, late, start, ours, abandoned, troubles>>

\* completeTimer starts the next Timer, if nobody has put another one there, and
\* goes on with what is left.
NextTimer ==
    /\ completion.at = "effects" /\ ~counted.running /\ counted.id = completion.id
    /\ Write(AnotherTimer(TRUE))
    /\ Handle(Refreshed(AnotherTimer(TRUE)))
    /\ completion' = [completion EXCEPT !.at = "rest"]
    /\ ours' = TRUE
    /\ UNCHANGED <<start, troubles>>

\* The end of onComplete, or its failure: a process without a handle arms one.
AfterCompletion ==
    IF completion.rearms /\ handle = NoHandle
    THEN Armed("boot", completion) ELSE handle

CompletionEnds ==
    /\ completion.at \in {"effects", "rest", "done"}
    /\ completion' = NoCompletion
    /\ IF AfterCompletion = handle THEN UNCHANGED <<handle, late, abandoned>> ELSE Handle(AfterCompletion)
    /\ UNCHANGED <<counted, start, ours, writes, troubles>>

CompletionFails ==
    /\ Trouble /\ completion.at \in {"claim", "effects", "rest"}
    /\ completion' = NoCompletion
    /\ IF AfterCompletion # handle THEN Handle(AfterCompletion)
       ELSE /\ abandoned' = (abandoned \/ (~completion.rearms /\ handle = NoHandle))
            /\ UNCHANGED <<handle, late>>
    /\ UNCHANGED <<counted, start, ours, writes>>

\* The process ends and starts again: restoreActiveTimersOnStartup.
StartUp ==
    /\ Trouble
    /\ handle' = NoHandle /\ late' = {}
    /\ start' = IF counted.running /\ counted.stage < 2
                THEN [at |-> "prefs", id |-> counted.id, rev |-> counted.rev] ELSE NoStart
    /\ completion' = IF counted.running /\ counted.stage = 2 THEN Completing(counted, FALSE)
                     ELSE NoCompletion
    /\ ours' = TRUE /\ abandoned' = FALSE
    /\ UNCHANGED <<counted, writes>>

-----------------------------------------------------------------------------
CountdownInit ==
    /\ counted = [id |-> 0, begun |-> 0, rev |-> 0, running |-> FALSE, stage |-> 0, warned |-> FALSE]
    /\ handle = NoHandle /\ late = {} /\ start = NoStart /\ completion = NoCompletion
    /\ ours = FALSE /\ abandoned = FALSE /\ writes = 0 /\ troubles = 0

CountdownNext ==
    \/ Commit \/ CommitRestart \/ RemoteWrite \/ Pass
    \/ Activate \/ StartEnds \/ Verify \/ StartFails
    \/ Fire \/ BootstrapEnds \/ CheckEnds \/ ClaimWarning \/ CheckFails
    \/ \E c \in late : LateClaim(c)
    \/ ClaimCompletion \/ NextTimer \/ CompletionEnds \/ CompletionFails
    \/ StartUp

CountdownSpec == CountdownInit /\ [][CountdownNext]_countdownVars

-----------------------------------------------------------------------------
(* Properties *)

AtRest == start = NoStart /\ completion = NoCompletion
Lost == counted.running /\ ours /\ AtRest /\ handle.at \in {"none", "dead"}

\* Whatever writes, starts, checks, warnings and completions overlap, a Timer that
\* runs by what this process did last has a countdown in it, unless a start failed
\* after the stop before it, the completion at start-up failed, the Timer came due
\* while the completion before it was still under way, or an activation found its
\* Timer revised.
CountdownStands == Lost => abandoned
=============================================================================
