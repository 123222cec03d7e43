--------------------------- MODULE TaskReminders ---------------------------
(* The reminders of one Task (task-notification.service.ts).  Every process  *)
(* scans once a second for rows whose nextReminderAt has come, claims them   *)
(* under a lease, reminds the user, and writes when to remind next; and it   *)
(* rebuilds that time when the Task or the preferences change, and every     *)
(* fifteen minutes.  Meanwhile the user edits the Task, and TypeORM saves    *)
(* every column of it as it was read (tasks.service.ts).                     *)
(*                                                                           *)
(* Instants are numbers, 0 is none.  The reminder key is the due instant it  *)
(* was made of.                                                              *)
EXTENDS Integers, FiniteSets

CONSTANTS
    Processes,
    Rebuilders,    \* those that rebuild: each does, some suffice
    Dues,          \* due instants the user sets
    Urgent,        \* the Task is urgent, and urgent reminders repeat
    Lead,          \* taskBeforeDueReminderMinutes
    Interval,      \* taskUrgentReminderRepeatIntervalMinutes
    MaxClock,      \* bound: the last instant
    MaxEdits,      \* bound: edits of the Task and of the preferences
    MaxTroubles    \* bound: failed calls, crashes and late scans

NoProcess == "nobody"
Gone == "gone"     \* the token of a claim that ended
Never == -1
Idle == -2

ASSUME ReminderConstants ==
    /\ Dues \subseteq Nat \ {0} /\ IsFiniteSet(Dues)
    /\ Urgent \in BOOLEAN
    /\ {Lead, MaxClock, MaxEdits, MaxTroubles} \subseteq Nat /\ Interval \in Nat \ {0}
    /\ Rebuilders \subseteq Processes /\ Processes \cap {NoProcess, Gone} = {}
    /\ IsFiniteSet(Processes)

VARIABLES
    clock,
    wanted,     \* the preferences ask for reminders of this Task's priority
    task,       \* [due, active, key, next, urgentAt]
    claim,      \* [by, late]: reminderClaimToken, and whether its lease is over
    scan,       \* [Processes -> [at, now, saw, next]]: scanDueSchedules
    rebuild,    \* [Rebuilders -> the time it is about to write, or Idle]
    draft,      \* the edit under way: [open, was, by], with the token it read
    reminded,   \* history: due reminders sent since the due instant was set
    repeated,   \* history: repeats sent since then
    causes,     \* history: marks and claims undone by a save, marks set back, and troubles
    edits, troubles

sentParts == <<reminded, repeated>>
reminderVars ==
    <<clock, wanted, task, claim, scan, rebuild, draft, sentParts, causes, edits, troubles>>

LaterOf(a, b) == IF a > b THEN a ELSE b
NoTask == [due |-> 0, active |-> FALSE, key |-> 0, next |-> Never, urgentAt |-> 0]
Unclaimed == [by |-> NoProcess, late |-> FALSE]
Resting == [at |-> "idle", now |-> 0, saw |-> NoTask, next |-> Never]
Undrafted == [open |-> FALSE, was |-> NoTask, by |-> NoProcess]
Trouble == troubles < MaxTroubles /\ troubles' = troubles + 1 /\ causes' = causes + 1

\* A claim that ends, or is taken over, is no longer the one a draft has read.
Ended == draft' = [draft EXCEPT !.by = IF @ = NoProcess THEN NoProcess ELSE Gone]

-----------------------------------------------------------------------------
(* When to remind *)

ReminderAt(t) == IF t.due > Lead THEN t.due - Lead ELSE 0

\* Mutant: a reminder whose time has come is taken for sent.
NextIfAhead(t, now) ==
    IF ~t.active \/ t.due = 0 \/ ~wanted \/ (t.key # t.due /\ now >= ReminderAt(t)) THEN Never
    ELSE IF t.key # t.due THEN ReminderAt(t)
    ELSE IF ~Urgent THEN Never
    ELSE LaterOf(LaterOf(t.due, t.urgentAt) + Interval, now)

\* getNextReminderAt.
NextReminder(t, now) ==
    IF ~t.active \/ t.due = 0 \/ ~wanted THEN Never
    ELSE IF t.key # t.due THEN ReminderAt(t)
    ELSE IF ~Urgent THEN Never
    ELSE LaterOf(LaterOf(t.due, t.urgentAt) + Interval, now)

\* sendDueReminderIfNeeded, on what was read.
NeedsDue(t, now) == t.due # 0 /\ now >= ReminderAt(t) /\ t.key # t.due

\* repeatUrgentReminderIfNeeded, likewise.
NeedsRepeat(t, now) ==
    /\ Urgent /\ t.due # 0 /\ now >= t.due + Interval
    /\ t.urgentAt = 0 \/ now - t.urgentAt >= Interval

-----------------------------------------------------------------------------
(* A scan *)

\* Mutant: a row is claimed whoever works on it.
ClaimableAnyway == task.active /\ task.next # Never /\ task.next <= clock
Claimable == task.active /\ task.next # Never /\ task.next <= clock /\ (claim.by = NoProcess \/ claim.late)

ClaimDue(p) ==
    /\ scan[p].at = "idle" /\ Claimable
    /\ claim' = [by |-> p, late |-> FALSE]
    /\ Ended
    /\ scan' = [scan EXCEPT ![p] = [Resting EXCEPT !.at = "read", !.now = clock]]
    /\ UNCHANGED <<clock, wanted, task, rebuild, sentParts, causes, edits, troubles>>

ReadTask(p) ==
    /\ scan[p].at = "read"
    /\ scan' = [scan EXCEPT ![p].at = "send", ![p].saw = [task EXCEPT !.next = Never]]
    /\ UNCHANGED <<clock, wanted, task, claim, rebuild, draft, sentParts, causes, edits, troubles>>

\* processUserReminderTasks up to the pushes, which may fail.  (After a due reminder
\* the repeat is not due: lastUrgentReminderAt is now.)
Send(p) ==
    LET s == scan[p]
        due == wanted /\ NeedsDue(s.saw, s.now)
        repeat == wanted /\ ~due /\ NeedsRepeat(s.saw, s.now)
        current == s.saw.due = task.due
    IN  /\ s.at = "send"
        /\ scan' = [scan EXCEPT ![p].at = IF due THEN "markDue" ELSE IF repeat THEN "markRepeat" ELSE "again",
                                ![p].saw = IF due \/ repeat THEN @ ELSE NoTask]
        /\ reminded' = IF due /\ current THEN reminded + 1 ELSE reminded
        /\ repeated' = IF repeat /\ current THEN repeated + 1 ELSE repeated
        /\ UNCHANGED <<clock, wanted, task, claim, rebuild, draft, causes, edits, troubles>>

\* A mark is written whoever has marked since.
SetBack == causes' = causes + (IF task'.urgentAt < task.urgentAt THEN 1 ELSE 0)

MarkDue(p) ==
    LET s == scan[p]
    IN  /\ s.at = "markDue"
        /\ task' = [task EXCEPT !.key = s.saw.due,
                                !.urgentAt = IF Urgent THEN s.now ELSE s.saw.urgentAt]
        /\ scan' = [scan EXCEPT ![p].at = "again", ![p].saw = NoTask]
        /\ SetBack
        /\ UNCHANGED <<clock, wanted, claim, rebuild, draft, sentParts, edits, troubles>>

MarkRepeat(p) ==
    /\ scan[p].at = "markRepeat"
    /\ task' = [task EXCEPT !.urgentAt = scan[p].now]
    /\ scan' = [scan EXCEPT ![p].at = "again", ![p].saw = NoTask]
    /\ SetBack
    /\ UNCHANGED <<clock, wanted, claim, rebuild, draft, sentParts, edits, troubles>>

\* rescheduleClaimedTask reads the Task and the preferences once more ...
ReadAgain(p) ==
    /\ scan[p].at = "again"
    /\ scan' = [scan EXCEPT ![p] = [Resting EXCEPT !.at = "release",
                                                   !.next = NextReminder(task, scan[p].now)]]
    /\ UNCHANGED <<clock, wanted, task, claim, rebuild, draft, sentParts, causes, edits, troubles>>

\* ... and writes when to remind next, if the claim is still its own.
Reschedule(p, next) ==
    /\ scan' = [scan EXCEPT ![p] = Resting]
    /\ IF claim.by = p
       THEN task' = [task EXCEPT !.next = next] /\ claim' = Unclaimed /\ Ended
       ELSE UNCHANGED <<task, claim, draft>>

ReleaseTask(p) ==
    /\ scan[p].at = "release"
    /\ Reschedule(p, scan[p].next)
    /\ UNCHANGED <<clock, wanted, rebuild, sentParts, causes, edits, troubles>>

-----------------------------------------------------------------------------
(* A rebuild.  Those of a process run one after another; the reconciliation  *)
(* may begin one at any time, an update does where it was handled.           *)

ReadRebuild(p) ==
    /\ rebuild[p] = Idle /\ task.active
    /\ task.due # 0 \/ task.next # Never
    /\ rebuild' = [rebuild EXCEPT ![p] = NextReminder(task, clock)]
    /\ UNCHANGED <<clock, wanted, task, claim, scan, draft, sentParts, causes, edits, troubles>>

\* A row under a claim is left to it.
WriteRebuild(p) ==
    /\ rebuild[p] # Idle
    /\ rebuild' = [rebuild EXCEPT ![p] = Idle]
    /\ IF claim.by = NoProcess \/ claim.late
       THEN task' = [task EXCEPT !.next = rebuild[p]] /\ claim' = Unclaimed /\ Ended
       ELSE UNCHANGED <<task, claim, draft>>
    /\ UNCHANGED <<clock, wanted, scan, sentParts, causes, edits, troubles>>

-----------------------------------------------------------------------------
(* What fails *)

\* A lease is over in time only when its holder is gone; a slow scan is trouble.
LeaseRunsOut ==
    /\ claim.by # NoProcess /\ ~claim.late
    /\ IF claim.by \in Processes /\ scan[claim.by].at # "idle" THEN Trouble
       ELSE UNCHANGED <<causes, troubles>>
    /\ claim' = [claim EXCEPT !.late = TRUE]
    /\ UNCHANGED <<clock, wanted, task, scan, rebuild, draft, sentParts, edits>>

\* A call of the scan fails: of its first read or its last write, the claim is left
\* to its lease; of the preferences or a mark, the rest of this Task; of the last
\* read, the Task is looked at again a second later.
ScanFails(p) ==
    LET at == scan[p].at
    IN  /\ Trouble
        /\ \/ /\ at \in {"read", "release"}
              /\ scan' = [scan EXCEPT ![p] = Resting]
              /\ UNCHANGED <<task, claim, draft>>
           \/ /\ at \in {"send", "markDue", "markRepeat"}
              /\ scan' = [scan EXCEPT ![p].at = "again", ![p].saw = NoTask]
              /\ UNCHANGED <<task, claim, draft>>
           \/ at = "again" /\ Reschedule(p, scan[p].now)
        /\ UNCHANGED <<clock, wanted, rebuild, sentParts, edits>>

RebuildFails(p) ==
    /\ Trouble /\ rebuild[p] # Idle
    /\ rebuild' = [rebuild EXCEPT ![p] = Idle]
    /\ UNCHANGED <<clock, wanted, task, claim, scan, draft, sentParts, edits>>

Crash(p) ==
    /\ Trouble
    /\ scan' = [scan EXCEPT ![p] = Resting]
    /\ rebuild' = [q \in Rebuilders |-> IF q = p THEN Idle ELSE rebuild[q]]
    /\ UNCHANGED <<clock, wanted, task, claim, draft, sentParts, edits>>

-----------------------------------------------------------------------------
(* The user *)

\* updateTask, with the reminder columns and the claim of the row it has read.
EditRead ==
    /\ ~draft.open /\ edits < MaxEdits
    /\ edits' = edits + 1
    /\ draft' = [open |-> TRUE, was |-> task, by |-> claim.by]
    /\ UNCHANGED <<clock, wanted, task, claim, scan, rebuild, sentParts, causes, troubles>>

\* seedPastDueReminderKeyIfNeeded: a due instant that has come needs no reminder.
Seeded(t) == IF t.active /\ wanted /\ t.due # 0 /\ clock >= t.due THEN [t EXCEPT !.key = t.due] ELSE t

EditSave(due, active) ==
    LET was == draft.was
    IN  /\ draft.open
        /\ task' = Seeded([was EXCEPT !.due = due, !.active = active])
        /\ claim' = IF draft.by = claim.by THEN claim ELSE [by |-> draft.by, late |-> FALSE]
        /\ IF due = was.due THEN UNCHANGED sentParts ELSE reminded' = 0 /\ repeated' = 0
        /\ causes' = causes + (IF <<was.key, was.urgentAt>> = <<task.key, task.urgentAt>> THEN 0 ELSE 1)
                            + (IF draft.by = claim.by THEN 0 ELSE 1)
        /\ draft' = Undrafted
        /\ UNCHANGED <<clock, wanted, scan, rebuild, edits, troubles>>

SaveWishes ==
    /\ edits < MaxEdits
    /\ edits' = edits + 1
    /\ wanted' = ~wanted
    /\ UNCHANGED <<clock, task, claim, scan, rebuild, draft, sentParts, causes, troubles>>

Tick ==
    /\ clock < MaxClock
    /\ clock' = clock + 1
    /\ UNCHANGED <<wanted, task, claim, scan, rebuild, draft, sentParts, causes, edits, troubles>>

-----------------------------------------------------------------------------
\* The Task has just been created.
RemindersInit ==
    /\ clock = 0 /\ wanted = TRUE
    /\ task \in [due : Dues, active : {TRUE}, key : {0}, next : {Never}, urgentAt : {0}]
    /\ claim = Unclaimed
    /\ scan = [p \in Processes |-> Resting]
    /\ rebuild = [p \in Rebuilders |-> Idle]
    /\ draft = Undrafted
    /\ reminded = 0 /\ repeated = 0 /\ causes = 0 /\ edits = 0 /\ troubles = 0

EditEnds == \E due \in Dues \cup {0}, active \in BOOLEAN : EditSave(due, active)
ScanStep(p) ==
    \/ ClaimDue(p) \/ ReadTask(p) \/ Send(p) \/ MarkDue(p) \/ MarkRepeat(p)
    \/ ReadAgain(p) \/ ReleaseTask(p)
RebuildStep(p) == ReadRebuild(p) \/ WriteRebuild(p)

RemindersNext ==
    \/ \E p \in Processes : ScanStep(p) \/ ScanFails(p) \/ Crash(p)
    \/ \E p \in Rebuilders : RebuildStep(p) \/ RebuildFails(p)
    \/ EditEnds \/ LeaseRunsOut \/ EditRead \/ SaveWishes \/ Tick

RemindersSpec == RemindersInit /\ [][RemindersNext]_reminderVars

\* The intervals of every process go on, an edit comes to its end, time passes, and
\* with it a lease.
RemindersFairness ==
    /\ \A p \in Processes : WF_reminderVars(ScanStep(p))
    /\ \A p \in Rebuilders : WF_reminderVars(RebuildStep(p))
    /\ WF_reminderVars(EditEnds)
    /\ WF_reminderVars(LeaseRunsOut) /\ WF_reminderVars(Tick)

FairRemindersSpec == RemindersSpec /\ RemindersFairness

-----------------------------------------------------------------------------
(* Properties *)

\* A due instant is reminded of once, and an overdue urgent Task once an interval,
\* whatever processes scan and rebuild at the same time: every spare reminder has a
\* cause, an edit that undid a mark or a claim, a failed call, a crash, a scan that
\* outlasted its lease, or the mark with which it set back a later one.
NoSpareReminder ==
    /\ reminded <= 1 + causes
    /\ repeated <= LaterOf(clock - task.due, 0) \div Interval + causes

\* No reminder is lost for good: once the user and the troubles have come to rest,
\* an active Task whose time has come has been reminded of.
RemindersCatchUp ==
    <>[](task.active /\ wanted /\ task.due # 0 /\ clock >= ReminderAt(task) => task.key = task.due)
=============================================================================
