---------------------------- MODULE TaskListFeed ----------------------------
(* How a device follows the Tasks and Lists of an account: the revisioned    *)
(* change log a trigger keeps, the envelopes each backend process cuts from  *)
(* it (task-list-change-feed.service.ts, timer.gateway.ts), and the device   *)
(* that applies them or asks for a snapshot (timerStore.ts,                  *)
(* serializedSnapshotRecovery.ts, tasksStore.ts).  One account, one device   *)
(* that only watches.                                                        *)
(*                                                                           *)
(* A Task's contents are the revision of the change that gave it them; 0 is  *)
(* a Task that is not there.                                                 *)
EXTENDS Naturals, Sequences, FiniteSetsExt

CONSTANTS
    Tasks, Processes,
    Unknown,        \* no process, or no revision
    Retained,       \* revisions the trigger keeps (2000)
    BatchSize,      \* MAX_CHANGE_BATCH_SIZE (500)
    MaxChanges,     \* bound: changes committed
    MaxLoads,       \* bound: plain list loads a page starts
    MaxMishaps      \* bound: failures, restarts and broken connections

ASSUME FeedConstants ==
    /\ Unknown \notin Processes /\ Unknown \notin Nat
    /\ {Retained, BatchSize, MaxChanges, MaxLoads, MaxMishaps} \subseteq Nat

VARIABLES
    changes,    \* task_list_changes of every revision, [task, to]
    marks,      \* [Processes -> publishedRevisions of the account]
    due,        \* [Processes -> envelopes still to be read]
    reading,    \* [Processes -> the read under way]
    pipe,       \* [Processes -> envelopes on their way to the device]
    link,       \* the device's connection: the process, and what prime has read
    revision,   \* taskListRevision
    view,       \* the Tasks the device shows
    overlay,    \* taskResponseOverlays
    fresh,      \* the Tasks whose overlay is younger than the load under way
    recovery,   \* the snapshot recovery: [at, target, got]
    load,       \* loadTasks: [at, got, again]
    missed,     \* history: see QuietIsCurrent
    loads, mishaps

feedVars ==
    <<changes, marks, due, reading, pipe, link, revision, view, overlay, fresh, recovery, load,
      missed, loads, mishaps>>

serverVars == <<changes, marks, due, reading>>
deviceVars == <<revision, view, overlay, fresh, recovery, load>>

-----------------------------------------------------------------------------
(* The database *)

Counter == Len(changes)

ChangesOf(t, from, to) == {k \in (from + 1)..to : changes[k].task = t}

\* What revision n of the database holds: an active Task as its last change
\* left it.
Contents(n) ==
    [t \in Tasks |->
        LET past == ChangesOf(t, 0, n)
        IN  IF past = {} \/ changes[Max(past)].to # "active" THEN 0 ELSE Max(past)]

\* A committed change; the counter row's lock puts revisions in commit order.
\* The process that made it then announces it to itself.
Change(p, t, to) ==
    /\ Counter < MaxChanges
    /\ to # "active" => Contents(Counter)[t] # 0
    /\ \A k \in ChangesOf(t, 0, Counter) : changes[k].to # "deleted"
    /\ changes' = Append(changes, [task |-> t, to |-> to])
    /\ due' = [due EXCEPT ![p] = @ + 1]
    /\ UNCHANGED <<marks, reading, pipe, link, deviceVars, missed, loads, mishaps>>

-----------------------------------------------------------------------------
(* A process's feed: one envelope at a time *)

Resting == [at |-> "idle", from |-> 0, to |-> 0]

Envelope(from, to) == [from |-> from, to |-> to, reset |-> FALSE]
Reset(from, to) == [from |-> from, to |-> to, reset |-> TRUE]

\* The account's room: the device while it is connected, wherever it is.
Emit(p, e) == pipe' = IF link.to = Unknown THEN pipe ELSE [pipe EXCEPT ![p] = Append(@, e)]

ReadCounter(p) ==
    /\ reading[p].at = "idle" /\ due[p] > 0
    /\ reading' = [reading EXCEPT ![p] = [Resting EXCEPT !.at = "counted", !.to = Counter]]
    /\ due' = [due EXCEPT ![p] = @ - 1]
    /\ UNCHANGED <<changes, marks, pipe, link, deviceVars, missed, loads, mishaps>>

\* Back from the database: a process that has published nothing asks for a
\* snapshot, one that has nothing new says so, another reads the rows.
Compare(p) ==
    /\ reading[p].at = "counted"
    /\ \/ /\ marks[p] = Unknown
          /\ marks' = [marks EXCEPT ![p] = reading[p].to]
          /\ Emit(p, Reset(reading[p].to, reading[p].to))
          /\ reading' = [reading EXCEPT ![p] = Resting]
       \/ /\ marks[p] # Unknown /\ reading[p].to <= marks[p]
          /\ Emit(p, Envelope(marks[p], marks[p]))
          /\ reading' = [reading EXCEPT ![p] = Resting]
          /\ UNCHANGED marks
       \/ /\ marks[p] # Unknown /\ reading[p].to > marks[p]
          /\ reading' = [reading EXCEPT ![p] = [@ EXCEPT !.at = "rows", !.from = marks[p]]]
          /\ UNCHANGED <<marks, pipe>>
    /\ UNCHANGED <<changes, due, link, deviceVars, missed, loads, mishaps>>

\* The rows from one revision to the other are there, in one batch.
Contiguous(from, to) == to - from <= BatchSize /\ from + Retained >= Counter

ReadRows(p) ==
    /\ reading[p].at = "rows"
    /\ LET from == reading[p].from
           to == reading[p].to
       IN  Emit(p, IF Contiguous(from, to) THEN Envelope(from, to) ELSE Reset(from, to))
    /\ marks' = [marks EXCEPT ![p] = reading[p].to]
    /\ reading' = [reading EXCEPT ![p] = Resting]
    /\ UNCHANGED <<changes, due, link, deviceVars, missed, loads, mishaps>>

\* A query fails: every device of the account is sent for a snapshot.  The mark
\* has moved on already if it is the one for the Tasks the rows follow up.
ReadFails(p) ==
    /\ reading[p].at # "idle" /\ mishaps < MaxMishaps
    /\ Emit(p, Reset(0, 0))
    /\ \/ UNCHANGED marks
       \/ /\ reading[p].at = "rows" /\ Contiguous(reading[p].from, reading[p].to)
          /\ marks' = [marks EXCEPT ![p] = reading[p].to]
    /\ reading' = [reading EXCEPT ![p] = Resting]
    /\ mishaps' = mishaps + 1
    /\ UNCHANGED <<changes, due, link, deviceVars, missed, loads>>

-----------------------------------------------------------------------------
(* The device's connection *)

NoLink == [to |-> Unknown, prime |-> Unknown, ready |-> FALSE]

Silent == [p \in Processes |-> <<>>]

\* handleConnection: the device is in the room before its process has primed.
Connect(p) ==
    /\ link.to = Unknown
    /\ link' = [NoLink EXCEPT !.to = p]
    /\ UNCHANGED <<serverVars, pipe, deviceVars, missed, loads, mishaps>>

PrimeRead ==
    /\ link.to # Unknown /\ link.prime = Unknown /\ ~link.ready
    /\ link' = [link EXCEPT !.prime = Counter]
    /\ UNCHANGED <<serverVars, pipe, deviceVars, missed, loads, mishaps>>

PrimeSet ==
    /\ link.prime # Unknown
    /\ marks' = [marks EXCEPT ![link.to] = link.prime]
    /\ Emit(link.to, Reset(link.prime, link.prime))
    /\ link' = [link EXCEPT !.prime = Unknown, !.ready = TRUE]
    /\ UNCHANGED <<changes, due, reading, deviceVars, missed, loads, mishaps>>

DropLink ==
    /\ link.to # Unknown /\ mishaps < MaxMishaps
    /\ link' = NoLink /\ pipe' = Silent
    /\ mishaps' = mishaps + 1
    /\ UNCHANGED <<serverVars, deviceVars, missed, loads>>

\* A process dies: what it had to announce is not announced by another.
Restart(p) ==
    /\ mishaps < MaxMishaps
    /\ missed' = (missed \/ due[p] > 0 \/ reading[p].at # "idle")
    /\ marks' = [marks EXCEPT ![p] = Unknown]
    /\ due' = [due EXCEPT ![p] = 0]
    /\ reading' = [reading EXCEPT ![p] = Resting]
    /\ IF link.to = p
       THEN link' = NoLink /\ pipe' = Silent
       ELSE UNCHANGED <<link, pipe>>
    /\ mishaps' = mishaps + 1
    /\ UNCHANGED <<changes, deviceVars, loads>>

-----------------------------------------------------------------------------
(* The device *)

\* Mutant: a list answer does not know what came since it was asked for.
RecordUnnoticed(R, value) ==
    /\ overlay' = [t \in Tasks |-> IF t \in R THEN value[t] ELSE overlay[t]]
    /\ fresh' = {}

\* recordTaskResponse of every Task in R.
Record(R, value) ==
    /\ overlay' = [t \in Tasks |-> IF t \in R THEN value[t] ELSE overlay[t]]
    /\ fresh' = IF load.at = "idle" THEN {} ELSE fresh \cup R

\* Mutant: a request during a recovery is taken for part of it.
AskSnapshotOnce(to) ==
    recovery' = IF recovery.at = "idle" THEN [recovery EXCEPT !.at = "asked", !.target = to]
                ELSE recovery

\* createSerializedSnapshotRecovery: the target only grows, one load at a time.
AskSnapshot(to) ==
    recovery' = [recovery EXCEPT !.at = IF @ = "idle" THEN "asked" ELSE @,
                                 !.target = Max({@, to})]

\* applyRealtimeChanges: a change that deletes leaves no overlay.
ApplyChanges(from, to) ==
    LET touched == {t \in Tasks : ChangesOf(t, from, to) # {}}
        kept(t) == {k \in ChangesOf(t, from, to) : changes[k].to # "deleted"}
        known == {t \in touched : kept(t) # {}}
    IN  /\ view' = [t \in Tasks |-> IF t \in touched THEN Contents(to)[t] ELSE view[t]]
        /\ Record(known, [t \in known |-> Contents(Max(kept(t)))[t]])
        /\ revision' = to

Follows(e) == ~e.reset /\ revision # Unknown /\ e.from = revision

\* A feed that could not be read does not know the revision to catch up to.
Blind(e) == e.to = 0 /\ Counter > 0

\* The TASKS_UPDATE handler.
Deliver(p) ==
    /\ pipe[p] # <<>>
    /\ pipe' = [pipe EXCEPT ![p] = Tail(@)]
    /\ LET e == Head(pipe[p])
       IN  \/ /\ ~Follows(e)
              /\ AskSnapshot(e.to)
              /\ missed' = (missed \/ (recovery.at # "idle" /\ Blind(e)))
              /\ UNCHANGED <<revision, view, overlay, fresh>>
           \/ /\ Follows(e)
              /\ ApplyChanges(e.from, e.to)
              /\ missed' = (missed \/ (recovery.at # "idle" /\ e.to > e.from))
              /\ UNCHANGED recovery
    /\ UNCHANGED <<serverVars, link, load, loads, mishaps>>

\* readSnapshot: one REPEATABLE READ transaction for rows and counter.
SnapshotRead ==
    /\ recovery.at = "asked"
    /\ recovery' = [recovery EXCEPT !.at = "read", !.got = Counter]
    /\ UNCHANGED <<serverVars, pipe, link, revision, view, overlay, fresh, load, missed, loads,
                   mishaps>>

\* replaceTasks forgets every overlay and records the Tasks it was given.
SnapshotApplied ==
    /\ recovery.at = "read"
    /\ LET now == Contents(recovery.got)
           present == {t \in Tasks : now[t] # 0}
       IN  /\ view' = now
           /\ overlay' = now
           /\ fresh' = IF load.at = "idle" THEN {} ELSE present
    /\ revision' = recovery.got
    /\ recovery' = [recovery EXCEPT !.at = IF recovery.got >= recovery.target THEN "idle" ELSE "asked"]
    /\ UNCHANGED <<serverVars, pipe, link, load, missed, loads, mishaps>>

\* loadTasks: one at a time; refreshTasks waits for one under way and loads again.
BeginLoad(l) == [l EXCEPT !.at = IF @ = "idle" THEN "asked" ELSE @, !.again = l.at # "idle"]

SnapshotFails ==
    /\ recovery.at # "idle" /\ mishaps < MaxMishaps
    /\ recovery' = [recovery EXCEPT !.at = "idle", !.target = 0]
    /\ revision' = Unknown
    /\ load' = BeginLoad(load)
    /\ fresh' = IF load.at = "idle" THEN {} ELSE fresh
    /\ mishaps' = mishaps + 1
    /\ UNCHANGED <<serverVars, pipe, link, view, overlay, missed, loads>>

\* A page that opens loads the list.
OpenPage ==
    /\ loads < MaxLoads /\ load.at = "idle"
    /\ loads' = loads + 1
    /\ load' = [load EXCEPT !.at = "asked"]
    /\ fresh' = {}
    /\ UNCHANGED <<serverVars, pipe, link, revision, view, overlay, recovery, missed, mishaps>>

ListRead ==
    /\ load.at = "asked"
    /\ load' = [load EXCEPT !.at = "read", !.got = Counter]
    /\ UNCHANGED <<serverVars, pipe, link, revision, view, overlay, fresh, recovery, missed,
                   loads, mishaps>>

NextLoad == [load EXCEPT !.at = IF load.again THEN "asked" ELSE "idle", !.again = FALSE]

\* What the socket brought since the load began is put over its answer.
ListApplied ==
    /\ load.at = "read"
    /\ view' = [t \in Tasks |-> IF t \in fresh THEN overlay[t] ELSE Contents(load.got)[t]]
    /\ fresh' = {}
    /\ load' = NextLoad
    /\ UNCHANGED <<serverVars, pipe, link, revision, overlay, recovery, missed, loads, mishaps>>

ListFails ==
    /\ load.at # "idle" /\ mishaps < MaxMishaps
    /\ fresh' = {}
    /\ load' = NextLoad
    /\ mishaps' = mishaps + 1
    /\ UNCHANGED <<serverVars, pipe, link, revision, view, overlay, recovery, missed, loads>>

-----------------------------------------------------------------------------

FeedInit ==
    /\ changes = <<>>
    /\ marks = [p \in Processes |-> Unknown]
    /\ due = [p \in Processes |-> 0]
    /\ reading = [p \in Processes |-> Resting]
    /\ pipe = Silent
    /\ link = NoLink
    /\ revision = Unknown
    /\ view = [t \in Tasks |-> 0]
    /\ overlay = [t \in Tasks |-> 0]
    /\ fresh = {}
    /\ recovery = [at |-> "idle", target |-> 0, got |-> 0]
    /\ load = [at |-> "idle", got |-> 0, again |-> FALSE]
    /\ missed = FALSE
    /\ loads = 0 /\ mishaps = 0

FeedNext ==
    \/ \E p \in Processes :
          \/ \E t \in Tasks, to \in {"active", "inactive", "deleted"} : Change(p, t, to)
          \/ ReadCounter(p) \/ Compare(p) \/ ReadRows(p) \/ ReadFails(p)
          \/ Connect(p) \/ Restart(p) \/ Deliver(p)
    \/ PrimeRead \/ PrimeSet \/ DropLink
    \/ SnapshotRead \/ SnapshotApplied \/ SnapshotFails
    \/ OpenPage \/ ListRead \/ ListApplied \/ ListFails

FeedSpec == FeedInit /\ [][FeedNext]_feedVars

-----------------------------------------------------------------------------
(* Properties *)

FeedTypes ==
    /\ changes \in Seq([task : Tasks, to : {"active", "inactive", "deleted"}])
    /\ marks \in [Processes -> Nat \cup {Unknown}]
    /\ due \in [Processes -> Nat]
    /\ reading \in [Processes -> [at : {"idle", "counted", "rows"}, from : Nat, to : Nat]]
    /\ pipe \in [Processes -> Seq([from : Nat, to : Nat, reset : BOOLEAN])]
    /\ link \in [to : Processes \cup {Unknown}, prime : Nat \cup {Unknown}, ready : BOOLEAN]
    /\ revision \in Nat \cup {Unknown}
    /\ view \in [Tasks -> Nat] /\ overlay \in [Tasks -> Nat] /\ fresh \in SUBSET Tasks
    /\ recovery \in [at : {"idle", "asked", "read"}, target : Nat, got : Nat]
    /\ load \in [at : {"idle", "asked", "read"}, got : Nat, again : BOOLEAN]
    /\ missed \in BOOLEAN /\ loads \in Nat /\ mishaps \in Nat

\* A Task the database has at the device's revision is shown as it was at that
\* revision or later, never as it was before: whichever envelopes, snapshots
\* and list answers crossed on the way.
NeverBehind ==
    revision # Unknown =>
        \A t \in Tasks :
            Contents(revision)[t] # 0 =>
                \E k \in revision..Counter : view[t] = Contents(k)[t]

\* Nothing is under way between the database and a connected device.
Quiet ==
    /\ link.ready /\ recovery.at = "idle"
    /\ \A p \in Processes : due[p] = 0 /\ reading[p].at = "idle" /\ pipe[p] = <<>>

\* When all is quiet a device that follows the feed has every change, unless
\* (missed) a process died with changes to announce, or while an older snapshot
\* was on its way an envelope was applied, whose place it then took, or one came
\* that could not say what to catch up to.
QuietIsCurrent == Quiet /\ revision # Unknown /\ ~missed => revision = Counter
=============================================================================
