------------------------- MODULE CompletionDelivery -------------------------
(***************************************************************************)
(* From the completion stream to PostgreSQL: every backend replica runs    *)
(* one TimerCompletionStreamService loop (Consumers) of the same consumer  *)
(* group.  The loop reads new entries, takes over entries that have been   *)
(* pending for 30 s (its own slow ones and those of dead consumers alike), *)
(* and for each entry commits one transaction                              *)
(* (TimerCompletionEffectsService.persistCompletionEffects) and then       *)
(* acknowledges and deletes it in one script.  Anything that goes wrong    *)
(* leaves the entry pending.                                               *)
(*                                                                         *)
(* The transaction is one action: concurrent transactions of one Timer ID  *)
(* wait on the receipt's primary key, those of one statistic on its row.   *)
(* The producer gate is absent because the loop drains a stream that is    *)
(* not empty in either mode.                                               *)
(***************************************************************************)
EXTENDS Integers, FiniteSets, FiniteSetsExt

CONSTANTS
    Events,     \* see ExactlyOnceEffects
    Consumers,  \* stream loops, one per replica
    MaxFaults   \* bound on crashes and failed calls

VARIABLES
    published,      \* events ever appended to the stream
    stream,         \* entries in the stream
    unread,         \* entries after the group's last-delivered ID
    pending,        \* the group's pending entries
    idle,           \* pending entries that were not delivered for 30 s
    fetched,        \* consumer's batch: entries it still has to persist
    stored,         \* entries it has persisted and not acknowledged yet
    receipts,       \* timer_completion_receipts, as the events they hold
    statistics,     \* duration by statistic ID; 0 is no row
    uses,           \* "usageCount" of the intentions, summed up
    notifications,  \* notification_outbox, as the events its rows hold
    continuations,  \* timer_continuation_outbox, as the events its rows hold
    faults          \* faults injected so far

group == <<stream, unread, pending, idle>>
hands == <<fetched, stored>>
database == <<receipts, statistics, uses, notifications, continuations>>
vars == <<published, group, hands, database, faults>>

\* The promise this module keeps.
Promise == INSTANCE ExactlyOnceEffects WITH applied <- receipts, minutes <- statistics

ASSUME DeliveryAssumption == Promise!EventAssumption /\ MaxFaults \in Nat

-----------------------------------------------------------------------------
(* The stream and its consumer group *)

\* A claim script appends e; entry IDs grow, and an extension runs only after
\* its original has completed.
Publish(e) ==
    /\ \A f \in published : f.seq < e.seq
    /\ e.extends # 0 => \E f \in published : f.timer = e.extends
    /\ published' = published \cup {e}
    /\ stream' = stream \cup {e}
    /\ unread' = unread \cup {e}
    /\ UNCHANGED <<pending, idle, hands, database, faults>>

HandsEmpty(c) == fetched[c] = {} /\ stored[c] = {}

\* readNewEvents: XREADGROUP '>' returns the unread entries up to some e.
ReadNew(c, e) ==
    /\ HandsEmpty(c)
    /\ e \in unread
    /\ LET batch == {f \in unread : f.seq <= e.seq}
       IN  /\ fetched' = [fetched EXCEPT ![c] = batch]
           /\ pending' = pending \cup batch
           /\ unread' = unread \ batch
    /\ UNCHANGED <<published, stream, idle, stored, database, faults>>

\* Thirty seconds have passed since e was last delivered.
Age(e) ==
    /\ e \in pending \ idle
    /\ idle' = idle \cup {e}
    /\ UNCHANGED <<published, stream, unread, pending, hands, database, faults>>

\* recoverPending: XAUTOCLAIM takes every such entry, whoever holds it.
Recover(c) ==
    /\ HandsEmpty(c)
    /\ idle # {}
    /\ fetched' = [fetched EXCEPT ![c] = idle]
    /\ idle' = {}
    /\ UNCHANGED <<published, stream, unread, pending, stored, database, faults>>

-----------------------------------------------------------------------------
(* One entry *)

\* processEntries takes the entries of one user one after the other.
Turn(c, e) ==
    /\ e \in fetched[c]
    /\ \A f \in fetched[c] \cup stored[c] : f.user = e.user => f.seq >= e.seq

\* The receipt that is there holds exactly this user, version and payload.
ExactReceipt(e) == e \in receipts

\* INSERT ... ON CONFLICT ("timerId") DO NOTHING returns a row.
NoReceipt(e) == \A f \in receipts : f.timer # e.timer

\* Mutant: the extension of an unknown statistic is inserted instead.
InsertedAnyway(e) == TRUE

\* persistStatistic: an UPDATE must hit the original's row, an INSERT must not
\* meet its primary key.
StatisticFits(e) ==
    Promise!Recorded(e) =>
        IF e.extends # 0 THEN statistics[e.extends] # 0 ELSE statistics[e.timer] = 0

\* Mutant: a duplicate is added up again before it is recognised.
EffectsAgain(e) ==
    /\ statistics' = Promise!Credit(e, statistics)
    /\ uses' = Promise!CountUse(e, uses)
    /\ notifications' = notifications \cup {e}

\* The transaction of an exact duplicate: only ensureContinuation is left to do.
DuplicateEffects(e) ==
    UNCHANGED <<statistics, uses, notifications>>

\* The transaction of a new completion, but for the receipt and continuation.
NewEffects(e) ==
    /\ StatisticFits(e)
    /\ statistics' = Promise!Credit(e, statistics)
    /\ uses' = Promise!CountUse(e, uses)
    /\ notifications' = notifications \cup {e}

\* ensureContinuation finds no row of this Timer ID with another payload.
ContinuationFits(e) == \A f \in continuations : f.timer = e.timer => f = e

\* The transaction would commit.
Accepted(e) ==
    /\ e.valid
    /\ ContinuationFits(e)
    /\ ExactReceipt(e) \/ (NoReceipt(e) /\ StatisticFits(e))

Persist(c, e) ==
    /\ Turn(c, e)
    /\ Accepted(e)
    /\ IF ExactReceipt(e) THEN DuplicateEffects(e) ELSE NewEffects(e)
    /\ receipts' = receipts \cup {e}
    /\ continuations' = continuations \cup {e}
    /\ fetched' = [fetched EXCEPT ![c] = @ \ {e}]
    /\ stored' = [stored EXCEPT ![c] = @ \cup {e}]
    /\ UNCHANGED <<published, group, faults>>

\* parseEvent throws, or the transaction rolls back: the entry stays pending.
Reject(c, e) ==
    /\ Turn(c, e)
    /\ ~Accepted(e)
    /\ fetched' = [fetched EXCEPT ![c] = @ \ {e}]
    /\ UNCHANGED <<published, group, stored, database, faults>>

\* A call to PostgreSQL or Redis throws; a commit whose answer is lost is
\* Persist followed by this.
CallFails(c, e) ==
    /\ Turn(c, e) \/ e \in stored[c]
    /\ faults < MaxFaults
    /\ faults' = faults + 1
    /\ fetched' = [fetched EXCEPT ![c] = @ \ {e}]
    /\ stored' = [stored EXCEPT ![c] = @ \ {e}]
    /\ UNCHANGED <<published, group, database>>

\* Mutant: an entry is acknowledged as soon as it is taken up.
InHand(c) == fetched[c] \cup stored[c]

Acknowledgeable(c) == stored[c]

\* Mutant: the entry is acknowledged and left in the stream.
StreamAfterAckOnly(e) == stream

\* XDEL follows only an XACK that removed e from the pending entries.
StreamAfterAck(e) == IF e \in pending THEN stream \ {e} ELSE stream

\* The acknowledge-and-delete script.
Acknowledge(c, e) ==
    /\ e \in Acknowledgeable(c)
    /\ stream' = StreamAfterAck(e)
    /\ pending' = pending \ {e}
    /\ idle' = idle \ {e}
    /\ fetched' = [fetched EXCEPT ![c] = @ \ {e}]
    /\ stored' = [stored EXCEPT ![c] = @ \ {e}]
    /\ UNCHANGED <<published, unread, database, faults>>

\* The process dies; its successor has another consumer name and empty hands.
Crash(c) ==
    /\ ~HandsEmpty(c)
    /\ faults < MaxFaults
    /\ faults' = faults + 1
    /\ fetched' = [fetched EXCEPT ![c] = {}]
    /\ stored' = [stored EXCEPT ![c] = {}]
    /\ UNCHANGED <<published, group, database>>

-----------------------------------------------------------------------------

Init ==
    /\ published = {} /\ stream = {} /\ unread = {} /\ pending = {} /\ idle = {}
    /\ fetched = [c \in Consumers |-> {}]
    /\ stored = [c \in Consumers |-> {}]
    /\ receipts = {} /\ notifications = {} /\ continuations = {}
    /\ statistics = [t \in Promise!TimerIds |-> 0]
    /\ uses = 0
    /\ faults = 0

EntryStep(c, e) == Persist(c, e) \/ Reject(c, e) \/ Acknowledge(c, e)

Next ==
    \/ \E e \in Events : Publish(e) \/ Age(e)
    \/ \E c \in Consumers, e \in Events :
          ReadNew(c, e) \/ EntryStep(c, e) \/ CallFails(c, e)
    \/ \E c \in Consumers : Recover(c) \/ Crash(c)

Spec == Init /\ [][Next]_vars

\* Time passes, and every replica's loop goes on.  One iteration of it recovers
\* when the last recovery is 30 s old and then reads in any case, so neither can
\* be put off for ever by the other: strong fairness for both.  Nothing is
\* assumed of the producers, and a call fails only MaxFaults times.
FairSpec ==
    /\ Spec
    /\ \A e \in Events : WF_vars(Age(e))
    /\ \A c \in Consumers :
         /\ SF_vars(\E e \in Events : ReadNew(c, e))
         /\ SF_vars(Recover(c))
         /\ \A e \in Events : WF_vars(EntryStep(c, e))

-----------------------------------------------------------------------------
(* Properties *)

\* The types of all variables.
TypeOK ==
    /\ published \subseteq Events /\ stream \subseteq Events
    /\ unread \subseteq Events /\ pending \subseteq Events /\ idle \subseteq Events
    /\ fetched \in [Consumers -> SUBSET Events]
    /\ stored \in [Consumers -> SUBSET Events]
    /\ receipts \subseteq Events
    /\ statistics \in [Promise!TimerIds -> Nat]
    /\ uses \in Nat
    /\ notifications \subseteq Events /\ continuations \subseteq Events
    /\ faults \in Nat

\* An event leaves the stream only after its own effects were committed: not
\* on the strength of another payload's receipt, of a transaction that rolled
\* back, or of a consumer that lost the entry to another one.
NothingLost == \A e \in published \ stream : e \in receipts

\* Every entry left in the stream can still be reached, by a read of new
\* entries or by recovery: a drained stream becomes empty, which a consumer in
\* legacy mode waits for.
Reachable == stream = unread \cup pending /\ unread \cap pending = {}

Total(events) == MapThenSumSet(LAMBDA e : e.dur, events)
CountedOn(t) == {e \in receipts : Promise!Recorded(e) /\ Promise!StatisticOf(e) = t}

\* The statistics add up to the completions that have a receipt, each counted
\* once, on the statistic of the Timer it completed or prolonged.
StatisticsExact == \A t \in Promise!TimerIds : statistics[t] = Total(CountedOn(t))

\* Delivery implements exactly-once effects.
ImplementsPromise == Promise!Spec

\* A well-formed event of a Timer ID of its own, and for an extension, one whose
\* original is of that kind and leaves a statistic.
WellFormed(e) == e.valid /\ \A f \in Events \ {e} : f.timer # e.timer

Deliverable(e) ==
    /\ WellFormed(e)
    /\ e.extends # 0 =>
         \E f \in Events : /\ f.timer = e.extends /\ f.extends = 0
                          /\ WellFormed(f) /\ Promise!Recorded(f)

\* Every such event that was published leaves the stream, however many entries
\* around it are rejected for ever, and whichever consumer dies while holding it.
EverythingSettles ==
    \A e \in Events :
        Deliverable(e) => (e \in published ~> e \in receipts /\ e \notin stream)
=============================================================================
