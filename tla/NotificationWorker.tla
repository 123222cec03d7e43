------------------------- MODULE NotificationWorker -------------------------
(***************************************************************************)
(* The worker behind notification_outbox: it delivers the notifications of *)
(* one account's completions, at least once each and in the order in which *)
(* their rows were created.  Every replica runs one                        *)
(* TimerCompletionNotificationWorkerService loop (Senders).  A row is      *)
(* claimed only while no earlier one of the account is unprocessed.        *)
(*                                                                         *)
(* A row's number is its place by createdAt, which is when its transaction *)
(* began: transactions of two replicas may commit the other way round.     *)
(***************************************************************************)
EXTENDS Integers, Sequences, FiniteSets, SequencesExt

CONSTANTS
    Notices,       \* the account's rows, numbered by createdAt
    Senders,       \* worker loops, one per replica
    Unreadable,    \* rows whose payload no worker can parse
    MaxBreakdowns  \* bound on crashes, failed calls and stalls

ASSUME NotificationAssumption ==
    /\ Notices \subseteq Nat \ {0} /\ IsFiniteSet(Notices)
    /\ Unreadable \subseteq Notices
    /\ MaxBreakdowns \in Nat
    /\ "nobody" \notin Senders

VARIABLES
    status,      \* status[n]: "absent" before its transaction commits
    holder,      \* holder[n]: the claimToken's worker
    attempted,   \* rows with attempts > 0
    ripe,        \* rows whose availableAt has come
    expired,     \* rows whose lease has run out
    notice,      \* notice[w]: the row w works on, 0 for none
    stage,       \* stage[w]: what w does next
    doubtful,    \* workers whose heartbeat has failed (ownershipLost)
    deliveries,  \* deliveries to the user so far, in order
    overtaken,   \* history: rows committed after a later one was claimed
    breakdowns

outboxRows == <<status, holder, attempted, ripe, expired>>
senders == <<notice, stage, doubtful>>
noticeVars == <<outboxRows, senders, deliveries, overtaken, breakdowns>>

Nobody == "nobody"

Done(n) == status[n] \in {"processed", "failed"}
Holds(w) == holder[notice[w]] = w
Breakdown == breakdowns < MaxBreakdowns /\ breakdowns' = breakdowns + 1

-----------------------------------------------------------------------------

\* The row's transaction commits.
CommitNotice(n) ==
    /\ status[n] = "absent"
    /\ status' = [status EXCEPT ![n] = "pending"]
    /\ ripe' = ripe \cup {n}
    /\ overtaken' =
          IF \E m \in attempted : m > n THEN overtaken \cup {n} ELSE overtaken
    /\ UNCHANGED <<holder, attempted, expired, senders, deliveries, breakdowns>>

\* Mutant: a row that waits for its retry is passed over.
NoneWaits(n) == \A m \in Notices : m < n => status[m] # "processing"

\* NOT EXISTS (... earlier ...)
NoneEarlier(n) == \A m \in Notices : m < n => Done(m) \/ status[m] = "absent"

\* Mutant: a row whose worker died stays with it.
OnlyPending(n) == n \in ripe /\ status[n] = "pending"

Available(n) ==
    \/ n \in ripe /\ status[n] = "pending"
    \/ n \in expired

\* claimPendingCompletionNotifications
ClaimNotice(w, n) ==
    /\ stage[w] = "idle"
    /\ Available(n) /\ NoneEarlier(n)
    /\ status' = [status EXCEPT ![n] = "processing"]
    /\ holder' = [holder EXCEPT ![n] = w]
    /\ attempted' = attempted \cup {n}
    /\ expired' = expired \ {n}
    /\ notice' = [notice EXCEPT ![w] = n]
    /\ stage' = [stage EXCEPT ![w] = "renew"]
    /\ UNCHANGED <<ripe, doubtful, deliveries, overtaken, breakdowns>>

EndJob(w) ==
    /\ notice' = [notice EXCEPT ![w] = 0]
    /\ stage' = [stage EXCEPT ![w] = "idle"]
    /\ doubtful' = doubtful \ {w}

\* Mutant: the claim is not cleared.
KeepsHolder(w, how) ==
    IF Holds(w) THEN status' = [status EXCEPT ![notice[w]] = how] /\ UNCHANGED <<holder, expired>>
    ELSE UNCHANGED <<status, holder, expired>>

\* markClaimedCompletionNotificationProcessed and ...Failed
Mark(w, how) ==
    IF Holds(w)
    THEN /\ status' = [status EXCEPT ![notice[w]] = how]
         /\ holder' = [holder EXCEPT ![notice[w]] = Nobody]
         /\ expired' = expired \ {notice[w]}
    ELSE UNCHANGED <<status, holder, expired>>

\* The renewal at the start of processJob.
RenewNotice(w) ==
    /\ stage[w] = "renew"
    /\ expired' = IF Holds(w) THEN expired \ {notice[w]} ELSE expired
    /\ IF ~Holds(w) \/ w \in doubtful THEN EndJob(w)
       ELSE stage' = [stage EXCEPT ![w] = "send"] /\ UNCHANGED <<notice, doubtful>>
    /\ UNCHANGED <<status, holder, attempted, ripe, deliveries, overtaken, breakdowns>>

\* The payload is malformed: a dead letter.
RejectNotice(w) ==
    /\ stage[w] = "send" /\ notice[w] \in Unreadable
    /\ Mark(w, "failed")
    /\ EndJob(w)
    /\ UNCHANGED <<attempted, ripe, deliveries, overtaken, breakdowns>>

\* emitDurableTimerCompleted, emitDurableLongBreakDetected
Deliver(w) ==
    /\ stage[w] = "send" /\ notice[w] \notin Unreadable
    /\ deliveries' = Append(deliveries, notice[w])
    /\ stage' = [stage EXCEPT ![w] = "mark"]
    /\ UNCHANGED <<outboxRows, notice, doubtful, overtaken, breakdowns>>

MarkNotice(w) ==
    /\ stage[w] = "mark"
    /\ IF w \in doubtful THEN UNCHANGED <<status, holder, expired>> ELSE Mark(w, "processed")
    /\ EndJob(w)
    /\ UNCHANGED <<attempted, ripe, deliveries, overtaken, breakdowns>>

-----------------------------------------------------------------------------

\* Every ten seconds while a job is in progress.
NoticeHeartbeat(w) ==
    /\ stage[w] # "idle" /\ w \notin doubtful
    /\ IF Holds(w) THEN notice[w] \in expired /\ UNCHANGED doubtful ELSE doubtful' = doubtful \cup {w}
    /\ expired' = IF Holds(w) THEN expired \ {notice[w]} ELSE expired
    /\ UNCHANGED <<status, holder, attempted, ripe, notice, stage, deliveries, overtaken, breakdowns>>

\* claimedUntil passes, and the holder is gone.
NoticeLeaseRunsOut(n) ==
    /\ status[n] = "processing" /\ n \notin expired /\ notice[holder[n]] # n
    /\ expired' = expired \cup {n}
    /\ UNCHANGED <<status, holder, attempted, ripe, senders, deliveries, overtaken, breakdowns>>

\* The delay of a retry is over.
RetryDue(n) ==
    /\ n \notin ripe /\ status[n] = "pending"
    /\ ripe' = ripe \cup {n}
    /\ UNCHANGED <<status, holder, attempted, expired, senders, deliveries, overtaken, breakdowns>>

\* A live worker is too slow for its lease.
SenderStalls(w) ==
    /\ stage[w] # "idle" /\ Holds(w) /\ Breakdown
    /\ expired' = expired \cup {notice[w]}
    /\ UNCHANGED <<status, holder, attempted, ripe, senders, deliveries, overtaken>>

\* Something in the job throws, before or after the user has got it: the row
\* is released for a later attempt.
SendFails(w) ==
    /\ stage[w] # "idle" /\ Breakdown
    /\ \E got \in BOOLEAN :
          deliveries' = IF got /\ stage[w] = "send" /\ notice[w] \notin Unreadable
                        THEN Append(deliveries, notice[w]) ELSE deliveries
    /\ Mark(w, "pending")
    /\ ripe' = IF Holds(w) THEN ripe \ {notice[w]} ELSE ripe
    /\ EndJob(w)
    /\ UNCHANGED <<attempted, overtaken>>

\* The replica dies, or releasing the row fails as well.
SenderCrash(w) ==
    /\ stage[w] # "idle" /\ Breakdown
    /\ EndJob(w)
    /\ UNCHANGED <<outboxRows, deliveries, overtaken>>

\* A renewal by the heartbeat throws.
SenderDoubts(w) ==
    /\ stage[w] # "idle" /\ w \notin doubtful /\ Breakdown
    /\ doubtful' = doubtful \cup {w}
    /\ UNCHANGED <<outboxRows, notice, stage, deliveries, overtaken>>

-----------------------------------------------------------------------------

NoticeInit ==
    /\ status = [n \in Notices |-> "absent"]
    /\ holder = [n \in Notices |-> Nobody]
    /\ attempted = {} /\ ripe = {} /\ expired = {}
    /\ notice = [w \in Senders |-> 0]
    /\ stage = [w \in Senders |-> "idle"]
    /\ doubtful = {} /\ overtaken = {}
    /\ deliveries = <<>> /\ breakdowns = 0

SenderStep(w) ==
    \/ \E n \in Notices : ClaimNotice(w, n)
    \/ RenewNotice(w) \/ RejectNotice(w) \/ Deliver(w) \/ MarkNotice(w)

SenderFails(w) == SenderStalls(w) \/ SendFails(w) \/ SenderCrash(w) \/ SenderDoubts(w)

NoticeNext ==
    \/ \E w \in Senders : SenderStep(w) \/ NoticeHeartbeat(w) \/ SenderFails(w)
    \/ \E n \in Notices : CommitNotice(n) \/ NoticeLeaseRunsOut(n) \/ RetryDue(n)

NoticeSpec == NoticeInit /\ [][NoticeNext]_noticeVars

\* The loops keep polling, what they await ends, and time passes.
NoticeFairness ==
    /\ \A w \in Senders : WF_noticeVars(SenderStep(w))
    /\ \A n \in Notices : WF_noticeVars(NoticeLeaseRunsOut(n)) /\ WF_noticeVars(RetryDue(n))

FairNoticeSpec == NoticeSpec /\ NoticeFairness

-----------------------------------------------------------------------------
(* Properties *)

\* The types; a row has a holder exactly while it is being processed.
NoticeTypes ==
    /\ status \in [Notices -> {"absent", "pending", "processing", "processed", "failed"}]
    /\ holder \in [Notices -> Senders \cup {Nobody}]
    /\ notice \in [Senders -> Notices \cup {0}]
    /\ stage \in [Senders -> {"idle", "renew", "send", "mark"}]
    /\ doubtful \subseteq Senders
    /\ \A n \in Notices : holder[n] # Nobody <=> status[n] = "processing"

Got(n) == \E i \in 1..Len(deliveries) : deliveries[i] = n

\* The user hears of no completion before that of an earlier one, unless the
\* earlier one's row was committed late; and none is marked without delivery.
HeardInOrder ==
    /\ \A n \in Notices : status[n] = "processed" => Got(n)
    /\ \A m, n \in Notices :
          m < n /\ Got(n) => Got(m) \/ status[m] \in {"absent", "failed"} \/ m \in overtaken

\* Every committed notification is delivered or a dead letter in the end.
NoticesSettle ==
    \A n \in Notices : status[n] = "pending" ~> Done(n)
=============================================================================
