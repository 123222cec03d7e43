---------------------------- MODULE ActionQueue ----------------------------
(***************************************************************************)
(* The application's action queue (userActionQueue.ts) in front of the     *)
(* gateway, of which it relies on the ActionLedger alone: requests and     *)
(* answers may be lost, a request that was aborted or timed out may still  *)
(* arrive, updates come in over a socket at any time, the user clears the  *)
(* queue, and the application is closed and opened again.                  *)
(*                                                                         *)
(* JavaScript runs one callback to its end: what happens between two       *)
(* awaits is one action here.  One account stays signed in.  A long poll   *)
(* is one step, and an update over the socket is the current one.          *)
(***************************************************************************)
EXTENDS ActionLedger

CONSTANTS
    MaxTroubles,  \* bound on lost or refused requests and failed refreshes
    MaxClears,    \* bound on uses of the clear button
    MaxSessions   \* bound on openings of the application

NoTarget == "none"

ASSUME QueueAssumption ==
    /\ MaxTroubles \in Nat /\ MaxClears \in Nat /\ MaxSessions \in Nat \ {0}
    /\ IsFiniteSet(Actions) /\ NoTarget \notin Actions

VARIABLES
    items,      \* the queue
    shown,      \* shown[a]: the status of a's item
    settled,    \* actions whose promise was resolved or rejected
    refreshed,  \* actions whose confirmed state was fetched afterwards
    step,       \* what processQueue awaits
    reply,      \* the answer on its way to it, or "none"
    outcome,    \* the final status to show after the refresh, or "none"
    blocked,    \* isNetworkBlocked; a retry timer is set exactly then
    wants,      \* items with cancellationRequested
    wire,       \* submissions on their way to the gateway
    sent,       \* actions submitted in this session
    restored,   \* items recovered from the gateway in this session
    dropped,    \* recovered items removed by the clear button
    hydrated,   \* hydrateRecoveredActions is done in this session
    target,     \* the item that carries the recovery checkpoint, if any
    newer,      \* records updated since the last recovery read them
    unseen,     \* records updated since the stored checkpoint
    troubles, clears, sessions

answers == <<reply, outcome>>
recoveryVars == <<restored, dropped, hydrated, target>>
counters == <<troubles, clears, sessions>>
queueVars == <<ledgerVars, items, shown, settled, refreshed, step, answers, blocked, wants,
               wire, sent, recoveryVars, newer, unseen, counters>>

NoAnswer == "none"

First == items[1]
InQueue(a) == \E i \in 1..Len(items) : items[i] = a
Final(a) == shown[a] \in Terminal
CanTakeHead == step = "idle" /\ ~blocked /\ items # <<>>
Trouble == troubles < MaxTroubles /\ troubles' = troubles + 1

\* Every write of a lifecycle record moves its updatedAt on.
Touched(a) == newer' = newer \cup {a} /\ unseen' = unseen \cup {a}

-----------------------------------------------------------------------------
(* The end of an item *)

\* The item leaves the queue; the checkpoint it carries is stored.
Checkpointed(a) == IF a = target THEN newer ELSE unseen

Resolve(status) ==
    /\ shown' = [shown EXCEPT ![First] = status]
    /\ settled' = settled \cup {First}
    /\ items' = Tail(items)
    /\ step' = "idle"

\* Mutant: a final status is shown at once.
NeverRefreshed(status) == FALSE

\* settleTerminalItem refreshes the confirmed state of these.
NeedsRefresh(status) == status \in {"succeeded", "unknown"}

Settle(status) ==
    IF NeedsRefresh(status)
    THEN /\ shown' = [shown EXCEPT ![First] = "reconciling"]
         /\ step' = "refreshing"
         /\ outcome' = status
         /\ UNCHANGED <<items, settled, unseen>>
    ELSE /\ Resolve(status)
         /\ unseen' = Checkpointed(First)
         /\ UNCHANGED outcome

\* blockNetworkAndRetry: the item stays at the head.
BlockNetwork ==
    /\ blocked' = TRUE
    /\ step' = "idle"
    /\ UNCHANGED <<items, shown, settled, outcome, unseen>>

Refreshed ==
    /\ step = "refreshing"
    /\ refreshed' = refreshed \cup {First}
    /\ Resolve(outcome)
    /\ outcome' = NoAnswer
    /\ unseen' = Checkpointed(First)
    /\ UNCHANGED <<ledgerVars, reply, blocked, wants, wire, sent, recoveryVars, newer, counters>>

\* terminalFailure: no checkpoint is stored.
RefreshFails ==
    /\ step = "refreshing" /\ Trouble
    /\ Resolve("failed")
    /\ outcome' = NoAnswer
    /\ UNCHANGED <<ledgerVars, refreshed, reply, blocked, wants, wire, sent, recoveryVars, newer,
                   unseen, clears, sessions>>

-----------------------------------------------------------------------------
(* processQueue *)

\* enqueue
Enqueue(a) ==
    /\ shown[a] = "new"
    /\ shown' = [shown EXCEPT ![a] = "queued"]
    /\ items' = Append(items, a)
    /\ UNCHANGED <<ledgerVars, settled, refreshed, step, answers, blocked, wants, wire, sent,
                   recoveryVars, newer, unseen, counters>>

\* The head has got its final status over the socket while it waited.
TakeFinal ==
    /\ Final(First)
    /\ Settle(shown[First])
    /\ UNCHANGED <<wire, sent>>

\* A recovered head is not submitted again.
TakeRestored ==
    /\ ~Final(First) /\ First \in restored
    /\ step' = "polling"
    /\ UNCHANGED <<items, shown, settled, outcome, wire, sent, unseen>>

TakeCancelled ==
    /\ ~Final(First) /\ First \notin restored /\ First \in wants
    /\ step' = "deleting"
    /\ UNCHANGED <<items, shown, settled, outcome, wire, sent, unseen>>

\* submitItem
TakeNew ==
    /\ ~Final(First) /\ First \notin restored \cup wants
    /\ step' = "posting"
    /\ shown' = [shown EXCEPT ![First] = "submitting"]
    /\ wire' = wire \cup {First}
    /\ sent' = sent \cup {First}
    /\ UNCHANGED <<items, settled, outcome, unseen>>

TakeHead ==
    /\ CanTakeHead
    /\ TakeFinal \/ TakeRestored \/ TakeCancelled \/ TakeNew
    /\ UNCHANGED <<ledgerVars, refreshed, reply, blocked, wants, recoveryVars, newer, counters>>

\* Mutant: no retry timer is set.
NoRetryTimer == blocked /\ FALSE /\ UNCHANGED queueVars

\* The retry timer, or the retry button.
RetryNetwork ==
    /\ blocked
    /\ blocked' = FALSE
    /\ UNCHANGED <<ledgerVars, items, shown, settled, refreshed, step, answers, wants, wire,
                   sent, recoveryVars, newer, unseen, counters>>

-----------------------------------------------------------------------------
(* Requests *)

\* The gateway takes a submission; somebody may still await the answer.
PostArrives(a) ==
    /\ a \in wire
    /\ wire' = wire \ {a}
    /\ IF record[a] = "none" THEN Accept(a) /\ Touched(a)
       ELSE UNCHANGED <<ledgerVars, newer, unseen>>
    /\ reply' = IF step = "posting" /\ First = a THEN record'[a] ELSE reply
    /\ UNCHANGED <<items, shown, settled, refreshed, step, outcome, blocked, wants, sent,
                   recoveryVars, counters>>

PostLost(a) ==
    /\ a \in wire /\ Trouble
    /\ wire' = wire \ {a}
    /\ UNCHANGED <<ledgerVars, items, shown, settled, refreshed, step, answers, blocked, wants,
                   sent, recoveryVars, newer, unseen, clears, sessions>>

\* A status goes to the item, and the item on to its end or to polling.
Show(status) ==
    IF status \in Terminal THEN Settle(status)
    ELSE /\ shown' = [shown EXCEPT ![First] = status]
         /\ step' = "polling"
         /\ UNCHANGED <<items, settled, outcome, unseen>>

\* A final status that the socket brought first is kept.
KeptOrReply(a) == IF Final(a) THEN shown[a] ELSE reply

\* The receipt of a submission.
ReceiptArrives ==
    /\ step = "posting" /\ reply # NoAnswer
    /\ Show(KeptOrReply(First))
    /\ reply' = NoAnswer
    /\ UNCHANGED <<ledgerVars, refreshed, blocked, wants, wire, sent, recoveryVars, newer, counters>>

\* The request was aborted, or it is lost and times out.
Interrupted ==
    /\ UNCHANGED troubles
    /\ First \in wants \/ Final(First) \/ (First \notin wire /\ reply = NoAnswer)

\* Aborted, timed out, unreachable, or answered 408 or 5xx.
PostFails ==
    /\ step = "posting"
    /\ Interrupted \/ Trouble
    /\ reply' = NoAnswer
    /\ IF First \in wants
       THEN step' = "deleting" /\ UNCHANGED <<items, shown, settled, outcome, blocked, unseen>>
       ELSE IF Final(First) THEN Settle(shown[First]) /\ UNCHANGED blocked
       ELSE BlockNetwork
    /\ UNCHANGED <<ledgerVars, refreshed, wants, wire, sent, recoveryVars, newer, clears, sessions>>

\* A receipt with another error status: the item fails, although an earlier
\* attempt may be under way or may have arrived.
PostRefused ==
    /\ step = "posting" /\ reply = NoAnswer
    /\ First \in wire /\ Trouble
    /\ wire' \in {wire, wire \ {First}}
    /\ IF Final(First) THEN Settle(shown[First])
       ELSE Resolve("failed") /\ UNCHANGED <<outcome, unseen>>
    /\ UNCHANGED <<ledgerVars, refreshed, reply, blocked, wants, sent, recoveryVars, newer, clears,
                   sessions>>

\* The long poll; 404 for an action the gateway does not know.
PollAnswers ==
    /\ step = "polling"
    /\ IF Final(First) THEN Settle(shown[First])
       ELSE IF record[First] = "none"
       THEN Resolve("failed") /\ UNCHANGED <<outcome, unseen>>
       ELSE Show(record[First])
    /\ UNCHANGED <<ledgerVars, refreshed, reply, blocked, wants, wire, sent, recoveryVars, newer,
                   counters>>

PollFails ==
    /\ step = "polling"
    /\ IF Final(First) THEN Settle(shown[First]) /\ UNCHANGED <<blocked, troubles>>
       ELSE BlockNetwork /\ Trouble
    /\ UNCHANGED <<ledgerVars, refreshed, reply, wants, wire, sent, recoveryVars, newer, clears,
                   sessions>>

\* The gateway takes a cancellation.
DeleteArrives ==
    /\ step = "deleting" /\ reply = NoAnswer
    /\ IF record[First] = "none"
       THEN CancelFirst(First) /\ Touched(First)
       ELSE UNCHANGED <<ledgerVars, newer, unseen>>
    /\ reply' = record'[First]
    /\ UNCHANGED <<items, shown, settled, refreshed, step, outcome, blocked, wants, wire, sent,
                   recoveryVars, counters>>

\* Mutant: whatever DELETE answers, the item is shown as cancelled.
CancelledAnyway(status) == Resolve("cancelled")

\* cancelItem resolves whatever is final, without a refresh or a checkpoint.
Cancelled(status) ==
    IF status \in Terminal THEN Resolve(status)
    ELSE /\ shown' = [shown EXCEPT ![First] = status]
         /\ step' = "polling"
         /\ UNCHANGED <<items, settled>>

DeleteAnswers ==
    /\ step = "deleting" /\ reply # NoAnswer
    /\ Cancelled(reply)
    /\ reply' = NoAnswer
    /\ UNCHANGED <<ledgerVars, refreshed, outcome, blocked, wants, wire, sent, recoveryVars, newer,
                   unseen, counters>>

\* An error status is no exception: the answer has no lifecycle in it.
DeleteRefused ==
    /\ step = "deleting" /\ Trouble
    /\ Cancelled(shown[First])
    /\ reply' = NoAnswer
    /\ UNCHANGED <<ledgerVars, refreshed, outcome, blocked, wants, wire, sent, recoveryVars, newer,
                   unseen, clears, sessions>>

DeleteFails ==
    /\ step = "deleting" /\ Trouble
    /\ BlockNetwork
    /\ reply' = NoAnswer
    /\ UNCHANGED <<ledgerVars, refreshed, wants, wire, sent, recoveryVars, newer, clears, sessions>>

-----------------------------------------------------------------------------
(* Everything else that happens to the queue *)

\* USER_ACTION_UPDATE
SocketUpdate(a) ==
    /\ ~CanTakeHead
    /\ InQueue(a) /\ ~Final(a) /\ shown[a] # "reconciling"
    /\ record[a] \notin {"none", shown[a]}
    /\ shown' = [shown EXCEPT ![a] = record[a]]
    /\ UNCHANGED <<ledgerVars, items, settled, refreshed, step, answers, blocked, wants, wire,
                   sent, recoveryVars, newer, unseen, counters>>

\* clearQueuedActions keeps the head.
KeptItems == <<First>>

\* clearQueuedActions: the others are cancelled here and now, the head is asked
\* to be if it has no receipt yet.
Clear ==
    /\ ~CanTakeHead /\ items # <<>> /\ clears < MaxClears
    /\ clears' = clears + 1
    /\ LET gone == {items[i] : i \in (Len(KeptItems) + 1)..Len(items)}
       IN  /\ items' = KeptItems
           /\ shown' = [a \in Actions |-> IF a \in gone THEN "cancelled" ELSE shown[a]]
           /\ settled' = settled \cup gone
           /\ dropped' = dropped \cup (gone \cap restored)
    /\ wants' = IF shown[First] = "submitting" THEN wants \cup {First} ELSE wants
    /\ UNCHANGED <<ledgerVars, refreshed, step, answers, blocked, wire, sent, restored, hydrated,
                   target, newer, unseen, troubles, sessions>>

\* A gateway worker goes on with a.
GatewayRuns(a) ==
    /\ LedgerRun(a)
    /\ IF record' # record THEN Touched(a) ELSE UNCHANGED <<newer, unseen>>
    /\ UNCHANGED <<items, shown, settled, refreshed, step, answers, blocked, wants, wire, sent,
                   recoveryVars, counters>>

\* The application is closed and opened: what was not submitted is gone.
Reopen ==
    /\ ~CanTakeHead /\ sessions < MaxSessions
    /\ sessions' = sessions + 1
    /\ items' = <<>> /\ step' = "idle" /\ blocked' = FALSE
    /\ shown' = [a \in Actions |-> IF shown[a] = "new" THEN "new" ELSE "gone"]
    /\ reply' = NoAnswer /\ outcome' = NoAnswer
    /\ wants' = {} /\ sent' = {} /\ restored' = {} /\ dropped' = {}
    /\ hydrated' = FALSE /\ target' = NoTarget
    /\ UNCHANGED <<ledgerVars, settled, refreshed, wire, newer, unseen, troubles, clears>>

\* The checkpoint is stored when the last recovered item is through.
LastFound(found, q) ==
    {q[i] : i \in {j \in 1..Len(q) : q[j] \in found /\ \A k \in (j + 1)..Len(q) : q[k] \notin found}}

InProgress(a) == record[a] \in {"accepted", "running"}

\* Mutant: what was finished meanwhile is not looked for.
ActiveOnly(a) == InProgress(a)

\* Recovery lists every action that was ever accepted.
Recoverable(a) == record[a] \notin {"none", "cancelled"}

AcceptedBefore(a, b) ==
    \E i, j \in 1..Len(arrivals) : i < j /\ arrivals[i] = a /\ arrivals[j] = b

\* Active actions in the order of their acceptance, then finished ones in any
\* order (they are no longer told apart here).
Listings(new) ==
    {q \in SetToSeqs(new) :
        \A i, j \in 1..Len(q) :
            i < j /\ InProgress(q[j]) => InProgress(q[i]) /\ AcceptedBefore(q[i], q[j])}

\* hydrateRecoveredActions
Hydrate ==
    /\ ~hydrated
    /\ hydrated' = TRUE
    /\ newer' = {}
    /\ LET found == {a \in unseen : Recoverable(a)}
           new == {a \in found : ~InQueue(a)}
       IN  /\ \E q \in Listings(new) : items' = items \o q
           /\ shown' = [a \in Actions |-> IF a \in new THEN record[a] ELSE shown[a]]
           /\ restored' = new
           /\ IF found = {} THEN target' = NoTarget /\ unseen' = {}
              ELSE target' \in LastFound(found, items') /\ UNCHANGED unseen
    /\ UNCHANGED <<ledgerVars, settled, refreshed, step, answers, blocked, wants, wire, sent,
                   dropped, counters>>

-----------------------------------------------------------------------------

QueueInit ==
    /\ LedgerInit
    /\ items = <<>> /\ step = "idle" /\ reply = NoAnswer /\ outcome = NoAnswer
    /\ shown = [a \in Actions |-> "new"]
    /\ settled = {} /\ refreshed = {} /\ wants = {} /\ wire = {} /\ sent = {}
    /\ restored = {} /\ dropped = {} /\ newer = {} /\ unseen = {}
    /\ blocked = FALSE /\ hydrated = TRUE /\ target = NoTarget
    /\ troubles = 0 /\ clears = 0 /\ sessions = 1

RequestsEnd ==
    \/ ReceiptArrives \/ PostFails \/ PostRefused \/ PollAnswers \/ PollFails
    \/ DeleteArrives \/ DeleteAnswers \/ DeleteRefused \/ DeleteFails
    \/ Refreshed \/ RefreshFails

QueueNext ==
    \/ \E a \in Actions :
          Enqueue(a) \/ PostArrives(a) \/ PostLost(a) \/ SocketUpdate(a) \/ GatewayRuns(a)
    \/ TakeHead \/ RetryNetwork \/ RequestsEnd
    \/ Clear \/ Reopen \/ Hydrate

QueueSpec == QueueInit /\ [][QueueNext]_queueVars

\* The event loop goes on, timers fire, requests end one way or another, and
\* the gateway finishes what it accepted.
QueueFairness ==
    /\ WF_queueVars(TakeHead)
    /\ WF_queueVars(RetryNetwork)
    /\ WF_queueVars(ReceiptArrives \/ PostFails)
    /\ WF_queueVars(PollAnswers)
    /\ WF_queueVars(DeleteArrives \/ DeleteAnswers)
    /\ WF_queueVars(Refreshed)
    /\ \A a \in Actions : WF_queueVars(PostArrives(a))
    /\ \A a \in Actions : WF_queueVars(GatewayRuns(a))

FairQueueSpec == QueueSpec /\ QueueFairness

-----------------------------------------------------------------------------
(* Properties *)

\* Only the head is submitted, and only when everything submitted before it is
\* settled and, if it succeeded or nobody knows, refreshed from confirmed state.
\* (What failed is not refreshed, although it may have taken effect; an action
\* that was asked to be cancelled is settled without, and one whose refresh
\* failed may be recovered behind the head.)
NextWaitsForRefresh ==
    step = "posting" =>
        \A b \in sent \ {First} :
            /\ b \in settled
            /\ shown[b] \in {"succeeded", "unknown"} /\ b \notin wants \cup restored
               => b \in refreshed

\* What the application says was cancelled never takes effect, what it says
\* succeeded did; recovered actions that the clear button removed are excepted.
ShownIsTrue ==
    \A a \in settled \ dropped :
        /\ shown[a] = "cancelled" => ~InEffect(a) /\ ~InProgress(a)
        /\ shown[a] = "succeeded" => InEffect(a)

\* However often the application is closed, an action the gateway accepted is
\* either settled, in the queue, or found by the next recovery.
NothingForgotten ==
    \A a \in Actions :
        record[a] \notin {"none", "cancelled"} => a \in settled \/ InQueue(a) \/ a \in unseen

\* What is queued is settled in the end, unless the application is closed.
QueuedIsSettled ==
    \A a \in Actions : InQueue(a) ~> (a \in settled \/ shown[a] = "gone")
=============================================================================
