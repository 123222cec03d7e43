----------------------------- MODULE MCWorkers -----------------------------
(* Three models that share no variable in one run: the continuation worker,  *)
(* the notification worker and the application's queue.  part, chosen at the *)
(* start, says which of them moves; the others stay as they began.           *)
EXTENDS ContinuationWorker, NotificationWorker, ActionQueue

VARIABLE part

WorkersInit ==
    /\ part \in {"continuation", "notification", "queue"}
    /\ ContinuationInit /\ NoticeInit /\ QueueInit

WorkersNext ==
    \/ part = "continuation" /\ ContinuationNext /\ UNCHANGED <<part, noticeVars, queueVars>>
    \/ part = "notification" /\ NoticeNext /\ UNCHANGED <<part, continuationVars, queueVars>>
    \/ part = "queue" /\ QueueNext /\ UNCHANGED <<part, continuationVars, noticeVars>>

\* Of a part that stands still, nothing is enabled that its fairness is about.
WorkersSpec ==
    /\ WorkersInit
    /\ [][WorkersNext]_<<part, continuationVars, noticeVars, queueVars>>
    /\ ContinuationFairness /\ NoticeFairness /\ QueueFairness
=============================================================================
