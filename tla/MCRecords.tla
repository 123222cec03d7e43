----------------------------- MODULE MCRecords -----------------------------
(* Two models of what the database keeps for an account's Tasks: vacations   *)
(* that move due dates, and reminders.  They share no variable; part, chosen *)
(* at the start, says which of them moves, and the other stays as it began.  *)
EXTENDS Vacation, TaskReminders

VARIABLE part

RecordsInit ==
    /\ part \in {"vacation", "reminders"}
    /\ VacationInit /\ RemindersInit
    /\ part = "reminders" => \A i \in Items : ~item[i].covered

RecordsNext ==
    \/ part = "vacation" /\ VacationNext /\ UNCHANGED <<part, reminderVars>>
    \/ part = "reminders" /\ RemindersNext /\ UNCHANGED <<part, vacationVars>>

\* The fairness of each while it moves.  Of vacations that stand still nothing is
\* enabled that is fair; of reminders, time and rebuilds would be.
RecordsSpec ==
    /\ RecordsInit /\ [][RecordsNext]_<<part, vacationVars, reminderVars>>
    /\ VacationFairness
    /\ \A p \in Processes : WF_reminderVars(part = "reminders" /\ ScanStep(p))
    /\ \A p \in Rebuilders : WF_reminderVars(part = "reminders" /\ RebuildStep(p))
    /\ WF_reminderVars(EditEnds)
    /\ WF_reminderVars(LeaseRunsOut)
    /\ WF_reminderVars(part = "reminders" /\ Tick)
=============================================================================
