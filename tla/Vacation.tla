------------------------------ MODULE Vacation ------------------------------
(* Vacation mode (vacation.service.ts): every day of a vacation moves the    *)
(* due dates of the account's covered items one day on.  Each process looks  *)
(* once a minute for active vacations and works one off in a transaction     *)
(* under the lock of its row; the user starts, ends and configures it, and   *)
(* edits items, which TypeORM saves as they were read (tasks.service.ts).    *)
(*                                                                           *)
(* Days are numbers, 0 is no date.  The account's local date is zone days    *)
(* ahead of the server's.  covered stands for an active item that has a due  *)
(* date and is vacationEligible.                                             *)
EXTENDS Integers, FiniteSets

CONSTANTS
    Items,
    ListItems,     \* those that are items of a list
    Pollers,       \* backend processes
    MaxDay,        \* bound: the last day looked at
    MaxActs        \* bound: vacations started or ended, edits, configurations and
                   \* changes of preferences

ASSUME VacationConstants ==
    /\ {MaxDay, MaxActs} \subseteq Nat /\ 0 \notin Items
    /\ ListItems \subseteq Items

VARIABLES
    day, zone,
    enabled,    \* preferences.vacationExtension
    vacation,   \* the vacation_states row
    item,       \* [Items -> [moved, covered, run, shifted, touched]]
    pass,       \* [Pollers -> the day at which its pass began, 0 without one]
    edited,      \* an item as an edit under way has read it: [of, was]
    starting,   \* what an activation under way has read: [date, zone, ends]
    ending,     \* the row as a deactivation under way has read it, or NoRow
    setup,      \* configure's next step
    joined,     \* history: the day since which the item is covered in this run
    before,     \* history: what it had moved until then
    latest,     \* history: the greatest local date so far
    starts,     \* runs started: the last one's ID
    changes

userParts == <<edited, starting, ending, setup>>
histories == <<joined, before, latest, starts>>
vacationVars ==
    <<day, zone, enabled, vacation, item, pass, edited, starting, ending, setup, joined, before,
      latest, starts, changes>>

Today == day + zone
Later(a, b) == IF a > b THEN a ELSE b
Change == changes < MaxActs /\ changes' = changes + 1

NoRow == [active |-> FALSE, run |-> 0, from |-> 0, ends |-> 0, doneOn |-> 0, doneZone |-> 0]
NoItem == [moved |-> 0, covered |-> FALSE, run |-> 0, shifted |-> 0, touched |-> 0]
NoStart == [date |-> 0, zone |-> 0, ends |-> 0]
NoEdit == [of |-> 0, was |-> NoItem]

-----------------------------------------------------------------------------
(* Moving due dates *)

\* The return date is the first day that is none of the vacation.
Returned(v, date) == v.ends # 0 /\ date >= v.ends
Through(v, date) == IF Returned(v, date) THEN v.ends - 1 ELSE date

\* Mutant: the date of the last move is not looked at.
FirstOfRun(v, x, tz) == Later(x.touched + tz, v.from)

FirstDate(v, x, tz) ==
    IF x.run = v.run /\ x.shifted # 0 THEN x.shifted + 1 ELSE Later(x.touched + tz, v.from)

\* Mutant: what was moved once in a run is left alone.
UnprocessedRun(v, x, through) == x.covered /\ x.run # v.run

\* getUnprocessedDueDateShiftWhere.
Unprocessed(v, x, through) == x.covered /\ (x.run # v.run \/ x.shifted < through)

\* applyDueDateShifts, in time zone tz.
Shifted(v, x, through, tz) ==
    LET days == Through(v, through) - FirstDate(v, x, tz) + 1
    IN  IF v.run # 0 /\ Unprocessed(v, x, through) /\ days > 0
        THEN [x EXCEPT !.moved = @ + days, !.run = v.run, !.shifted = Through(v, through),
                       !.touched = day]
        ELSE x

StartPass(p) ==
    /\ pass[p] = 0 /\ vacation.active
    /\ pass' = [pass EXCEPT ![p] = day]
    /\ UNCHANGED <<day, zone, enabled, vacation, item, userParts, histories, changes>>

ShouldRun(through) ==
    \/ vacation.doneOn # through \/ vacation.doneZone # zone
    \/ vacation.run # 0 /\ \E i \in Items : Unprocessed(vacation, item[i], through)

\* processActiveVacation.
Process(p) ==
    LET through == Through(vacation, pass[p] + zone)
        over == Returned(vacation, pass[p] + zone)
    IN  /\ pass[p] # 0
        /\ pass' = [pass EXCEPT ![p] = 0]
        /\ \/ /\ ~vacation.active
              /\ UNCHANGED <<vacation, item>>
           \/ /\ vacation.active /\ ~enabled
              /\ vacation' = [vacation EXCEPT !.active = FALSE]
              /\ UNCHANGED item
           \/ /\ vacation.active /\ enabled /\ ~ShouldRun(through)
              /\ vacation' = [vacation EXCEPT !.active = ~over]
              /\ UNCHANGED item
           \/ /\ vacation.active /\ enabled /\ ShouldRun(through)
              /\ item' = [i \in Items |-> Shifted(vacation, item[i], through, zone)]
              /\ vacation' = [vacation EXCEPT !.active = ~over, !.doneOn = through,
                                              !.doneZone = zone]
        /\ UNCHANGED <<day, zone, enabled, userParts, histories, changes>>

-----------------------------------------------------------------------------
(* The user *)

\* activate checks the preferences and the return date before its transaction.
ReadStart(ends) ==
    /\ Change /\ starting = NoStart
    /\ enabled
    /\ ends = 0 \/ ends > Today
    /\ starting' = [date |-> Today, zone |-> zone, ends |-> ends]
    /\ UNCHANGED <<day, zone, enabled, vacation, item, pass, edited, ending, setup, histories>>

\* The transaction, with the date and the time zone of that moment.
Activate ==
    LET date == starting.date
        v == [active |-> TRUE, run |-> starts + 1, from |-> date, ends |-> starting.ends,
              doneOn |-> date, doneZone |-> starting.zone]
    IN  /\ starting # NoStart
        /\ starting' = NoStart
        /\ IF vacation.active
           THEN UNCHANGED <<vacation, item, joined, before, starts>>
           ELSE /\ starts' = starts + 1
                /\ vacation' = v
                /\ item' = [i \in Items |-> Shifted(v, item[i], date, starting.zone)]
                /\ joined' = [i \in Items |-> IF item[i].covered THEN date ELSE 0]
                /\ before' = [i \in Items |-> item[i].moved]
        /\ UNCHANGED <<day, zone, enabled, pass, edited, ending, setup, latest, changes>>

\* deactivate reads the row, and saves what it read.
ReadEnding ==
    /\ Change /\ ending = NoRow /\ vacation.active
    /\ ending' = vacation
    /\ UNCHANGED <<day, zone, enabled, vacation, item, pass, edited, starting, setup, histories>>

SaveEnding ==
    /\ ending # NoRow
    /\ vacation' = [ending EXCEPT !.active = FALSE]
    /\ ending' = NoRow
    /\ UNCHANGED <<day, zone, enabled, item, pass, edited, starting, setup, histories, changes>>

\* The items that are covered after an update, and when they joined the run.
Cover(items) ==
    /\ item' = items
    /\ LET new == {i \in Items : items[i].covered /\ vacation.active /\ joined[i] = 0}
       IN  /\ joined' = [i \in Items |-> IF i \in new THEN Later(day, vacation.from) ELSE joined[i]]
           /\ before' = [i \in Items |-> IF i \in new THEN items[i].moved ELSE before[i]]

\* updateTask reads the item, and saves every column as it read it.
ReadItem(i) ==
    /\ Change /\ edited = NoEdit
    /\ edited' = [of |-> i, was |-> item[i]]
    /\ UNCHANGED <<day, zone, enabled, vacation, item, pass, starting, ending, setup, histories>>

SaveItem(covered) ==
    /\ edited # NoEdit
    /\ Cover([item EXCEPT ![edited.of] = [edited.was EXCEPT !.covered = covered, !.touched = day]])
    /\ edited' = NoEdit
    /\ UNCHANGED <<day, zone, enabled, vacation, pass, starting, ending, setup, latest, starts,
                   changes>>

\* configure uncovers everything, covers what was chosen, takes out what is
\* excluded, and has the day processed again.
Uncover ==
    /\ Change /\ setup = "idle"
    /\ Cover([i \in Items |-> [item[i] EXCEPT !.covered = FALSE, !.touched = day]])
    /\ setup' = "cover"
    /\ UNCHANGED <<day, zone, enabled, vacation, pass, edited, starting, ending, latest, starts>>

Mark(chosen, covered) ==
    /\ Cover([i \in Items |-> IF i \in chosen
                              THEN [item[i] EXCEPT !.covered = covered, !.touched = day]
                              ELSE item[i]])
    /\ UNCHANGED <<day, zone, enabled, vacation, pass, edited, starting, ending, latest, starts,
                   changes>>

\* The items of the chosen intentions, those of the chosen lists, and what is
\* excluded: an update each.
CoverChosen(chosen) ==
    \/ setup = "cover" /\ chosen \cap ListItems = {} /\ setup' = "lists" /\ Mark(chosen, TRUE)
    \/ setup = "lists" /\ chosen \subseteq ListItems /\ setup' = "exclude" /\ Mark(chosen, TRUE)

Exclude(chosen) ==
    setup = "exclude" /\ setup' = "reset" /\ Mark(chosen, FALSE)

ResetDay ==
    /\ setup = "reset"
    /\ vacation' = IF vacation.active THEN [vacation EXCEPT !.doneOn = 0, !.doneZone = 0]
                   ELSE vacation
    /\ setup' = "idle"
    /\ UNCHANGED <<day, zone, enabled, item, pass, edited, starting, ending, histories, changes>>

\* Preferences: the extension, or the time zone.
SavePreferences ==
    /\ Change
    /\ \/ enabled' = ~enabled /\ UNCHANGED zone
       \/ zone' = 1 - zone /\ UNCHANGED enabled
    /\ latest' = Later(latest, day + zone')
    /\ UNCHANGED <<day, vacation, item, pass, userParts, joined, before, starts>>

NextDay ==
    /\ day < MaxDay
    /\ day' = day + 1
    /\ latest' = Later(latest, day' + zone)
    /\ UNCHANGED <<zone, enabled, vacation, item, pass, userParts, joined, before, starts, changes>>

-----------------------------------------------------------------------------
VacationInit ==
    /\ day = 1 /\ zone = 0 /\ enabled = TRUE /\ latest = 1 /\ starts = 0 /\ changes = 0
    /\ vacation = NoRow
    /\ item \in [Items -> {[moved |-> 0, covered |-> c, run |-> 0, shifted |-> 0, touched |-> 1] :
                               c \in BOOLEAN}]
    /\ pass = [p \in Pollers |-> 0]
    /\ edited = NoEdit /\ starting = NoStart /\ ending = NoRow /\ setup = "idle"
    /\ joined = [i \in Items |-> 0]
    /\ before = [i \in Items |-> 0]

VacationNext ==
    \/ \E p \in Pollers : StartPass(p) \/ Process(p)
    \/ \E ends \in 0..(MaxDay + 1) : ReadStart(ends)
    \/ Activate \/ ReadEnding \/ SaveEnding
    \/ \E i \in Items : ReadItem(i)
    \/ \E covered \in BOOLEAN : SaveItem(covered)
    \/ Uncover \/ ResetDay
    \/ \E chosen \in SUBSET Items : CoverChosen(chosen) \/ Exclude(chosen)
    \/ SavePreferences \/ NextDay

VacationSpec == VacationInit /\ [][VacationNext]_vacationVars

\* The interval of every process goes on, and a handler comes to its end.
VacationFairness ==
    /\ \A p \in Pollers : WF_vacationVars(StartPass(p) \/ Process(p))
    /\ WF_vacationVars(Activate)
    /\ WF_vacationVars(SaveEnding)
    /\ WF_vacationVars(\E covered \in BOOLEAN : SaveItem(covered))
    /\ WF_vacationVars(ResetDay \/ \E chosen \in SUBSET Items : CoverChosen(chosen) \/ Exclude(chosen))

FairVacationSpec == VacationSpec /\ VacationFairness

-----------------------------------------------------------------------------
(* Properties *)

DaysFrom(first) ==
    LET last == Through(vacation, latest)
    IN  IF first = 0 \/ last < first THEN 0 ELSE last - first + 1

\* In one vacation no item moves by more days than there have been since it is
\* covered, whatever passes, processes, late saves and new settings come together:
\* no day counts twice, and none before the item joined or after the return.
\* (A late deactivation may put the row of an older vacation back, ended.)
NeverOvershifts ==
    vacation.run = starts =>
        \A i \in Items : item[i].moved <= before[i] + DaysFrom(joined[i])

\* An active vacation is worked off: what is covered has moved for every day since,
\* and a vacation whose return date has come is over.
Behind(i) ==
    item[i].covered /\ FirstDate(vacation, item[i], zone) <= Through(vacation, Today)
VacationCatchesUp ==
    <>[](vacation.active => ~Returned(vacation, Today) /\ \A i \in Items : ~Behind(i))
=============================================================================
