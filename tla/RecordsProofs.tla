---------------------------- MODULE RecordsProofs ----------------------------
(* Theorems about what the database keeps for an account's Tasks: vacations   *)
(* move no due date too far (Vacation), and no reminder is sent without need  *)
(* or cause (TaskReminders), for any number of items, processes and days.     *)
EXTENDS Vacation, TaskReminders, FiniteSetTheorems, TLAPS

-----------------------------------------------------------------------------
(* Vacations: types *)

ItemType == [moved : Nat, covered : BOOLEAN, run : Nat, shifted : Nat, touched : Nat]
RowType ==
    [active : BOOLEAN, run : Nat, from : Nat, ends : Nat, doneOn : Nat, doneZone : Nat]

StartType == [date : Nat, zone : 0..1, ends : Nat]
Setups == {"idle", "cover", "lists", "exclude", "reset"}

VacationTypes ==
    /\ day \in Nat /\ zone \in 0..1 /\ enabled \in BOOLEAN
    /\ vacation \in RowType /\ ending \in RowType
    /\ item \in [Items -> ItemType] /\ pass \in [Pollers -> Nat]
    /\ edited = NoEdit \/ edited \in [of : Items, was : ItemType]
    /\ starting \in StartType /\ setup \in Setups
    /\ joined \in [Items -> Nat] /\ before \in [Items -> Nat]
    /\ latest \in Nat /\ starts \in Nat /\ changes \in Nat

\* The last day of a vacation up to a date is a day, and the later the date, the later.
LEMMA ThroughDays ==
    ASSUME NEW v \in RowType, NEW d \in Nat
    PROVE  /\ Through(v, d) \in Nat /\ Through(v, Through(v, d)) = Through(v, d)
           /\ Through(v, d) <= d
           /\ \A e \in Nat : d <= e => Through(v, d) <= Through(v, e)
BY DEF Through, Returned, RowType

\* What a pass makes of an item.
LEMMA ShiftedItem ==
    ASSUME VacationTypes, NEW v \in RowType, NEW x \in ItemType, NEW d \in Nat, NEW tz \in 0..1
    PROVE  /\ Shifted(v, x, d, tz) \in ItemType
           /\ \/ Shifted(v, x, d, tz) = x
              \/ /\ x.covered /\ Through(v, d) >= FirstDate(v, x, tz)
                 /\ Shifted(v, x, d, tz).moved = x.moved + (Through(v, d) - FirstDate(v, x, tz) + 1)
                 /\ Shifted(v, x, d, tz).run = v.run /\ Shifted(v, x, d, tz).shifted = Through(v, d)
                 /\ Shifted(v, x, d, tz).touched = day /\ Shifted(v, x, d, tz).covered = x.covered
<1> DEFINE days == Through(v, d) - FirstDate(v, x, tz) + 1
<1> DEFINE y == [x EXCEPT !.moved = @ + days, !.run = v.run, !.shifted = Through(v, d),
                          !.touched = day]
<1>1. Through(v, d) \in Nat /\ FirstDate(v, x, tz) \in Nat /\ day \in Nat /\ v.run \in Nat /\ x.moved \in Nat
  <2>1. day \in Nat /\ v.run \in Nat /\ x.moved \in Nat /\ x.touched + tz \in Nat /\ v.from \in Nat
        /\ x.shifted + 1 \in Nat
    BY DEF VacationTypes, RowType, ItemType
  <2>2. FirstDate(v, x, tz) \in Nat
    BY <2>1 DEF FirstDate, Later
  <2> QED
    BY <2>1, <2>2, ThroughDays
<1>2. ASSUME days > 0
      PROVE  /\ y \in ItemType /\ y.moved = x.moved + days /\ y.run = v.run
             /\ y.shifted = Through(v, d) /\ y.touched = day /\ y.covered = x.covered
  <2>1. x.moved + days \in Nat
    BY <1>1, <1>2
  <2> HIDE DEF days
  <2> QED
    BY <1>1, <2>1 DEF ItemType
<1>3. Shifted(v, x, d, tz) = IF v.run # 0 /\ Unprocessed(v, x, d) /\ days > 0 THEN y ELSE x
  BY DEF Shifted
<1>4. CASE v.run # 0 /\ Unprocessed(v, x, d) /\ days > 0
  <2>1. Shifted(v, x, d, tz) = y /\ x.covered
    BY <1>3, <1>4 DEF Unprocessed
  <2>2. Through(v, d) >= FirstDate(v, x, tz)
    BY <1>1, <1>4
  <2> QED
    BY <1>2, <1>4, <2>1, <2>2
<1>5. CASE ~(v.run # 0 /\ Unprocessed(v, x, d) /\ days > 0)
  BY <1>3, <1>5
<1> QED
  BY <1>4, <1>5

\* What an update of the items leaves of the histories.
LEMMA Covering ==
    ASSUME NEW items, Cover(items), joined \in [Items -> Nat], before \in [Items -> Nat]
    PROVE  /\ item' = items
           /\ \A i \in Items :
                 IF items[i].covered /\ vacation.active /\ joined[i] = 0
                 THEN joined'[i] = Later(day, vacation.from) /\ before'[i] = items[i].moved
                 ELSE joined'[i] = joined[i] /\ before'[i] = before[i]
BY DEF Cover

LEMMA CoverTypes ==
    ASSUME VacationTypes, NEW items \in [Items -> ItemType], Cover(items)
    PROVE  item' \in [Items -> ItemType] /\ joined' \in [Items -> Nat] /\ before' \in [Items -> Nat]
<1>1. Later(day, vacation.from) \in Nat
  BY DEF VacationTypes, RowType, Later
<1>2. \A i \in Items : items[i].moved \in Nat
  BY DEF ItemType
<1> QED
  BY <1>1, <1>2 DEF Cover, VacationTypes

\* The items after an update.
LEMMA EditedItems ==
    ASSUME VacationTypes
    PROVE  /\ \A c \in BOOLEAN : \A x \in ItemType :
                 /\ [x EXCEPT !.covered = c, !.touched = day] \in ItemType
                 /\ [x EXCEPT !.covered = c, !.touched = day].moved = x.moved
                 /\ [x EXCEPT !.covered = c, !.touched = day].run = x.run
                 /\ [x EXCEPT !.covered = c, !.touched = day].shifted = x.shifted
                 /\ [x EXCEPT !.covered = c, !.touched = day].touched = day
                 /\ [x EXCEPT !.covered = c, !.touched = day].covered = c
<1>1. day \in Nat
  BY DEF VacationTypes
<1> QED
  BY <1>1 DEF ItemType

\* Each update of configure after the first marks what is chosen.
LEMMA Configures ==
    ASSUME NEW chosen, CoverChosen(chosen) \/ Exclude(chosen)
    PROVE  \E c \in BOOLEAN : Mark(chosen, c) /\ setup' \in Setups
BY DEF CoverChosen, Exclude, Setups

\* The row of a vacation that begins, and what its transaction does.
Begun == [active |-> TRUE, run |-> starts + 1, from |-> starting.date, ends |-> starting.ends,
          doneOn |-> starting.date, doneZone |-> starting.zone]

LEMMA ActivateBegins ==
    ASSUME Activate, ~vacation.active
    PROVE  /\ starts' = starts + 1 /\ vacation' = Begun
           /\ item' = [i \in Items |->
                          Shifted(Begun, item[i], starting.date, starting.zone)]
           /\ joined' = [i \in Items |-> IF item[i].covered THEN starting.date ELSE 0]
           /\ before' = [i \in Items |-> item[i].moved]
BY DEF Activate, Begun

\* Every variable keeps its type.
LEMMA VacationTypesKept ==
    VacationTypes /\ [VacationNext]_vacationVars => VacationTypes'
<1> SUFFICES ASSUME VacationTypes, [VacationNext]_vacationVars PROVE VacationTypes'
  OBVIOUS
<1>0. /\ TRUE \in BOOLEAN /\ FALSE \in BOOLEAN /\ day \in Nat /\ zone \in Nat /\ Today \in Nat
      /\ NoRow \in RowType
  BY DEF VacationTypes, Today, NoRow, RowType
<1>1. ASSUME NEW p \in Pollers, StartPass(p) PROVE VacationTypes'
  BY <1>1 DEF StartPass, VacationTypes, userParts, histories
<1>2. ASSUME NEW p \in Pollers, Process(p) PROVE VacationTypes'
  <2> DEFINE through == Through(vacation, pass[p] + zone)
  <2>1. through \in Nat
    BY <1>0, ThroughDays DEF VacationTypes
  <2>2. item' \in [Items -> ItemType]
    <3>1. \A i \in Items : Shifted(vacation, item[i], through, zone) \in ItemType
      BY <2>1, ShiftedItem DEF VacationTypes
    <3> QED
      BY <1>2, <3>1 DEF Process, VacationTypes
  <2>3. vacation' \in RowType
    <3>1. (~Returned(vacation, pass[p] + zone)) \in BOOLEAN
      BY DEF Returned
    <3>2. \A b \in BOOLEAN : [vacation EXCEPT !.active = b] \in RowType
      BY DEF VacationTypes, RowType
    <3>3. \A b \in BOOLEAN :
              [vacation EXCEPT !.active = b, !.doneOn = through, !.doneZone = zone] \in RowType
      BY <1>0, <2>1 DEF VacationTypes, RowType
    <3> QED
      BY <1>0, <1>2, <3>1, <3>2, <3>3 DEF Process, VacationTypes
  <2>4. pass' \in [Pollers -> Nat]
    BY <1>2 DEF Process, VacationTypes
  <2> QED
    BY <1>2, <2>2, <2>3, <2>4 DEF Process, VacationTypes, userParts, histories
<1>3a. ASSUME NEW ends \in 0..(MaxDay + 1), ReadStart(ends) PROVE VacationTypes'
  <2>1. [date |-> Today, zone |-> zone, ends |-> ends] \in StartType
    BY <1>0 DEF VacationTypes, StartType
  <2> QED
    BY <1>3a, <2>1 DEF ReadStart, Change, VacationTypes, histories
<1>3. CASE Activate
  <2>0. starting \in StartType /\ starting' = NoStart /\ NoStart \in StartType
    BY <1>3 DEF Activate, VacationTypes, StartType, NoStart
  <2>1. Begun \in RowType /\ starts + 1 \in Nat
    BY <1>0, <2>0 DEF VacationTypes, RowType, StartType, Begun
  <2>2. \A i \in Items : Shifted(Begun, item[i], starting.date, starting.zone) \in ItemType
    BY <2>0, <2>1, ShiftedItem DEF VacationTypes, StartType
  <2>3. UNCHANGED <<day, zone, enabled, pass, edited, ending, setup, latest, changes>>
    BY <1>3 DEF Activate
  <2>4. CASE vacation.active
    BY <1>3, <2>0, <2>3, <2>4 DEF Activate, VacationTypes
  <2>5. CASE ~vacation.active
    <3>1. joined' \in [Items -> Nat] /\ before' \in [Items -> Nat]
      BY <2>0, <2>5, <1>3, ActivateBegins DEF VacationTypes, ItemType, StartType
    <3> QED
      BY <1>3, <2>0, <2>1, <2>2, <2>3, <2>5, <3>1, ActivateBegins DEF VacationTypes
  <2> QED
    BY <2>4, <2>5
<1>4. CASE ReadEnding
  BY <1>4 DEF ReadEnding, Change, VacationTypes, histories
<1>5. CASE SaveEnding
  <2>1. [ending EXCEPT !.active = FALSE] \in RowType
    BY DEF VacationTypes, RowType
  <2> QED
    BY <1>0, <1>5, <2>1 DEF SaveEnding, VacationTypes, histories
<1>6. ASSUME NEW i \in Items, ReadItem(i) PROVE VacationTypes'
  BY <1>6 DEF ReadItem, Change, VacationTypes, histories
<1>7. ASSUME NEW covered \in BOOLEAN, SaveItem(covered) PROVE VacationTypes'
  <2> DEFINE y == [edited.was EXCEPT !.covered = covered, !.touched = day]
  <2>1. edited.of \in Items /\ edited.was \in ItemType
    BY <1>7 DEF SaveItem, VacationTypes
  <2>2. y \in ItemType
    BY <2>1, EditedItems
  <2>3. [item EXCEPT ![edited.of] = y] \in [Items -> ItemType]
    <3> HIDE DEF y
    <3> QED
      BY <2>1, <2>2 DEF VacationTypes
  <2>4. Cover([item EXCEPT ![edited.of] = y])
    BY <1>7 DEF SaveItem
  <2>5. item' \in [Items -> ItemType] /\ joined' \in [Items -> Nat] /\ before' \in [Items -> Nat]
    BY <2>3, <2>4, CoverTypes
  <2> QED
    BY <1>7, <2>5 DEF SaveItem, VacationTypes
<1>8. CASE Uncover
  <2> DEFINE items == [i \in Items |-> [item[i] EXCEPT !.covered = FALSE, !.touched = day]]
  <2>1. items \in [Items -> ItemType]
    BY <1>0, EditedItems DEF VacationTypes
  <2>2. item' \in [Items -> ItemType] /\ joined' \in [Items -> Nat] /\ before' \in [Items -> Nat]
    BY <1>8, <2>1, CoverTypes DEF Uncover
  <2> QED
    <3>1. changes' \in Nat /\ setup' \in Setups
      <4>1. changes' = changes + 1 /\ setup' = "cover"
        BY <1>8 DEF Uncover, Change
      <4> QED
        BY <4>1 DEF VacationTypes, Setups
    <3>2. UNCHANGED <<day, zone, enabled, vacation, pass, edited, starting, ending, latest, starts>>
      BY <1>8 DEF Uncover
    <3> QED
      BY <2>2, <3>1, <3>2 DEF VacationTypes
<1>9. ASSUME NEW chosen \in SUBSET Items, CoverChosen(chosen) \/ Exclude(chosen) PROVE VacationTypes'
  <2>0. PICK c \in BOOLEAN : Mark(chosen, c) /\ setup' \in Setups
    BY <1>9, Configures
  <2> DEFINE items == [i \in Items |-> IF i \in chosen
                                       THEN [item[i] EXCEPT !.covered = c, !.touched = day]
                                       ELSE item[i]]
  <2>1. items \in [Items -> ItemType]
    BY <1>0, EditedItems DEF VacationTypes
  <2>2. item' \in [Items -> ItemType] /\ joined' \in [Items -> Nat] /\ before' \in [Items -> Nat]
    BY <2>0, <2>1, CoverTypes DEF Mark
  <2> QED
    BY <2>0, <2>2 DEF Mark, VacationTypes
<1>10. CASE ResetDay
  <2>1. [vacation EXCEPT !.doneOn = 0, !.doneZone = 0] \in RowType
    BY DEF VacationTypes, RowType
  <2> QED
    BY <1>10, <2>1 DEF ResetDay, VacationTypes, Setups, histories
<1>11. CASE SavePreferences
  <2>1. zone' \in 0..1 /\ enabled' \in BOOLEAN
    <3>1. (~enabled) \in BOOLEAN
      OBVIOUS
    <3>2. 1 - zone \in 0..1
      BY DEF VacationTypes
    <3>3. \/ enabled' = (~enabled) /\ zone' = zone
          \/ zone' = 1 - zone /\ enabled' = enabled
      BY <1>11 DEF SavePreferences
    <3>4. enabled' \in BOOLEAN
      BY <3>1, <3>3, Zenon DEF VacationTypes
    <3>5. zone' \in 0..1
      BY <3>2, <3>3 DEF VacationTypes
    <3> QED
      BY <3>4, <3>5
  <2>2. latest' \in Nat
    <3>1. \A z \in 0..1 : Later(latest, day + z) \in Nat
      BY DEF VacationTypes, Later
    <3> QED
      BY <1>11, <2>1, <3>1 DEF SavePreferences
  <2> QED
    BY <1>11, <2>1, <2>2 DEF SavePreferences, Change, VacationTypes, userParts
<1>12. CASE NextDay
  BY <1>12 DEF NextDay, VacationTypes, Later, userParts
<1>13. CASE UNCHANGED vacationVars
  BY <1>13 DEF vacationVars, userParts, histories, VacationTypes
<1> QED
  BY <1>1, <1>2, <1>3, <1>3a, <1>4, <1>5, <1>6, <1>7, <1>8, <1>9, <1>10, <1>11, <1>12,
     <1>13
  DEF VacationNext

-----------------------------------------------------------------------------
(* Vacations: the inductive invariant *)

\* No pass began, no item was touched and no activation has read its date on a day to
\* come, and a vacation that begins returns later than that date.
Clocks ==
    /\ day >= 1 /\ day + zone <= latest
    /\ \A p \in Pollers : pass[p] <= day
    /\ \A i \in Items : item[i].touched <= day
    /\ starting # NoStart =>
         /\ starting.date >= 1 /\ starting.date <= latest
         /\ starting.ends = 0 \/ starting.ends > starting.date

\* The vacation going on is the last one started.  A late deactivation may put an older
\* one back, ended; otherwise it has read the days of this one.
SameRun(v, w) == v.run = w.run /\ v.from = w.from /\ v.ends = w.ends
Rows ==
    /\ vacation.run <= starts
    /\ vacation.active => vacation.run = starts
    /\ vacation.run # starts => ~vacation.active /\ ending = NoRow
    /\ ending # NoRow =>
         ending.run <= starts /\ (vacation.run = starts /\ ending.run = starts => SameRun(ending, vacation))
    /\ vacation.ends = 0 \/ vacation.ends > vacation.from
    /\ ending.ends = 0 \/ ending.ends > ending.from

\* No item knows of a vacation to come, and an edit under way has read it as it was.
Reads ==
    /\ \A i \in Items : item[i].run <= starts
    /\ edited # NoEdit => edited.was.run <= starts /\ edited.was.moved <= item[edited.of].moved

\* What is covered has joined the vacation, not later than it was touched or the
\* vacation began.
JoinedAt(x, j, v) ==
    /\ j # 0 => j <= Later(x.touched, v.from)
    /\ v.active /\ x.covered => j # 0
Joins == vacation.run = starts => \A i \in Items : JoinedAt(item[i], joined[i], vacation)

\* An item that was moved in this vacation moved by the days from its joining to the
\* last one it was moved for, and one that was not has not moved since it joined: in
\* the database, and as an edit under way has read it.
Bounded(x, j, b, v, d) ==
    IF x.run = v.run /\ x.shifted # 0
    THEN /\ j # 0 /\ j <= x.shifted /\ x.shifted <= Through(v, d)
         /\ x.moved <= b + (x.shifted - j) + 1
    ELSE x.moved <= b
Bounds ==
    vacation.run = starts =>
        /\ \A i \in Items : Bounded(item[i], joined[i], before[i], vacation, latest)
        /\ edited # NoEdit =>
             Bounded(edited.was, joined[edited.of], before[edited.of], vacation, latest)

VacationInv == VacationTypes /\ Clocks /\ Rows /\ Reads /\ Joins /\ Bounds

-----------------------------------------------------------------------------
(* Vacations: what keeps it *)

\* Time widens the bound.
LEMMA BoundedLater ==
    ASSUME NEW x \in ItemType, NEW j \in Nat, NEW b \in Nat, NEW v \in RowType, NEW d \in Nat,
           NEW e \in Nat, d <= e, Bounded(x, j, b, v, d)
    PROVE  Bounded(x, j, b, v, e)
<1>1. Through(v, d) <= Through(v, e) /\ Through(v, d) \in Nat /\ Through(v, e) \in Nat
  BY ThroughDays
<1>2. x.shifted \in Nat
  BY DEF ItemType
<1> QED
  BY <1>1, <1>2 DEF Bounded

\* A pass moves an item by the days it has not been moved for, none before it joined.
LEMMA PassBounded ==
    ASSUME VacationTypes, NEW x \in ItemType, NEW j \in Nat, NEW b \in Nat, NEW v \in RowType,
           NEW d \in Nat, NEW tz \in 0..1, NEW e \in Nat, d <= e, v.active, x.touched <= day,
           Bounded(x, j, b, v, e), JoinedAt(x, j, v)
    PROVE  LET y == Shifted(v, x, d, tz)
           IN  /\ Bounded(y, j, b, v, e) /\ JoinedAt(y, j, v)
               /\ y.moved >= x.moved /\ y.run \in {x.run, v.run} /\ y.touched <= day
<1> DEFINE y == Shifted(v, x, d, tz)
<1> DEFINE first == FirstDate(v, x, tz)
<1>0. /\ x.moved \in Nat /\ x.shifted \in Nat /\ x.touched \in Nat /\ day \in Nat /\ tz \in Nat
      /\ v.from \in Nat
  BY DEF VacationTypes, ItemType, RowType
<1>1. CASE y = x
  BY <1>0, <1>1
<1>2. CASE /\ x.covered /\ Through(v, d) >= first
           /\ y.moved = x.moved + (Through(v, d) - first + 1)
           /\ y.run = v.run /\ y.shifted = Through(v, d)
           /\ y.touched = day /\ y.covered = x.covered
  <2>1. Through(v, d) \in Nat /\ Through(v, e) \in Nat /\ Through(v, d) <= Through(v, e)
    BY ThroughDays
  <2>2. j # 0 /\ j <= Later(x.touched, v.from)
    BY <1>2 DEF JoinedAt
  <2>3. JoinedAt(y, j, v)
    BY <1>0, <1>2, <2>2 DEF JoinedAt, Later
  <2>4. CASE x.run = v.run /\ x.shifted # 0
    <3>1. first = x.shifted + 1
      BY <2>4 DEF FirstDate
    <3>2. j <= x.shifted /\ x.moved <= b + (x.shifted - j) + 1
      BY <2>4 DEF Bounded
    <3>3. /\ y.shifted # 0 /\ j <= y.shifted /\ y.shifted <= Through(v, e)
          /\ y.moved <= b + (y.shifted - j) + 1 /\ y.moved >= x.moved
      BY <1>0, <1>2, <2>1, <3>1, <3>2
    <3> QED
      BY <1>0, <1>2, <2>2, <2>3, <3>3 DEF Bounded
  <2>5. CASE ~(x.run = v.run /\ x.shifted # 0)
    <3>1. first = Later(x.touched + tz, v.from)
      BY <2>5 DEF FirstDate
    <3>2. first \in Nat /\ j <= first
      BY <1>0, <2>2, <3>1 DEF Later
    <3>3. x.moved <= b
      BY <2>5 DEF Bounded
    <3>4. /\ y.shifted # 0 /\ j <= y.shifted /\ y.shifted <= Through(v, e)
          /\ y.moved <= b + (y.shifted - j) + 1 /\ y.moved >= x.moved
      BY <1>0, <1>2, <2>1, <2>2, <3>2, <3>3
    <3> QED
      BY <1>0, <1>2, <2>2, <2>3, <3>4 DEF Bounded
  <2> QED
    BY <2>4, <2>5
<1> QED
  BY <1>1, <1>2, ShiftedItem

\* An update that leaves an item's move alone, and touches what it covers.
LEMMA UpdateBounded ==
    ASSUME VacationTypes, NEW x \in ItemType, NEW y \in ItemType, NEW j \in Nat, NEW b \in Nat,
           NEW k, NEW c, NEW v \in RowType, NEW d \in Nat, day >= 1,
           JoinedAt(x, j, v), x.touched <= day, Bounded(y, j, b, v, d),
           y.touched = day \/ (y.touched = x.touched /\ y.covered = x.covered),
           IF y.covered /\ v.active /\ j = 0
           THEN k = Later(day, v.from) /\ c = y.moved
           ELSE k = j /\ c = b
    PROVE  JoinedAt(y, k, v) /\ Bounded(y, k, c, v, d)
<1>0. /\ x.moved \in Nat /\ y.moved \in Nat /\ x.touched \in Nat /\ day \in Nat /\ v.from \in Nat
  BY DEF VacationTypes, ItemType, RowType
<1>1. CASE y.covered /\ v.active /\ j = 0
  <2>1. y.touched = day
    BY <1>1 DEF JoinedAt
  <2>2. ~(y.run = v.run /\ y.shifted # 0)
    BY <1>1 DEF Bounded
  <2> QED
    BY <1>0, <1>1, <2>1, <2>2 DEF JoinedAt, Bounded, Later
<1>2. CASE ~(y.covered /\ v.active /\ j = 0)
  BY <1>0, <1>2 DEF JoinedAt, Later
<1> QED
  BY <1>1, <1>2

-----------------------------------------------------------------------------
(* Vacations: every step keeps it *)

LEMMA ClocksKept ==
    ASSUME VacationTypes, Clocks, [VacationNext]_vacationVars
    PROVE  Clocks'
<1>0. /\ day \in Nat /\ zone \in 0..1 /\ latest \in Nat /\ pass \in [Pollers -> Nat]
      /\ item \in [Items -> ItemType]
  BY DEF VacationTypes
<1>a. ASSUME NEW v \in RowType, NEW x \in ItemType, NEW d \in Nat, NEW tz \in 0..1,
             x.touched <= day
      PROVE  Shifted(v, x, d, tz).touched <= day
  <2>1. Shifted(v, x, d, tz) = x \/ Shifted(v, x, d, tz).touched = day
    BY ShiftedItem
  <2> QED
    BY <1>0, <1>a, <2>1
<1>1. ASSUME NEW p \in Pollers, StartPass(p) PROVE Clocks'
  BY <1>0, <1>1 DEF StartPass, Clocks, userParts, histories
<1>2. ASSUME NEW p \in Pollers, Process(p) PROVE Clocks'
  <2> DEFINE through == Through(vacation, pass[p] + zone)
  <2>1. through \in Nat
    BY <1>0, ThroughDays DEF VacationTypes
  <2>2. ASSUME NEW i \in Items PROVE Shifted(vacation, item[i], through, zone).touched <= day
    <3>1. item[i] \in ItemType /\ item[i].touched <= day /\ vacation \in RowType
      BY <1>0 DEF Clocks, VacationTypes
    <3> QED
      BY <1>0, <1>a, <2>1, <3>1
  <2>3. \A i \in Items : item'[i].touched <= day
    BY <1>2, <2>2 DEF Process, Clocks
  <2>4. \A q \in Pollers : pass'[q] <= day
    BY <1>0, <1>2 DEF Process, Clocks
  <2> QED
    BY <1>2, <2>3, <2>4 DEF Process, Clocks, userParts, histories
<1>3a. ASSUME NEW ends \in 0..(MaxDay + 1), ReadStart(ends) PROVE Clocks'
  <2>1. /\ starting'.date = Today /\ starting'.ends = ends /\ (ends = 0 \/ ends > Today)
        /\ UNCHANGED <<day, zone, item, pass, latest>>
    BY <1>3a DEF ReadStart, histories
  <2> QED
    BY <1>0, <2>1 DEF Clocks, Today
<1>3. CASE Activate
  <2>0. starting \in StartType /\ starting' = NoStart /\ UNCHANGED <<day, zone, pass, latest>>
    BY <1>3 DEF Activate, VacationTypes
  <2>1. Begun \in RowType
    BY <2>0 DEF VacationTypes, RowType, StartType, Begun
  <2>2. ASSUME NEW i \in Items
        PROVE  Shifted(Begun, item[i], starting.date, starting.zone).touched <= day
    <3>1. item[i] \in ItemType /\ item[i].touched <= day
      BY <1>0 DEF Clocks
    <3> QED
      BY <1>a, <2>0, <2>1, <3>1 DEF StartType
  <2>3. CASE vacation.active
    BY <1>3, <2>0, <2>3 DEF Activate, Clocks
  <2>4. CASE ~vacation.active
    BY <1>3, <2>0, <2>2, <2>4, ActivateBegins DEF Clocks
  <2> QED
    BY <2>3, <2>4
<1>4. CASE ReadEnding \/ SaveEnding \/ ResetDay \/ \E i \in Items : ReadItem(i)
  BY <1>4 DEF ReadEnding, SaveEnding, ResetDay, ReadItem, Clocks, histories
<1>5. ASSUME NEW items, Cover(items), UNCHANGED <<day, zone, latest, pass, starting>>,
             \A i \in Items : items[i].touched \in {item[i].touched, day}
      PROVE  Clocks'
  BY <1>0, <1>5 DEF Cover, Clocks
<1>6. ASSUME NEW covered \in BOOLEAN, SaveItem(covered) PROVE Clocks'
  <2> DEFINE y == [edited.was EXCEPT !.covered = covered, !.touched = day]
  <2>1. edited.of \in Items /\ edited.was \in ItemType
    BY <1>6 DEF SaveItem, VacationTypes
  <2>3. y.touched = day
    BY <1>0, <2>1 DEF ItemType
  <2> HIDE DEF y
  <2>2. \A i \in Items : [item EXCEPT ![edited.of] = y][i].touched \in {item[i].touched, day}
    BY <1>0, <2>1, <2>3
  <2> QED
    BY <1>5, <1>6, <2>2 DEF SaveItem, y
<1>7. CASE Uncover
  <2> DEFINE items == [i \in Items |-> [item[i] EXCEPT !.covered = FALSE, !.touched = day]]
  <2>1. \A i \in Items : items[i].touched = day
    BY <1>0, EditedItems
  <2> QED
    BY <1>5, <1>7, <2>1 DEF Uncover
<1>8. ASSUME NEW chosen \in SUBSET Items, CoverChosen(chosen) \/ Exclude(chosen) PROVE Clocks'
  <2>0. PICK c \in BOOLEAN : Mark(chosen, c) /\ setup' \in Setups
    BY <1>8, Configures
  <2> DEFINE items == [i \in Items |-> IF i \in chosen
                                       THEN [item[i] EXCEPT !.covered = c, !.touched = day]
                                       ELSE item[i]]
  <2>1. ASSUME NEW i \in Items PROVE items[i].touched \in {item[i].touched, day}
    <3>1. [item[i] EXCEPT !.covered = c, !.touched = day].touched = day
      BY <1>0 DEF ItemType
    <3> QED
      BY <3>1
  <2> QED
    BY <1>5, <2>0, <2>1 DEF Mark
<1>9. CASE SavePreferences
  <2>1. zone' \in 0..1
    BY <1>0, <1>9 DEF SavePreferences
  <2>2. \A z \in 0..1 : day + z <= Later(latest, day + z)
    BY <1>0 DEF Later
  <2>3. day + zone' <= latest'
    BY <1>9, <2>1, <2>2 DEF SavePreferences
  <2>4. latest <= latest' /\ latest' \in Nat /\ starting \in StartType
    <3>1. \A z \in 0..1 : latest <= Later(latest, day + z) /\ Later(latest, day + z) \in Nat
      BY <1>0 DEF Later
    <3> QED
      BY <1>9, <2>1, <3>1 DEF SavePreferences, VacationTypes
  <2> QED
    <3>1. UNCHANGED <<day, item, pass, starting>>
      BY <1>9 DEF SavePreferences, userParts
    <3>2. starting.date \in Nat
      BY <2>4 DEF StartType
    <3> QED
      BY <1>0, <2>3, <2>4, <3>1, <3>2 DEF Clocks
<1>10. CASE NextDay
  BY <1>0, <1>10 DEF NextDay, Clocks, Later, ItemType, VacationTypes, StartType, userParts
<1>11. CASE UNCHANGED vacationVars
  BY <1>11 DEF vacationVars, userParts, histories, Clocks
<1> QED
  BY <1>1, <1>2, <1>3, <1>3a, <1>4, <1>6, <1>7, <1>8, <1>9, <1>10, <1>11 DEF VacationNext

\* A pass leaves the days of the vacation, and never puts it back on.
LEMMA ProcessRow ==
    ASSUME vacation \in RowType, NEW p \in Pollers, Process(p)
    PROVE  SameRun(vacation', vacation) /\ (vacation'.active => vacation.active)
<1>1. \A a \in BOOLEAN : SameRun([vacation EXCEPT !.active = a], vacation)
  BY DEF RowType, SameRun
<1>2. \A a \in BOOLEAN : \A d, z :
          SameRun([vacation EXCEPT !.active = a, !.doneOn = d, !.doneZone = z], vacation)
  BY DEF RowType, SameRun
<1>3. (~Returned(vacation, pass[p] + zone)) \in BOOLEAN /\ FALSE \in BOOLEAN
  BY DEF Returned
<1>4. CASE vacation' = vacation
  BY <1>4 DEF SameRun
<1>5. CASE vacation.active /\ \E a \in BOOLEAN : vacation' = [vacation EXCEPT !.active = a]
  BY <1>1, <1>5
<1>6. CASE vacation.active /\ \E a \in BOOLEAN : \E d, z :
              vacation' = [vacation EXCEPT !.active = a, !.doneOn = d, !.doneZone = z]
  <2>1. PICK a \in BOOLEAN :
            \E d, z : vacation' = [vacation EXCEPT !.active = a, !.doneOn = d, !.doneZone = z]
    BY <1>6
  <2>2. PICK d, z : vacation' = [vacation EXCEPT !.active = a, !.doneOn = d, !.doneZone = z]
    BY <2>1
  <2> QED
    BY <1>2, <1>6, <2>2
<1> QED
  BY <1>3, <1>4, <1>5, <1>6 DEF Process

\* The rows of vacations.
LEMMA RowsKept ==
    ASSUME VacationTypes, Clocks, Rows, [VacationNext]_vacationVars
    PROVE  Rows'
<1>0. /\ vacation \in RowType /\ ending \in RowType /\ starts \in Nat /\ Today \in Nat
      /\ NoRow.run = 0 /\ NoRow.ends = 0
  BY DEF VacationTypes, Today, NoRow
<1>1. ASSUME SameRun(vacation', vacation), vacation'.active => vacation.active,
             UNCHANGED <<ending, starts>>
      PROVE  Rows'
  BY <1>1 DEF Rows, SameRun
<1>2. ASSUME NEW p \in Pollers, Process(p) PROVE Rows'
  <2>1. SameRun(vacation', vacation) /\ (vacation'.active => vacation.active)
    BY <1>0, <1>2, ProcessRow
  <2> QED
    BY <1>1, <1>2, <2>1 DEF Process, userParts, histories
<1>3. CASE Activate
  <2>1. /\ starting \in StartType /\ starting # NoStart /\ ending' = ending
        /\ starting.ends = 0 \/ starting.ends > starting.date
    BY <1>3 DEF Activate, VacationTypes, Clocks
  <2>2. CASE vacation.active
    BY <1>3, <2>1, <2>2 DEF Activate, Rows
  <2>3. CASE ~vacation.active
    <3>1. /\ vacation'.active /\ vacation'.run = starts + 1 /\ vacation'.from = starting.date
          /\ vacation'.ends = starting.ends /\ starts' = starts + 1
      BY <1>3, <2>3, ActivateBegins DEF Begun
    <3> QED
      BY <1>0, <2>1, <3>1 DEF Rows, RowType
  <2> QED
    BY <2>2, <2>3
<1>4. CASE ReadEnding
  <2>1. ending' = vacation /\ UNCHANGED <<vacation, starts>> /\ vacation.active
    BY <1>4 DEF ReadEnding, histories
  <2> QED
    BY <2>1 DEF Rows, SameRun
<1>5. CASE SaveEnding
  <2>1. /\ SameRun(vacation', ending) /\ ~vacation'.active /\ ending' = NoRow /\ ending # NoRow
        /\ starts' = starts
    BY <1>0, <1>5 DEF SaveEnding, histories, RowType, SameRun
  <2> QED
    BY <1>0, <2>1 DEF Rows, SameRun
<1>6. CASE ResetDay
  <2>1. SameRun(vacation', vacation) /\ (vacation'.active => vacation.active)
    BY <1>0, <1>6 DEF ResetDay, RowType, SameRun
  <2> QED
    BY <1>1, <1>6, <2>1 DEF ResetDay, histories
<1>7. ASSUME UNCHANGED <<vacation, ending, starts>> PROVE Rows'
  BY <1>7 DEF Rows
<1>8. CASE \/ (\E p \in Pollers : StartPass(p)) \/ (\E i \in Items : ReadItem(i))
           \/ (\E ends \in 0..(MaxDay + 1) : ReadStart(ends))
           \/ (\E covered \in BOOLEAN : SaveItem(covered))
           \/ Uncover \/ (\E chosen \in SUBSET Items : CoverChosen(chosen) \/ Exclude(chosen))
           \/ SavePreferences \/ NextDay \/ UNCHANGED vacationVars
  BY <1>7, <1>8
  DEF StartPass, ReadItem, ReadStart, SaveItem, Uncover, CoverChosen, Exclude, Mark, SavePreferences, NextDay, vacationVars, userParts, histories
<1> QED
  BY <1>2, <1>3, <1>4, <1>5, <1>6, <1>8 DEF VacationNext

\* What the items and an edit under way know of vacations.
LEMMA ReadsKept ==
    ASSUME VacationTypes, Rows, Reads, [VacationNext]_vacationVars
    PROVE  Reads'
<1>0. /\ zone \in 0..1 /\ item \in [Items -> ItemType] /\ starts \in Nat /\ vacation \in RowType /\ Today \in Nat
      /\ edited # NoEdit => edited.of \in Items /\ edited.was \in ItemType
  BY DEF VacationTypes, Today
<1>1. ASSUME NEW v \in RowType, NEW d \in Nat, NEW tz \in 0..1, v.run \in Nat, v.run <= starts',
             starts <= starts', starts' \in Nat,
             item' = [i \in Items |-> Shifted(v, item[i], d, tz)], edited' = edited
      PROVE  Reads'
  <2>1. ASSUME NEW i \in Items
        PROVE  item'[i].run <= starts' /\ item'[i].moved >= item[i].moved /\ item'[i].moved \in Nat
    <3>1. item[i] \in ItemType /\ item[i].run <= starts /\ item'[i] = Shifted(v, item[i], d, tz)
      BY <1>0, <1>1 DEF Reads
    <3>2. /\ item[i].moved \in Nat /\ item[i].run \in Nat /\ Through(v, d) \in Nat
          /\ FirstDate(v, item[i], tz) \in Nat
      <4>1. /\ item[i].touched + tz \in Nat /\ item[i].shifted + 1 \in Nat /\ v.from \in Nat
            /\ item[i].moved \in Nat /\ item[i].run \in Nat
        BY <3>1 DEF ItemType, RowType, VacationTypes
      <4> QED
        BY <4>1, ThroughDays DEF FirstDate, Later
    <3>3. Shifted(v, item[i], d, tz) \in ItemType
      BY <3>1, ShiftedItem
    <3>4. item'[i].run \in {item[i].run, v.run} /\ item'[i].moved >= item[i].moved
      <4>1. \/ item'[i] = item[i]
            \/ /\ Through(v, d) >= FirstDate(v, item[i], tz) /\ item'[i].run = v.run
               /\ item'[i].moved = item[i].moved + (Through(v, d) - FirstDate(v, item[i], tz) + 1)
        BY <3>1, ShiftedItem
      <4> QED
        BY <3>2, <4>1
    <3> QED
      BY <1>0, <1>1, <3>1, <3>2, <3>3, <3>4 DEF ItemType
  <2>2. edited # NoEdit => edited.was.run <= starts' /\ edited.was.moved <= item'[edited.of].moved
    BY <1>0, <1>1, <2>1 DEF Reads, ItemType
  <2> QED
    BY <1>1, <2>1, <2>2 DEF Reads
<1>2. ASSUME NEW p \in Pollers, Process(p) PROVE Reads'
  <2> DEFINE through == Through(vacation, pass[p] + zone)
  <2>1. through \in Nat /\ vacation.run \in Nat /\ vacation.run <= starts
    BY <1>0, ThroughDays DEF VacationTypes, RowType, Rows
  <2>2. UNCHANGED <<starts, edited>>
    BY <1>2 DEF Process, userParts, histories
  <2>3. item' = item \/ item' = [i \in Items |-> Shifted(vacation, item[i], through, zone)]
    BY <1>2 DEF Process
  <2>4. CASE item' = item
    BY <2>2, <2>4 DEF Reads
  <2>5. CASE item' = [i \in Items |-> Shifted(vacation, item[i], through, zone)]
    BY <1>0, <1>1, <2>1, <2>2, <2>5
  <2> QED
    BY <2>3, <2>4, <2>5
<1>3. CASE Activate
  <2>0. edited' = edited /\ starting \in StartType
    BY <1>3 DEF Activate, VacationTypes
  <2>1. Begun \in RowType /\ Begun.run = starts + 1
    BY <1>0, <2>0 DEF VacationTypes, RowType, StartType, Begun
  <2>2. CASE vacation.active
    BY <1>3, <2>0, <2>2 DEF Activate, Reads
  <2>3. CASE ~vacation.active
    BY <1>0, <1>1, <1>3, <2>0, <2>1, <2>3, ActivateBegins DEF StartType
  <2> QED
    BY <2>2, <2>3
<1>4. ASSUME NEW i \in Items, ReadItem(i) PROVE Reads'
  <2>1. edited' = [of |-> i, was |-> item[i]] /\ UNCHANGED <<item, starts>>
    BY <1>4 DEF ReadItem, histories
  <2> QED
    BY <1>0, <2>1 DEF Reads, ItemType
<1>5. ASSUME NEW items, Cover(items), UNCHANGED <<starts, edited>>,
             \A i \in Items : items[i].run = item[i].run /\ items[i].moved = item[i].moved
      PROVE  Reads'
  BY <1>0, <1>5 DEF Cover, Reads
<1>6. ASSUME NEW covered \in BOOLEAN, SaveItem(covered) PROVE Reads'
  <2> DEFINE y == [edited.was EXCEPT !.covered = covered, !.touched = day]
  <2>1. edited # NoEdit /\ edited.of \in Items /\ edited.was \in ItemType
    BY <1>6 DEF SaveItem, VacationTypes
  <2>2. y.run = edited.was.run
    BY <2>1 DEF ItemType
  <2>3. item' = [item EXCEPT ![edited.of] = y] /\ edited' = NoEdit /\ starts' = starts
    BY <1>6 DEF SaveItem, Cover
  <2> HIDE DEF y
  <2> QED
    BY <1>0, <2>1, <2>2, <2>3 DEF Reads
<1>7. CASE Uncover
  <2> DEFINE items == [i \in Items |-> [item[i] EXCEPT !.covered = FALSE, !.touched = day]]
  <2>1. \A i \in Items : items[i].run = item[i].run /\ items[i].moved = item[i].moved
    BY <1>0, EditedItems
  <2> QED
    BY <1>5, <1>7, <2>1 DEF Uncover
<1>8. ASSUME NEW chosen \in SUBSET Items, CoverChosen(chosen) \/ Exclude(chosen) PROVE Reads'
  <2>0. PICK c \in BOOLEAN : Mark(chosen, c) /\ setup' \in Setups
    BY <1>8, Configures
  <2> DEFINE items == [i \in Items |-> IF i \in chosen
                                       THEN [item[i] EXCEPT !.covered = c, !.touched = day]
                                       ELSE item[i]]
  <2>1. ASSUME NEW i \in Items PROVE items[i].run = item[i].run /\ items[i].moved = item[i].moved
    <3> DEFINE y == [item[i] EXCEPT !.covered = c, !.touched = day]
    <3>1. y.run = item[i].run /\ y.moved = item[i].moved
      BY <1>0 DEF ItemType
    <3> HIDE DEF y
    <3>2. items[i] = y \/ items[i] = item[i]
      BY DEF y
    <3> QED
      BY <3>1, <3>2
  <2> QED
    BY <1>5, <2>0, <2>1 DEF Mark
<1>9. ASSUME UNCHANGED <<item, starts, edited>> PROVE Reads'
  BY <1>9 DEF Reads
<1>10. CASE \/ (\E p \in Pollers : StartPass(p)) \/ (\E ends \in 0..(MaxDay + 1) : ReadStart(ends))
            \/ ReadEnding \/ SaveEnding \/ ResetDay
            \/ SavePreferences \/ NextDay \/ UNCHANGED vacationVars
  BY <1>9, <1>10
  DEF StartPass, ReadStart, ReadEnding, SaveEnding, ResetDay, SavePreferences, NextDay, vacationVars,
      userParts, histories
<1> QED
  BY <1>2, <1>3, <1>4, <1>6, <1>7, <1>8, <1>10 DEF VacationNext

\* The bounds speak of a vacation's days, not of the state of its row.
LEMMA SameBounds ==
    ASSUME NEW v \in RowType, NEW w \in RowType, SameRun(w, v), w.active => v.active
    PROVE  /\ \A x, j : JoinedAt(x, j, v) => JoinedAt(x, j, w)
           /\ \A x, j, b, d : Bounded(x, j, b, v, d) => Bounded(x, j, b, w, d)
BY DEF SameRun, JoinedAt, Bounded, Through, Returned

\* When items joined, and the bounds.
LEMMA BoundsKept ==
    ASSUME VacationInv, [VacationNext]_vacationVars
    PROVE  (Joins /\ Bounds)'
<1>0. /\ item \in [Items -> ItemType] /\ starts \in Nat /\ vacation \in RowType /\ Today \in Nat
      /\ ending \in RowType /\ day \in Nat /\ zone \in 0..1 /\ latest \in Nat
      /\ joined \in [Items -> Nat] /\ before \in [Items -> Nat] /\ pass \in [Pollers -> Nat]
      /\ edited # NoEdit => edited.of \in Items /\ edited.was \in ItemType
      /\ day >= 1 /\ Today <= latest /\ vacation.run <= starts
  BY DEF VacationInv, VacationTypes, Today, Clocks, Rows
<1>1. /\ VacationTypes /\ VacationTypes'
      /\ \A i \in Items : /\ item[i] \in ItemType /\ item[i].touched <= day /\ item[i].run <= starts
                          /\ item[i].run \in Nat /\ item[i].moved \in Nat
                          /\ joined[i] \in Nat /\ before[i] \in Nat
  BY <1>0, VacationTypesKept DEF VacationInv, Clocks, Reads, ItemType
<1>2. ASSUME SameRun(vacation', vacation), vacation'.active => vacation.active,
             UNCHANGED <<item, edited, joined, before, latest, starts>>
      PROVE  (Joins /\ Bounds)'
  <2>1. vacation' \in RowType
    BY <1>1 DEF VacationTypes
  <2>2. vacation'.run = starts' => vacation.run = starts
    BY <1>2 DEF SameRun
  <2> QED
    BY <1>0, <1>2, <2>1, <2>2, SameBounds DEF VacationInv, Joins, Bounds
<1>3. ASSUME NEW v \in RowType, NEW d \in Nat, NEW tz \in 0..1, d <= latest, v.active,
             item' = [i \in Items |-> Shifted(v, item[i], d, tz)],
             joined' \in [Items -> Nat], before' \in [Items -> Nat],
             \A i \in Items : /\ JoinedAt(item[i], joined'[i], v)
                              /\ Bounded(item[i], joined'[i], before'[i], v, latest),
             edited' = edited, latest' = latest,
             edited # NoEdit => Bounded(edited.was, joined'[edited.of], before'[edited.of], v, latest),
             SameRun(vacation', v), vacation'.run = starts'
      PROVE  (Joins /\ Bounds)'
  <2>1. vacation' \in RowType
    BY <1>1 DEF VacationTypes
  <2>2. ASSUME NEW i \in Items
        PROVE  /\ JoinedAt(item'[i], joined'[i], v)
               /\ Bounded(item'[i], joined'[i], before'[i], v, latest)
    <3>1. /\ item'[i] = Shifted(v, item[i], d, tz) /\ item[i] \in ItemType /\ item[i].touched <= day
          /\ joined'[i] \in Nat /\ before'[i] \in Nat
      BY <1>1, <1>3
    <3> QED
      BY <1>0, <1>1, <1>3, <3>1, PassBounded
  <2>3. vacation'.active => v.active
    BY <1>3
  <2> QED
    BY <1>3, <2>1, <2>2, <2>3, SameBounds DEF Joins, Bounds
<1>4. ASSUME NEW p \in Pollers, Process(p) PROVE (Joins /\ Bounds)'
  <2> DEFINE through == Through(vacation, pass[p] + zone)
  <2>1. through \in Nat /\ through <= latest
    <3>1. pass[p] + zone \in Nat /\ pass[p] + zone <= latest
      BY <1>0 DEF VacationInv, Clocks
    <3>2. Through(vacation, pass[p] + zone) \in Nat
          /\ Through(vacation, pass[p] + zone) <= pass[p] + zone
      BY <1>0, <3>1, ThroughDays
    <3> QED
      BY <1>0, <3>1, <3>2
  <2>2. UNCHANGED <<edited, joined, before, latest, starts>>
    BY <1>4 DEF Process, userParts, histories
  <2>3. SameRun(vacation', vacation) /\ (vacation'.active => vacation.active)
    BY <1>0, <1>4, ProcessRow
  <2>4. CASE item' = item
    BY <1>2, <2>2, <2>3, <2>4
  <2>5. CASE item' # item
    <3>1. vacation.active /\ item' = [i \in Items |-> Shifted(vacation, item[i], through, zone)]
      BY <1>4, <2>5 DEF Process
    <3>2. vacation.run = starts /\ vacation'.run = starts'
      BY <2>2, <2>3, <3>1 DEF VacationInv, Rows, SameRun
    <3> QED
      BY <1>0, <1>3, <2>1, <2>2, <2>3, <3>1, <3>2 DEF VacationInv, Joins, Bounds
  <2> QED
    BY <2>4, <2>5
<1>5. CASE Activate
  <2>1. /\ starting \in StartType /\ starting # NoStart
        /\ starting.date >= 1 /\ starting.date <= latest
        /\ edited' = edited /\ latest' = latest
    BY <1>5 DEF Activate, VacationInv, VacationTypes, Clocks
  <2>2. CASE vacation.active
    BY <1>2, <1>5, <2>1, <2>2 DEF Activate, SameRun
  <2>3. CASE ~vacation.active
    <3> DEFINE v == Begun
               d == starting.date
    <3>1. v \in RowType /\ v.run = starts + 1 /\ v.active /\ v.from = d /\ d \in Nat /\ d # 0
          /\ starting.zone \in 0..1
      BY <1>0, <2>1 DEF VacationTypes, RowType, StartType, Begun
    <3>2. /\ item' = [i \in Items |-> Shifted(v, item[i], d, starting.zone)]
          /\ starts' = starts + 1 /\ vacation' = v
          /\ joined' = [i \in Items |-> IF item[i].covered THEN d ELSE 0]
          /\ before' = [i \in Items |-> item[i].moved]
      BY <1>5, <2>3, ActivateBegins
    <3> HIDE DEF v, d
    <3>3. ASSUME NEW i \in Items
          PROVE  /\ JoinedAt(item[i], joined'[i], v)
                 /\ Bounded(item[i], joined'[i], before'[i], v, latest)
      <4>1. item[i].run # v.run
        BY <1>0, <1>1, <3>1
      <4>2. Bounded(item[i], joined'[i], before'[i], v, latest)
        BY <1>1, <3>2, <4>1 DEF Bounded
      <4>3. JoinedAt(item[i], joined'[i], v)
        BY <1>0, <1>1, <3>1, <3>2 DEF JoinedAt, Later, ItemType
      <4> QED
        BY <4>2, <4>3
    <3>4. edited # NoEdit => Bounded(edited.was, joined'[edited.of], before'[edited.of], v, latest)
      <4>1. edited # NoEdit => edited.was.run <= starts /\ edited.was.moved <= item[edited.of].moved
                               /\ edited.was.run \in Nat
        BY <1>0 DEF VacationInv, Reads, ItemType
      <4> QED
        BY <1>0, <3>1, <3>2, <4>1 DEF Bounded
    <3>5. joined' \in [Items -> Nat] /\ before' \in [Items -> Nat] /\ SameRun(vacation', v)
          /\ vacation'.run = starts'
      BY <1>1, <3>1, <3>2 DEF VacationTypes, SameRun
    <3>6. d <= latest
      BY <2>1 DEF d
    <3> QED
      BY <1>0, <1>3, <2>1, <3>1, <3>2, <3>3, <3>4, <3>5, <3>6
  <2> QED
    BY <2>2, <2>3
<1>6. CASE SaveEnding
  <2>1. /\ SameRun(vacation', ending) /\ ~vacation'.active /\ ending # NoRow
        /\ UNCHANGED <<item, edited, joined, before, latest, starts>>
    BY <1>0, <1>6 DEF SaveEnding, histories, RowType, SameRun
  <2>2. CASE ending.run = starts
    <3>1. SameRun(ending, vacation)
      BY <2>1, <2>2 DEF VacationInv, Rows
    <3>2. SameRun(vacation', vacation)
      BY <2>1, <3>1 DEF SameRun
    <3> QED
      BY <1>2, <2>1, <3>2
  <2>3. CASE ending.run # starts
    BY <2>1, <2>3 DEF SameRun, Joins, Bounds
  <2> QED
    BY <2>2, <2>3
<1>7. CASE ResetDay
  <2>1. SameRun(vacation', vacation) /\ (vacation'.active => vacation.active)
    BY <1>0, <1>7 DEF ResetDay, RowType, SameRun
  <2> QED
    BY <1>2, <1>7, <2>1 DEF ResetDay, histories
<1>8. ASSUME NEW i \in Items, ReadItem(i) PROVE (Joins /\ Bounds)'
  <2>1. /\ edited' = [of |-> i, was |-> item[i]]
        /\ UNCHANGED <<item, vacation, joined, before, latest, starts>>
    BY <1>8 DEF ReadItem, histories
  <2> QED
    BY <2>1 DEF VacationInv, Joins, Bounds
<1>9. ASSUME NEW items \in [Items -> ItemType], Cover(items), UNCHANGED <<vacation, latest, starts>>,
             vacation.run = starts =>
               \A i \in Items : Bounded(items[i], joined[i], before[i], vacation, latest),
             \A i \in Items : \/ items[i].touched = day
                              \/ /\ items[i].touched = item[i].touched
                                 /\ items[i].covered = item[i].covered,
             \/ edited' = NoEdit
             \/ edited' = edited /\ \A i \in Items : items[i].moved = item[i].moved
      PROVE  (Joins /\ Bounds)'
  <2> SUFFICES ASSUME vacation.run = starts
               PROVE  /\ \A i \in Items :
                            /\ JoinedAt(item'[i], joined'[i], vacation)
                            /\ Bounded(item'[i], joined'[i], before'[i], vacation, latest)
                      /\ edited' # NoEdit =>
                            Bounded(edited'.was, joined'[edited'.of], before'[edited'.of],
                                    vacation, latest)
    BY <1>9 DEF Joins, Bounds
  <2>1. ASSUME NEW i \in Items
        PROVE  IF items[i].covered /\ vacation.active /\ joined[i] = 0
               THEN joined'[i] = Later(day, vacation.from) /\ before'[i] = items[i].moved
               ELSE joined'[i] = joined[i] /\ before'[i] = before[i]
    BY <1>0, <1>9, Covering
  <2>2. ASSUME NEW i \in Items
        PROVE  /\ JoinedAt(item'[i], joined'[i], vacation)
               /\ Bounded(item'[i], joined'[i], before'[i], vacation, latest)
    <3>1. /\ item[i] \in ItemType /\ items[i] \in ItemType /\ joined[i] \in Nat /\ before[i] \in Nat
          /\ item'[i] = items[i] /\ item[i].touched <= day
      BY <1>1, <1>9, Covering, <1>0
    <3>2. JoinedAt(item[i], joined[i], vacation)
      BY DEF VacationInv, Joins
    <3>3. Bounded(items[i], joined[i], before[i], vacation, latest)
      BY <1>9
    <3>4. \/ items[i].touched = day
          \/ items[i].touched = item[i].touched /\ items[i].covered = item[i].covered
      BY <1>9
    <3>5. /\ JoinedAt(items[i], joined'[i], vacation)
          /\ Bounded(items[i], joined'[i], before'[i], vacation, latest)
      <4>1. /\ vacation \in RowType /\ latest \in Nat /\ day >= 1 /\ VacationTypes
        BY <1>0, <1>1
      <4> QED
        BY <2>1, <3>1, <3>2, <3>3, <3>4, <4>1, UpdateBounded, SMTT(30)
    <3> QED
      BY <3>1, <3>5
  <2>3. ASSUME edited' # NoEdit
        PROVE  Bounded(edited'.was, joined'[edited'.of], before'[edited'.of], vacation, latest)
    <3> DEFINE o == edited.of
    <3>1. /\ edited' = edited /\ edited # NoEdit /\ o \in Items /\ edited.was \in ItemType
          /\ items[o].moved = item[o].moved
      BY <1>0, <1>9, <2>3
    <3>2. /\ Bounded(edited.was, joined[o], before[o], vacation, latest)
          /\ edited.was.moved <= item[o].moved
      BY <3>1 DEF VacationInv, Bounds, Reads
    <3>3. CASE joined'[o] = joined[o] /\ before'[o] = before[o]
      BY <3>1, <3>2, <3>3
    <3>4. CASE joined[o] = 0 /\ before'[o] = item[o].moved
      <4>1. ~(edited.was.run = vacation.run /\ edited.was.shifted # 0)
        BY <3>2, <3>4 DEF Bounded
      <4> QED
        BY <3>1, <3>2, <3>4, <4>1 DEF Bounded
    <3> QED
      BY <2>1, <3>1, <3>3, <3>4
  <2> QED
    BY <2>2, <2>3
<1>10. ASSUME NEW covered \in BOOLEAN, SaveItem(covered) PROVE (Joins /\ Bounds)'
  <2> DEFINE y == [edited.was EXCEPT !.covered = covered, !.touched = day]
  <2> DEFINE o == edited.of
  <2>1. edited # NoEdit /\ o \in Items /\ edited.was \in ItemType
    BY <1>0, <1>10 DEF SaveItem
  <2>2. /\ y \in ItemType /\ y.touched = day /\ y.run = edited.was.run
        /\ y.shifted = edited.was.shifted /\ y.moved = edited.was.moved
    BY <1>0, <2>1 DEF ItemType
  <2>3. /\ Cover([item EXCEPT ![o] = y]) /\ edited' = NoEdit
        /\ UNCHANGED <<vacation, latest, starts>>
    BY <1>10 DEF SaveItem
  <2> HIDE DEF y, o
  <2>4. [item EXCEPT ![o] = y] \in [Items -> ItemType]
    BY <1>0, <2>1, <2>2
  <2>5. ASSUME NEW i \in Items
        PROVE  [item EXCEPT ![o] = y][i] = IF i = o THEN y ELSE item[i]
    BY <1>0, <2>1
  <2>6. ASSUME vacation.run = starts, NEW i \in Items
        PROVE  Bounded([item EXCEPT ![o] = y][i], joined[i], before[i], vacation, latest)
    <3>1. Bounded(item[i], joined[i], before[i], vacation, latest)
      BY <2>6 DEF VacationInv, Bounds
    <3>2. Bounded(edited.was, joined[o], before[o], vacation, latest)
      BY <2>1, <2>6 DEF VacationInv, Bounds, o
    <3>3. Bounded(y, joined[o], before[o], vacation, latest)
      BY <2>2, <3>2 DEF Bounded
    <3> QED
      BY <2>5, <3>1, <3>3
  <2>7. ASSUME NEW i \in Items
        PROVE  \/ [item EXCEPT ![o] = y][i].touched = day
               \/ /\ [item EXCEPT ![o] = y][i].touched = item[i].touched
                  /\ [item EXCEPT ![o] = y][i].covered = item[i].covered
    BY <2>2, <2>5
  <2> QED
    BY <1>9, <2>3, <2>4, <2>6, <2>7
<1>11. ASSUME NEW i \in Items, NEW c \in BOOLEAN
       PROVE  LET y == [item[i] EXCEPT !.covered = c, !.touched = day]
              IN  /\ y \in ItemType /\ y.touched = day /\ y.moved = item[i].moved
                  /\ vacation.run = starts => Bounded(y, joined[i], before[i], vacation, latest)
  <2> DEFINE y == [item[i] EXCEPT !.covered = c, !.touched = day]
  <2>1. /\ y \in ItemType /\ y.touched = day /\ y.moved = item[i].moved /\ y.run = item[i].run
        /\ y.shifted = item[i].shifted
    BY <1>0, <1>1 DEF ItemType
  <2> HIDE DEF y
  <2>2. vacation.run = starts => Bounded(item[i], joined[i], before[i], vacation, latest)
    BY DEF VacationInv, Bounds
  <2>3. vacation.run = starts => Bounded(y, joined[i], before[i], vacation, latest)
    BY <2>1, <2>2 DEF Bounded
  <2> QED
    BY <2>1, <2>3 DEF y
<1>12. CASE Uncover
  <2> DEFINE items == [i \in Items |-> [item[i] EXCEPT !.covered = FALSE, !.touched = day]]
  <2>1. /\ \A i \in Items : /\ items[i] \in ItemType /\ items[i].touched = day
                            /\ items[i].moved = item[i].moved
                            /\ vacation.run = starts =>
                                  Bounded(items[i], joined[i], before[i], vacation, latest)
        /\ items \in [Items -> ItemType]
    BY <1>11
  <2>2. Cover(items) /\ UNCHANGED <<vacation, latest, starts, edited>>
    BY <1>12 DEF Uncover
  <2> HIDE DEF items
  <2> QED
    BY <1>9, <2>1, <2>2
<1>13. ASSUME NEW chosen \in SUBSET Items, CoverChosen(chosen) \/ Exclude(chosen) PROVE (Joins /\ Bounds)'
  <2>0. PICK c \in BOOLEAN : Mark(chosen, c) /\ setup' \in Setups
    BY <1>13, Configures
  <2> DEFINE items == [i \in Items |-> IF i \in chosen
                                       THEN [item[i] EXCEPT !.covered = c, !.touched = day]
                                       ELSE item[i]]
  <2>1. ASSUME NEW i \in Items
        PROVE  /\ items[i] \in ItemType /\ items[i].moved = item[i].moved
               /\ items[i].touched = day \/ items[i] = item[i]
               /\ vacation.run = starts =>
                     Bounded(items[i], joined[i], before[i], vacation, latest)
    <3>1. CASE i \in chosen
      BY <1>11, <3>1
    <3>2. CASE i \notin chosen
      BY <1>1, <3>2 DEF VacationInv, Bounds
    <3> QED
      BY <3>1, <3>2
  <2>2. items \in [Items -> ItemType]
    BY <2>1
  <2>3. Cover(items) /\ UNCHANGED <<vacation, latest, starts, edited>>
    BY <2>0 DEF Mark
  <2> HIDE DEF items
  <2> QED
    BY <1>9, <2>1, <2>2, <2>3
<1>14. CASE SavePreferences \/ NextDay
  <2>1. UNCHANGED <<item, vacation, edited, joined, before, starts>>
    BY <1>14 DEF SavePreferences, NextDay, userParts
  <2>2. latest <= latest' /\ latest' \in Nat
    <3>1. \A e \in Nat : latest <= Later(latest, e)
      BY <1>0 DEF Later
    <3>2. \A z \in 0..1 : day + z \in Nat /\ day + 1 + z \in Nat
      BY <1>0
    <3>3. CASE SavePreferences
      <4>1. zone' \in 0..1 /\ latest' = Later(latest, day + zone')
        BY <1>0, <3>3 DEF SavePreferences
      <4> QED
        BY <1>1, <3>1, <3>2, <4>1 DEF VacationTypes
    <3>4. CASE NextDay
      <4>1. latest' = Later(latest, day + 1 + zone)
        BY <3>4 DEF NextDay
      <4> QED
        BY <1>0, <1>1, <3>1, <3>2, <4>1 DEF VacationTypes
    <3> QED
      BY <1>14, <3>3, <3>4
  <2>3. Joins'
    BY <2>1 DEF VacationInv, Joins
  <2>4. ASSUME vacation.run = starts
        PROVE  /\ \A i \in Items : Bounded(item[i], joined[i], before[i], vacation, latest')
               /\ edited # NoEdit =>
                    Bounded(edited.was, joined[edited.of], before[edited.of], vacation, latest')
    <3>1. ASSUME NEW i \in Items
          PROVE  Bounded(item[i], joined[i], before[i], vacation, latest')
      <4>1. Bounded(item[i], joined[i], before[i], vacation, latest)
        BY <2>4 DEF VacationInv, Bounds
      <4> QED
        BY <1>0, <1>1, <2>2, <4>1, BoundedLater
    <3>2. ASSUME edited # NoEdit
          PROVE  Bounded(edited.was, joined[edited.of], before[edited.of], vacation, latest')
      <4>1. Bounded(edited.was, joined[edited.of], before[edited.of], vacation, latest)
        BY <2>4, <3>2 DEF VacationInv, Bounds
      <4>2. edited.was \in ItemType /\ joined[edited.of] \in Nat /\ before[edited.of] \in Nat
        BY <1>0, <3>2
      <4> QED
        BY <1>0, <2>2, <4>1, <4>2, BoundedLater
    <3> QED
      BY <3>1, <3>2
  <2> QED
    BY <2>1, <2>3, <2>4 DEF Bounds
<1>15. CASE \/ (\E p \in Pollers : StartPass(p)) \/ (\E ends \in 0..(MaxDay + 1) : ReadStart(ends))
            \/ ReadEnding \/ UNCHANGED vacationVars
  <2>1. UNCHANGED <<item, vacation, edited, joined, before, latest, starts>>
    BY <1>15 DEF StartPass, ReadStart, ReadEnding, vacationVars, userParts, histories
  <2> QED
    BY <2>1 DEF VacationInv, Joins, Bounds
<1> QED
  BY <1>4, <1>5, <1>6, <1>7, <1>8, <1>10, <1>12, <1>13, <1>14, <1>15 DEF VacationNext

-----------------------------------------------------------------------------
(* Vacations: the theorems *)

\* Before anything happens.
LEMMA VacationStarts == VacationInit => VacationInv
<1> SUFFICES ASSUME VacationInit PROVE VacationInv
  OBVIOUS
<1>1. NoRow \in RowType /\ NoRow.run = 0 /\ NoRow.ends = 0 /\ ~NoRow.active
  BY DEF NoRow, RowType
<1>2. ASSUME NEW i \in Items
      PROVE  /\ item[i] \in ItemType /\ item[i].touched = 1 /\ item[i].run = 0
             /\ item[i].moved = 0 /\ item[i].shifted = 0
  BY DEF VacationInit, ItemType
<1>3. VacationTypes
  <2>1. item \in [Items -> ItemType]
    BY <1>2 DEF VacationInit
  <2>2. joined \in [Items -> Nat] /\ before \in [Items -> Nat] /\ pass \in [Pollers -> Nat]
    BY DEF VacationInit
  <2>3. starting \in StartType
    BY DEF VacationInit, StartType, NoStart
  <2> QED
    BY <1>1, <2>1, <2>2, <2>3 DEF VacationInit, VacationTypes, Setups
<1>4. Clocks
  BY <1>2 DEF VacationInit, Clocks
<1>5. Rows
  BY <1>1 DEF VacationInit, Rows
<1>6. Reads
  BY <1>2 DEF VacationInit, Reads
<1>7. Joins
  BY <1>1 DEF VacationInit, Joins, JoinedAt
<1>8. Bounds
  BY <1>2 DEF VacationInit, Bounds, Bounded
<1> QED
  BY <1>3, <1>4, <1>5, <1>6, <1>7, <1>8 DEF VacationInv

\* Every state of the vacations keeps the invariant.
THEOREM VacationInvHolds == VacationSpec => []VacationInv
<1>1. VacationInv /\ [VacationNext]_vacationVars => VacationInv'
  <2> SUFFICES ASSUME VacationInv, [VacationNext]_vacationVars PROVE VacationInv'
    OBVIOUS
  <2>1. VacationTypes' /\ Clocks' /\ Rows' /\ Reads'
    BY VacationTypesKept, ClocksKept, RowsKept, ReadsKept DEF VacationInv
  <2>2. Joins' /\ Bounds'
    BY BoundsKept
  <2> QED
    BY <2>1, <2>2 DEF VacationInv
<1> QED
  BY <1>1, VacationStarts, PTL DEF VacationSpec

\* In one vacation no item moves by more days than there have been since it is covered:
\* processActiveVacation and applyDueDateShifts of any number of processes, edits saved
\* late, new settings and deactivations never count a day twice.
THEOREM NeverOvershiftsHolds == VacationSpec => []NeverOvershifts
<1>1. VacationInv => NeverOvershifts
  <2> SUFFICES ASSUME VacationInv, vacation.run = starts, NEW i \in Items
               PROVE  item[i].moved <= before[i] + DaysFrom(joined[i])
    BY DEF NeverOvershifts
  <2> DEFINE last == Through(vacation, latest)
  <2>1. /\ item[i].moved \in Nat /\ item[i].shifted \in Nat /\ joined[i] \in Nat
        /\ before[i] \in Nat
    BY DEF VacationInv, VacationTypes, ItemType
  <2>2. last \in Nat
    BY ThroughDays DEF VacationInv, VacationTypes
  <2>3. Bounded(item[i], joined[i], before[i], vacation, latest)
    BY DEF VacationInv, Bounds
  <2>4. CASE item[i].run = vacation.run /\ item[i].shifted # 0
    <3>1. /\ joined[i] # 0 /\ joined[i] <= item[i].shifted /\ item[i].shifted <= last
          /\ item[i].moved <= before[i] + (item[i].shifted - joined[i]) + 1
      BY <2>3, <2>4 DEF Bounded
    <3>2. DaysFrom(joined[i]) = last - joined[i] + 1
      BY <2>1, <2>2, <3>1 DEF DaysFrom
    <3> HIDE DEF last
    <3> QED
      BY <2>1, <2>2, <3>1, <3>2
  <2>5. CASE ~(item[i].run = vacation.run /\ item[i].shifted # 0)
    <3>1. item[i].moved <= before[i]
      BY <2>3, <2>5 DEF Bounded
    <3>2. DaysFrom(joined[i]) \in Nat
      BY <2>1, <2>2 DEF DaysFrom
    <3> QED
      BY <2>1, <3>1, <3>2
  <2> QED
    BY <2>4, <2>5
<1> QED
  BY <1>1, VacationInvHolds, PTL

-----------------------------------------------------------------------------
(* Reminders: types *)

Stages == {"idle", "read", "send", "markDue", "markRepeat", "again", "release"}
Tokens == Processes \cup {NoProcess, Gone}
TaskType == [due : Nat, active : BOOLEAN, key : Nat, next : Int, urgentAt : Nat]
ScanType == [at : Stages, now : Nat, saw : TaskType, next : Int]

ReminderTypes ==
    /\ clock \in Nat /\ wanted \in BOOLEAN /\ task \in TaskType
    /\ claim \in [by : Tokens, late : BOOLEAN]
    /\ scan \in [Processes -> ScanType] /\ rebuild \in [Rebuilders -> Int]
    /\ draft \in [open : BOOLEAN, was : TaskType, by : Tokens]
    /\ reminded \in Nat /\ repeated \in Nat /\ causes \in Nat
    /\ edits \in Nat /\ troubles \in Nat

\* The values everything starts from, and when to remind.
LEMMA RestTypes ==
    /\ NoTask \in TaskType /\ Resting \in ScanType /\ Unclaimed \in [by : Tokens, late : BOOLEAN]
    /\ Undrafted \in [open : BOOLEAN, was : TaskType, by : Tokens] /\ Idle \in Int
    /\ Resting.at = "idle" /\ Unclaimed.by = NoProcess /\ ~Undrafted.open
<1>1. NoTask \in TaskType
  BY DEF NoTask, TaskType, Never
<1> QED
  BY <1>1 DEF Resting, ScanType, Stages, Unclaimed, Tokens, Undrafted, Idle, Never

LEMMA NextReminderType ==
    ASSUME NEW t \in TaskType, NEW now \in Nat
    PROVE  NextReminder(t, now) \in Int /\ ReminderAt(t) \in Nat
<1>1. t.due \in Nat /\ t.urgentAt \in Nat /\ Lead \in Nat /\ Interval \in Nat
  BY ReminderConstants DEF TaskType
<1>2. ReminderAt(t) \in Nat
  BY <1>1 DEF ReminderAt
<1> QED
  BY <1>1, <1>2 DEF NextReminder, LaterOf, Never

\* What a scan keeps of itself.
LEMMA ScanTypes ==
    ASSUME NEW s \in ScanType, NEW a \in Stages, NEW t \in TaskType, NEW n \in Nat, NEW k \in Int
    PROVE  /\ [s EXCEPT !.at = a, !.saw = t] \in ScanType
           /\ [Resting EXCEPT !.at = a, !.now = n] \in ScanType
           /\ [Resting EXCEPT !.at = a, !.next = k] \in ScanType
BY RestTypes DEF ScanType

LEMMA EndedTypes ==
    ASSUME ReminderTypes, Ended
    PROVE  draft' \in [open : BOOLEAN, was : TaskType, by : Tokens]
BY DEF ReminderTypes, Ended, Tokens

LEMMA RescheduleTypes ==
    ASSUME ReminderTypes, NEW p \in Processes, NEW next \in Int, Reschedule(p, next)
    PROVE  /\ task' \in TaskType /\ claim' \in [by : Tokens, late : BOOLEAN]
           /\ scan' \in [Processes -> ScanType]
           /\ draft' \in [open : BOOLEAN, was : TaskType, by : Tokens]
<1>1. [task EXCEPT !.next = next] \in TaskType
  BY DEF ReminderTypes, TaskType
<1>2. scan' \in [Processes -> ScanType]
  BY RestTypes DEF ReminderTypes, Reschedule
<1>3. CASE claim.by = p
  BY <1>1, <1>2, <1>3, RestTypes, EndedTypes DEF Reschedule
<1>4. CASE claim.by # p
  BY <1>2, <1>4 DEF Reschedule, ReminderTypes
<1> QED
  BY <1>3, <1>4

\* The steps of a scan keep the types.
LEMMA ScanStepTypes ==
    ASSUME ReminderTypes, NEW p \in Processes, ScanStep(p)
    PROVE  ReminderTypes'
<1>0. /\ scan[p] \in ScanType /\ scan[p].saw \in TaskType /\ scan[p].now \in Nat
      /\ scan[p].next \in Int /\ task \in TaskType /\ clock \in Nat /\ task.urgentAt \in Nat
      /\ scan[p].saw.urgentAt \in Nat /\ scan[p].saw.due \in Nat /\ causes \in Nat
      /\ scan \in [Processes -> ScanType]
  BY DEF ReminderTypes, ScanType, TaskType
<1>1. ASSUME NEW s \in ScanType, scan' = [scan EXCEPT ![p] = s]
      PROVE  scan' \in [Processes -> ScanType]
  BY <1>0, <1>1
<1>2. CASE ClaimDue(p)
  <2>1. scan' \in [Processes -> ScanType]
    BY <1>0, <1>1, <1>2, ScanTypes DEF ClaimDue, Stages
  <2>2. claim' \in [by : Tokens, late : BOOLEAN]
    BY <1>2 DEF ClaimDue, Tokens
  <2>3. draft' \in [open : BOOLEAN, was : TaskType, by : Tokens]
    BY <1>2, EndedTypes DEF ClaimDue
  <2> QED
    BY <1>2, <2>1, <2>2, <2>3 DEF ClaimDue, ReminderTypes, sentParts
<1>3. ASSUME NEW a \in Stages, NEW t \in TaskType,
             scan' = [scan EXCEPT ![p].at = a, ![p].saw = t]
      PROVE  scan' \in [Processes -> ScanType]
  <2>1. [scan[p] EXCEPT !.at = a, !.saw = t] \in ScanType
    BY <1>0, ScanTypes
  <2>2. scan' = [scan EXCEPT ![p] = [scan[p] EXCEPT !.at = a, !.saw = t]]
    BY <1>0, <1>3
  <2> QED
    BY <1>1, <2>1, <2>2
<1>4. CASE ReadTask(p)
  <2>1. [task EXCEPT !.next = Never] \in TaskType
    BY <1>0 DEF TaskType, Never
  <2>2. scan' \in [Processes -> ScanType]
    BY <1>3, <1>4, <2>1 DEF ReadTask, Stages
  <2> QED
    BY <1>4, <2>2 DEF ReadTask, ReminderTypes, sentParts
<1>5. CASE Send(p)
  <2> DEFINE due == wanted /\ NeedsDue(scan[p].saw, scan[p].now)
  <2> DEFINE repeat == wanted /\ ~due /\ NeedsRepeat(scan[p].saw, scan[p].now)
  <2>1. PICK a \in Stages, t \in TaskType : scan' = [scan EXCEPT ![p].at = a, ![p].saw = t]
    <3>1. scan' = [scan EXCEPT ![p].at = IF due THEN "markDue" ELSE IF repeat THEN "markRepeat" ELSE "again",
                               ![p].saw = IF due \/ repeat THEN @ ELSE NoTask]
      BY <1>5 DEF Send
    <3> HIDE DEF due, repeat
    <3>2. scan' = [scan EXCEPT ![p].at = IF due THEN "markDue" ELSE IF repeat THEN "markRepeat" ELSE "again",
                               ![p].saw = IF due \/ repeat THEN scan[p].saw ELSE NoTask]
      BY <1>0, <3>1
    <3>3. (IF due THEN "markDue" ELSE IF repeat THEN "markRepeat" ELSE "again") \in Stages
      BY DEF Stages
    <3>4. (IF due \/ repeat THEN scan[p].saw ELSE NoTask) \in TaskType
      BY <1>0, RestTypes
    <3> QED
      BY <3>2, <3>3, <3>4
  <2>2. scan' \in [Processes -> ScanType]
    BY <1>3, <2>1
  <2>3. reminded' \in Nat /\ repeated' \in Nat
    <3>1. reminded' \in {reminded, reminded + 1} /\ repeated' \in {repeated, repeated + 1}
      BY <1>5 DEF Send
    <3> QED
      BY <3>1 DEF ReminderTypes
  <2> QED
    BY <1>5, <2>2, <2>3 DEF Send, ReminderTypes
<1>6. ASSUME NEW key \in Nat, NEW u \in Nat,
             task' = [task EXCEPT !.key = key, !.urgentAt = u], SetBack
      PROVE  task' \in TaskType /\ causes' \in Nat
  <2>1. task' \in TaskType
    BY <1>0, <1>6 DEF TaskType
  <2>2. causes' \in {causes, causes + 1}
    BY <1>0, <1>6 DEF SetBack
  <2> QED
    BY <1>0, <2>1, <2>2
<1>7. CASE MarkDue(p)
  <2>1. task' \in TaskType /\ causes' \in Nat
    <3>1. PICK u \in Nat : task' = [task EXCEPT !.key = scan[p].saw.due, !.urgentAt = u]
      BY <1>0, <1>7 DEF MarkDue
    <3> QED
      BY <1>0, <1>6, <1>7, <3>1 DEF MarkDue
  <2>2. scan' \in [Processes -> ScanType]
    BY <1>3, <1>7, RestTypes DEF MarkDue, Stages
  <2> QED
    BY <1>7, <2>1, <2>2 DEF MarkDue, ReminderTypes, sentParts
<1>8. CASE MarkRepeat(p)
  <2>1. task' \in TaskType /\ causes' \in Nat
    <3>1. task' = [task EXCEPT !.key = task.key, !.urgentAt = scan[p].now] /\ task.key \in Nat
      BY <1>0, <1>8 DEF MarkRepeat, TaskType
    <3> QED
      BY <1>0, <1>6, <1>8, <3>1 DEF MarkRepeat
  <2>2. scan' \in [Processes -> ScanType]
    BY <1>3, <1>8, RestTypes DEF MarkRepeat, Stages
  <2> QED
    BY <1>8, <2>1, <2>2 DEF MarkRepeat, ReminderTypes, sentParts
<1>9. CASE ReadAgain(p)
  <2>1. NextReminder(task, scan[p].now) \in Int
    BY <1>0, NextReminderType
  <2>2. scan' \in [Processes -> ScanType]
    BY <1>0, <1>1, <1>9, <2>1, ScanTypes DEF ReadAgain, Stages
  <2> QED
    BY <1>9, <2>2 DEF ReadAgain, ReminderTypes, sentParts
<1>10. CASE ReleaseTask(p)
  BY <1>0, <1>10, RescheduleTypes DEF ReleaseTask, ReminderTypes, sentParts
<1> QED
  BY <1>2, <1>4, <1>5, <1>7, <1>8, <1>9, <1>10 DEF ScanStep

\* Every variable keeps its type.
LEMMA ReminderTypesKept ==
    ReminderTypes /\ [RemindersNext]_reminderVars => ReminderTypes'
<1> SUFFICES ASSUME ReminderTypes, [RemindersNext]_reminderVars PROVE ReminderTypes'
  OBVIOUS
<1>0. /\ task \in TaskType /\ clock \in Nat /\ causes \in Nat /\ troubles \in Nat /\ edits \in Nat
      /\ scan \in [Processes -> ScanType] /\ rebuild \in [Rebuilders -> Int]
  BY DEF ReminderTypes
<1>1. ASSUME NEW p \in Processes, ScanStep(p) PROVE ReminderTypes'
  BY <1>1, ScanStepTypes
<1>2. ASSUME Trouble PROVE causes' \in Nat /\ troubles' \in Nat
  BY <1>0, <1>2 DEF Trouble
<1>3. ASSUME NEW p \in Processes, ScanFails(p) PROVE ReminderTypes'
  <2>1. /\ task' \in TaskType /\ claim' \in [by : Tokens, late : BOOLEAN]
        /\ scan' \in [Processes -> ScanType]
        /\ draft' \in [open : BOOLEAN, was : TaskType, by : Tokens]
    <3>1. CASE scan' = [scan EXCEPT ![p] = Resting] /\ UNCHANGED <<task, claim, draft>>
      BY <1>0, <3>1, RestTypes DEF ReminderTypes
    <3>2. CASE scan' = [scan EXCEPT ![p].at = "again", ![p].saw = NoTask] /\ UNCHANGED <<task, claim, draft>>
      <4>1. scan' = [scan EXCEPT ![p] = [scan[p] EXCEPT !.at = "again", !.saw = NoTask]]
        BY <1>0, <3>2
      <4>2. [scan[p] EXCEPT !.at = "again", !.saw = NoTask] \in ScanType
        BY <1>0, RestTypes, ScanTypes DEF Stages
      <4> QED
        BY <1>0, <3>2, <4>1, <4>2 DEF ReminderTypes
    <3>3. CASE Reschedule(p, scan[p].now)
      <4>1. scan[p].now \in Int
        BY <1>0 DEF ScanType
      <4> QED
        BY <3>3, <4>1, RescheduleTypes
    <3> QED
      BY <1>3, <3>1, <3>2, <3>3 DEF ScanFails
  <2> QED
    BY <1>2, <1>3, <2>1 DEF ScanFails, ReminderTypes, sentParts
<1>4. ASSUME NEW p \in Processes, Crash(p) PROVE ReminderTypes'
  <2>1. scan' \in [Processes -> ScanType]
    BY <1>0, <1>4, RestTypes DEF Crash
  <2>2. rebuild' \in [Rebuilders -> Int]
    BY <1>0, <1>4, RestTypes DEF Crash
  <2> QED
    BY <1>2, <1>4, <2>1, <2>2 DEF Crash, ReminderTypes, sentParts
<1>5. ASSUME NEW p \in Rebuilders, ReadRebuild(p) PROVE ReminderTypes'
  <2>1. rebuild' \in [Rebuilders -> Int]
    BY <1>0, <1>5, NextReminderType DEF ReadRebuild
  <2> QED
    BY <1>5, <2>1 DEF ReadRebuild, ReminderTypes, sentParts
<1>6. ASSUME NEW p \in Rebuilders, WriteRebuild(p) PROVE ReminderTypes'
  <2>1. rebuild' \in [Rebuilders -> Int] /\ rebuild[p] \in Int
    BY <1>0, <1>6, RestTypes DEF WriteRebuild
  <2>2. [task EXCEPT !.next = rebuild[p]] \in TaskType
    BY <1>0, <2>1 DEF TaskType
  <2>3. /\ task' \in TaskType /\ claim' \in [by : Tokens, late : BOOLEAN]
        /\ draft' \in [open : BOOLEAN, was : TaskType, by : Tokens]
    <3>1. CASE claim.by = NoProcess \/ claim.late
      BY <1>6, <2>2, <3>1, RestTypes, EndedTypes DEF WriteRebuild
    <3>2. CASE ~(claim.by = NoProcess \/ claim.late)
      BY <1>6, <3>2 DEF WriteRebuild, ReminderTypes
    <3> QED
      BY <3>1, <3>2
  <2> QED
    BY <1>6, <2>1, <2>3 DEF WriteRebuild, ReminderTypes, sentParts
<1>7. ASSUME NEW p \in Rebuilders, RebuildFails(p) PROVE ReminderTypes'
  <2>1. rebuild' \in [Rebuilders -> Int]
    BY <1>0, <1>7, RestTypes DEF RebuildFails
  <2> QED
    BY <1>2, <1>7, <2>1 DEF RebuildFails, ReminderTypes, sentParts
<1>8. ASSUME NEW due \in Dues \cup {0}, NEW active \in BOOLEAN, EditSave(due, active)
      PROVE  ReminderTypes'
  <2> DEFINE t == [draft.was EXCEPT !.due = due, !.active = active]
  <2>1. due \in Nat /\ draft.was \in TaskType /\ draft.by \in Tokens
    BY ReminderConstants DEF ReminderTypes
  <2>2. t \in TaskType /\ t.due = due
    BY <2>1 DEF TaskType
  <2> HIDE DEF t
  <2>3. Seeded(t) \in TaskType
    <3>1. [t EXCEPT !.key = t.due] \in TaskType
      BY <2>1, <2>2 DEF TaskType
    <3> QED
      BY <2>2, <3>1 DEF Seeded
  <2>4. task' \in TaskType
    BY <1>8, <2>3 DEF EditSave, t
  <2>5. claim' \in [by : Tokens, late : BOOLEAN]
    BY <1>8, <2>1 DEF EditSave, ReminderTypes
  <2>6. reminded' \in Nat /\ repeated' \in Nat
    BY <1>8 DEF EditSave, ReminderTypes, sentParts
  <2>7. causes' \in Nat
    <3>1. \A a, b \in {0, 1} : causes + a + b \in Nat
      BY <1>0
    <3>2. \E a, b \in {0, 1} : causes' = causes + a + b
      BY <1>8 DEF EditSave
    <3> QED
      BY <3>1, <3>2
  <2> QED
    BY <1>8, <2>4, <2>5, <2>6, <2>7, RestTypes DEF EditSave, ReminderTypes
<1>9. CASE LeaseRunsOut
  <2>1. causes' \in Nat /\ troubles' \in Nat
    BY <1>0, <1>2, <1>9 DEF LeaseRunsOut
  <2>2. claim' \in [by : Tokens, late : BOOLEAN]
    BY <1>9 DEF LeaseRunsOut, ReminderTypes
  <2> QED
    BY <1>9, <2>1, <2>2 DEF LeaseRunsOut, ReminderTypes, sentParts
<1>10. CASE EditRead
  <2>1. draft' \in [open : BOOLEAN, was : TaskType, by : Tokens]
    BY <1>10 DEF EditRead, ReminderTypes
  <2> QED
    BY <1>0, <1>10, <2>1 DEF EditRead, ReminderTypes, sentParts
<1>11. CASE SaveWishes
  <2>1. wanted' \in BOOLEAN
    BY <1>11 DEF SaveWishes
  <2> QED
    BY <1>0, <1>11, <2>1 DEF SaveWishes, ReminderTypes, sentParts
<1>12. CASE Tick
  BY <1>0, <1>12 DEF Tick, ReminderTypes, sentParts
<1>13. CASE UNCHANGED reminderVars
  BY <1>13 DEF reminderVars, sentParts, ReminderTypes
<1> QED
  BY <1>1, <1>3, <1>4, <1>5, <1>6, <1>7, <1>8, <1>9, <1>10, <1>11, <1>12, <1>13
  DEF RemindersNext, RebuildStep, EditEnds

-----------------------------------------------------------------------------
(* Reminders: the inductive invariant *)

\* A process under a claim of its own that is not over, and those that scan without.
HoldsClaim(p) == claim.by = p /\ ~claim.late
Scanning(p) == scan[p].at # "idle"
Holder(p) == HoldsClaim(p) /\ Scanning(p)
Strays == {p \in Processes : Scanning(p) /\ ~HoldsClaim(p)}

\* Each of them has a cause.
StrayCount == Cardinality(Strays) <= causes

\* An edit has read the due instant that still stands, and a token that is still the
\* claim's, or nobody's.
DraftOk == draft.open => draft.by \in {NoProcess, Gone, claim.by} /\ draft.was.due = task.due

\* The due reminder needs no more sending: its mark stands and who holds the claim
\* will not send it again, or who holds the claim has sent it.
Told(p) == scan[p].at = "markDue" /\ scan[p].saw.due = task.due
Threat(p) ==
    \/ scan[p].at = "send" /\ (scan[p].saw.due # task.due \/ scan[p].saw.key # scan[p].saw.due)
    \/ scan[p].at = "markDue" /\ scan[p].saw.due # task.due
Settled ==
    \/ \E p \in Processes : Holder(p) /\ Told(p)
    \/ task.key = task.due /\ \A p \in Processes : Holder(p) => ~Threat(p)

\* Who may send it all the same, or undo its mark.
Spoils(p) ==
    \/ scan[p].at \in {"read", "send"}
    \/ scan[p].at = "markDue" /\ scan[p].saw.due # task.due
Spoilers == {p \in Strays : Spoils(p)}

Bit(b) == IF b THEN 1 ELSE 0
DueCount == reminded + Bit(~Settled) + Cardinality(Spoilers) <= 1 + causes

\* Of an overdue Task a repeat is due at each of its slots.  l is the instant of the
\* last one for which there was a slot, and no mark or reader knows less.
Slots(l) == LaterOf(l - task.due, 0) \div Interval
Senders == {p \in Strays : scan[p].at \in {"read", "send"}}
Honest(l) ==
    \/ Slots(l) = 0
    \/ \E p \in Processes : Holder(p) /\ scan[p].at \in {"markDue", "markRepeat"}
    \/ /\ task.urgentAt >= l
       /\ \A p \in Processes : Holder(p) /\ scan[p].at = "send" => scan[p].saw.urgentAt >= l
SinceThen(l) ==
    \A p \in Processes :
        Holder(p) /\ scan[p].at \in {"read", "send", "markDue", "markRepeat"} => scan[p].now >= l
Spread(l) == repeated + Bit(~Honest(l)) + Cardinality(Senders) <= Slots(l) + causes
RepeatCount ==
    IF Urgent THEN \E l \in 0..clock : SinceThen(l) /\ Spread(l) ELSE repeated = 0

ScanClocks == \A p \in Processes : scan[p].now <= clock

ReminderInv ==
    ReminderTypes /\ ScanClocks /\ DraftOk /\ StrayCount /\ DueCount /\ RepeatCount

-----------------------------------------------------------------------------
(* Reminders: what a step does to scans and claims *)

LEMMA Subsets ==
    ASSUME NEW S, IsFiniteSet(S), NEW T
    PROVE  /\ Cardinality(S) \in Nat
           /\ T \subseteq S => IsFiniteSet(T) /\ Cardinality(T) \in Nat /\ Cardinality(T) <= Cardinality(S)
           /\ \A p : T \subseteq S \cup {p} => Cardinality(T) \in Nat /\ Cardinality(T) <= Cardinality(S) + 1
           /\ \A p \in S : T \subseteq S \ {p} => Cardinality(T) \in Nat /\ Cardinality(T) + 1 <= Cardinality(S)
<1>1. Cardinality(S) \in Nat
  BY FS_CardinalityType
<1>2. T \subseteq S => IsFiniteSet(T) /\ Cardinality(T) \in Nat /\ Cardinality(T) <= Cardinality(S)
  BY FS_Subset, FS_CardinalityType
<1>3. ASSUME NEW p, T \subseteq S \cup {p}
      PROVE  Cardinality(T) \in Nat /\ Cardinality(T) <= Cardinality(S) + 1
  <2>1. IsFiniteSet(S \cup {p}) /\ Cardinality(S \cup {p}) \in {Cardinality(S), Cardinality(S) + 1}
    BY FS_AddElement, <1>1
  <2>2. Cardinality(T) <= Cardinality(S \cup {p}) /\ Cardinality(T) \in Nat
    BY <1>3, <2>1, FS_Subset, FS_CardinalityType
  <2> QED
    BY <1>1, <2>1, <2>2
<1>4. ASSUME NEW p \in S, T \subseteq S \ {p}
      PROVE  Cardinality(T) \in Nat /\ Cardinality(T) + 1 <= Cardinality(S)
  <2>1. IsFiniteSet(S \ {p}) /\ Cardinality(S \ {p}) = Cardinality(S) - 1
    BY FS_RemoveElement
  <2>2. Cardinality(T) <= Cardinality(S \ {p}) /\ Cardinality(T) \in Nat
    BY <1>4, <2>1, FS_Subset, FS_CardinalityType
  <2> QED
    BY <1>1, <2>1, <2>2
<1> QED
  BY <1>1, <1>2, <1>3, <1>4

LEMMA StraysFinite ==
    /\ IsFiniteSet(Strays) /\ IsFiniteSet(Spoilers) /\ IsFiniteSet(Senders)
    /\ IsFiniteSet(Strays') /\ IsFiniteSet(Spoilers') /\ IsFiniteSet(Senders')
<1>1. /\ Strays \subseteq Processes /\ Spoilers \subseteq Processes /\ Senders \subseteq Processes
      /\ Strays' \subseteq Processes /\ Spoilers' \subseteq Processes /\ Senders' \subseteq Processes
  BY DEF Strays, Spoilers, Senders
<1> QED
  BY <1>1, FS_Subset, ReminderConstants

\* Nobody holds a claim; everybody holds what he held; one rests and the others hold
\* what they held.
NoHolder == \A q \in Processes : ~Holder(q)
SamePlaces == Strays' = Strays /\ \A q \in Processes : Holder(q)' <=> Holder(q)
OthersStay(p) == \A q \in Processes : q # p => scan'[q] = scan[q]
Rests(p) ==
    /\ Strays' \subseteq Strays \ {p}
    /\ \A q \in Processes : Holder(q)' <=> (Holder(q) /\ q # p)

LEMMA OneHolder ==
    ASSUME NEW p \in Processes, NEW q \in Processes, Holder(p), Holder(q)
    PROVE  p = q
BY DEF Holder, HoldsClaim

LEMMA StayingPlaces ==
    ASSUME NEW p \in Processes, claim' = claim, OthersStay(p),
           scan[p].at # "idle", scan'[p].at # "idle"
    PROVE  SamePlaces
BY DEF SamePlaces, OthersStay, Strays, Holder, HoldsClaim, Scanning

LEMMA RestingPlaces ==
    ASSUME NEW p \in Processes, OthersStay(p), scan'[p].at = "idle",
           claim' = claim \/ (claim.by = p /\ claim' = Unclaimed)
    PROVE  Rests(p)
<1>1. ~Scanning(p)'
  BY DEF Scanning
<1>2. ASSUME NEW q \in Processes, q # p
      PROVE  (Scanning(q)' <=> Scanning(q)) /\ (HoldsClaim(q)' <=> HoldsClaim(q))
  BY <1>2, ReminderConstants DEF OthersStay, Scanning, HoldsClaim, Unclaimed
<1> QED
  BY <1>1, <1>2 DEF Rests, Strays, Holder

LEMMA ScanEdit ==
    ASSUME scan \in [Processes -> ScanType], NEW p \in Processes, NEW a, NEW t,
           scan' = [scan EXCEPT ![p].at = a, ![p].saw = t]
    PROVE  /\ scan'[p].at = a /\ scan'[p].saw = t /\ scan'[p].now = scan[p].now
           /\ OthersStay(p)
<1>1. scan[p] \in ScanType
  OBVIOUS
<1>2. scan' = [scan EXCEPT ![p] = [scan[p] EXCEPT !.at = a, !.saw = t]]
  OBVIOUS
<1>3. scan'[p] = [scan[p] EXCEPT !.at = a, !.saw = t]
  BY <1>2
<1> QED
  BY <1>1, <1>2, <1>3 DEF ScanType, OthersStay

LEMMA ReadSteps ==
    ASSUME ReminderTypes, NEW p \in Processes, ReadTask(p)
    PROVE  /\ SamePlaces /\ OthersStay(p) /\ scan[p].at = "read" /\ scan'[p].at = "send"
           /\ scan'[p].saw.due = task.due /\ scan'[p].saw.key = task.key
           /\ scan'[p].saw.urgentAt = task.urgentAt /\ scan'[p].now = scan[p].now
           /\ UNCHANGED <<clock, task, claim, draft, reminded, repeated, causes>>
<1> DEFINE t == [task EXCEPT !.next = Never]
<1>1. /\ scan' = [scan EXCEPT ![p].at = "send", ![p].saw = t] /\ scan[p].at = "read"
      /\ UNCHANGED <<clock, task, claim, draft, reminded, repeated, causes>>
  BY DEF ReadTask, sentParts
<1>2. t.due = task.due /\ t.key = task.key /\ t.urgentAt = task.urgentAt
  BY DEF ReminderTypes, TaskType
<1> HIDE DEF t
<1>3. /\ scan'[p].at = "send" /\ scan'[p].saw = t /\ scan'[p].now = scan[p].now /\ OthersStay(p)
  BY <1>1, ScanEdit DEF ReminderTypes
<1>4. SamePlaces
  BY <1>1, <1>3, StayingPlaces
<1> QED
  BY <1>1, <1>2, <1>3, <1>4

LEMMA SendSteps ==
    ASSUME ReminderTypes, NEW p \in Processes, Send(p)
    PROVE  /\ SamePlaces /\ OthersStay(p) /\ scan[p].at = "send" /\ scan'[p].now = scan[p].now
           /\ UNCHANGED <<clock, task, claim, draft, causes>>
           /\ \/ /\ scan'[p].at = "markDue" /\ scan'[p].saw = scan[p].saw
                 /\ NeedsDue(scan[p].saw, scan[p].now) /\ repeated' = repeated
                 /\ reminded' = IF scan[p].saw.due = task.due THEN reminded + 1 ELSE reminded
              \/ /\ scan'[p].at = "markRepeat" /\ NeedsRepeat(scan[p].saw, scan[p].now)
                 /\ reminded' = reminded
                 /\ repeated' = IF scan[p].saw.due = task.due THEN repeated + 1 ELSE repeated
              \/ scan'[p].at = "again" /\ UNCHANGED <<reminded, repeated>>
<1> DEFINE due == wanted /\ NeedsDue(scan[p].saw, scan[p].now)
<1> DEFINE repeat == wanted /\ ~due /\ NeedsRepeat(scan[p].saw, scan[p].now)
<1> DEFINE a == IF due THEN "markDue" ELSE IF repeat THEN "markRepeat" ELSE "again"
<1> DEFINE t == IF due \/ repeat THEN scan[p].saw ELSE NoTask
<1>1. /\ scan' = [scan EXCEPT ![p].at = a, ![p].saw = IF due \/ repeat THEN @ ELSE NoTask]
      /\ scan[p].at = "send"
      /\ UNCHANGED <<clock, task, claim, draft, causes>>
      /\ reminded' = IF due /\ scan[p].saw.due = task.due THEN reminded + 1 ELSE reminded
      /\ repeated' = IF repeat /\ scan[p].saw.due = task.due THEN repeated + 1 ELSE repeated
  BY DEF Send
<1>2. due => NeedsDue(scan[p].saw, scan[p].now)
  OBVIOUS
<1>3. repeat => NeedsRepeat(scan[p].saw, scan[p].now) /\ ~due
  OBVIOUS
<1> HIDE DEF due, repeat, a
<1>4. scan' = [scan EXCEPT ![p].at = a, ![p].saw = t]
  BY <1>1 DEF ReminderTypes
<1> HIDE DEF t
<1>5. /\ scan'[p].at = a /\ scan'[p].saw = t /\ scan'[p].now = scan[p].now /\ OthersStay(p)
  BY <1>4, ScanEdit DEF ReminderTypes
<1>6. SamePlaces
  <2>1. scan[p].at # "idle" /\ scan'[p].at # "idle" /\ claim' = claim
    BY <1>1, <1>5 DEF a
  <2> QED
    BY <1>5, <2>1, StayingPlaces
<1> QED
  BY <1>1, <1>2, <1>3, <1>5, <1>6 DEF a, t

LEMMA MarkDueSteps ==
    ASSUME ReminderTypes, NEW p \in Processes, MarkDue(p)
    PROVE  /\ SamePlaces /\ OthersStay(p) /\ scan[p].at = "markDue" /\ scan'[p].at = "again"
           /\ scan'[p].now = scan[p].now /\ task'.due = task.due /\ task'.key = scan[p].saw.due
           /\ Urgent => task'.urgentAt = scan[p].now
           /\ causes' = causes + (IF task'.urgentAt < task.urgentAt THEN 1 ELSE 0)
           /\ UNCHANGED <<clock, claim, draft, reminded, repeated>>
<1>1. /\ scan' = [scan EXCEPT ![p].at = "again", ![p].saw = NoTask] /\ scan[p].at = "markDue"
      /\ UNCHANGED <<clock, claim, draft, reminded, repeated>>
      /\ causes' = causes + (IF task'.urgentAt < task.urgentAt THEN 1 ELSE 0)
  BY DEF MarkDue, SetBack, sentParts
<1>2. /\ task'.due = task.due /\ task'.key = scan[p].saw.due
      /\ Urgent => task'.urgentAt = scan[p].now
  BY DEF MarkDue, ReminderTypes, TaskType
<1>3. /\ scan'[p].at = "again" /\ scan'[p].now = scan[p].now /\ OthersStay(p)
  BY <1>1, ScanEdit DEF ReminderTypes
<1>4. SamePlaces
  BY <1>1, <1>3, StayingPlaces
<1> QED
  BY <1>1, <1>2, <1>3, <1>4

LEMMA MarkRepeatSteps ==
    ASSUME ReminderTypes, NEW p \in Processes, MarkRepeat(p)
    PROVE  /\ SamePlaces /\ OthersStay(p) /\ scan[p].at = "markRepeat" /\ scan'[p].at = "again"
           /\ scan'[p].now = scan[p].now /\ task'.due = task.due /\ task'.key = task.key
           /\ task'.urgentAt = scan[p].now
           /\ causes' = causes + (IF task'.urgentAt < task.urgentAt THEN 1 ELSE 0)
           /\ UNCHANGED <<clock, claim, draft, reminded, repeated>>
<1>1. /\ scan' = [scan EXCEPT ![p].at = "again", ![p].saw = NoTask] /\ scan[p].at = "markRepeat"
      /\ UNCHANGED <<clock, claim, draft, reminded, repeated>>
      /\ causes' = causes + (IF task'.urgentAt < task.urgentAt THEN 1 ELSE 0)
  BY DEF MarkRepeat, SetBack, sentParts
<1>2. task'.due = task.due /\ task'.key = task.key /\ task'.urgentAt = scan[p].now
  BY DEF MarkRepeat, ReminderTypes, TaskType
<1>3. /\ scan'[p].at = "again" /\ scan'[p].now = scan[p].now /\ OthersStay(p)
  BY <1>1, ScanEdit DEF ReminderTypes
<1>4. SamePlaces
  BY <1>1, <1>3, StayingPlaces
<1> QED
  BY <1>1, <1>2, <1>3, <1>4

\* The last read, and a failed send or mark, leave who sent and marked.
Wanders(p) ==
    /\ SamePlaces /\ OthersStay(p) /\ scan'[p].at \in {"again", "release"}
    /\ scan'[p].now <= clock
    /\ UNCHANGED <<clock, task, claim, draft, reminded, repeated>>
    /\ \/ scan[p].at = "again" /\ causes' = causes
       \/ causes' = causes + 1

LEMMA WanderSteps ==
    ASSUME ReminderTypes, ScanClocks, NEW p \in Processes,
           ReadAgain(p) \/ (ScanFails(p) /\ scan[p].at \in {"send", "markDue", "markRepeat"})
    PROVE  Wanders(p)
<1>1. CASE ReadAgain(p)
  <2>1. /\ scan'[p] = [Resting EXCEPT !.at = "release", !.next = NextReminder(task, scan[p].now)]
        /\ OthersStay(p) /\ scan[p].at = "again"
        /\ UNCHANGED <<clock, task, claim, draft, reminded, repeated, causes>>
    BY <1>1 DEF ReadAgain, sentParts, ReminderTypes, OthersStay
  <2>2. scan'[p].at = "release" /\ scan'[p].now = 0
    BY <2>1 DEF Resting
  <2>3. SamePlaces
    BY <2>1, <2>2, StayingPlaces
  <2> QED
    BY <2>1, <2>2, <2>3 DEF Wanders, ReminderTypes
<1>2. CASE ScanFails(p) /\ scan[p].at \in {"send", "markDue", "markRepeat"}
  <2>1. /\ scan' = [scan EXCEPT ![p].at = "again", ![p].saw = NoTask] /\ causes' = causes + 1
        /\ UNCHANGED <<clock, task, claim, draft, reminded, repeated>>
    BY <1>2 DEF ScanFails, Trouble, sentParts
  <2>2. scan'[p].at = "again" /\ scan'[p].now = scan[p].now /\ OthersStay(p)
    BY <2>1, ScanEdit DEF ReminderTypes
  <2>3. SamePlaces
    BY <1>2, <2>1, <2>2, StayingPlaces
  <2> QED
    BY <2>1, <2>2, <2>3 DEF Wanders, ScanClocks
<1> QED
  BY <1>1, <1>2

\* A scan ends, or its process dies.
Leaves(p) ==
    /\ Rests(p) /\ OthersStay(p) /\ scan'[p] = Resting
    /\ task'.due = task.due /\ task'.key = task.key /\ task'.urgentAt = task.urgentAt
    /\ UNCHANGED <<clock, reminded, repeated>>
    /\ (claim' = claim /\ draft' = draft) \/ Ended
    /\ \/ scan[p].at = "release" /\ causes' = causes
       \/ causes' = causes + 1

LEMMA RescheduleSteps ==
    ASSUME ReminderTypes, NEW p \in Processes, NEW next, Reschedule(p, next)
    PROVE  /\ Rests(p) /\ OthersStay(p) /\ scan'[p] = Resting
           /\ task'.due = task.due /\ task'.key = task.key /\ task'.urgentAt = task.urgentAt
           /\ (claim' = claim /\ draft' = draft) \/ Ended
<1>1. scan'[p] = Resting /\ OthersStay(p) /\ scan'[p].at = "idle"
  BY RestTypes DEF Reschedule, ReminderTypes, OthersStay
<1>2. claim' = claim \/ (claim.by = p /\ claim' = Unclaimed)
  BY DEF Reschedule
<1>3. Rests(p)
  BY <1>1, <1>2, RestingPlaces
<1>4. task'.due = task.due /\ task'.key = task.key /\ task'.urgentAt = task.urgentAt
  BY DEF Reschedule, ReminderTypes, TaskType
<1> QED
  BY <1>1, <1>3, <1>4 DEF Reschedule

LEMMA LeaveSteps ==
    ASSUME ReminderTypes, NEW p \in Processes,
           \/ ReleaseTask(p) \/ Crash(p)
           \/ ScanFails(p) /\ scan[p].at \notin {"send", "markDue", "markRepeat"}
    PROVE  Leaves(p)
<1>1. CASE ReleaseTask(p)
  BY <1>1, RescheduleSteps DEF ReleaseTask, Leaves, sentParts
<1>2. CASE scan' = [scan EXCEPT ![p] = Resting] /\ UNCHANGED <<task, claim, draft>>
           /\ UNCHANGED <<clock, reminded, repeated>> /\ causes' = causes + 1
  <2>1. scan'[p] = Resting /\ OthersStay(p) /\ scan'[p].at = "idle"
    BY <1>2, RestTypes DEF ReminderTypes, OthersStay
  <2> QED
    BY <1>2, <2>1, RestingPlaces DEF Leaves
<1>3. CASE Crash(p)
  BY <1>2, <1>3 DEF Crash, Trouble, sentParts
<1>4. CASE ScanFails(p) /\ scan[p].at \notin {"send", "markDue", "markRepeat"}
  <2>1. UNCHANGED <<clock, reminded, repeated>> /\ causes' = causes + 1
    BY <1>4 DEF ScanFails, Trouble, sentParts
  <2>2. CASE Reschedule(p, scan[p].now)
    BY <2>1, <2>2, RescheduleSteps DEF Leaves
  <2>3. CASE scan' = [scan EXCEPT ![p] = Resting] /\ UNCHANGED <<task, claim, draft>>
    BY <1>2, <2>1, <2>3
  <2> QED
    BY <1>4, <2>2, <2>3 DEF ScanFails
<1> QED
  BY <1>1, <1>3, <1>4

LEMMA ClaimSteps ==
    ASSUME ReminderTypes, NEW p \in Processes, ClaimDue(p)
    PROVE  /\ NoHolder /\ Strays' = Strays /\ \A q \in Processes : Holder(q)' <=> q = p
           /\ OthersStay(p) /\ scan'[p].at = "read" /\ scan'[p].now = clock /\ Ended
           /\ scan[p].at = "idle"
           /\ UNCHANGED <<clock, task, reminded, repeated, causes>>
<1>1. /\ claim' = [by |-> p, late |-> FALSE] /\ scan[p].at = "idle"
      /\ (claim.by = NoProcess \/ claim.late) /\ Ended
      /\ UNCHANGED <<clock, task, reminded, repeated, causes>>
  BY DEF ClaimDue, Claimable, sentParts
<1>2. scan'[p] = [Resting EXCEPT !.at = "read", !.now = clock] /\ OthersStay(p)
  BY DEF ClaimDue, ReminderTypes, OthersStay
<1>3. scan'[p].at = "read" /\ scan'[p].now = clock
  BY <1>2 DEF Resting
<1>4. \A q \in Processes : ~HoldsClaim(q) /\ (HoldsClaim(q)' <=> q = p)
  BY <1>1, ReminderConstants DEF HoldsClaim
<1>5. \A q \in Processes : q # p => (Scanning(q)' <=> Scanning(q))
  BY <1>2 DEF OthersStay, Scanning
<1>6. ~Scanning(p) /\ Scanning(p)'
  BY <1>1, <1>3 DEF Scanning
<1>7. NoHolder /\ Strays' = Strays /\ \A q \in Processes : Holder(q)' <=> q = p
  BY <1>4, <1>5, <1>6 DEF NoHolder, Strays, Holder
<1> QED
  BY <1>1, <1>2, <1>3, <1>7 DEF ClaimDue

\* A claim is lost under its holder: its lease runs out, or an edit saves over it.
ClaimLost ==
    /\ scan' = scan /\ NoHolder'
    /\ Strays' \subseteq Strays \cup {claim.by}
    /\ \A q \in Processes : Holder(q) => q = claim.by

LEMMA LostSteps ==
    ASSUME scan' = scan, \A q \in Processes : ~HoldsClaim(q)'
    PROVE  ClaimLost
BY DEF ClaimLost, NoHolder, Strays, Holder, HoldsClaim, Scanning

LEMMA StandingPlaces ==
    ASSUME scan' = scan, claim' = claim
    PROVE  SamePlaces
BY DEF SamePlaces, Strays, Holder, HoldsClaim, Scanning

-----------------------------------------------------------------------------
(* Reminders: strays, drafts and clocks *)

\* What an edit saves.
LEMMA EditFields ==
    ASSUME ReminderTypes, DraftOk, NEW due \in Dues \cup {0}, NEW active \in BOOLEAN,
           EditSave(due, active)
    PROVE  /\ task'.due = due /\ scan' = scan /\ clock' = clock /\ draft' = Undrafted
           /\ task'.key \in {draft.was.key, due}
           /\ task'.urgentAt = draft.was.urgentAt
           /\ IF due = task.due THEN UNCHANGED <<reminded, repeated>> ELSE reminded' = 0 /\ repeated' = 0
           /\ causes' = causes + Bit(~(draft.was.key = task.key /\ draft.was.urgentAt = task.urgentAt))
                               + Bit(draft.by # claim.by)
           /\ draft.by = claim.by => claim' = claim
           /\ draft.by # claim.by => \A q \in Processes : claim'.by # q
<1> DEFINE t == [draft.was EXCEPT !.due = due, !.active = active]
<1>1. draft.was \in TaskType /\ due \in Nat
  BY ReminderConstants DEF ReminderTypes
<1>2. t.due = due /\ t.key = draft.was.key /\ t.urgentAt = draft.was.urgentAt /\ t \in TaskType
  BY <1>1 DEF TaskType
<1>3. task' = Seeded(t)
  BY DEF EditSave
<1> HIDE DEF t
<1>4. /\ task'.due = due /\ task'.key \in {draft.was.key, due}
      /\ task'.urgentAt = draft.was.urgentAt
  BY <1>2, <1>3 DEF Seeded, TaskType
<1>5. draft.open /\ draft.was.due = task.due /\ draft.by \in {NoProcess, Gone, claim.by}
  BY DEF EditSave, DraftOk
<1>6. IF due = task.due THEN UNCHANGED <<reminded, repeated>> ELSE reminded' = 0 /\ repeated' = 0
  BY <1>5 DEF EditSave, sentParts
<1>7. causes' = causes + Bit(~(draft.was.key = task.key /\ draft.was.urgentAt = task.urgentAt))
                       + Bit(draft.by # claim.by)
  BY DEF EditSave, Bit
<1>8. /\ draft.by = claim.by => claim' = claim
      /\ draft.by # claim.by => \A q \in Processes : claim'.by # q
  BY <1>5, ReminderConstants DEF EditSave
<1> QED
  BY <1>4, <1>6, <1>7, <1>8 DEF EditSave

LEMMA RebuildSteps ==
    ASSUME ReminderTypes, NEW p \in Rebuilders, WriteRebuild(p)
    PROVE  /\ SamePlaces /\ scan' = scan
           /\ task'.due = task.due /\ task'.key = task.key /\ task'.urgentAt = task.urgentAt
           /\ (claim' = claim /\ draft' = draft) \/ Ended
           /\ UNCHANGED <<clock, reminded, repeated, causes>>
<1>1. /\ task'.due = task.due /\ task'.key = task.key /\ task'.urgentAt = task.urgentAt
      /\ (claim' = claim /\ draft' = draft) \/ Ended
      /\ UNCHANGED <<clock, scan, reminded, repeated, causes>>
  BY DEF WriteRebuild, ReminderTypes, TaskType, sentParts
<1>2. \A q \in Processes : HoldsClaim(q)' <=> HoldsClaim(q)
  BY ReminderConstants DEF WriteRebuild, HoldsClaim, Unclaimed
<1>3. SamePlaces
  BY <1>1, <1>2 DEF SamePlaces, Strays, Holder, Scanning
<1> QED
  BY <1>1, <1>3

\* A lease that runs out.
LEMMA LeaseSteps ==
    ASSUME ReminderTypes, LeaseRunsOut
    PROVE  /\ UNCHANGED <<clock, task, scan, draft, reminded, repeated>> /\ claim'.by = claim.by
           /\ \/ SamePlaces /\ causes' = causes
              \/ ClaimLost /\ causes' = causes + 1
<1>1. /\ UNCHANGED <<clock, task, scan, draft, reminded, repeated>>
      /\ claim'.by = claim.by /\ claim'.late
  BY DEF LeaseRunsOut, sentParts, ReminderTypes
<1>2. \A q \in Processes : ~HoldsClaim(q)'
  BY <1>1 DEF HoldsClaim
<1>3. CASE claim.by \in Processes /\ scan[claim.by].at # "idle"
  BY <1>1, <1>2, <1>3, LostSteps DEF LeaseRunsOut, Trouble
<1>4. CASE ~(claim.by \in Processes /\ scan[claim.by].at # "idle")
  <2>1. causes' = causes
    BY <1>4 DEF LeaseRunsOut
  <2>2. \A q \in Processes : Scanning(q) => ~HoldsClaim(q)
    BY <1>4 DEF Scanning, HoldsClaim
  <2>3. \A q \in Processes : Scanning(q)' <=> Scanning(q)
    BY <1>1 DEF Scanning
  <2>4. SamePlaces
    BY <1>2, <2>2, <2>3 DEF SamePlaces, Strays, Holder
  <2> QED
    BY <1>1, <2>1, <2>4
<1> QED
  BY <1>3, <1>4

\* The steps that concern no scan, claim or mark.
Elsewhere ==
    /\ SamePlaces /\ UNCHANGED <<task, claim, scan, reminded, repeated>>
    /\ clock' \in {clock, clock + 1} /\ causes' \in {causes, causes + 1}
LEMMA OtherSteps ==
    ASSUME \/ \E p \in Rebuilders : ReadRebuild(p) \/ RebuildFails(p)
           \/ EditRead \/ SaveWishes \/ Tick \/ UNCHANGED reminderVars
    PROVE  Elsewhere /\ (draft' = draft \/ EditRead)
<1>1. /\ UNCHANGED <<task, claim, scan, reminded, repeated>> /\ clock' \in {clock, clock + 1}
      /\ causes' \in {causes, causes + 1} /\ (draft' = draft \/ EditRead)
  BY DEF ReadRebuild, RebuildFails, Trouble, EditRead, SaveWishes, Tick, reminderVars, sentParts
<1> QED
  BY <1>1, StandingPlaces DEF Elsewhere

\* Every step is one of these.
LEMMA ReminderSteps ==
    ASSUME [RemindersNext]_reminderVars, ReminderTypes
    PROVE  \/ \E p \in Processes : ClaimDue(p)
           \/ \E p \in Processes : ReadTask(p)
           \/ \E p \in Processes : Send(p)
           \/ \E p \in Processes : MarkDue(p)
           \/ \E p \in Processes : MarkRepeat(p)
           \/ \E p \in Processes :
                 ReadAgain(p) \/ (ScanFails(p) /\ scan[p].at \in {"send", "markDue", "markRepeat"})
           \/ \E p \in Processes :
                 \/ ReleaseTask(p) \/ Crash(p)
                 \/ ScanFails(p) /\ scan[p].at \notin {"send", "markDue", "markRepeat"}
           \/ \E p \in Rebuilders : WriteRebuild(p)
           \/ LeaseRunsOut
           \/ EditEnds
           \/ \/ \E p \in Rebuilders : ReadRebuild(p) \/ RebuildFails(p)
              \/ EditRead \/ SaveWishes \/ Tick \/ UNCHANGED reminderVars
BY DEF RemindersNext, ScanStep, RebuildStep

LEMMA ScanClocksKept ==
    ASSUME ReminderTypes, ScanClocks, DraftOk, [RemindersNext]_reminderVars
    PROVE  ScanClocks'
<1>0. clock \in Nat /\ \A q \in Processes : scan[q].now \in Nat /\ scan[q].now <= clock
  BY DEF ReminderTypes, ScanType, ScanClocks
<1>1. ASSUME NEW p \in Processes, OthersStay(p), scan'[p].now <= clock, clock' = clock
      PROVE  ScanClocks'
  BY <1>0, <1>1 DEF OthersStay, ScanClocks
<1>2. ASSUME scan' = scan, clock' \in {clock, clock + 1} PROVE ScanClocks'
  BY <1>0, <1>2 DEF ScanClocks
<1>3. ASSUME NEW p \in Processes, ClaimDue(p) PROVE ScanClocks'
  BY <1>0, <1>1, <1>3, ClaimSteps
<1>4. ASSUME NEW p \in Processes, ReadTask(p) \/ Send(p) \/ MarkDue(p) \/ MarkRepeat(p)
      PROVE  ScanClocks'
  <2>1. OthersStay(p) /\ scan'[p].now = scan[p].now /\ clock' = clock
    BY <1>4, ReadSteps, SendSteps, MarkDueSteps, MarkRepeatSteps
  <2> QED
    BY <1>0, <1>1, <2>1
<1>5. ASSUME NEW p \in Processes, Wanders(p) PROVE ScanClocks'
  BY <1>1, <1>5 DEF Wanders
<1>6. ASSUME NEW p \in Processes, Leaves(p) PROVE ScanClocks'
  <2>1. scan'[p].now = 0 /\ OthersStay(p) /\ clock' = clock
    BY <1>6 DEF Leaves, Resting
  <2> QED
    BY <1>0, <1>1, <2>1
<1>7. CASE scan' = scan /\ clock' \in {clock, clock + 1}
  BY <1>2, <1>7
<1>8. ASSUME EditEnds PROVE scan' = scan /\ clock' = clock
  BY <1>8 DEF EditEnds, EditSave
<1> QED
  BY <1>2, <1>3, <1>4, <1>5, <1>6, <1>7, <1>8, ReminderSteps, WanderSteps, LeaveSteps, RebuildSteps,
     LeaseSteps, OtherSteps DEF Elsewhere

LEMMA DraftKept ==
    ASSUME ReminderTypes, ScanClocks, DraftOk, [RemindersNext]_reminderVars
    PROVE  DraftOk'
<1>1. ASSUME (claim' = claim /\ draft' = draft) \/ Ended, task'.due = task.due PROVE DraftOk'
  <2>1. CASE claim' = claim /\ draft' = draft
    BY <1>1, <2>1 DEF DraftOk
  <2>2. CASE Ended
    <3>1. draft'.open = draft.open /\ draft'.was = draft.was /\ draft'.by \in {NoProcess, Gone}
      BY <2>2 DEF Ended, ReminderTypes
    <3> QED
      BY <1>1, <3>1 DEF DraftOk
  <2> QED
    BY <1>1, <2>1, <2>2
<1>2. ASSUME NEW p \in Processes, ClaimDue(p) PROVE DraftOk'
  BY <1>1, <1>2, ClaimSteps
<1>3. ASSUME NEW p \in Processes, ReadTask(p) \/ Send(p) \/ MarkDue(p) \/ MarkRepeat(p)
      PROVE  DraftOk'
  BY <1>1, <1>3, ReadSteps, SendSteps, MarkDueSteps, MarkRepeatSteps
<1>4. ASSUME NEW p \in Processes, Wanders(p) \/ Leaves(p) PROVE DraftOk'
  BY <1>1, <1>4 DEF Wanders, Leaves
<1>5. ASSUME NEW p \in Rebuilders, WriteRebuild(p) PROVE DraftOk'
  BY <1>1, <1>5, RebuildSteps
<1>6. CASE LeaseRunsOut
  BY <1>6, LeaseSteps DEF DraftOk
<1>7. CASE EditEnds
  <2>1. draft' = Undrafted
    BY <1>7 DEF EditEnds, EditSave
  <2> QED
    BY <2>1, RestTypes DEF DraftOk
<1>8. CASE EditRead
  <2>1. draft'.by = claim.by /\ draft'.was = task /\ UNCHANGED <<claim, task>>
    BY <1>8 DEF EditRead
  <2> QED
    BY <2>1 DEF DraftOk
<1>9. CASE Elsewhere /\ draft' = draft
  BY <1>9 DEF Elsewhere, DraftOk
<1> QED
  BY <1>2, <1>3, <1>4, <1>5, <1>6, <1>7, <1>8, <1>9, ReminderSteps, WanderSteps, LeaveSteps,
     OtherSteps

\* Whoever scans without a claim has a cause.
LEMMA StraysKept ==
    ASSUME ReminderTypes, ScanClocks, DraftOk, StrayCount, [RemindersNext]_reminderVars
    PROVE  StrayCount' /\ causes' >= causes
<1>0. causes \in Nat /\ Cardinality(Strays) \in Nat
  BY StraysFinite, Subsets DEF ReminderTypes
<1>1. ASSUME Strays' \subseteq Strays, causes' \in Nat, causes' >= causes
      PROVE  StrayCount' /\ causes' >= causes
  <2>1. Cardinality(Strays') \in Nat /\ Cardinality(Strays') <= Cardinality(Strays)
    BY <1>1, StraysFinite, Subsets
  <2> QED
    BY <1>0, <1>1, <2>1 DEF StrayCount
<1>2. ASSUME ClaimLost, causes' \in Nat, causes' >= causes + 1
      PROVE  StrayCount' /\ causes' >= causes
  <2>1. Cardinality(Strays') \in Nat /\ Cardinality(Strays') <= Cardinality(Strays) + 1
    BY <1>2, StraysFinite, Subsets DEF ClaimLost
  <2> QED
    BY <1>0, <1>2, <2>1 DEF StrayCount
<1>3. causes' \in Nat
  BY ReminderTypesKept DEF ReminderTypes
<1>4. ASSUME NEW p \in Processes, ClaimDue(p) PROVE StrayCount' /\ causes' >= causes
  <2>1. Strays' = Strays /\ causes' = causes
    BY <1>4, ClaimSteps
  <2> QED
    BY <1>0, <1>1, <2>1
<1>5. ASSUME NEW p \in Processes, ReadTask(p) \/ Send(p) \/ MarkDue(p) \/ MarkRepeat(p) \/ Wanders(p)
      PROVE  StrayCount' /\ causes' >= causes
  <2>1. Strays' = Strays /\ causes' \in {causes, causes + 1}
    BY <1>0, <1>5, ReadSteps, SendSteps, MarkDueSteps, MarkRepeatSteps DEF SamePlaces, Wanders
  <2> QED
    BY <1>0, <1>1, <2>1
<1>6. ASSUME NEW p \in Processes, Leaves(p) PROVE StrayCount' /\ causes' >= causes
  <2>1. Strays' \subseteq Strays /\ causes' \in {causes, causes + 1}
    BY <1>6 DEF Leaves, Rests
  <2> QED
    BY <1>0, <1>1, <2>1
<1>7. ASSUME NEW p \in Rebuilders, WriteRebuild(p) PROVE StrayCount' /\ causes' >= causes
  <2>1. Strays' = Strays /\ causes' = causes
    BY <1>7, RebuildSteps DEF SamePlaces
  <2> QED
    BY <1>0, <1>1, <2>1
<1>8. CASE LeaseRunsOut
  <2>1. (Strays' = Strays /\ causes' = causes) \/ (ClaimLost /\ causes' = causes + 1)
    BY <1>8, LeaseSteps DEF SamePlaces
  <2> QED
    BY <1>0, <1>1, <1>2, <1>3, <2>1
<1>9. ASSUME NEW due \in Dues \cup {0}, NEW active \in BOOLEAN, EditSave(due, active)
      PROVE  StrayCount' /\ causes' >= causes
  <2> DEFINE b == Bit(~(draft.was.key = task.key /\ draft.was.urgentAt = task.urgentAt))
  <2>1. b \in {0, 1} /\ causes' = causes + b + Bit(draft.by # claim.by) /\ scan' = scan
    BY <1>9, EditFields DEF Bit
  <2> HIDE DEF b
  <2>2. CASE draft.by = claim.by
    <3>1. Strays' = Strays
      BY <1>9, <2>2, EditFields, StandingPlaces DEF SamePlaces
    <3> QED
      BY <1>0, <1>1, <1>3, <2>1, <2>2, <3>1 DEF Bit
  <2>3. CASE draft.by # claim.by
    <3>1. ClaimLost
      BY <1>9, <2>3, EditFields, LostSteps DEF HoldsClaim
    <3> QED
      BY <1>0, <1>2, <1>3, <2>1, <2>3, <3>1 DEF Bit
  <2> QED
    BY <2>2, <2>3
<1>10. CASE Elsewhere
  <2>1. Strays' = Strays /\ causes' \in {causes, causes + 1}
    BY <1>10 DEF Elsewhere, SamePlaces
  <2> QED
    BY <1>0, <1>1, <2>1
<1> QED
  BY <1>4, <1>5, <1>6, <1>7, <1>8, <1>9, <1>10, ReminderSteps, WanderSteps, LeaveSteps, OtherSteps
  DEF EditEnds

-----------------------------------------------------------------------------
(* Reminders: the due reminder is sent once, but for causes *)

LEMMA DueKept ==
    ASSUME ReminderTypes, ScanClocks, DraftOk, StrayCount, DueCount, [RemindersNext]_reminderVars
    PROVE  DueCount'
<1> DEFINE spare == Cardinality(Spoilers)
<1> DEFINE spare1 == Cardinality(Spoilers')
<1>0. /\ causes \in Nat /\ reminded \in Nat /\ causes' \in Nat /\ reminded' \in Nat
      /\ spare \in Nat /\ spare1 \in Nat
      /\ Bit(~Settled) = (IF Settled THEN 0 ELSE 1) /\ Bit(~Settled') = (IF Settled' THEN 0 ELSE 1)
  BY ReminderTypesKept, StraysFinite, Subsets DEF ReminderTypes, Bit
<1>a. /\ Spoilers' \subseteq Spoilers => spare1 <= spare
      /\ \A q : Spoilers' \subseteq Spoilers \cup {q} => spare1 <= spare + 1
      /\ \A q \in Spoilers : Spoilers' \subseteq Spoilers \ {q} => spare1 + 1 <= spare
  BY StraysFinite, Subsets
<1> HIDE DEF spare, spare1
<1>b. /\ reminded + Bit(~Settled) + spare <= 1 + causes
      /\ reminded' + Bit(~Settled') + spare1 <= 1 + causes' => DueCount'
  BY DEF DueCount, spare, spare1
<1>c. Strays \subseteq Processes /\ Strays' \subseteq Processes
  BY DEF Strays
<1>1. ASSUME NEW p \in Processes, ClaimDue(p) PROVE DueCount'
  <2>1. /\ NoHolder /\ Strays' = Strays /\ \A q \in Processes : Holder(q)' <=> q = p
        /\ OthersStay(p) /\ scan'[p].at = "read" /\ scan[p].at = "idle"
        /\ UNCHANGED <<task, reminded, causes>>
    BY <1>1, ClaimSteps
  <2>2. Spoilers' \subseteq Spoilers
    BY <1>c, <2>1 DEF Spoilers, Spoils, OthersStay, Strays, Scanning
  <2>3. Settled => Settled'
    BY <2>1 DEF Settled, NoHolder, Threat
  <2> QED
    BY <1>0, <1>a, <1>b, <2>1, <2>2, <2>3
<1>2. ASSUME NEW p \in Processes, ReadTask(p) PROVE DueCount'
  <2>1. /\ SamePlaces /\ OthersStay(p) /\ scan[p].at = "read" /\ scan'[p].at = "send"
        /\ scan'[p].saw.due = task.due /\ scan'[p].saw.key = task.key
        /\ UNCHANGED <<task, reminded, causes>>
    BY <1>2, ReadSteps
  <2>2. Spoilers' \subseteq Spoilers
    BY <1>c, <2>1 DEF Spoilers, Spoils, OthersStay, SamePlaces
  <2>3. Settled => Settled'
    BY <2>1 DEF Settled, SamePlaces, OthersStay, Threat, Told
  <2> QED
    BY <1>0, <1>a, <1>b, <2>1, <2>2, <2>3
<1>3. ASSUME NEW p \in Processes, Send(p) PROVE DueCount'
  <2>1. /\ SamePlaces /\ OthersStay(p) /\ scan[p].at = "send"
        /\ UNCHANGED <<task, causes>>
    BY <1>3, SendSteps
  <2>2. ASSUME scan'[p].at \in {"markRepeat", "again"}, reminded' = reminded PROVE DueCount'
    <3>1. Spoilers' \subseteq Spoilers
      BY <1>c, <2>1, <2>2 DEF Spoilers, Spoils, OthersStay, SamePlaces
    <3>2. Settled => Settled'
      BY <2>1, <2>2 DEF Settled, SamePlaces, OthersStay, Threat, Told
    <3> QED
      BY <1>0, <1>a, <1>b, <2>1, <2>2, <3>1, <3>2
  <2>3. ASSUME scan'[p].at = "markDue", scan'[p].saw = scan[p].saw,
               NeedsDue(scan[p].saw, scan[p].now),
               reminded' = IF scan[p].saw.due = task.due THEN reminded + 1 ELSE reminded
        PROVE  DueCount'
    <3>1. CASE scan[p].saw.due # task.due
      <4>1. Spoilers' \subseteq Spoilers
        BY <1>c, <2>1, <2>3 DEF Spoilers, Spoils, OthersStay, SamePlaces
      <4>2. Settled => Settled'
        BY <2>1, <2>3, <3>1 DEF Settled, SamePlaces, OthersStay, Threat, Told
      <4> QED
        BY <1>0, <1>a, <1>b, <2>1, <2>3, <3>1, <4>1, <4>2
    <3>2. CASE scan[p].saw.due = task.due /\ p \in Strays
      <4>1. p \in Spoilers /\ Spoilers' \subseteq Spoilers \ {p}
        BY <1>c, <2>1, <2>3, <3>2 DEF Spoilers, Spoils, OthersStay, SamePlaces
      <4>2. ~Holder(p)
        BY <3>2 DEF Strays, Holder
      <4>3. Settled => Settled'
        BY <2>1, <2>3, <4>2 DEF Settled, SamePlaces, OthersStay, Threat, Told
      <4> QED
        BY <1>0, <1>a, <1>b, <2>1, <2>3, <3>2, <4>1, <4>3
    <3>3. CASE scan[p].saw.due = task.due /\ p \notin Strays
      <4>1. Holder(p)
        BY <2>1, <3>3 DEF Strays, Holder, Scanning
      <4>2. Settled'
        BY <2>1, <2>3, <3>3, <4>1 DEF Settled, SamePlaces, Told
      <4>3. ~Settled
        <5>1. Threat(p) /\ ~Told(p)
          BY <2>1, <2>3 DEF Threat, Told, NeedsDue
        <5>2. \A q \in Processes : Holder(q) => q = p
          BY <4>1, OneHolder
        <5> QED
          BY <4>1, <5>1, <5>2 DEF Settled
      <4>4. Spoilers' \subseteq Spoilers
        BY <1>c, <2>1, <2>3 DEF Spoilers, Spoils, OthersStay, SamePlaces
      <4> QED
        BY <1>0, <1>a, <1>b, <2>1, <2>3, <3>3, <4>2, <4>3, <4>4
    <3> QED
      BY <3>1, <3>2, <3>3
  <2> QED
    BY <1>3, <2>2, <2>3, SendSteps
<1>4. ASSUME NEW p \in Processes, MarkDue(p) PROVE DueCount'
  <2>1. /\ SamePlaces /\ OthersStay(p) /\ scan[p].at = "markDue" /\ scan'[p].at = "again"
        /\ task'.due = task.due /\ task'.key = scan[p].saw.due
        /\ causes' \in {causes, causes + 1} /\ reminded' = reminded
    BY <1>4, MarkDueSteps DEF ReminderTypes
  <2>2. Spoilers' \subseteq Spoilers
    BY <1>c, <2>1 DEF Spoilers, Spoils, OthersStay, SamePlaces
  <2>3. CASE scan[p].saw.due = task.due
    <3>1. ASSUME NEW q \in Processes, q # p PROVE Threat(q)' <=> Threat(q)
      BY <2>1, <3>1 DEF Threat, OthersStay
    <3>2. ASSUME NEW q \in Processes, q # p PROVE Told(q)' <=> Told(q)
      BY <2>1, <3>2 DEF Told, OthersStay
    <3>3. ~Threat(p)'
      BY <2>1 DEF Threat
    <3>4. task'.key = task'.due
      BY <2>1, <2>3
    <3>5. Settled => Settled'
      <4>1. CASE \E q \in Processes : Holder(q) /\ Told(q)
        <5>1. PICK q \in Processes : Holder(q) /\ Told(q)
          BY <4>1
        <5>2. \A o \in Processes : Holder(o) => ~Threat(o)'
          <6>1. \A o \in Processes : Holder(o) => o = q
            BY <5>1, OneHolder
          <6>2. ~Threat(q)
            BY <5>1 DEF Threat, Told
          <6> QED
            BY <3>1, <3>3, <6>1, <6>2
        <5> QED
          BY <2>1, <3>4, <5>2 DEF Settled, SamePlaces
      <4>2. CASE \A q \in Processes : Holder(q) => ~Threat(q)
        BY <2>1, <3>1, <3>3, <3>4, <4>2 DEF Settled, SamePlaces
      <4> QED
        BY <4>1, <4>2 DEF Settled
    <3> QED
      BY <1>0, <1>a, <1>b, <2>1, <2>2, <3>5
  <2>4. CASE scan[p].saw.due # task.due /\ p \in Strays
    <3>1. p \in Spoilers /\ Spoilers' \subseteq Spoilers \ {p}
      BY <1>c, <2>1, <2>4 DEF Spoilers, Spoils, OthersStay, SamePlaces
    <3> QED
      BY <1>0, <1>a, <1>b, <2>1, <3>1
  <2>5. CASE scan[p].saw.due # task.due /\ p \notin Strays
    <3>1. Holder(p)
      BY <2>1, <2>5 DEF Strays, Holder, Scanning
    <3>2. ~Settled
      <4>1. Threat(p) /\ ~Told(p)
        BY <2>1, <2>5 DEF Threat, Told
      <4>2. \A q \in Processes : Holder(q) => q = p
        BY <3>1, OneHolder
      <4> QED
        BY <3>1, <4>1, <4>2 DEF Settled
    <3> QED
      BY <1>0, <1>a, <1>b, <2>1, <2>2, <3>2
  <2> QED
    BY <2>3, <2>4, <2>5
<1>5. ASSUME NEW p \in Processes, SamePlaces, OthersStay(p), ~Told(p),
             scan'[p].at \in {"again", "release"}, UNCHANGED reminded,
             task'.due = task.due, task'.key = task.key, causes' >= causes
      PROVE  DueCount'
  <2>1. Spoilers' \subseteq Spoilers
    BY <1>c, <1>5 DEF Spoilers, Spoils, OthersStay, SamePlaces
  <2>2. Settled => Settled'
    BY <1>5 DEF Settled, SamePlaces, OthersStay, Threat, Told
  <2> QED
    BY <1>0, <1>a, <1>b, <1>5, <2>1, <2>2
<1>6. ASSUME NEW p \in Processes, MarkRepeat(p) PROVE DueCount'
  <2>1. causes' >= causes
    BY <1>6, StraysKept
  <2> QED
    BY <1>5, <1>6, <2>1, MarkRepeatSteps DEF Told
<1>7. ASSUME NEW p \in Processes, Wanders(p) PROVE DueCount'
  <2>1. CASE scan[p].at = "again" /\ causes' = causes
    BY <1>0, <1>5, <1>7, <2>1 DEF Wanders, Told
  <2>2. CASE causes' = causes + 1
    <3>1. Spoilers' \subseteq Spoilers
      BY <1>c, <1>7 DEF Wanders, Spoilers, Spoils, OthersStay, SamePlaces
    <3> QED
      BY <1>0, <1>7, <1>a, <1>b, <2>2, <3>1 DEF Wanders
  <2> QED
    BY <1>7, <2>1, <2>2 DEF Wanders
<1>8. ASSUME NEW p \in Processes, Leaves(p) PROVE DueCount'
  <2>1. Spoilers' \subseteq Spoilers
    BY <1>c, <1>8 DEF Leaves, Rests, Spoilers, Spoils, OthersStay
  <2>2. CASE causes' = causes + 1
    BY <1>0, <1>8, <1>a, <1>b, <2>1, <2>2 DEF Leaves
  <2>3. CASE scan[p].at = "release" /\ causes' = causes
    <3>1. Settled => Settled'
      BY <1>8, <2>3 DEF Leaves, Rests, OthersStay, Settled, Threat, Told
    <3> QED
      BY <1>0, <1>8, <1>a, <1>b, <2>1, <2>3, <3>1 DEF Leaves
  <2> QED
    BY <1>8, <2>2, <2>3 DEF Leaves
<1>9. ASSUME SamePlaces, scan' = scan, UNCHANGED reminded, task'.due = task.due,
             task'.key = task.key, causes' >= causes
      PROVE  DueCount'
  <2>1. Spoilers' \subseteq Spoilers
    BY <1>c, <1>9 DEF Spoilers, Spoils, SamePlaces
  <2>2. Settled => Settled'
    BY <1>9 DEF Settled, SamePlaces, Threat, Told
  <2> QED
    BY <1>0, <1>9, <1>a, <1>b, <2>1, <2>2
<1>10. ASSUME NEW p \in Rebuilders, WriteRebuild(p) PROVE DueCount'
  BY <1>0, <1>9, <1>10, RebuildSteps
<1>11. ASSUME ClaimLost, task'.due = task.due
       PROVE  /\ Spoilers' \subseteq Spoilers \cup {claim.by}
              /\ Settled /\ task'.key = task.key => Settled' \/ Spoilers' \subseteq Spoilers
  <2>1. /\ scan' = scan /\ Strays' \subseteq Strays \cup {claim.by}
        /\ \A q \in Processes : ~Holder(q)' /\ (Holder(q) => q = claim.by)
    BY <1>11 DEF ClaimLost, NoHolder
  <2>2. \A q : Spoils(q)' <=> Spoils(q)
    BY <1>11, <2>1 DEF Spoils
  <2>3. Spoilers' \subseteq Spoilers \cup {claim.by}
    BY <2>1, <2>2 DEF Spoilers
  <2>4. ASSUME Settled, task'.key = task.key PROVE Settled' \/ Spoilers' \subseteq Spoilers
    <3>1. CASE task.key = task.due
      BY <1>11, <2>1, <2>4, <3>1 DEF Settled
    <3>2. CASE \E q \in Processes : Holder(q) /\ Told(q)
      <4>1. claim.by \in Processes /\ Told(claim.by)
        BY <2>1, <3>2
      <4>2. ~Spoils(claim.by)
        BY <4>1 DEF Told, Spoils
      <4> QED
        BY <2>1, <2>2, <2>3, <4>2 DEF Spoilers
    <3> QED
      BY <2>4, <3>1, <3>2 DEF Settled
  <2> QED
    BY <2>3, <2>4
<1>12. CASE LeaseRunsOut
  <2>1. CASE SamePlaces /\ causes' = causes
    BY <1>0, <1>9, <1>12, <2>1, LeaseSteps
  <2>2. CASE ClaimLost /\ causes' = causes + 1
    <3>1. task' = task /\ reminded' = reminded
      BY <1>12, LeaseSteps
    <3> QED
      BY <1>0, <1>11, <1>a, <1>b, <2>2, <3>1
  <2> QED
    BY <1>12, <2>1, <2>2, LeaseSteps
<1>13. ASSUME NEW due \in Dues \cup {0}, NEW active \in BOOLEAN, EditSave(due, active)
       PROVE  DueCount'
  <2> DEFINE b == Bit(~(draft.was.key = task.key /\ draft.was.urgentAt = task.urgentAt))
  <2> DEFINE e == Bit(draft.by # claim.by)
  <2>1. /\ b \in {0, 1} /\ e \in {0, 1} /\ causes' = causes + b + e /\ scan' = scan
        /\ task'.due = due
    BY <1>13, EditFields DEF Bit
  <2>2. b = 0 => draft.was.key = task.key
    BY DEF Bit
  <2>3. /\ e = 0 => claim' = claim
        /\ e = 1 => \A q \in Processes : claim'.by # q
    BY <1>13, EditFields DEF Bit
  <2> HIDE DEF b, e
  <2>4. CASE due # task.due
    <3>1. reminded' = 0
      BY <1>13, <2>4, EditFields
    <3>2. StrayCount'
      BY StraysKept
    <3>3. spare1 <= Cardinality(Strays') /\ Cardinality(Strays') \in Nat
      <4>1. Spoilers' \subseteq Strays'
        BY DEF Spoilers
      <4> QED
        BY <4>1, StraysFinite, Subsets DEF spare1
    <3> QED
      BY <1>0, <1>b, <3>1, <3>2, <3>3 DEF StrayCount
  <2>5. CASE due = task.due
    <3>1. reminded' = reminded /\ task'.due = task.due
      BY <1>13, <2>1, <2>5, EditFields
    <3>2. CASE e = 0
      <4>1. SamePlaces
        BY <2>1, <2>3, <3>2, StandingPlaces
      <4>2. Spoilers' \subseteq Spoilers
        BY <1>c, <2>1, <3>1, <4>1 DEF Spoilers, Spoils, SamePlaces
      <4>3. b = 0 /\ Settled => Settled'
        <5>1. b = 0 => task'.key \in {task.key, task.due}
          BY <1>13, <2>2, <2>5, EditFields
        <5> QED
          BY <2>1, <3>1, <4>1, <5>1 DEF Settled, SamePlaces, Threat, Told
      <4> QED
        BY <1>0, <1>a, <1>b, <2>1, <3>1, <3>2, <4>2, <4>3
    <3>3. CASE e = 1
      <4>1. ClaimLost
        BY <2>1, <2>3, <3>3, LostSteps DEF HoldsClaim
      <4>2. /\ Spoilers' \subseteq Spoilers \cup {claim.by}
            /\ Settled /\ task'.key = task.key => Settled' \/ Spoilers' \subseteq Spoilers
        BY <1>c, <1>11, <3>1, <4>1
      <4>3. b = 0 /\ Settled => Settled' \/ Spoilers' \subseteq Spoilers
        <5>1. CASE b = 0 /\ task'.key = task.due
          BY <3>1, <4>1, <5>1 DEF Settled, ClaimLost, NoHolder
        <5>2. CASE b = 0 /\ task'.key = task.key
          BY <4>2, <5>2
        <5>3. b = 0 => task'.key \in {task.key, task.due}
          BY <1>13, <2>2, <2>5, EditFields
        <5> QED
          BY <5>1, <5>2, <5>3
      <4> QED
        BY <1>0, <1>a, <1>b, <2>1, <3>1, <3>3, <4>2, <4>3
    <3> QED
      BY <2>1, <3>2, <3>3
  <2> QED
    BY <2>4, <2>5
<1>14. CASE Elsewhere
  BY <1>0, <1>9, <1>14 DEF Elsewhere
<1> QED
  BY <1>1, <1>2, <1>3, <1>4, <1>6, <1>7, <1>8, <1>10, <1>12, <1>13, <1>14, ReminderSteps,
     WanderSteps, LeaveSteps, OtherSteps DEF EditEnds

-----------------------------------------------------------------------------
(* Reminders: repeats keep to their slots, but for causes *)

\* An interval after an instant there is one slot more.
LEMMA SlotsGrow ==
    ASSUME task.due \in Nat, NEW l \in Nat, NEW m \in Nat
    PROVE  /\ Slots(l) \in Nat
           /\ l <= m => Slots(l) <= Slots(m)
           /\ m >= task.due + Interval => Slots(m) >= 1
           /\ m >= task.due + Interval /\ m >= l + Interval => Slots(m) >= Slots(l) + 1
           /\ Slots(0) = 0
<1> DEFINE a == LaterOf(l - task.due, 0)
<1> DEFINE b == LaterOf(m - task.due, 0)
<1>1. /\ a \in Nat /\ b \in Nat /\ Interval \in Nat \ {0}
      /\ Slots(l) = a \div Interval /\ Slots(m) = b \div Interval
      /\ l <= m => a <= b
      /\ m >= task.due + Interval => b >= Interval
      /\ m >= task.due + Interval /\ m >= l + Interval => b >= a + Interval
      /\ LaterOf(0 - task.due, 0) = 0
  BY ReminderConstants DEF LaterOf, Slots
<1> HIDE DEF a, b
<1>2. \A n \in Nat : \A i \in Nat \ {0} : n \div i \in Nat
  OBVIOUS
<1>3. \A n, k \in Nat : \A i \in Nat \ {0} : n <= k => n \div i <= k \div i
  OBVIOUS
<1>4. \A n, k \in Nat : \A i \in Nat \ {0} : k >= n + i => k \div i >= (n \div i) + 1
  OBVIOUS
<1>5. \A i \in Nat \ {0} : 0 \div i = 0
  OBVIOUS
<1>6. \A k \in Nat : \A i \in Nat \ {0} : k >= i => k \div i >= 1
  BY <1>4, <1>5
<1>7. Slots(l) \in Nat
  BY <1>1, <1>2
<1>8. l <= m => Slots(l) <= Slots(m)
  BY <1>1, <1>3
<1>9. m >= task.due + Interval => Slots(m) >= 1
  BY <1>1, <1>6
<1>10. m >= task.due + Interval /\ m >= l + Interval => Slots(m) >= Slots(l) + 1
  BY <1>1, <1>4
<1>11. Slots(0) = 0
  BY <1>1, <1>5 DEF Slots
<1> QED
  BY <1>7, <1>8, <1>9, <1>10, <1>11

\* Without urgency there are no repeats.
LEMMA NoRepeats ==
    ASSUME ReminderTypes, ScanClocks, DraftOk, [RemindersNext]_reminderVars, ~Urgent, repeated = 0
    PROVE  repeated' = 0
<1>1. ASSUME NEW p \in Processes,
             ClaimDue(p) \/ ReadTask(p) \/ Send(p) \/ MarkDue(p) \/ MarkRepeat(p) \/ Wanders(p) \/ Leaves(p)
      PROVE  repeated' = repeated
  BY <1>1, ClaimSteps, ReadSteps, SendSteps, MarkDueSteps, MarkRepeatSteps
  DEF Wanders, Leaves, NeedsRepeat
<1>2. ASSUME NEW due \in Dues \cup {0}, NEW active \in BOOLEAN, EditSave(due, active)
      PROVE  repeated' = 0
  BY <1>2, EditFields
<1> QED
  BY <1>1, <1>2, ReminderSteps, WanderSteps, LeaveSteps, RebuildSteps, LeaseSteps, OtherSteps
  DEF EditEnds, Elsewhere

LEMMA SpreadKept ==
    ASSUME ReminderTypes, ScanClocks, DraftOk, StrayCount, [RemindersNext]_reminderVars, Urgent,
           NEW l \in 0..clock, SinceThen(l), Spread(l)
    PROVE  \E m \in 0..clock' : SinceThen(m)' /\ Spread(m)'
<1> DEFINE spare == Cardinality(Senders)
<1> DEFINE spare1 == Cardinality(Senders')
<1>0. /\ causes \in Nat /\ repeated \in Nat /\ causes' \in Nat /\ repeated' \in Nat
      /\ spare \in Nat /\ spare1 \in Nat /\ clock \in Nat /\ clock' \in Nat
      /\ task.due \in Nat /\ task'.due \in Nat /\ l \in Nat /\ task.urgentAt \in Nat
      /\ task'.urgentAt \in Nat
  BY ReminderTypesKept, StraysFinite, Subsets DEF ReminderTypes, TaskType
<1>a. /\ Senders' \subseteq Senders => spare1 <= spare
      /\ \A q : Senders' \subseteq Senders \cup {q} => spare1 <= spare + 1
      /\ \A q \in Senders : Senders' \subseteq Senders \ {q} => spare1 + 1 <= spare
  BY StraysFinite, Subsets
<1>c. Strays \subseteq Processes /\ Strays' \subseteq Processes
  BY DEF Strays
<1> HIDE DEF spare, spare1
<1>d. \A n : Bit(~Honest(n)) = (IF Honest(n) THEN 0 ELSE 1) /\ Bit(~Honest(n)') = (IF Honest(n)' THEN 0 ELSE 1)
  BY DEF Bit
<1>b. /\ repeated + Bit(~Honest(l)) + spare <= Slots(l) + causes
      /\ \A n : repeated' + Bit(~Honest(n)') + spare1 <= Slots(n)' + causes' => Spread(n)'
  BY DEF Spread, spare, spare1
<1>e. Slots(l) \in Nat
  BY <1>0, SlotsGrow
<1>f. ASSUME task'.due = task.due PROVE \A n : Slots(n)' = Slots(n)
  BY <1>f DEF Slots
\* One may stay at l while the last slot's instant does.
<1>g. ASSUME task'.due = task.due, clock' >= clock, SinceThen(l)',
             repeated' + (IF Honest(l)' THEN 0 ELSE 1) + spare1 <= Slots(l) + causes'
      PROVE  \E m \in 0..clock' : SinceThen(m)' /\ Spread(m)'
  <2>1. l \in 0..clock'
    BY <1>0, <1>g
  <2>2. Spread(l)'
    BY <1>0, <1>b, <1>d, <1>f, <1>g
  <2> QED
    BY <1>g, <2>1, <2>2
<1>1. ASSUME NEW p \in Processes, ClaimDue(p) PROVE \E m \in 0..clock' : SinceThen(m)' /\ Spread(m)'
  <2>1. /\ NoHolder /\ Strays' = Strays /\ \A q \in Processes : Holder(q)' <=> q = p
        /\ OthersStay(p) /\ scan'[p].at = "read" /\ scan[p].at = "idle" /\ scan'[p].now = clock
        /\ UNCHANGED <<clock, task, repeated, causes>>
    BY <1>1, ClaimSteps
  <2>2. Senders' \subseteq Senders
    BY <2>1 DEF Senders, OthersStay, Strays, Scanning
  <2>3. Honest(l) => Honest(l)'
    BY <1>f, <2>1 DEF Honest, NoHolder
  <2>4. SinceThen(l)'
    BY <1>0, <2>1 DEF SinceThen
  <2> QED
    BY <1>0, <1>a, <1>b, <1>d, <1>e, <1>g, <2>1, <2>2, <2>3, <2>4
<1>2. ASSUME NEW p \in Processes, ReadTask(p) PROVE \E m \in 0..clock' : SinceThen(m)' /\ Spread(m)'
  <2>1. /\ SamePlaces /\ OthersStay(p) /\ scan[p].at = "read" /\ scan'[p].at = "send"
        /\ scan'[p].saw.urgentAt = task.urgentAt /\ scan'[p].now = scan[p].now
        /\ UNCHANGED <<clock, task, repeated, causes>>
    BY <1>2, ReadSteps
  <2>2. Senders' \subseteq Senders
    BY <1>c, <2>1 DEF Senders, OthersStay, SamePlaces
  <2>3. Honest(l) => Honest(l)'
    BY <1>f, <2>1 DEF Honest, SamePlaces, OthersStay
  <2>4. SinceThen(l)'
    BY <2>1 DEF SinceThen, SamePlaces, OthersStay
  <2> QED
    BY <1>0, <1>a, <1>b, <1>d, <1>e, <1>g, <2>1, <2>2, <2>3, <2>4
<1>3. ASSUME NEW p \in Processes, Send(p) PROVE \E m \in 0..clock' : SinceThen(m)' /\ Spread(m)'
  <2>1. /\ SamePlaces /\ OthersStay(p) /\ scan[p].at = "send" /\ scan'[p].now = scan[p].now
        /\ UNCHANGED <<clock, task, causes>>
    BY <1>3, SendSteps
  <2>2. SinceThen(l)'
    BY <2>1 DEF SinceThen, SamePlaces, OthersStay
  <2>3. /\ p \notin Strays => Holder(p)
        /\ p \in Strays => p \in Senders /\ ~Holder(p)
    BY <2>1 DEF Strays, Holder, Scanning, Senders
  <2>4. ASSUME scan'[p].at \in {"markDue", "markRepeat", "again"}
        PROVE  /\ Senders' \subseteq Senders
               /\ p \in Strays => Senders' \subseteq Senders \ {p}
               /\ Honest(l) => Honest(l)'
    <3>1. Senders' \subseteq Senders /\ (p \in Strays => Senders' \subseteq Senders \ {p})
      BY <1>c, <2>1, <2>4 DEF Senders, OthersStay, SamePlaces
    <3>2. Honest(l) => Honest(l)'
      BY <1>f, <2>1, <2>4 DEF Honest, SamePlaces, OthersStay
    <3> QED
      BY <3>1, <3>2
  <2>5. CASE scan'[p].at \in {"markDue", "again"} /\ repeated' = repeated
    BY <1>0, <1>a, <1>b, <1>d, <1>e, <1>g, <2>1, <2>2, <2>4, <2>5
  <2>6. ASSUME scan'[p].at = "markRepeat", NeedsRepeat(scan[p].saw, scan[p].now),
               repeated' = IF scan[p].saw.due = task.due THEN repeated + 1 ELSE repeated
        PROVE  \E m \in 0..clock' : SinceThen(m)' /\ Spread(m)'
    <3>1. CASE repeated' = repeated
      BY <1>0, <1>a, <1>b, <1>d, <1>e, <1>g, <2>1, <2>2, <2>4, <2>6, <3>1
    <3>2. CASE repeated' = repeated + 1 /\ p \in Strays
      BY <1>0, <1>a, <1>b, <1>d, <1>e, <1>g, <2>1, <2>2, <2>3, <2>4, <2>6, <3>2
    <3>3. CASE repeated' = repeated + 1 /\ p \notin Strays
      <4>1. Holder(p) /\ Holder(p)'
        BY <2>1, <2>3, <3>3 DEF SamePlaces
      <4>2. \A n : Honest(n)'
        BY <2>6, <4>1 DEF Honest
      <4>3. CASE ~Honest(l)
        BY <1>0, <1>a, <1>b, <1>d, <1>e, <1>g, <2>1, <2>2, <2>4, <2>6, <3>3, <4>2, <4>3
      <4>4. CASE Honest(l)
        <5>0. PICK m : m = scan[p].now
          OBVIOUS
        <5>1. /\ m \in Nat /\ m <= clock /\ scan[p].saw.urgentAt \in Nat
              /\ scan[p].saw.due = task.due /\ m >= task.due + Interval
              /\ scan[p].saw.urgentAt = 0 \/ m - scan[p].saw.urgentAt >= Interval
          <6>1. scan[p].saw.due = task.due
            BY <1>0, <2>6, <3>3
          <6> QED
            BY <2>6, <5>0, <6>1 DEF NeedsRepeat, ScanClocks, ReminderTypes, ScanType, TaskType
        <5>2. Slots(l) = 0 \/ (task.urgentAt >= l /\ scan[p].saw.urgentAt >= l)
          <6>1. \A q \in Processes : Holder(q) => q = p
            BY <4>1, OneHolder
          <6> QED
            BY <2>1, <4>1, <4>4, <6>1 DEF Honest
        <5>3. Slots(m) >= Slots(l) + 1 /\ Slots(m) \in Nat
          <6>1. /\ Slots(m) \in Nat /\ Slots(0) = 0 /\ Slots(m) >= 1
                /\ m >= l + Interval => Slots(m) >= Slots(l) + 1
            BY <1>0, <5>1, SlotsGrow
          <6>2. CASE Slots(l) = 0
            BY <6>1, <6>2
          <6>3. CASE Slots(l) # 0
            <7>1. l # 0 /\ scan[p].saw.urgentAt >= l
              BY <5>2, <6>1, <6>3
            <7>2. m >= l + Interval
              BY <1>0, <5>1, <7>1, ReminderConstants
            <7> QED
              BY <6>1, <7>2
          <6> QED
            BY <6>2, <6>3
        <5>4. SinceThen(m)'
          <6>1. \A q \in Processes : Holder(q)' => q = p
            BY <2>1, <4>1, OneHolder DEF SamePlaces
          <6> QED
            BY <1>0, <2>1, <5>0, <5>1, <6>1 DEF SinceThen
        <5>5. Spread(m)'
          <6>1. Slots(m)' = Slots(m) /\ Bit(~Honest(m)') = 0 /\ causes' = causes
            BY <1>d, <1>f, <2>1, <4>2
          <6>2. spare1 <= spare /\ repeated + spare <= Slots(l) + causes
            BY <1>0, <1>a, <1>b, <1>d, <2>4, <2>6, <4>4
          <6>3. repeated' + 0 + spare1 <= Slots(m) + causes
            BY <1>0, <1>e, <3>3, <5>3, <6>2
          <6> QED
            BY <1>b, <6>1, <6>3
        <5>6. m \in 0..clock'
          <6>1. m \in 0..clock /\ clock' = clock
            BY <1>0, <2>1, <5>1
          <6> QED
            BY <6>1
        <5> QED
          BY <5>4, <5>5, <5>6
      <4> QED
        BY <4>3, <4>4
    <3> QED
      BY <1>0, <2>6, <3>1, <3>2, <3>3
  <2> QED
    BY <1>3, <2>5, <2>6, SendSteps
<1>4. ASSUME NEW p \in Processes, SamePlaces, OthersStay(p), scan[p].at \in {"markDue", "markRepeat"},
             scan'[p].at = "again", task'.due = task.due, task'.urgentAt = scan[p].now,
             causes' = causes + (IF task'.urgentAt < task.urgentAt THEN 1 ELSE 0),
             UNCHANGED <<clock, repeated>>
      PROVE  \E m \in 0..clock' : SinceThen(m)' /\ Spread(m)'
  <2>1. Senders' \subseteq Senders
    BY <1>c, <1>4 DEF Senders, OthersStay, SamePlaces
  <2>2. SinceThen(l)'
    BY <1>4 DEF SinceThen, SamePlaces, OthersStay
  <2>3. CASE Holder(p)
    <3>1. \A q \in Processes : Holder(q)' => q = p
      BY <1>4, <2>3, OneHolder DEF SamePlaces
    <3>2. task'.urgentAt >= l
      BY <1>4, <2>3 DEF SinceThen
    <3>3. Honest(l)'
      BY <1>4, <3>1, <3>2 DEF Honest
    <3>4. causes' >= causes
      BY <1>0, <1>4
    <3> QED
      BY <1>0, <1>a, <1>b, <1>d, <1>e, <1>g, <1>4, <2>1, <2>2, <3>3, <3>4
  <2>4. CASE ~Holder(p) /\ task'.urgentAt >= task.urgentAt
    <3>1. Honest(l) => Honest(l)'
      <4>1. ASSUME NEW q \in Processes, Holder(q) PROVE Holder(q)' /\ scan'[q] = scan[q]
        BY <1>4, <2>4, <4>1 DEF SamePlaces, OthersStay
      <4>2. task.urgentAt >= l => task'.urgentAt >= l
        BY <1>0, <2>4
      <4> QED
        BY <1>f, <1>4, <4>1, <4>2 DEF Honest, SamePlaces
    <3>2. causes' = causes
      BY <1>0, <1>4, <2>4
    <3> QED
      BY <1>0, <1>a, <1>b, <1>d, <1>e, <1>g, <1>4, <2>1, <2>2, <3>1, <3>2
  <2>5. CASE ~Holder(p) /\ ~(task'.urgentAt >= task.urgentAt)
    <3>1. causes' = causes + 1
      BY <1>0, <1>4, <2>5
    <3> QED
      BY <1>0, <1>a, <1>b, <1>d, <1>e, <1>g, <1>4, <2>1, <2>2, <3>1
  <2> QED
    BY <2>3, <2>4, <2>5
<1>5. ASSUME NEW p \in Processes, MarkDue(p) \/ MarkRepeat(p)
      PROVE  \E m \in 0..clock' : SinceThen(m)' /\ Spread(m)'
  <2>1. CASE MarkDue(p)
    BY <1>4, <2>1, MarkDueSteps
  <2>2. CASE MarkRepeat(p)
    BY <1>4, <2>2, MarkRepeatSteps
  <2> QED
    BY <1>5, <2>1, <2>2
<1>6. ASSUME NEW p \in Processes, Wanders(p) PROVE \E m \in 0..clock' : SinceThen(m)' /\ Spread(m)'
  <2>1. Senders' \subseteq Senders
    BY <1>c, <1>6 DEF Wanders, Senders, OthersStay, SamePlaces
  <2>2. SinceThen(l)'
    BY <1>6 DEF Wanders, SinceThen, SamePlaces, OthersStay
  <2>3. CASE causes' = causes + 1
    BY <1>0, <1>6, <1>a, <1>b, <1>d, <1>e, <1>g, <2>1, <2>2, <2>3 DEF Wanders
  <2>4. CASE scan[p].at = "again" /\ causes' = causes
    <3>1. Honest(l) => Honest(l)'
      BY <1>f, <1>6, <2>4 DEF Wanders, Honest, SamePlaces, OthersStay
    <3> QED
      BY <1>0, <1>6, <1>a, <1>b, <1>d, <1>e, <1>g, <2>1, <2>2, <2>4, <3>1 DEF Wanders
  <2> QED
    BY <1>6, <2>3, <2>4 DEF Wanders
<1>7. ASSUME NEW p \in Processes, Leaves(p) PROVE \E m \in 0..clock' : SinceThen(m)' /\ Spread(m)'
  <2>1. Senders' \subseteq Senders
    BY <1>c, <1>7 DEF Leaves, Rests, Senders, OthersStay
  <2>2. SinceThen(l)'
    BY <1>7 DEF Leaves, Rests, SinceThen, OthersStay
  <2>3. CASE causes' = causes + 1
    BY <1>0, <1>7, <1>a, <1>b, <1>d, <1>e, <1>g, <2>1, <2>2, <2>3 DEF Leaves
  <2>4. CASE scan[p].at = "release" /\ causes' = causes
    <3>1. Honest(l) => Honest(l)'
      BY <1>f, <1>7, <2>4 DEF Leaves, Rests, Honest, OthersStay
    <3> QED
      BY <1>0, <1>7, <1>a, <1>b, <1>d, <1>e, <1>g, <2>1, <2>2, <2>4, <3>1 DEF Leaves
  <2> QED
    BY <1>7, <2>3, <2>4 DEF Leaves
<1>8. ASSUME SamePlaces, scan' = scan, repeated' = repeated, clock' >= clock, task'.due = task.due,
             task'.urgentAt = task.urgentAt, causes' >= causes
      PROVE  \E m \in 0..clock' : SinceThen(m)' /\ Spread(m)'
  <2>1. Senders' \subseteq Senders
    BY <1>8 DEF Senders, SamePlaces
  <2>2. SinceThen(l)'
    BY <1>8 DEF SinceThen, SamePlaces
  <2>3. Honest(l) => Honest(l)'
    BY <1>f, <1>8 DEF Honest, SamePlaces
  <2> QED
    BY <1>0, <1>8, <1>a, <1>b, <1>d, <1>e, <1>g, <2>1, <2>2, <2>3
<1>9. ASSUME NEW p \in Rebuilders, WriteRebuild(p)
      PROVE  \E m \in 0..clock' : SinceThen(m)' /\ Spread(m)'
  BY <1>0, <1>8, <1>9, RebuildSteps
<1>10. ASSUME ClaimLost, task'.due = task.due
       PROVE  /\ Senders' \subseteq Senders \cup {claim.by} /\ SinceThen(l)'
              /\ Honest(l) /\ task'.urgentAt = task.urgentAt => Honest(l)' \/ Senders' \subseteq Senders
  <2>1. /\ scan' = scan /\ Strays' \subseteq Strays \cup {claim.by}
        /\ \A q \in Processes : ~Holder(q)' /\ (Holder(q) => q = claim.by)
    BY <1>10 DEF ClaimLost, NoHolder
  <2>2. Senders' \subseteq Senders \cup {claim.by} /\ SinceThen(l)'
    BY <2>1 DEF Senders, SinceThen
  <2>3. ASSUME Honest(l), task'.urgentAt = task.urgentAt PROVE Honest(l)' \/ Senders' \subseteq Senders
    <3>1. CASE Slots(l) = 0 \/ task.urgentAt >= l
      BY <1>f, <1>10, <2>1, <2>3, <3>1 DEF Honest
    <3>2. CASE \E q \in Processes : Holder(q) /\ scan[q].at \in {"markDue", "markRepeat"}
      <4>1. scan[claim.by].at \in {"markDue", "markRepeat"}
        BY <2>1, <3>2
      <4> QED
        BY <2>1, <4>1 DEF Senders
    <3> QED
      BY <2>3, <3>1, <3>2 DEF Honest
  <2> QED
    BY <2>2, <2>3
<1>11. CASE LeaseRunsOut
  <2>1. CASE SamePlaces /\ causes' = causes
    BY <1>0, <1>8, <1>11, <2>1, LeaseSteps
  <2>2. CASE ClaimLost /\ causes' = causes + 1
    <3>1. task' = task /\ repeated' = repeated /\ clock' = clock
      BY <1>11, LeaseSteps
    <3> QED
      BY <1>0, <1>10, <1>a, <1>b, <1>d, <1>e, <1>g, <2>2, <3>1
  <2> QED
    BY <1>11, <2>1, <2>2, LeaseSteps
<1>12. ASSUME NEW due \in Dues \cup {0}, NEW active \in BOOLEAN, EditSave(due, active)
       PROVE  \E m \in 0..clock' : SinceThen(m)' /\ Spread(m)'
  <2> DEFINE b == Bit(~(draft.was.key = task.key /\ draft.was.urgentAt = task.urgentAt))
  <2> DEFINE e == Bit(draft.by # claim.by)
  <2>1. /\ b \in {0, 1} /\ e \in {0, 1} /\ causes' = causes + b + e /\ scan' = scan
        /\ task'.due = due /\ clock' = clock
    BY <1>12, EditFields DEF Bit
  <2>2. b = 0 => task'.urgentAt = task.urgentAt
    BY <1>12, EditFields DEF Bit
  <2>3. /\ e = 0 => claim' = claim
        /\ e = 1 => \A q \in Processes : claim'.by # q
    BY <1>12, EditFields DEF Bit
  <2> HIDE DEF b, e
  <2>4. CASE due # task.due
    <3>1. repeated' = 0
      BY <1>12, <2>4, EditFields
    <3>2. StrayCount'
      BY StraysKept
    <3>3. spare1 <= Cardinality(Strays') /\ Cardinality(Strays') \in Nat
      <4>1. Senders' \subseteq Strays'
        BY DEF Senders
      <4> QED
        BY <4>1, StraysFinite, Subsets DEF spare1
    <3>4. Slots(0)' = 0
      <4>1. task'.due \in Nat => LaterOf(0 - task'.due, 0) = 0
        BY DEF LaterOf
      <4>2. \A i \in Nat \ {0} : 0 \div i = 0
        OBVIOUS
      <4> QED
        BY <1>0, <4>1, <4>2, ReminderConstants DEF Slots
    <3>5. SinceThen(0)'
      BY ReminderTypesKept DEF SinceThen, ReminderTypes, ScanType
    <3>6. Honest(0)'
      BY <3>4 DEF Honest
    <3>7. Spread(0)'
      BY <1>0, <1>b, <1>d, <3>1, <3>2, <3>3, <3>4, <3>6 DEF StrayCount
    <3> QED
      BY <1>0, <3>5, <3>7
  <2>5. CASE due = task.due
    <3>1. repeated' = repeated /\ task'.due = task.due
      BY <1>12, <2>1, <2>5, EditFields
    <3>2. CASE e = 0
      <4>1. SamePlaces
        BY <2>1, <2>3, <3>2, StandingPlaces
      <4>2. CASE b = 0
        BY <1>0, <1>8, <2>1, <2>2, <3>1, <3>2, <4>1, <4>2
      <4>3. CASE b = 1
        <5>1. Senders' \subseteq Senders /\ SinceThen(l)'
          BY <2>1, <4>1 DEF Senders, SinceThen, SamePlaces
        <5> QED
          BY <1>0, <1>a, <1>b, <1>d, <1>e, <1>g, <2>1, <3>1, <3>2, <4>3, <5>1
      <4> QED
        BY <2>1, <4>2, <4>3
    <3>3. CASE e = 1
      <4>1. ClaimLost
        BY <2>1, <2>3, <3>3, LostSteps DEF HoldsClaim
      <4>2. /\ Senders' \subseteq Senders \cup {claim.by} /\ SinceThen(l)'
            /\ b = 0 /\ Honest(l) => Honest(l)' \/ Senders' \subseteq Senders
        BY <1>10, <2>2, <3>1, <4>1
      <4> QED
        BY <1>0, <1>a, <1>b, <1>d, <1>e, <1>g, <2>1, <3>1, <3>3, <4>2
    <3> QED
      BY <2>1, <3>2, <3>3
  <2> QED
    BY <2>4, <2>5
<1>13. CASE Elsewhere
  <2>1. clock' >= clock /\ causes' >= causes
    BY <1>0, <1>13 DEF Elsewhere
  <2> QED
    BY <1>8, <1>13, <2>1 DEF Elsewhere
<1> QED
  BY <1>1, <1>2, <1>3, <1>5, <1>6, <1>7, <1>9, <1>11, <1>12, <1>13, ReminderSteps,
     WanderSteps, LeaveSteps, OtherSteps DEF EditEnds

-----------------------------------------------------------------------------
(* Reminders: the theorems *)

\* A Task that has just been created.
LEMMA RemindersStart == RemindersInit => ReminderInv
<1> SUFFICES ASSUME RemindersInit PROVE ReminderInv
  OBVIOUS
<1>1. /\ task \in TaskType /\ task.urgentAt = 0 /\ claim = Unclaimed /\ draft = Undrafted
      /\ clock = 0 /\ reminded = 0 /\ repeated = 0 /\ causes = 0
      /\ \A p \in Processes : scan[p] = Resting
  <2>1. /\ task \in [due : Dues, active : {TRUE}, key : {0}, next : {Never}, urgentAt : {0}]
        /\ task.urgentAt = 0
    BY DEF RemindersInit
  <2>2. Never \in Int /\ Dues \subseteq Nat
    BY ReminderConstants DEF Never
  <2>3. task \in TaskType
    <3>1. task = [due |-> task.due, active |-> task.active, key |-> task.key, next |-> task.next,
                  urgentAt |-> task.urgentAt]
      BY <2>1
    <3>2. task.due \in Dues /\ task.active \in {TRUE} /\ task.key = 0 /\ task.next = Never
      BY <2>1
    <3>3. task.due \in Nat /\ task.key \in Nat /\ task.next \in Int
      <4>1. 0 \in Nat
        OBVIOUS
      <4> QED
        BY <2>2, <3>2, <4>1, Zenon
    <3>4. task.active \in BOOLEAN
      BY <3>2, Zenon
    <3> QED
      BY <2>1, <3>1, <3>3, <3>4, Zenon DEF TaskType
  <2> QED
    BY <2>1, <2>3 DEF RemindersInit
<1>2. ReminderTypes
  <2>1. scan \in [Processes -> ScanType] /\ rebuild \in [Rebuilders -> Int]
    BY RestTypes DEF RemindersInit
  <2> QED
    BY <1>1, <2>1, RestTypes DEF RemindersInit, ReminderTypes
<1>3. \A p \in Processes : ~Scanning(p)
  BY <1>1, RestTypes DEF Scanning
<1>4. Strays = {} /\ Spoilers = {} /\ Senders = {}
  BY <1>3 DEF Strays, Spoilers, Senders
<1>5. ScanClocks
  BY <1>1 DEF ScanClocks, Resting
<1>6. DraftOk
  BY <1>1, RestTypes DEF DraftOk
<1>7. StrayCount
  BY <1>1, <1>4, FS_EmptySet DEF StrayCount
<1>8. DueCount
  BY <1>1, <1>4, FS_EmptySet DEF DueCount, Bit
<1>9. RepeatCount
  <2>1. SinceThen(0)
    BY <1>3 DEF SinceThen, Holder
  <2>2. Slots(0) = 0
    BY <1>1, SlotsGrow DEF TaskType
  <2>3. Spread(0)
    BY <1>1, <1>4, <2>2, FS_EmptySet DEF Spread, Honest, Bit
  <2> QED
    BY <1>1, <2>1, <2>3 DEF RepeatCount
<1> QED
  BY <1>2, <1>5, <1>6, <1>7, <1>8, <1>9 DEF ReminderInv

\* Every state of the reminders keeps the invariant.
THEOREM ReminderInvHolds == RemindersSpec => []ReminderInv
<1>1. ReminderInv /\ [RemindersNext]_reminderVars => ReminderInv'
  <2> SUFFICES ASSUME ReminderInv, [RemindersNext]_reminderVars PROVE ReminderInv'
    OBVIOUS
  <2>1. ReminderTypes' /\ ScanClocks' /\ DraftOk' /\ StrayCount' /\ DueCount'
    BY ReminderTypesKept, ScanClocksKept, DraftKept, StraysKept, DueKept DEF ReminderInv
  <2>2. RepeatCount'
    <3>1. CASE Urgent
      <4>1. PICK l \in 0..clock : SinceThen(l) /\ Spread(l)
        BY <3>1 DEF ReminderInv, RepeatCount
      <4>2. \E m \in 0..clock' : SinceThen(m)' /\ Spread(m)'
        BY <3>1, <4>1, SpreadKept DEF ReminderInv
      <4> QED
        BY <3>1, <4>2 DEF RepeatCount
    <3>2. CASE ~Urgent
      BY <3>2, NoRepeats DEF ReminderInv, RepeatCount
    <3> QED
      BY <3>1, <3>2
  <2> QED
    BY <2>1, <2>2 DEF ReminderInv
<1> QED
  BY <1>1, RemindersStart, PTL DEF RemindersSpec

\* A due instant is reminded of once, and an overdue urgent Task once an interval, but for
\* the edits, failures, crashes and late scans that undid a mark or a claim: whatever
\* scanDueSchedules and performUserScheduleRebuild of any number of processes do.
THEOREM NoSpareReminderHolds == RemindersSpec => []NoSpareReminder
<1>1. ReminderInv => NoSpareReminder
  <2> SUFFICES ASSUME ReminderInv PROVE NoSpareReminder
    OBVIOUS
  <2>1. /\ reminded \in Nat /\ repeated \in Nat /\ causes \in Nat /\ clock \in Nat
        /\ task.due \in Nat
    BY DEF ReminderInv, ReminderTypes, TaskType
  <2>2. reminded <= 1 + causes
    <3>1. Cardinality(Spoilers) \in Nat /\ Bit(~Settled) \in {0, 1}
      BY StraysFinite, Subsets DEF Bit
    <3> QED
      BY <2>1, <3>1 DEF ReminderInv, DueCount
  <2>3. repeated <= Slots(clock) + causes
    <3>1. Slots(clock) \in Nat
      BY <2>1, SlotsGrow
    <3>2. CASE Urgent
      <4>1. PICK l \in 0..clock : Spread(l)
        BY <3>2 DEF ReminderInv, RepeatCount
      <4>2. Cardinality(Senders) \in Nat /\ Bit(~Honest(l)) \in {0, 1}
        BY StraysFinite, Subsets DEF Bit
      <4>3. Slots(l) \in Nat /\ Slots(l) <= Slots(clock)
        BY <2>1, SlotsGrow
      <4> QED
        BY <2>1, <3>1, <4>1, <4>2, <4>3 DEF Spread
    <3>3. CASE ~Urgent
      BY <2>1, <3>1, <3>3 DEF ReminderInv, RepeatCount
    <3> QED
      BY <3>2, <3>3, ReminderConstants
  <2> QED
    BY <2>2, <2>3 DEF NoSpareReminder, Slots
<1> QED
  BY <1>1, ReminderInvHolds, PTL

=============================================================================
