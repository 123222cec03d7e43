SPECIFICATION RecordsSpec
CONSTANTS
    Items = {i1}
    ListItems = {}
    Pollers = {p1, p2}
    MaxDay = 3
    MaxActs = 3
    Processes = {p1, p2}
    Rebuilders = {p1}
    Dues = {1}
    Urgent = TRUE
    Lead = 0
    Interval = 1
    MaxClock = 2
    MaxEdits = 1
    MaxTroubles = 1
INVARIANTS NeverOvershifts NoSpareReminder
PROPERTIES VacationCatchesUp RemindersCatchUp
CHECK_DEADLOCK FALSE
