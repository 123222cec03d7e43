SPECIFICATION FairSpec
CONSTANTS
    Clients = {c1}
    Replicas = {r1, r2}
    Durations = {1}
    Increment = 1
    NotifyBefore = 1
    Ops = {"extend", "undo"}
    MaxTime = 2
    MaxFresh = 4
    MaxFaults = 1
INVARIANTS OneCompletionPerTimerId ScheduleAgrees
PROPERTY EventuallyCompleted
CHECK_DEADLOCK FALSE
