SPECIFICATION Spec
CONSTANTS
    Clients = {c1}
    Replicas = {r1}
    Durations = {1}
    Increment = 1
    NotifyBefore = 1
    Ops = {"extend", "undo"}
    MaxTime = 2
    MaxFresh = 5
    MaxFaults = 0
SYMMETRY Symmetry
INVARIANT OneEventPerTimerId
CHECK_DEADLOCK FALSE
