SPECIFICATION Spec
CONSTANTS
    Clients = {c1, c2}
    Replicas = {r1}
    Durations = {1}
    Increment = 1
    NotifyBefore = 1
    Ops = {"extend"}
    MaxTime = 1
    MaxFresh = 4
    MaxFaults = 0
SYMMETRY Symmetry
INVARIANT HistoryInCommitOrder
CHECK_DEADLOCK FALSE
