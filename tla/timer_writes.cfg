SPECIFICATION TimerSpec
CONSTANTS
    Clients = {c1, c2}
    Replicas = {r1}
    Durations = {1}
    Increment = 1
    NotifyBefore = 1
    Ops = {"start", "reset", "pause", "resume", "extend", "touch"}
    MaxTime = 2
    MaxFresh = 3
    MaxFaults = 0
    MaxWrites = 4
    MaxTroubles = 1
SYMMETRY Symmetry
INVARIANTS NeverEarly ExtensionsKept CountdownStands
PROPERTIES CompletedStaysCompleted WarningKept
CHECK_DEADLOCK FALSE
