SPECIFICATION SafetySpec
CONSTANTS
    Actions = {a1, a2}
    VoiceCommits = {a1}
    MaxTroubles = 1
    MaxClears = 1
    MaxSessions = 2
    Tabs = {d1, d2}
    Requests = {q1, q2}
    Sessions = {s1}
    MaxRefreshes = 3
    MaxAccidents = 1
    Tasks = {a}
    Processes = {d1, d2}
    Unknown = Unknown
    Retained = 1
    BatchSize = 2
    MaxChanges = 2
    MaxLoads = 1
    MaxMishaps = 1
    Events <- SafetyEvents
    Consumers = {d1, d2}
    MaxFaults = 1
CONSTRAINT OneChangeWithBoth
SYMMETRY Symmetry
INVARIANTS NeverTakenForReplay NeverBehind QuietIsCurrent NothingLost Reachable StatisticsExact NextWaitsForRefresh ShownIsTrue NothingForgotten
PROPERTIES OnlyLoginReturns ImplementsPromise
CHECK_DEADLOCK FALSE
