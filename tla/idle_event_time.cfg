SPECIFICATION Spec
CONSTANTS
    Replicas = {r1}
    LongBreak = 1
    StartMode = "durable"
    Reencodes = TRUE
    MaxTime = 2
    MaxWrites = 1
    MaxCompletions = 1
    MaxSaves = 0
    MaxFaults = 0
INVARIANT IdleEventsAreAccepted
CHECK_DEADLOCK FALSE
