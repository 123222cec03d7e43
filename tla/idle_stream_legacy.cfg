SPECIFICATION FairSpec
CONSTANTS
    Replicas = {r1}
    LongBreak = 1
    StartMode = "legacy"
    Reencodes = TRUE
    MaxTime = 1
    MaxWrites = 0
    MaxCompletions = 1
    MaxSaves = 0
    MaxFaults = 0
PROPERTY CallbackStillDetects
CHECK_DEADLOCK FALSE
