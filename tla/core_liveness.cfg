SPECIFICATION LivenessSpec
CONSTANTS
    Replicas = {r1}
    LongBreak = 1
    StartMode = "durable"
    Reencodes = TRUE
    MaxTime = 1
    MaxWrites = 1
    MaxCompletions = 1
    MaxSaves = 0
    MaxFaults = 1
PROPERTIES NeverOverwritesUserWork IdleIsDetected EverythingSettles
CHECK_DEADLOCK FALSE
