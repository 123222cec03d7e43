SPECIFICATION Spec
CONSTANTS
    Replicas = {r1, r2}
    LongBreak = 1
    StartMode = "legacy"
    Reencodes = TRUE
    MaxTime = 1
    MaxWrites = 1
    MaxCompletions = 1
    MaxSaves = 1
    MaxFaults = 1
SYMMETRY Symmetry
INVARIANTS OneLongBreakPerIdle ReadyMeansScheduled
CHECK_DEADLOCK FALSE
CONSTRAINT OneTrouble
