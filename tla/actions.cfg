SPECIFICATION FairGatewaySpec
CONSTANTS
    Actions = {a1, a2}
    VoiceCommits = {a1}
    Replicas = {r1, r2}
    MaxMishaps = 1
INVARIANTS NeverReplayed CancellationWins AcceptedIsQueued
PROPERTIES ImplementsLedger AcceptedIsFinished
CHECK_DEADLOCK FALSE
