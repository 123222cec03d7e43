SPECIFICATION WorkersSpec
CONSTANTS
    Sources = {s1, s2}
    Workers = {w1, w2}
    Malformed = {s2}
    Legacy = {s1}
    AutoStarted = {s1}
    MaxSlips = 1
    MaxEdits = 1
    Notices = {1, 2, 3}
    Senders = {w1, w2}
    Unreadable = {1}
    MaxBreakdowns = 2
    Actions = {a1, a2}
    VoiceCommits = {a1}
    MaxTroubles = 1
    MaxClears = 1
    MaxSessions = 1
INVARIANTS NotLeftBehind OneSuccessor OneUndoEntry HeardInOrder
PROPERTIES ContinuationsSettle NoticesSettle QueuedIsSettled
CHECK_DEADLOCK FALSE
