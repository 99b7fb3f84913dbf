SPECIFICATION Spec
CONSTANTS
    Last = 3
    MaxAttempts = 3
    MaxBuffer = 1
    MaxTroubles = 3
INVARIANTS
    NothingReplayed
CHECK_DEADLOCK FALSE
