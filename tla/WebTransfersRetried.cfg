SPECIFICATION Spec
CONSTANTS
    MaxAttempts = 2
    MaxStreams = 2
    Last = 3
    Unseen = {2}
    MaxTroubles = 2
INVARIANTS
    RetriedCreateStartsOne
CHECK_DEADLOCK FALSE
