SPECIFICATION WebSpec
CONSTANTS
    Last = 3
    MaxAttempts = 2
    MaxBuffer = 1
    MaxTroubles = 2
    Off = Off
INVARIANTS
    CallsSound
    EventsComplete
    SessionsSound
PROPERTIES
    ClosedIsQuiet
    QuietOnceOver
    WebProgresses
CHECK_DEADLOCK FALSE
