SPECIFICATION SdkSpec
CONSTANTS
    ChunkCount = 2
    MultipartTo <- MCMultipart
    SigningConcurrency = 2
    GroupConcurrency = 2
    BatchRoutes = 3
    MessageRoutes = 2
    MaxGenerations = 2
    MaxFaults = 2
    Off = Off
    None = None
INVARIANTS
    ControlSound
    StreamWhole
    GrantsSound
    RoutesSound
PROPERTIES
    FencedAbortsNothing
    NothingHangs
CHECK_DEADLOCK FALSE
