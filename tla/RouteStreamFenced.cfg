SPECIFICATION Spec
CONSTANTS
    ChunkCount = 2
    MultipartTo <- MCMultipart
    SigningConcurrency = 2
    GroupConcurrency = 2
    BatchRoutes = 3
    MessageRoutes = 2
    MaxGenerations = 2
    MaxFaults = 2
PROPERTIES
    FencedCancelsNothing
CHECK_DEADLOCK FALSE
