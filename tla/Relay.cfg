SPECIFICATION PartsSpec
CONSTANTS
    Log <- MCLog
    LastBlock = 5
    StartBlock = 1
    LogRangeBlocks = 2
    MaxFaults = 3
    Off = Off
    None = None
INVARIANTS
    BehindCursorAnswered
    DeliveredInOrder
    RegistryFollows
    RecordsFollow
PROPERTIES
    StartsAnswered
    ApprovedAllowed
    EveryoneIsServed
