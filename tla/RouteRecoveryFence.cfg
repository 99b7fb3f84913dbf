CONSTANTS
    t1 = t1
    a = a
    b = b
    NoOwner = NoOwner
    Transfers <- MCTransfers
    Owners = {a, b}
    TransferOf <- MCTransferOf
    Manual = {a, b}
    Signals = {}
    MaxEpoch = 2
SPECIFICATION Spec
PROPERTIES
    FencedOwnerNeverReplays
CHECK_DEADLOCK FALSE
