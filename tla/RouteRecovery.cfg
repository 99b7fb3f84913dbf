CONSTANTS
    t1 = t1
    a = a
    b = b
    NoOwner = NoOwner
    Transfers <- MCTransfers
    Owners = {a, b}
    TransferOf <- MCTransferOf
    Manual = {b}
    Signals = {a}
    MaxEpoch = 2
SPECIFICATION Spec
INVARIANTS
    TypeOK
    RequestedRecoveryCovered
    SecretsFollowLease
    OneStreamPerOwner
PROPERTIES
    FencedOwnerSparesReplacement
CHECK_DEADLOCK FALSE
