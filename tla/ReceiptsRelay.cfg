SPECIFICATION Spec
CONSTANTS
    alice = alice
    relay = relay
    t1 = t1
    t3 = t3
    r1 = r1
    RequestIds = {r1}
    TransferIds = {t1, t3}
    Accounts = {relay, alice}
    None = None
    MaxOpenRequests = 2
    RelayAccount = relay
    Customers = {alice}
    TransferOf <- MCTransferOf
    BelongsTo <- MCBelongsTo
    Owed = {t1}
    Unreadable = {}
    CompletedAt <- MCCompletedAt
    MaxPerOrganization = 1
    PageSize = 1
    BatchSize = 1
    Revocable = {alice}
    Asks <- MCAsks
    MaxSent = 2
    MaxFaults = 2
INVARIANTS
    TypeOK
    PaidFirst
    ChargedForEffect
    CursorPassesDone
