SPECIFICATION Spec
CONSTANTS
    k1 = k1
    k2 = k2
    RequestIds = {r1}
    TransferIds = {t1}
    RoomKeys = {k1, k2}
    Accounts = {owner, alice}
    Owner = owner
    None = None
    MaxOpenRequests = 2
    MaxEntries = 2
SYMMETRY Symmetry
INVARIANTS
    TypeOK
    OpenSetIndexed
    AnswersBacked
    RepeatedReportIsNoOp
PROPERTIES
    RecordsAreFinal
    AnsweredInKind
    ImplementsOutbox
