\* One instance, nothing fails.
CONSTANTS
    u1 = u1
    u2 = u2
    u3 = u3
    Users = {u1, u2, u3}
    NoUser = NoUser
    Clients = {c1}
    Opening <- MCOpening
    Amounts <- MCAmounts
    IntHalf = 16
    Faults = {}
    MaxTransfers = 4
SPECIFICATION Spec
INVARIANTS
    TypeOK
    SessionFresh
    SuccessIsReal
    StatementAgrees
PROPERTIES
    LedgerSpec
    NoCreditToDeleted
