\* One instance that may die at any step.
CONSTANTS
    u1 = u1
    u2 = u2
    u3 = u3
    Users = {u1, u2, u3}
    NoUser = NoUser
    Clients = {c1}
    Opening <- MCOpening
    Amounts = {1, 2, 4}
    IntHalf = 16
    Faults = {"crash"}
    MaxTransfers = 3
SPECIFICATION Spec
INVARIANTS
    PointsConserved
PROPERTIES
    LossyLedgerSpec
