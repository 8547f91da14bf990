\* One instance, every failure of the file and of the process.
CONSTANTS
    u1 = u1
    u2 = u2
    u3 = u3
    Users = {u1, u2, u3}
    NoUser = NoUser
    Clients = {c1}
    Opening <- MCOpening
    Amounts = {1, 2, 3}
    IntHalf = 4
    Faults = {"refused", "torn", "crash"}
    MaxTransfers = 3
SPECIFICATION Spec
INVARIANTS
    TransferWellFormed
    NoPointsCreated
