\* One instance whose second update fails.
CONSTANTS
    u1 = u1
    u2 = u2
    u3 = u3
    Users = {u1, u2, u3}
    NoUser = NoUser
    Clients = {c1}
    Opening <- MCOpening
    Amounts = {1, 2}
    IntHalf = 16
    Faults = {"refused"}
    MaxTransfers = 2
SPECIFICATION Spec
INVARIANTS
    SuccessIsReal
