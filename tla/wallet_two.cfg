\* Two instances on the same assets directory, updates may be refused.
CONSTANTS
    u1 = u1
    u2 = u2
    u3 = u3
    Users = {u1, u2}
    NoUser = NoUser
    Clients = {c1, c2}
    Opening <- MCOpening
    Amounts = {2}
    IntHalf = 16
    Faults = {"refused"}
    MaxTransfers = 2
SPECIFICATION FairSpec
INVARIANTS
    NoOverdraft
PROPERTIES
    TransferEnds
