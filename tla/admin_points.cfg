\* One admin, users of the same and of another instance, all failures.
CONSTANTS
    u1 = u1
    u2 = u2
    Users = {u1, u2}
    NoUser = NoUser
    System = System
    Opening <- MCOpening
    Wallet = 1
    Edits <- MCEdits
    Gifts = {0, 1}
    IntHalf = 4
    Faults = {"refused", "torn", "crash", "instance"}
    MaxVisits = 3
SPECIFICATION Spec
INVARIANTS
    TypeOK
    
    WalletExplained
    BalancedIsReal
CHECK_DEADLOCK FALSE
