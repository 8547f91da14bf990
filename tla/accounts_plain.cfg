\* No failures, users without a status row.
CONSTANTS
    u1 = u1
    u2 = u2
    u3 = u3
    Users = {u1, u2, u3}
    NoUser = NoUser
    Known = {u1, u2}
    FirstRows <- OneRow
    Faults = {}
    MaxRows = 4
SPECIFICATION Spec
INVARIANTS
    TypeOK
    SessionNotBarred
    StruckIsLocked
    OneRowPerUser
