\* Refused and torn updates and crashes.
CONSTANTS
    u1 = u1
    u2 = u2
    u3 = u3
    Users = {u1, u3}
    NoUser = NoUser
    Known = {u1}
    FirstRows <- OneRow
    Faults = {"refused", "torn", "crash"}
    MaxRows = 3
SPECIFICATION Spec
PROPERTIES
    OnlyAdminUnbars
