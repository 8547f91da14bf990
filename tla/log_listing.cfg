\* A log of up to five lines across two days, one of them cut at any place, on
\* a platform where rename does not replace a file.
CONSTANTS
    u1 = u1
    u2 = u2
    admin = admin
    Users = {u1, u2}
    Admin = admin
    Names = {"An", "Binh"}
    FirstName <- MCFirstName
    Old <- MCOld
    Instants <- MCInstants
    Typed <- MCTyped
    MayStop = {"id", "head", "user", "name", "tail", "reason", "end"}
    Limit = 1
    RenameReplaces = FALSE
    MaxLines = 5
    MaxCuts = 1
    MaxRenames = 1
SPECIFICATION Spec
INVARIANTS
    TypeOK
    ListingExact
    CalendarExact
    HistoryKept
    OnlyTransfersOutgrow
CHECK_DEADLOCK FALSE
