\* The clock runs over three and a half steps.
CONSTANTS
    OTP_VALIDITY_SECONDS = 4
    MaxAttempts = 3
    Horizon = 18
SPECIFICATION Spec
INVARIANTS
    TypeOK
    AcceptedIsRecent
PROPERTIES
    RefusedAtBoundaryOnly
CHECK_DEADLOCK FALSE
