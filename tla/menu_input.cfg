\* Up to four lines, with one or two entries each.
CONSTANTS
    Lines <- MCLines
    MaxLines = 4
SPECIFICATION Spec
INVARIANTS
    TypeOK
    GoodbyeIsTyped
    OperationsTyped
PROPERTIES
    WordsForgotten
CHECK_DEADLOCK FALSE
