SPECIFICATION Spec
CONSTANTS
    Length = 7
    NumCommands = 8
INVARIANTS
    TypeOK
    InOrder
    SuccessMeansSent
CHECK_DEADLOCK FALSE
