SPECIFICATION Spec
CONSTANTS
    MaxAngle = 3
    LowByte = 2
    Targets <- AnyTarget
    MaxRounds = 5
    MaxTests = 1
    Faults = {"sensor", "stuck", "kill"}
INVARIANTS
    TypeOK
    NickInterlock
    GierInterlock
    LockedWhileMoving
    MoveArrives
    MoveEndsInTime
