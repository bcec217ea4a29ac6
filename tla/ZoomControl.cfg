SPECIFICATION Spec
CONSTANTS
    MaxZoom = 3
    RefTime = 3
    MaxByte = 4
    Positions <- AllPositions
    LastEntry = 1
    Faults = {"kill", "late", "timeout", "open", "write"}
INVARIANTS
    TypeOK
    KnowsZoom
    RecallsZoom
