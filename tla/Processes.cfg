SPECIFICATION ProcessesSpec
CONSTANTS
    Procs = {p1, p2}
    Dirs = {d1, d2}
    MaxInodes = 3
SYMMETRY Symmetry
INVARIANTS
    TypeOK
    ExclusiveWithoutOverlap
    OpenIsEntry
    ProcessesTypeOK
    PinsNotShared
    LastButtonActs
