SPECIFICATION Spec
CONSTANTS
    Procs = {p1, p2, p3}
    Dirs = {d1}
    MaxInodes = 3
SYMMETRY Symmetry
INVARIANT OnlyOneInstance
