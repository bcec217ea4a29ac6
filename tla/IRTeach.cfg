SPECIFICATION FairSpec
CONSTANTS
    SEQ_SIZE = 6
    FrameSizes <- MCFrames
    MaxFrames = 3
    Faults = {"file", "kill"}
INVARIANTS
    TypeOK
    PlaysTheFrame
    OnlyABeginning
PROPERTY TeachEnds
CHECK_DEADLOCK FALSE
