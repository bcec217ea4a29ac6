SPECIFICATION Spec
CONSTANTS
    SEQ_SIZE = 6
    FrameSizes <- MCFrames
    MaxFrames = 1
    Faults = {}
INVARIANT SuccessMeansSaved
CHECK_DEADLOCK FALSE
