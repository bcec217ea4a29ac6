SPECIFICATION FairSpec
CONSTANTS
    NumChannels = 2
    MaxVolume = 2
    NumProfiles = 2
    MaxLost = 2
INVARIANTS
    TypeOK
    VerifiedMeansSet
    OnTimeInv
    LossRepaired
PROPERTIES
    PromiseKept
    Termination
CHECK_DEADLOCK FALSE
