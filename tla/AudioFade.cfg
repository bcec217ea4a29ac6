SPECIFICATION Spec
CONSTANTS
    NumChannels = 1
    MaxVolume = 5
    NumProfiles = 1
    MaxLost = 2
PROPERTY
    GentleFade
CHECK_DEADLOCK FALSE
