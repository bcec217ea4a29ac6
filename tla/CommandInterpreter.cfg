SPECIFICATION Spec
CONSTANTS
    Teachable = {4}
    Cuts = {0, 5}
    TaughtChoices <- MCTaught
    Faults = {"audio", "ir", "file", "kill"}
INVARIANTS
    TypeOK
    ToggleTracksBeamer
    SuccessIsComplete
    MovesPrepared
    TaughtIsKept
PROPERTIES
    ToggleToggles
    PictureAfterSound
