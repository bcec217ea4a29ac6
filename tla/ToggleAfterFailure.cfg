SPECIFICATION Spec
CONSTANTS
    Teachable = {4}
    Cuts = {0, 5}
    TaughtChoices <- MCAllTaught
    Faults = {"audio"}
PROPERTY ToggleIsBeamer
