SPECIFICATION Spec
CONSTANTS
    MaxLinks = 2
    MaxCalls = 1
    Modes = {"release", "hold"}
    Disturbances = {"cancel", "quiet", "unload", "handover"}
INVARIANTS
    NothingIsLeft
    LetGoIsReal
PROPERTIES
    WritesAreCurrent
    LeaseIsHonoured
CHECK_DEADLOCK FALSE
