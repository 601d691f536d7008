SPECIFICATION Spec
CONSTANTS
    Bars = {b1, b2}
    Pages = {p1, p2}
    Colours = {c1, c2}
    SendTries = 2
    MaxOps = 3
    MaxFaults = 1
    MaxDrops = 1
SYMMETRY Alike
INVARIANTS
    OkIsTrue
    PicturesAreWhole
    ContradictionIsReal
PROPERTIES
    SiblingKept
CHECK_DEADLOCK FALSE
