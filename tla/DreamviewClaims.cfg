SPECIFICATION Spec
CONSTANTS
    Centres = {c1, c2}
    Members = {m1, m2}
    MaxOps = 3
    MaxFaults = 1
    MaxCrashes = 1
    MaxUser = 1
SYMMETRY Alike
INVARIANTS
    NoContention
    GroupedIsClaimed
    OwedIsRecorded
PROPERTIES
    OffIsKept
CHECK_DEADLOCK FALSE
