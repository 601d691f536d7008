SPECIFICATION Spec
CONSTANTS
    i1 = i1
    s2 = s2
    d1 = d1
    d2 = d2
    s1 = s1
    None = None
    Items = {i1}
    Devices = {d1, d2}
    Signatures = {s1, s2}
    MaxOps = 2
    MaxVersion = 2
    MaxFaults = 1
    MaxRestarts = 1
SYMMETRY Alike
INVARIANTS
    AnsweredIsKept
    ReferencesResolve
    ShownWasPlayed
CHECK_DEADLOCK FALSE
