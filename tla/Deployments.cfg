SPECIFICATION Spec
CONSTANTS
    authored = authored
    builtin = builtin
    music = music
    one = one
    two = two
    Ops = {authored, builtin, music}
    Calls = {one, two}
    Selectors = {"plain", "slot", "mode"}
    Plain = "plain"
    Selector <- SlotAndMode
    Uploads = {authored}
    Acked = {authored}
    Profiles = {music}
    EffectSequenceAttempts = 2
    VerificationAttempts = 2
    MaxFaults = 2
    MaxCancels = 1
    MaxCrashes = 1
SYMMETRY CallSymmetry
INVARIANTS
    FailedIsHarmless
    ConfirmedWasSeen
    AnswerSurvives
    EndsTerminal
PROPERTIES
    ConfirmedOnce
CHECK_DEADLOCK FALSE
