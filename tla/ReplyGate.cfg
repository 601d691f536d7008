SPECIFICATION PacingSpec
CONSTANTS
    Keys = {power, colour}
    NoKey = NoKey
INVARIANTS
    AnsweredStaysPaced
    SilenceEarned
CHECK_DEADLOCK FALSE
