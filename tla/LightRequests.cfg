SPECIFICATION LightSpec
CONSTANTS
    Power = power
    Controls = {power, timer}
    MaxRequests = 4
    ModeAttrs = {colour, effect}
    OtherAttrs = {brightness}
INVARIANTS
    LastWordIsSent
    MergedIsCurrent
CHECK_DEADLOCK FALSE
