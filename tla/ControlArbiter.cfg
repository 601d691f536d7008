SPECIFICATION Spec
CONSTANTS
    t1 = t1
    t2 = t2
    t3 = t3
    Tasks = {t1, t2, t3}
    NoTask = NoTask
    MaxDepth = 2
    MaxSequence = 3
    MaxGeneration = 2
INVARIANTS
    ActiveIntentIsHighest
    NoLostWakeup
    AdmissionExact
PROPERTIES
    WaitersServed
    PriorityLockLive
CHECK_DEADLOCK FALSE
