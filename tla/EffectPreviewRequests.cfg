SPECIFICATION Spec
CONSTANTS
    studio = studio
    phone = phone
    Sessions = {studio, phone}
    MaxRequests = 3
    MaxSequence = 1
    Cuts = {"foreground"}
SYMMETRY SessionSymmetry
INVARIANTS
    OnceOrAnswered
PROPERTIES
    CancelledIsFinal
    ConfirmedIsOnDevice
CHECK_DEADLOCK FALSE
