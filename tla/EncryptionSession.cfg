SPECIFICATION FairSpec
CONSTANTS
    MaxCounter = 4
    MaxLinks = 3
    MaxFrames = 3
INVARIANTS
    PlaintextNeedsNoEvidence
    ReadyIsConfirmed
    NonceIsFresh
    FrameIsTakenOnce
PROPERTIES
    SetUpIsBounded
