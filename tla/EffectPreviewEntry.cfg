SPECIFICATION FairSpec
CONSTANTS
    studio = studio
    phone = phone
    Sessions = {studio}
    MaxRequests = 2
    MaxSequence = 2
    Cuts = {"unload", "stop", "check"}
PROPERTIES
    NothingBeginsAfterStop
    WorkerSettles
CHECK_DEADLOCK FALSE
