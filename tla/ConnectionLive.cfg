SPECIFICATION FairSpec
CONSTANTS
    MaxLinks = 2
    MaxCalls = 1
    Modes = {"release"}
    Disturbances = {"unload", "stop"}
PROPERTIES
    UseComesToAnEnd
CHECK_DEADLOCK FALSE
