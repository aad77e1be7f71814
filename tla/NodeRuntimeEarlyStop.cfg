SPECIFICATION FairSpec
CONSTANTS
    NumBindings = 1
    MaxBinds = 1
    KernelBuffer = 2
    StopWaits = FALSE
PROPERTIES
    StopEndsRun
CHECK_DEADLOCK FALSE
