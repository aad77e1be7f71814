SPECIFICATION FairSpec
CONSTANTS
    NumBindings = 3
    MaxBinds = 1
    KernelBuffer = 2
    StopWaits = TRUE
PROPERTIES
    StopEndsRun
    EveryBindingPolled
    DeathReported
CHECK_DEADLOCK FALSE
