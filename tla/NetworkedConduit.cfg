SPECIFICATION FairSpec
CONSTANTS
    Capacity = 2
    FrameSize = 3
    KernelBuffer = 4
    MaxFrames = 3
    MaxConns = 2
INVARIANTS
    FramesIntact
    InOrderAtMostOnce
    LostOnlyWithConnection
    NoSlotConflict
PROPERTIES
    EventuallyDelivered
CHECK_DEADLOCK FALSE
