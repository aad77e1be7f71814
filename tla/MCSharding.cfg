SPECIFICATION MCSpec
CONSTANTS
    Cell = {c1, c2, c3, c4}
    NumOutputs = 2
    ConduitSize = 3
    NULL = NULL
    Tasks = 4
    Memory = {m1, m2, m3}
    nullptr = nullptr
    PipeSlots = 2
    Events = 3
    Blocks = 6
    Capacity = 4
    EventCounts = {6, 7}
    AbaModulus = 2
    CountModulus = 8
INVARIANTS
    OneHolderEach
    NearestTrackTaken
PROPERTIES
    Reclaimed
    ShutdownsComplete
    RingIsFifo
CHECK_DEADLOCK FALSE
