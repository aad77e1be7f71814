SPECIFICATION Spec
CONSTANTS
    Node = {n1, n2, n3}
    END_OF_LIST = END_OF_LIST
    WheelSlots = 2
    Delay = {0, 2}
    Cancellable = {"idle", "set"}
    Millisecond = 2
    resolution_ms = 1
    TickBound = 1
    MaxTime = 3
INVARIANTS
    WheelIntact
    WalkMeetsAllDue
    CoreNeverAhead
PROPERTIES
    TimersFire
