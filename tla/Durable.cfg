SPECIFICATION DurableSpec
CONSTANTS
    Var = {"source", "worker"}
    Cell = {c1, c2, c3}
    NULL = NULL
    MaxEvents = 4
    MaxConcurrentWorkflows = 2
    Bound = 2
INVARIANTS
    AtMostOneOwner
    NoCellStranded
    ReplayFaithful
    RebuiltStateExisted
PROPERTIES
    ReplayDrains
CHECK_DEADLOCK FALSE
