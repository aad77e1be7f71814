SPECIFICATION FairSpec
CONSTANTS
    Value = {p1, p2, p3}
    None = None
    Size = 4
INVARIANTS
    NoSlotConflict
PROPERTIES
    ImplementsFifo
    ImplementsFairFifo
