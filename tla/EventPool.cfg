SPECIFICATION FairSpec
CONSTANTS
    Thread = {t1, t2}
    Capacity = 3
    TagMod = 4
    SpuriousFailures = TRUE
INVARIANTS
    FreeListIntact
    NoCellShared
    NoCellLost
    SnapshotSound
PROPERTIES
    LockFree
