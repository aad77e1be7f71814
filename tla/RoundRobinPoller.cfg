SPECIFICATION PollerFairSpec
CONSTANTS
    NumInputs = 4
    ConduitSize = 3
INVARIANTS
    BoundedBypass
    NoTrackMissed
PROPERTIES
    StarvationFree
