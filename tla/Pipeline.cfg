SPECIFICATION PipelineFairSpec
CONSTANTS
    Type <- MCType
    Event = "alert"
    Bases <- MCBases
    NumHandlers = 2
    BaseEffect = {"keep", "take"}
INVARIANTS
    SoleOwner
PROPERTIES
    ImplementsFairFlat
