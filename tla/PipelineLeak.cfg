SPECIFICATION PipelineSpec
CONSTANTS
    Type <- MCType
    Event = "alert"
    Bases <- MCBases
    NumHandlers = 1
    BaseEffect = {"keep", "reset", "take"}
INVARIANTS
    NoLeak
