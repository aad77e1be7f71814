SPECIFICATION MCSpec
CONSTANTS
    MAX_HEADERS = 2
    MaxKeyLength = 2
    Thread = {"gateway", "worker"}
    Producer = "gateway"
    Consumer = "worker"
    Blocks = 2
    AbaModulus = 2
    CountModulus = 8
    Capacity = 2
    EventCounts = {2, 3}
    Client = {c1, c2}
    NoClient = NoClient
    Request <- MCRequest
    WellFormed <- MCWellFormed
INVARIANTS
    ParserMeetsGrammar
    BlocksConserved
    CountAccounted
    OneKeeperEach
PROPERTIES
    WorkCompletes
CHECK_DEADLOCK FALSE
