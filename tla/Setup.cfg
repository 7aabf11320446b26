SPECIFICATION FairSpec
CONSTANTS
    Conn = {"c1"}
    MaxCalls = 2
    Pipeline <- MCPipeline
    Capacity = 1
    MaxToggles = 2
    Programs <- MCPrograms
INVARIANTS
    TaskOwned
    ShuttingDownIsTrue
    ProtocolsApplied
PROPERTIES
    SetupResolves
    TasksEnd
CHECK_DEADLOCK FALSE
