CONSTANTS
    Paths = {"a", "b", "c"}
    Root = "root"
    Graphs <- AllGraphs
    Data = {"c", "d", "x", "y"}
    Aliases = {"x", "y"}
    Config <- Chained
    UserTriggers <- Functions
    Observers <- Watching
    Callers <- UserOps
    MaxDepth = 24
    MaxShared = 1
SPECIFICATION FairSpec
INVARIANTS
    IncludesAreOrdered
    StoreIsBalanced
    AliasesReleased
PROPERTIES
    NotifyCallsAll
    CallsReturn
CHECK_DEADLOCK FALSE
