CONSTANTS
    Names = {"a", "b"}
    Multi <- Lists
    Errors = {"state", "value"}
    Callers = {"share"}
    IdleCallers = {"event", "reclaim"}
    MaxCalls = 2
    MaxShared = 1
    MaxLeft = 1
    MaxExposed = 2
SPECIFICATION Spec
INVARIANTS
    EveryShareHasAReclaimer
PROPERTIES
    FirstErrorReturned
