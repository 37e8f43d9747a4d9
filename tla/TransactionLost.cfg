CONSTANTS
    Names = {"a", "b"}
    Multi <- NoList
    Errors = {"state", "value"}
    Callers = {"reclaim"}
    IdleCallers = {}
    MaxCalls = 2
    MaxShared = 0
    MaxLeft = 1
    MaxExposed = 2
SPECIFICATION Spec
INVARIANTS
    ExposeLeavesNothing
