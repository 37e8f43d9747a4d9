CONSTANTS
    Refs = {1, 2, 3, 4, 5}
    Contents = {c1, c2}
    Buffers = {b1, b2}
    Null = Null
    Names = {"meta"}
    Metadata = {"meta"}
    MaxCalls = 2
    Modes <- WriteOrBoth
    PluginRights <- ReadOrWrite
    CopyFails = TRUE
SPECIFICATION Spec
INVARIANTS
    PlaceholderKept
    FreedOnlyIfOwned
    NoStrayReference
    StoreIsConsistent
PROPERTIES
    FailedShareKeepsMemory
    ImplementsDataStore
CHECK_DEADLOCK FALSE
