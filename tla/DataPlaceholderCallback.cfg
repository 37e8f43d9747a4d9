CONSTANTS
    Refs = {1, 2, 3, 4, 5}
    Contents = {c1, c2}
    Buffers = {b1, b2}
    Null = Null
    Names = {"meta"}
    Metadata = {"meta"}
    MaxCalls = 2
    Modes <- WriteOrBoth
    PluginRights <- ReadOrWrite
    CopyFails = FALSE
SPECIFICATION Spec
INVARIANTS
    AlwaysPlaceholder
CHECK_DEADLOCK FALSE
