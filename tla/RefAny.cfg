CONSTANTS
    Refs = {r1, r2}
    Contents = {c1, c2}
    Buffers = {b1, b2}
    Null = Null
    MaxDepth = 2
SPECIFICATION FairSpec
INVARIANTS
    LockCounts
    ReadersXorWriter
    GrantedAccess
    NoUseAfterFree
    RegisteredAreLive
    DestructorAssertions
PROPERTIES
    OwnershipIsFinal
    ReleaseEnds
CHECK_DEADLOCK FALSE
