CONSTANTS
    MaxShares = 2
    MaxIds = 8
SPECIFICATION Spec
INVARIANTS
    DanglingNeedsTwoShares
    SerializedFollowsData
PROPERTIES
    WritesReachTheOwner
CHECK_DEADLOCK FALSE
