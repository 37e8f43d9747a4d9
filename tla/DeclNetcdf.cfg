SPECIFICATION Spec
CONSTANTS
    Trees <- MCTrees
    Names = {"top", "low", "u", "s", "v"}
    Files = {"f"}
    Events = {"write", "read", "size", "update", "copy"}
    Offers <- MCOffers
    MaxCalls = 7
INVARIANTS
    EventTransfersAll
PROPERTIES
    ReadLeavesFile
CHECK_DEADLOCK FALSE
