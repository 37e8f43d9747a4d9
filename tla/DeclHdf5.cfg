SPECIFICATION Spec
CONSTANTS
    Trees <- MCTrees
    Names = {"a", "b", "i", "s"}
    Files = {"f1", "f2"}
    Events = {"write", "skip", "replace", "error", "outside", "update", "read"}
    Offers <- MCOffers
    MaxCalls = 5
PROPERTIES
    ReadsWhatWasWritten
    
CHECK_DEADLOCK FALSE
