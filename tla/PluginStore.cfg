CONSTANTS
    Plugins <- Three
    Absent = "x"
    MaxDeps = 3
SPECIFICATION FairSpec
INVARIANTS
    LoadsExactlyLoadable
    NothingLeaked
PROPERTIES
    OutlivedByDependencies
    ConstructedAfterDependencies
    LoadingEnds
CHECK_DEADLOCK FALSE
