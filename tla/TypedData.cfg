SPECIFICATION Spec
CONSTANTS
    PointerSize = 4
    SizeValues = 256
    UserTypes <- MCUserTypes
    Nodes <- MCNodes
INVARIANTS
    StaysInside
    DensifyIsDense
    CopyKeepsData
    SerializeKeepsData
CHECK_DEADLOCK FALSE
