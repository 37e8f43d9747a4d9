SPECIFICATION Spec
CONSTANTS
    ByteBits = 4
    IntSize = 2
    LongSize = 4
    Literals <- MCLiterals
    References <- MCReferences
    Curly = {"${a"}
    Members <- MCMembers
    Dotted = {".m", "1.5"}
    Spelling <- MCSpelling
    ReadOnly = {"u"}
    TrueWords <- MCTrueWords
    FalseWords <- MCFalseWords
    Trees <- MCTrees
    Types <- MCTypes
    Stores <- MCStores
    MaxTokens = 4
INVARIANTS
    EvaluatesByPrecedence
    CopiesWhatItReads
CHECK_DEADLOCK FALSE
