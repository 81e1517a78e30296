SPECIFICATION Spec
CONSTANTS
    Pieces <- MCPieces
    MaxPieces = 3
INVARIANTS
    TypeOK
    NothingLost
    CountsFromLineStart
    IndentsRise
    LineInItsBlock
    LongestMatch
    ValueIsText
PROPERTY Returns
CHECK_DEADLOCK FALSE
