SPECIFICATION Spec
CONSTANTS
    PTR_STRING_CHUNK = 2
    Literals <- MCLiterals
    MaxPieces = 4
INVARIANTS
    TypeOK
    ConvertsAfterText
    CodeDenotesString
CHECK_DEADLOCK FALSE
