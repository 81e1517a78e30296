SPECIFICATION Spec
CONSTANTS
    PTR_STRING_CHUNK = 2
    Literals <- MCLiterals
    MaxPieces = 2
INVARIANT EscapesConverted
CHECK_DEADLOCK FALSE
