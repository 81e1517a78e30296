SPECIFICATION Spec
CONSTANTS
    Alphabet = {"TINT", "TLT", "TADD", "TMUL", "TLEFTPAR", "TRIGHTPAR", "TNEWLINE"}
    MaxTokens = 7
INVARIANTS
    TypeOK
    StackLinked
    WindowInOrder
    Ownership
    PostfixIsReference
PROPERTIES
    DeliveredInOrder
    RejectsOnlyMalformed
    Returns
