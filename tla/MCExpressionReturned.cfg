SPECIFICATION Spec
CONSTANTS
    Alphabet = {"TIDENTIFICATOR", "TADD", "TNEWLINE"}
    MaxTokens = 4
PROPERTIES
    ExpressionReturned
