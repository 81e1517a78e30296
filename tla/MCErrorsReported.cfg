SPECIFICATION Spec
CONSTANTS
    Alphabet = {"TLEXERR", "TIDENTIFICATOR", "TADD", "TNEWLINE"}
    MaxTokens = 4
PROPERTY ErrorsReported
