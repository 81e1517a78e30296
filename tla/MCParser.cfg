SPECIFICATION Spec
CONSTANTS
    Alphabet = {"pass", "return", "while", "def", "TNEWLINE", "TIDENTIFICATOR", "TLEFTPAR", "TRIGHTPAR", "TLEXERR", "TERR"}
    MaxTokens = 6
INVARIANTS
    TypeOK
    AcceptedTreeIsLive
    DoubleFreeNeedsStaleRead
    TreeInSourceOrder
    OnlyFlowStatements
PROPERTIES
    RefinesExpressionParser
    EndsOrRightParenthesis
