CONSTANTS
    MaxNodes = 7
    MaxStatements = 3
    MaxParameters = 2
SPECIFICATION Spec
INVARIANTS TypeOK ScopesFollowTree VerdictIsLexical HandledInSourceOrder
    EveryNodeHandled NamesInFunctionScopes  
