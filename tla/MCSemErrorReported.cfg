CONSTANTS
    MaxNodes = 6
    MaxStatements = 2
    MaxParameters = 2
SPECIFICATION Spec
INVARIANT SemErrorReported
