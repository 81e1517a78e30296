SPECIFICATION Spec
CONSTANTS
    Address = {a1, a2}
    Value = {v1}
    NULL = NULL
    Garbage = Garbage
PROPERTY ImplementsCollection
