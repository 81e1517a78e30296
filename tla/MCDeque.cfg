SPECIFICATION Spec
CONSTANTS
    Address = {a1, a2, a3, a4}
    Value = {v1, v2}
    NULL = NULL
    Garbage = Garbage
INVARIANTS
    TypeOK
    Linked
PROPERTY Implements
