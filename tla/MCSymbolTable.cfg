SPECIFICATION Spec
CONSTANTS
    Address = {a1, a2, a3}
    Buffer = {b1, b2, b3}
    n1 = n1
    n2 = n2
    n3 = n3
    Name <- MCNames
    Element = {e1, e2, e3}
    BUCKET_SIZE = 2
    hash_code <- MCHashCode
    NULL = NULL
    Garbage = Garbage
SYMMETRY Symmetry
INVARIANTS
    TypeOK
    Chained
PROPERTY Implements
