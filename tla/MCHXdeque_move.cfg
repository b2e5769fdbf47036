SPECIFICATION Spec
CONSTANTS
    Deques = {d1, d2}
    Nodes = {n1, n2, n3}
    Values = {v1}
    NULL = NULL
    MoveAnywhere = TRUE
    MaxMoved = 1
SYMMETRY Symmetry
INVARIANT ChainOK
