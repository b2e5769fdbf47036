SPECIFICATION PartSpec
CONSTANTS
    Keys = {1, 2, 3, 4, 5, 6, 7, 8}
    Values = {v1}
    NULL = NULL
    Singular = FALSE
    CKEY = FALSE
    CDATA = FALSE
    Nodes = {1, 2, 3, 4, 5, 6, 7, 8, n1, n2, n3, n4}
    ROOT = ROOT
    Malloc <- MallocAll
    Travs = {t1}
    FewKeys = {1, 2, 3, 4}
    WNodes = {n1, n2, n3, n4}
SYMMETRY AddressSymmetry
INVARIANTS TreeOK RedBlack PathFits
PROPERTIES ImplementsMap WalkInOrder
