SPECIFICATION Spec
CONSTANTS
    Keys = {1, 2, 3}
    Values = {}
    NULL = NULL
    Singular = FALSE
    CKEY = TRUE
    CDATA = FALSE
    Nodes = {n1, n2, n3}
    ROOT = ROOT
    Malloc <- MallocAny
    Travs = {t1}
SYMMETRY NodeSymmetry
CHECK_DEADLOCK FALSE
INVARIANT CheckpointLive
