SPECIFICATION Spec
CONSTANTS
    Keys = {1, 2, 3}
    Values = {v1}
    NULL = NULL
    Singular = FALSE
    CKEY = FALSE
    CDATA = TRUE
    Nodes = {1, 2, 3}
    ROOT = ROOT
    Malloc <- MallocByKey
    Travs = {}
INVARIANT NoFault
