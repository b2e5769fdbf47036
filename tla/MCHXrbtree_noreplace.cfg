SPECIFICATION Spec
CONSTANTS
    Keys = {1, 2, 3}
    Values = {v1, v2}
    NULL = NULL
    Singular = FALSE
    CKEY = FALSE
    CDATA = FALSE
    Nodes = {1, 2, 3}
    ROOT = ROOT
    Malloc <- MallocByKey
    Travs = {}
PROPERTY NoOverwrite
