SPECIFICATION LiveSpec
CONSTANTS
    Deques = {d1, d2}
    Nodes = {n1, n2, n3}
    Values = {v1, v2}
    NULL = NULL
    MoveAnywhere = FALSE
    MaxMoved = 1
    RKeys = {1, 2, 3, 4, 5}
    ROOT = ROOT
    Limits <- MCLimits
    MaxFile = 4
    BufSize = 2
    Page = 3
    INT_MAX = 2
    SSIZE_MAX = 9
    NoFile = NoFile
INVARIANTS ChainOK NodesOwned LoopsOK NoLeak ChildWired CallbacksPaired
PROPERTIES LoopsEnd CallsReturn Reaped CopyExact SlurpWhole CopyReturns
