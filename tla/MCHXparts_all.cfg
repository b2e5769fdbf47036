SPECIFICATION PartSpec
CONSTANTS
    Bytes = {"a", "b"}
    NUL = "NUL"
    Junk = "junk"
    MaxLen = 3
    Prealloc = 2
    Chunk = 2
    Heads = {"h"}
    CHeads = {"c"}
    Nodes = {"n1", "n2", "n3", "n4"}
    NoNode = NoNode
    Threads = {"t1", "t2", "t3"}
    NoThread = "none"
    MaxHeld = 2
    MaxSeeds = 2
    Procs = {"p1", "p2"}
    MaxAddr = 2
    Envs <- MCEnvs
    NANOSECOND = 6
    MICRO = 2
    MaxTime = 20
    Root = "r"
    Tree = {"r", "a", "b", "l"}
    Link = "l"
    Out = "o"
    Kept = "k"
    Same = {"b"}
    ParentOf <- MCParent
    MaxPath = 3
    Names = {"a", "b"}
    Locs <- MCLocs
    Targets <- MCTargets
    Flags <- MCFlags
    MaxComps = 3
    MaxDeref = 3
    NoName = NoName
INVARIANTS
    McOK ListOK UsersCounted AnswerOK KeepsAddress TimeOK SamePlace OptionsOK
    ConfigOK ExpandsOK TextsOK QuotedOK AmountsOK
PROPERTIES RemoveOK MakeOK
