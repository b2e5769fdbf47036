SPECIFICATION LiveSpec
CONSTANTS
    k1 = k1
    k2 = k2
    k3 = k3
    k4 = k4
    Keys = {k1, k2, k3}
    Values = {}
    NULL = NULL
    Singular = FALSE
    Nodes = {n1, n2, n3}
    Travs = {t1}
    Hash <- MCHash
    LastPower = 2
    HXhash_primes <- MCPrimes
INVARIANTS HeadLinked TraversalComplete
PROPERTIES NoRepeat TraversalEnds
