SPECIFICATION Spec
CONSTANTS
    k1 = k1
    k2 = k2
    k3 = k3
    k4 = k4
    Keys = {k1, k2, k3, k4}
    Values = {v1}
    NULL = NULL
    Singular = FALSE
    Nodes = {n1, n2, n3, n4}
    Travs = {}
    Hash <- MCHash
    LastPower = 2
    HXhash_primes <- MCPrimes
SYMMETRY NodeSymmetry
INVARIANTS TableOK NothingLost LoadBound
PROPERTY ImplementsMap
