SPECIFICATION Spec
CONSTANTS
    P = 877
    A = 7
    W = 8
    N = 107
    G <- MCG
    Keys <- MCKeys
    Scalars <- MCScalars
    Hashes <- MCHashes
    Points <- MCPoints
INVARIANTS
    TypeOK
    DeployedKeysHavePrimeOrder
    AccumulatorIsPrefix
    VerdictIsEquation
CHECK_DEADLOCK FALSE
