CONSTANTS
    Count = 4
    FirstVec = 2
    LastVec = 4
    Slaves <- MCSlaves
    Slow = {}
    Vecs <- MCVecs
    HashBound <- MCHashBound
    Hash <- MCHash
    VecHash <- MCVecHash
    MaxPuts = 3
    MaxCrashes = 3
SPECIFICATION Spec
CHECK_DEADLOCK FALSE
PROPERTIES
    ImplementsCluster
