CONSTANTS
    Count = 4
    FirstVec = 4
    LastVec = 7
    Slaves <- MCSlaves
    Slow = {}
    Vecs <- MCVecs
    HashBound <- MCHashBound
    Hash <- MCHash
    VecHash <- MCVecHash
    MaxPuts = 3
    MaxCrashes = 1
SPECIFICATION Spec
CHECK_DEADLOCK FALSE
INVARIANTS
    Replicated
