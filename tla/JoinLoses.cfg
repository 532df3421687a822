CONSTANTS
    Count = 3
    VecCount = 3
    Slaves <- MCSlaves
    Slow = {}
    Vecs <- MCVecs
    HashBound <- MCHashBound
    Hash <- MCHash
    VecHash <- MCVecHash
    MaxPuts = 2
    MaxCrashes = 1
SPECIFICATION Spec
CHECK_DEADLOCK FALSE
INVARIANTS
    ListsItsPrimaries
