CONSTANTS
    Slaves <- MCSlaves
    Slow = {}
    Vecs <- MCVecs
    After <- MCAfter
    Queries <- MCQueries
    MaxRanges = 2
    MaxAbsent = 0
    MaxCrashes = 0
SPECIFICATION Spec
CHECK_DEADLOCK FALSE
INVARIANTS
    AllResultsFound
