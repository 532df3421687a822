CONSTANTS
    Slaves <- MCSlaves
    Slow = {1}
    Vecs <- MCVecs
    After <- MCAfter
    Queries <- MCQueries
    MaxRanges = 2
    MaxAbsent = 1
    MaxCrashes = 2
SPECIFICATION Spec
CHECK_DEADLOCK FALSE
INVARIANTS
    TypeOK
    NoSlaveWaitsForItself
    OneDeathPerRange
PROPERTIES
    QuerySpec
