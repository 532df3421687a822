CONSTANTS
    Count = 3
    VecCount = 3
    Slaves <- MCSlaves
    Slow = {1}
    Vecs <- MCVecs
    HashBound <- MCHashBound
    Hash <- MCHash
    VecHash <- MCVecHash
    MaxPuts = 3
    MaxCrashes = 3
SPECIFICATION Spec
CHECK_DEADLOCK FALSE
INVARIANTS
    TypeOK
    MembershipAgrees
    OneDeathLosesNothing
    Replicated
    LoneDeathIsCopied
PROPERTIES
    DeadAreTakenOff
