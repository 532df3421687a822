CONSTANTS
    Vecs <- MCVecs
    Workloads <- MCWorkloads
SPECIFICATION Spec
CHECK_DEADLOCK FALSE
INVARIANTS
    TypeOK
    ResultIsThere
    OwnResults
    NoWildWrite
