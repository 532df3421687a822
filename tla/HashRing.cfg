SPECIFICATION Spec
CONSTANTS
    Ids <- MCIds
    HashBound <- MCHashBound
    Hash <- MCHash
    Points <- MCPoints
INVARIANTS
    MachinesDiffer
    BackedUpByPredecessor
PROPERTIES
    DeletionIsLocal
