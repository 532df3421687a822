SPECIFICATION MCSpec
CONSTANTS
    Count = 10
    Few = 6
    Filled = 9
    MaxChanges = 2
    Ids <- MCIds
    HashBound <- MCHashBound
    Hash <- MCHash
    Points <- MCPoints
INVARIANTS
    TypeOK
    SearchTree
    LinksAgree
    RedBlack
    SuccIsNext
    ReturnsWhole
    VectorsPlaced
    NeighboursUpToThree
PROPERTIES
    RingSpec
    CallsReturn
