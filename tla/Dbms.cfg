CONSTANTS
    a1 = a1
    a2 = a2
    Addresses = {a1, a2}
    Comment = Comment
    Terminator = Terminator
    NoFile = NoFile
    Files <- MCFiles
    Capacity = 2
    NumQueries = 2
    Tests <- MCTests
    Leftovers <- MCLeftovers
SPECIFICATION Spec
CHECK_DEADLOCK FALSE
INVARIANTS
    TypeOK
    IdsAgree
    DeliveredInOrder
    CountIsTrue
    StopsAfterItsQueries
PROPERTIES
    SentIsTaken
    DbmsReaps
