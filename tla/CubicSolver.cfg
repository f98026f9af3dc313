CONSTANTS
    ASTNode = {1, 2, 3, 4}
    Fn = {1, 2}
    Unmapped = Unmapped
    Requests <- CallRequests
    MaxRequests = 5
SPECIFICATION FairSpec
INVARIANTS
    TypeOK
    ReportsLeastSolution
    Collapsed
CHECK_DEADLOCK FALSE
PROPERTIES
    NeverRetracts
    EveryFrameReturns
