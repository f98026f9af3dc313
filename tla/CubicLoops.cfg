CONSTANTS
    ASTNode = {1, 2, 3}
    Fn = {1}
    Unmapped = Unmapped
    Requests <- Flows
    MaxRequests = 4
SPECIFICATION Spec
CHECK_DEADLOCK FALSE
INVARIANT SearchesEnd
