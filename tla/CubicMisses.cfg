CONSTANTS
    ASTNode = {1, 2, 3, 4}
    Fn = {1}
    Unmapped = Unmapped
    Requests <- CallOfOneself
    MaxRequests = 5
SPECIFICATION Spec
CHECK_DEADLOCK FALSE
INVARIANT ConstraintsAreSolved
