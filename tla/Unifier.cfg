CONSTANTS
    Term <- MCTerm
    Kind <- MCKind
    Args <- MCArgs
    NoTerm = NoTerm
    Left = {"x", "{f:&&x}"}
    MaxConstraints = 3
    ConstraintLists <- MCConstraintLists
SPECIFICATION FairSpec
INVARIANTS
    TypeOK
    Forest
    ProperTypeIsCanonical
    OnlyForced
    RejectedOnlyIfUnsolvable
    SolvedForm
PROPERTIES
    Termination
    ImplementsUnification
CHECK_DEADLOCK FALSE
