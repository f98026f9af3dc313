SPECIFICATION Spec
CONSTANTS
    Programs <- AllPrograms
    CommandLines <- Lines
    Typed <- Lines
    LargestWord = 3
    Garbage <- Anything
INVARIANTS
    BehavesAsWritten
PROPERTY
    EveryProgramEnds
CHECK_DEADLOCK FALSE
