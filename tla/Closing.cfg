SPECIFICATION Spec
CONSTANTS
    Problems <- PointersAndFunctions
    Queries <- SomeTypes
    MaxInferred = 2
INVARIANTS
    InferredIsTheSolution
    SolutionIsKept
PROPERTY
    EveryTypeIsInferred
CHECK_DEADLOCK FALSE
