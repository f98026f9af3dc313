SPECIFICATION Spec
CONSTANTS
    Problems <- Shared
    Queries <- AllTypes
    MaxInferred = 1
INVARIANT
    InferredIsTheSolution
CHECK_DEADLOCK FALSE
