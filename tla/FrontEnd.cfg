SPECIFICATION Spec
CONSTANTS
    Programs <- SomePrograms
    IntMax = 7
    MaxBuilds = 2
INVARIANTS
    BuiltIsTranslation
    OneResultPerNode
    PrintedInOrder
    TextDeterminesProgram
PROPERTIES
    NoSubtreeIsLost
CHECK_DEADLOCK FALSE
