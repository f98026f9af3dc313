SPECIFICATION Spec
CONSTANTS
    Limit = 16
    MemoryWords = 14
    Loops <- SomeLoops
    Values <- SomeValues
    MaxEffects = 2
INVARIANTS
    EveryElementHasItsTurn
    StoresStayInside
PROPERTY
    EveryLoopEndsIfItCan
CHECK_DEADLOCK FALSE
