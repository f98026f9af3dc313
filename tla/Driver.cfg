SPECIFICATION Spec
CONSTANTS
    Options <- AllLines
    Sources <- AllSources
    FunctionList <- TwoFunctions
INVARIANTS
    WrittenIffAccepted
    PrintedIffAnalyzed
    PassesAreAsAskedFor
CHECK_DEADLOCK FALSE
