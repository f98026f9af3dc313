SPECIFICATION Spec
CONSTANTS
    Programs <- SomePrograms
    MaxQueries = 2
    Prologue <- MCPrologue
    Gamma <- MCGamma
INVARIANTS
    BuiltIffWellScoped
    TableAnswersLookups
    EveryCallIsAnEdge
    QueriesAgree
    ScopesDoNotMix
    AcceptedIffWellTyped
    AcceptedRunsDoNotGetStuck
CHECK_DEADLOCK FALSE
