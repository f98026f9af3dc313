SPECIFICATION Spec
CONSTANT
    Nodes <- CoreNodes
    Programs <- CorePrograms
    Actual <- Arguments
INVARIANTS
    OperandsFit
    BlocksWellFormed
    DefinitionsDominateUses
    RecordsWhereTheyBelong
