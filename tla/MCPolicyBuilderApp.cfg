CONSTANTS
    Nesting = 2
    Alias <- NoAlias
    Abi <- MCAbi
    Examples <- MCExamples
    Op = {"EQ", "LTE"}
    MaxAppRules = 3
    MaxPending = 2
SPECIFICATION SpecApp
INVARIANTS
    RowsShowTheCompiledRules
    MapShowsTheConstrainedFields
PROPERTY CopiedEnds
