CONSTANTS
    Nesting = 2
    Alias <- MCAlias
    Abis <- MCAbis
    Path <- MCPath
    Target = {"dex"}
    MaxRules = 2
    Source <- MCSource
    Qualified = {"Lib.Far"}
    AbiName = {"router"}
    Files <- MCFiles
SPECIFICATION ConverterSpec
INVARIANTS
    TypeOKConverter
    RuleSeesItsParameter
    StaticParametersResolve
    BuiltAsDeclared
    ParsedAsDeclared
    PublishedAgree
    PassMeansRight
