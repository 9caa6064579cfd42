CONSTANTS
    Nesting = 2
    Alias <- MCAlias
    Abis <- MCAbis
    Path <- MCPath
    Target = {"dex"}
    MaxRules = 0
    Source <- MCAliasSource
    Qualified = {"Lib.Far"}
    AbiName = {"router"}
    Files <- MCFiles
SPECIFICATION ConverterSpec
INVARIANT SourceSelectorsAreRight
