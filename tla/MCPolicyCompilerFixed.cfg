CONSTANTS
    Nesting = 2
    Alias <- NoAlias
    Abis <- MCFixed
    Path <- MCPath
    Target = {"dex"}
    MaxRules = 2
SPECIFICATION Spec
INVARIANT EveryRuleSeesItsParameter
