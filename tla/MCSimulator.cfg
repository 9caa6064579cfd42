CONSTANTS
    Address = {"account", "dex"}
    ZeroAddress = "0"
    NoSelector = "none"
    ExecuteSelector = "execute"
    Exec7579Selector = "execute7579"
    Permission <- MCOnChain
    WordModulus = 16
    MAX_RULES = 2
    MAX_IN_VALUES = 2
    ChainId = 1
    Calldata <- MCCalldata
    SdkPermission <- MCPermission
SPECIFICATION Spec
CHECK_DEADLOCK FALSE
INVARIANTS
    SimulatorMatchesContract
    SameRuleBlamed
    RejectedOffChainIsRejectedOnChain
