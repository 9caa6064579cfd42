CONSTANTS
    Address <- MCAddress
    ZeroAddress = "0"
    NoSelector = "none"
    ExecuteSelector = "execute"
    Exec7579Selector = "execute7579"
    Permission <- MCPermissions
    WordModulus = 8
    MAX_RULES = 1
    MAX_IN_VALUES = 1
    ChainId = 1
    Account <- MCAccount
    UserOp <- MCSwaps
    Root <- MCAdminRoot
    OwnerChoice <- MCKeyOnly
    AdminChoice <- MCAdminChoice
    MaxNonce = 3
    MaxTime = 0
    Client <- MCClient
    Wanted <- MCWanted
    MaxPending = 2
SPECIFICATION SpecDeployment
INVARIANTS
    UsesPerDeployment
PROPERTIES
    LandsWholeOrDead
