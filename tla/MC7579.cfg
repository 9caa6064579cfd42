CONSTANTS
    Address <- MCAddress
    ZeroAddress = "0"
    NoSelector = "none"
    ExecuteSelector = "execute"
    Exec7579Selector = "execute7579"
    Permission <- MCPermission
    WordModulus = 8
    MAX_RULES = 1
    MAX_IN_VALUES = 1
    ChainId = 1
    Account <- MCAccount
    UserOp <- MCUserOp
    Root <- MCRoot
    OwnerChoice <- MCOwnerChoice
    SignerChoice <- MCSignerChoice
    ValidatorChoice <- MCValidatorChoice
    AdminChoice <- MCAdminChoice
    MaxEpoch = 2
    MaxTime = 1
    Client <- MCClient
    Wanted <- MCWanted
    MaxPending = 1
SPECIFICATION SpecDeployment
INVARIANTS
    LedgerInv
    SingleUseOnce
PROPERTIES
    RetiredStaysRetired
    StrangersChangeNothing
    ImplementsLedger
    TakesEffectInItsInstall
