CONSTANTS
    Address <- TwoAddress
    ZeroAddress = "0"
    NoSelector = "none"
    ExecuteSelector = "execute"
    Exec7579Selector = "execute7579"
    Permission <- MCPermission
    WordModulus = 8
    MAX_RULES = 1
    MAX_IN_VALUES = 1
    ChainId = 1
    Account <- TwoAccount
    UserOp <- TwoUserOp
    Root <- TwoRoot
    OwnerChoice <- TwoOwnerChoice
    AdminChoice <- TwoAdminChoice
    MaxNonce = 2
    MaxTime = 1
SPECIFICATION Spec
INVARIANTS
    LedgerInv
    SingleUseOnce
PROPERTIES
    RevokedStaysRevoked
    StrangersChangeNothing
    SpentBySigner
    ImplementsLedger
