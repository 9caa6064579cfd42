CONSTANTS
    Address <- MCAddress
    ZeroAddress = "0"
    NoSelector = "none"
    ExecuteSelector = "execute"
    Exec7579Selector = "execute7579"
    Permission <- MCPermission
    WordModulus = 8
    MAX_RULES = 1
    MAX_IN_VALUES = 1
    ChainId = 1
    Account <- MCAccount
    UserOp <- MCUserOp
    Root <- MCRoot
    OwnerChoice <- MCOwnerChoice
    AdminChoice <- MCAdminChoice
    MaxNonce = 2
    MaxTime = 2
    GateAddress = "gate"
    SetPolicyRootSelector = "setPolicyRoot"
    SetPolicyAdminSelector = "setPolicyAdmin"
    RotateOwnerSelector = "rotateOwner"
    MaxBundle = 2
SPECIFICATION SpecEntryPoint
INVARIANTS
    TypeOKEntryPoint
    SpentMeansOneAttempt
PROPERTIES
    ExecutedInWindow
    ExecutedCallIsPermitted
    SignerCannotEscalate
