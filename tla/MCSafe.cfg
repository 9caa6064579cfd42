CONSTANTS
    Address <- MCAddress
    ZeroAddress = "0"
    NoSelector = "none"
    ExecuteSelector = "execute"
    Exec7579Selector = "execute7579"
    Permission <- MCPermission
    WordModulus = 8
    MAX_RULES = 1
    MAX_IN_VALUES = 1
    ChainId = 1
    Safe <- MCSafeSet
    Tx <- MCTx
    Root <- MCRoot
    Target <- MCTarget
    GateAddress = "gate"
    MaxNonce = 2
    MaxTime = 2
SPECIFICATION Spec
INVARIANTS
    BookkeepingInv
    SpentMeansExecuted
PROPERTIES
    RevokedNeverStarts
    DelegatecallIsFresh
    CallersCannotEscalate
    ImplementsLedger
