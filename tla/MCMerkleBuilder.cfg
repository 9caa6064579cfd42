CONSTANTS
    Permission = {"swap", "repay", "claim"}
    Config = "account1"
    MaxPermissions = 5
SPECIFICATION Spec
INVARIANTS
    ProofFitsItsRoot
    RootIsItsLeaves
