-------------------------- MODULE ClankerGate7579 --------------------------
(***************************************************************************)
(* The ERC-7579 gate (src/ClankerGate7579.sol): accounts install it as a     *)
(* validator module and uninstall it, and every install opens a policy       *)
(* epoch of its own.  The caller of onInstall, onUninstall, validateUserOp   *)
(* and isValidSignatureWithSender is the account they are about, so only the  *)
(* three setters take a caller of their own.  A call that reverts is a        *)
(* stutter.  The account's owner() and the clock change by themselves.        *)
(***************************************************************************)
EXTENDS ClankerGateValidatorBase

CONSTANTS
    Account,        \* the smart accounts
    UserOp,         \* the UserOperations the accounts pass on
    Root,           \* the roots anybody may try to set
    OwnerChoice,    \* what the owner() of an account may answer
    SignerChoice,   \* the session signers an account may be given
    ValidatorChoice,\* the signature validators an account may install
    AdminChoice,    \* the policy admins that may be appointed
    MaxEpoch,       \* bound on the installs of an account
    MaxTime         \* bound on block.timestamp

Epoch == 0 .. MaxEpoch

Leaf == [account : Account, perm : Permission, nonce : Epoch]

ASSUME GateAssumption ==
    /\ Account \subseteq Address
    /\ \A op \in UserOp : op.sender \in Account /\ op.perm \in Permission
    /\ Root \subseteq SUBSET Leaf
    /\ AdminChoice \subseteq Address \cup {ZeroAddress}
    /\ MaxEpoch \in Nat
    /\ MaxTime \in Nat

VARIABLES
    accountConfigs,         \* account -> AccountConfig
    installEpoch,           \* account -> _installEpoch, which survives uninstall
    usedPermissionHashes,   \* account -> the single-use leaves spent
    owner,                  \* what the account's owner() answers
    now,                    \* block.timestamp
    receipt,                \* history: the last transaction and what it returned
    uses,                   \* history: accepted validations per single-use leaf, up to 2
    retired                 \* history: the leaves that were live when their install ended

vars == <<accountConfigs, installEpoch, usedPermissionHashes, owner, now,
          receipt, uses, retired>>

Receipt(by, kind, ops) == [by |-> by, kind |-> kind, ops |-> ops]
NoReceipt == Receipt(ZeroAddress, "environment", {})

\* What accountConfigs holds before onInstall and after delete.
NoConfig == [policyRoot |-> NoRoot, nonce |-> 0, owner |-> ZeroAddress,
             installed |-> FALSE, signatureValidator |-> ZeroAddress,
             policyAdmin |-> ZeroAddress]

LeafOf(op) ==
    HashPermissionWithAccount(op.sender, op.perm, accountConfigs[op.sender].nonce)

\* The permissions of an account that a proof can be given for now.
LiveLeaves(account) ==
    {leaf \in accountConfigs[account].policyRoot :
        leaf.account = account /\ leaf.nonce = accountConfigs[account].nonce}

---------------------------------------------------------------------------
Init ==
    /\ accountConfigs = [a \in Account |-> NoConfig]
    /\ installEpoch = [a \in Account |-> 0]
    /\ usedPermissionHashes = [a \in Account |-> {}]
    /\ owner \in [Account -> OwnerChoice]
    /\ now \in 0 .. MaxTime
    /\ receipt = NoReceipt
    /\ uses = [l \in Leaf |-> 0]
    /\ retired = {}

\* Mutated form: the epoch is kept in the configuration that uninstall deletes.
FreshEpochFromConfig(account) == accountConfigs[account].nonce + 1

FreshEpoch(account) == installEpoch[account] + 1

OnInstall(account, initOwner, initPolicyRoot, initSignatureValidator) ==
    /\ ~accountConfigs[account].installed
    /\ installEpoch[account] < MaxEpoch
    /\ installEpoch' = [installEpoch EXCEPT ![account] = FreshEpoch(account)]
    /\ accountConfigs' = [accountConfigs EXCEPT ![account] =
         [policyRoot |-> initPolicyRoot, nonce |-> FreshEpoch(account),
          owner |-> initOwner, installed |-> TRUE,
          signatureValidator |-> initSignatureValidator, policyAdmin |-> account]]
    /\ receipt' = Receipt(account, "policy", {})
    /\ UNCHANGED <<usedPermissionHashes, owner, now, uses, retired>>

OnUninstall(account) ==
    /\ accountConfigs[account].installed
    /\ accountConfigs' = [accountConfigs EXCEPT ![account] = NoConfig]
    /\ receipt' = Receipt(account, "policy", {})
    /\ retired' = retired \cup LiveLeaves(account)
    /\ UNCHANGED <<installEpoch, usedPermissionHashes, owner, now, uses>>

\* Mutated form: the session signer may administer (H-4 undone).
SignerMayAdminister(caller, account) ==
    /\ accountConfigs[account].installed
    /\ caller \in {account, accountConfigs[account].policyAdmin, accountConfigs[account].owner}

\* Mutated form: "installed" is not looked at.
AnybodyMayAdminister(caller, account) ==
    caller \in {account, accountConfigs[account].policyAdmin}

\* The session signer, accountConfigs[account].owner, is left out (H-4).
MayAdminister(caller, account) ==
    /\ accountConfigs[account].installed
    /\ caller \in {account, accountConfigs[account].policyAdmin}

\* What the three setters have in common.
Administer(caller, account, config) ==
    /\ MayAdminister(caller, account)
    /\ accountConfigs' = [accountConfigs EXCEPT ![account] = config]
    /\ receipt' = Receipt(caller, "policy", {})
    /\ UNCHANGED <<installEpoch, usedPermissionHashes, owner, now, uses, retired>>

\* The epoch stays: a new tree, or an old one again, for the same install.
SetPolicyRoot(caller, account, newRoot) ==
    Administer(caller, account, [accountConfigs[account] EXCEPT !.policyRoot = newRoot])

SetOwner(caller, account, newOwner) ==
    Administer(caller, account, [accountConfigs[account] EXCEPT !.owner = newOwner])

SetPolicyAdmin(caller, account, newAdmin) ==
    Administer(caller, account, [accountConfigs[account] EXCEPT !.policyAdmin = newAdmin])

\* The installed signature validator, else the session signer, else the
\* account's owner(); ZeroAddress where _resolveSigner reverts.
ResolveSigner(account) ==
    LET config == accountConfigs[account]
    IN  CASE config.signatureValidator # ZeroAddress -> config.signatureValidator
          [] config.owner # ZeroAddress -> config.owner
          [] OTHER -> owner[account]

\* isValidSignatureWithSender, asked by the account about a signature by signer.
IsValidSignature(account, signer) ==
    /\ accountConfigs[account].installed
    /\ ResolveSigner(account) # ZeroAddress
    /\ signer = ResolveSigner(account)

Validates(op) ==
    LET config == accountConfigs[op.sender]
    IN  /\ config.installed
        /\ PolicyAllows(config.policyRoot, config.nonce, op.sender, op, now)
        /\ ResolveSigner(op.sender) # ZeroAddress

ValidateUserOpSigFailed(op) ==
    /\ Validates(op)
    /\ ~SignatureValid(ResolveSigner(op.sender), op)
    /\ receipt' = Receipt(op.sender, "sigFailed", {op})
    /\ UNCHANGED <<accountConfigs, installEpoch, usedPermissionHashes, owner, now,
                   uses, retired>>

\* Mutated form: a spent permission is marked again instead of refused.
MarkUsedTwice(op) ==
    usedPermissionHashes' = [usedPermissionHashes EXCEPT ![op.sender] = @ \cup {LeafOf(op)}]

MarkUsed(op) ==
    /\ LeafOf(op) \notin usedPermissionHashes[op.sender]
    /\ usedPermissionHashes' = [usedPermissionHashes EXCEPT ![op.sender] = @ \cup {LeafOf(op)}]

Count(leaf) == [uses EXCEPT ![leaf] = IF @ < 2 THEN @ + 1 ELSE @]

ValidateUserOp(op) ==
    /\ Validates(op)
    /\ SignatureValid(ResolveSigner(op.sender), op)
    /\ \/ /\ op.perm.singleUse
          /\ MarkUsed(op)
          /\ uses' = Count(LeafOf(op))
       \/ /\ ~op.perm.singleUse
          /\ UNCHANGED <<usedPermissionHashes, uses>>
    /\ receipt' = Receipt(op.sender, "accepted", {op})
    /\ UNCHANGED <<accountConfigs, installEpoch, owner, now, retired>>

\* The account changes its own owner() (code of the account, not of the gate).
RotateOwner(account, newOwner) ==
    /\ owner[account] # newOwner
    /\ owner' = [owner EXCEPT ![account] = newOwner]
    /\ receipt' = NoReceipt
    /\ UNCHANGED <<accountConfigs, installEpoch, usedPermissionHashes, now, uses, retired>>

Tick ==
    /\ now < MaxTime
    /\ now' = now + 1
    /\ receipt' = NoReceipt
    /\ UNCHANGED <<accountConfigs, installEpoch, usedPermissionHashes, owner, uses, retired>>

Next ==
    \/ \E account \in Account :
         \/ \E o \in SignerChoice, r \in Root, v \in ValidatorChoice : OnInstall(account, o, r, v)
         \/ OnUninstall(account)
         \/ \E newOwner \in OwnerChoice : RotateOwner(account, newOwner)
    \/ \E caller \in Address, account \in Account :
         \/ \E root \in Root : SetPolicyRoot(caller, account, root)
         \/ \E newOwner \in SignerChoice : SetOwner(caller, account, newOwner)
         \/ \E admin \in AdminChoice : SetPolicyAdmin(caller, account, admin)
    \/ \E op \in UserOp : ValidateUserOpSigFailed(op) \/ ValidateUserOp(op)
    \/ Tick

Spec == Init /\ [][Next]_vars

---------------------------------------------------------------------------
AccountConfig ==
    [policyRoot : SUBSET Leaf, nonce : Epoch, owner : SignerChoice \cup {ZeroAddress},
     installed : BOOLEAN, signatureValidator : ValidatorChoice \cup {ZeroAddress},
     policyAdmin : Address \cup {ZeroAddress}]

TypeOK ==
    /\ accountConfigs \in [Account -> AccountConfig]
    /\ installEpoch \in [Account -> Epoch]
    /\ usedPermissionHashes \in [Account -> SUBSET Leaf]
    /\ owner \in [Account -> OwnerChoice]
    /\ now \in 0 .. MaxTime
    /\ receipt.by \in Address \cup {ZeroAddress}
    /\ receipt.ops \in SUBSET UserOp
    /\ uses \in [Leaf -> 0 .. 2]
    /\ retired \in SUBSET Leaf

\* An account is either installed in its newest epoch or has no configuration
\* at all: uninstalling leaves no root, signer or admin behind.
ConfigMatchesEpoch ==
    \A a \in Account :
        IF accountConfigs[a].installed
        THEN accountConfigs[a].nonce = installEpoch[a]
        ELSE accountConfigs[a] = NoConfig

UsesMatchSpent ==
    \A leaf \in Leaf : uses[leaf] = IF leaf \in usedPermissionHashes[leaf.account] THEN 1 ELSE 0

\* What was live when an install ended belongs to an epoch that is over.
RetiredEpochsOver ==
    \A leaf \in retired :
        /\ leaf.nonce <= installEpoch[leaf.account]
        /\ leaf.nonce = installEpoch[leaf.account] => ~accountConfigs[leaf.account].installed

\* The epochs and the registry, which outlive the configuration, account for
\* every single-use leaf ever accepted and every leaf ever retired (M-5).
LedgerInv == TypeOK /\ ConfigMatchesEpoch /\ UsesMatchSpent /\ RetiredEpochsOver

\* A single-use permission is accepted at most once in each epoch, although the
\* tree may be replaced and restored within it, the module uninstalled and
\* installed again, and the signer, the validator and the admin changed.
SingleUseOnce == \A leaf \in Leaf : uses[leaf] <= 1

\* A leaf that was live when its install ended is never accepted again: a
\* reinstall with the very same root revives nothing.
RetiredStaysRetired ==
    [][receipt'.kind = "accepted"
         => \A op \in receipt'.ops : LeafOf(op) \in LiveLeaves(op.sender) \ retired]_vars

Live == UNION {LiveLeaves(a) : a \in Account}

\* The gate keeps the ledger's promise: a permission lives while its leaf is in
\* the tree of the current install, which setPolicyRoot may amend, dies when the
\* module is uninstalled, and is used when the account has it accepted.
Ledger == INSTANCE PermissionLedger WITH
    Amendable <- TRUE,
    live <- Live,
    dead <- retired,
    used <- uses
ImplementsLedger == Ledger!Spec

Acceptable(op) ==
    /\ Validates(op)
    /\ SignatureValid(ResolveSigner(op.sender), op)
    /\ op.perm.singleUse => LeafOf(op) \notin usedPermissionHashes[op.sender]

\* Nobody but an account and its policy admin changes which of its operations
\* are acceptable, or which signatures the gate vouches for (H-4): neither the
\* session signer, nor an admin of an earlier install.
StrangersChangeNothing ==
    [][\A a \in Account :
         (receipt'.kind # "environment"
            /\ receipt'.by \notin {a, accountConfigs[a].policyAdmin})
            => /\ accountConfigs'[a] = accountConfigs[a]
               /\ \A op \in UserOp :
                    op.sender = a =>
                      /\ Acceptable(op)' = Acceptable(op)
                      /\ IsValidSignature(a, op.signer)' = IsValidSignature(a, op.signer)]_vars
=============================================================================
