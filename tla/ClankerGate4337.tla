-------------------------- MODULE ClankerGate4337 --------------------------
(***************************************************************************)
(* The ERC-4337 gate (src/ClankerGate4337.sol): policy roots, policy epochs  *)
(* and policy admins per account, and the validation of UserOperations.      *)
(* Anybody may send anything: a call that reverts leaves no trace and is a   *)
(* stutter.  The accounts' owner() is outside the gate and may change at any  *)
(* time; so may the clock.                                                   *)
(***************************************************************************)
EXTENDS ClankerGateValidatorBase

CONSTANTS
    Account,        \* the smart accounts
    UserOp,         \* the UserOperations anybody may submit
    Root,           \* the roots anybody may try to set
    OwnerChoice,    \* what the owner() of an account may answer
    AdminChoice,    \* the admins an account may appoint
    MaxNonce,       \* bound on the policy epochs of an account
    MaxTime         \* bound on block.timestamp

Nonce == 0 .. MaxNonce

Leaf == [account : Account, perm : Permission, nonce : Nonce]

ASSUME GateAssumption ==
    /\ Account \subseteq Address
    /\ \A op \in UserOp : op.sender \in Account /\ op.perm \in Permission
    /\ Root \subseteq SUBSET Leaf
    /\ AdminChoice \subseteq Address \cup {ZeroAddress}
    /\ MaxNonce \in Nat
    /\ MaxTime \in Nat

VARIABLES
    policyRoots,            \* account -> root
    nonces,                 \* account -> policy epoch
    policyAdmin,            \* account -> address, or ZeroAddress
    usedPermissionHashes,   \* account -> the single-use leaves spent
    owner,                  \* what the account's owner() answers
    now,                    \* block.timestamp
    receipt,                \* history: the last transaction and what it returned
    uses,                   \* history: accepted validations per single-use leaf, up to 2
    revoked                 \* history: the leaves that were live when a root change hit them

gateVars == <<policyRoots, nonces, policyAdmin, usedPermissionHashes>>
vars     == <<policyRoots, nonces, policyAdmin, usedPermissionHashes, owner, now,
              receipt, uses, revoked>>

\* Who sent the last transaction, what it was, and the operation it validated.
Receipt(by, kind, ops) == [by |-> by, kind |-> kind, ops |-> ops]
NoReceipt == Receipt(ZeroAddress, "environment", {})

LeafOf(op) == HashPermissionWithAccount(op.sender, op.perm, nonces[op.sender])

\* The permissions of an account that a proof can be given for now.
LiveLeaves(account) ==
    {leaf \in policyRoots[account] :
        leaf.account = account /\ leaf.nonce = nonces[account]}

---------------------------------------------------------------------------
Init ==
    /\ policyRoots = [a \in Account |-> NoRoot]
    /\ nonces = [a \in Account |-> 0]
    /\ policyAdmin = [a \in Account |-> ZeroAddress]
    /\ usedPermissionHashes = [a \in Account |-> {}]
    /\ owner \in [Account -> OwnerChoice]
    /\ now \in 0 .. MaxTime
    /\ receipt = NoReceipt
    /\ uses = [l \in Leaf |-> 0]
    /\ revoked = {}

\* ZeroAddress never calls, so "no admin" leaves the account alone.
AssertPolicyAdmin(caller, account) ==
    IF policyAdmin[account] = ZeroAddress
    THEN caller = account
    ELSE caller \in {account, policyAdmin[account]}

\* Mutated form: the epoch is cleared with the zero root.
NewEpochResets(account, root) ==
    /\ nonces[account] < MaxNonce
    /\ policyRoots' = [policyRoots EXCEPT ![account] = root]
    /\ nonces' = [nonces EXCEPT ![account] = IF root = NoRoot THEN 0 ELSE @ + 1]

\* Mutated form: no bound on the epoch.
NewEpochOverflows(account, root) ==
    /\ policyRoots' = [policyRoots EXCEPT ![account] = root]
    /\ nonces' = [nonces EXCEPT ![account] = @ + 1]

\* nonces[account]++ is checked arithmetic; MaxNonce stands for the largest uint256.
NewEpoch(account, root) ==
    /\ nonces[account] < MaxNonce
    /\ policyRoots' = [policyRoots EXCEPT ![account] = root]
    /\ nonces' = [nonces EXCEPT ![account] = @ + 1]

SetPolicyRoot(caller, account, root) ==
    /\ AssertPolicyAdmin(caller, account)
    /\ NewEpoch(account, root)
    /\ receipt' = Receipt(caller, "policy", {})
    /\ revoked' = revoked \cup LiveLeaves(account)
    /\ UNCHANGED <<policyAdmin, usedPermissionHashes, owner, now, uses>>

\* The leaf is computed for the epoch that the call itself opens.
SetPolicyRootWithPermission(caller, account, perm) ==
    /\ AssertPolicyAdmin(caller, account)
    /\ ShapeWithinLimits(perm)
    /\ NewEpoch(account, {HashPermissionWithAccount(account, perm, nonces[account] + 1)})
    /\ receipt' = Receipt(caller, "policy", {})
    /\ revoked' = revoked \cup LiveLeaves(account)
    /\ UNCHANGED <<policyAdmin, usedPermissionHashes, owner, now, uses>>

SetPolicyAdmin(caller, account, admin) ==
    /\ caller = account
    /\ policyAdmin' = [policyAdmin EXCEPT ![account] = admin]
    /\ receipt' = Receipt(caller, "policy", {})
    /\ UNCHANGED <<policyRoots, nonces, usedPermissionHashes, owner, now, uses, revoked>>

\* _policyRootOf, _nonceOf and _resolveSigner applied; without an owner the
\* signer does not resolve and the call reverts.
Validates(op) ==
    /\ PolicyAllows(policyRoots[op.sender], nonces[op.sender], op.sender, op, now)
    /\ owner[op.sender] # ZeroAddress

\* What validateUserOp returns when it does not revert.
ValidationData(op) ==
    PackValidationData(~SignatureValid(owner[op.sender], op),
                       op.perm.validUntil, op.perm.validAfter)

\* Nobody is asked who is calling up to here: a bad signature is an answer,
\* not a revert, and spends nothing.
ValidateUserOpSigFailed(caller, op) ==
    /\ Validates(op)
    /\ ~SignatureValid(owner[op.sender], op)
    /\ receipt' = Receipt(caller, "sigFailed", {op})
    /\ UNCHANGED <<gateVars, owner, now, uses, revoked>>

\* Mutated form: whoever calls validateUserOp first spends the permission.
MarkUsedByAnyone(caller, op) ==
    /\ LeafOf(op) \notin usedPermissionHashes[op.sender]
    /\ usedPermissionHashes' = [usedPermissionHashes EXCEPT ![op.sender] = @ \cup {LeafOf(op)}]

\* Mutated form: a spent permission is marked again instead of refused.
MarkUsedTwice(caller, op) ==
    /\ caller = op.sender
    /\ usedPermissionHashes' = [usedPermissionHashes EXCEPT ![op.sender] = @ \cup {LeafOf(op)}]

\* Mutated form: the spent permission is recorded without its account.
MarkUsedForAll(caller, op) ==
    /\ caller = op.sender
    /\ LeafOf(op) \notin usedPermissionHashes[op.sender]
    /\ usedPermissionHashes' = [a \in Account |->
         usedPermissionHashes[a] \cup {[LeafOf(op) EXCEPT !.account = a]}]

\* Only the account itself spends its single-use permissions.
MarkUsed(caller, op) ==
    /\ caller = op.sender
    /\ LeafOf(op) \notin usedPermissionHashes[op.sender]
    /\ usedPermissionHashes' = [usedPermissionHashes EXCEPT ![op.sender] = @ \cup {LeafOf(op)}]

Count(leaf) == [uses EXCEPT ![leaf] = IF @ < 2 THEN @ + 1 ELSE @]

ValidateUserOp(caller, op) ==
    /\ Validates(op)
    /\ SignatureValid(owner[op.sender], op)
    /\ \/ /\ op.perm.singleUse
          /\ MarkUsed(caller, op)
          /\ uses' = Count(LeafOf(op))
       \/ /\ ~op.perm.singleUse
          /\ UNCHANGED <<usedPermissionHashes, uses>>
    /\ receipt' = Receipt(caller, "accepted", {op})
    /\ UNCHANGED <<policyRoots, nonces, policyAdmin, owner, now, revoked>>

\* The account changes its own owner() (code of the account, not of the gate).
RotateOwner(account, newOwner) ==
    /\ owner[account] # newOwner
    /\ owner' = [owner EXCEPT ![account] = newOwner]
    /\ receipt' = NoReceipt
    /\ UNCHANGED <<gateVars, now, uses, revoked>>

Tick ==
    /\ now < MaxTime
    /\ now' = now + 1
    /\ receipt' = NoReceipt
    /\ UNCHANGED <<gateVars, owner, uses, revoked>>

Next ==
    \/ \E caller \in Address, account \in Account :
         \/ \E root \in Root : SetPolicyRoot(caller, account, root)
         \/ \E perm \in Permission : SetPolicyRootWithPermission(caller, account, perm)
         \/ \E admin \in AdminChoice : SetPolicyAdmin(caller, account, admin)
    \/ \E caller \in Address, op \in UserOp :
         \/ ValidateUserOpSigFailed(caller, op)
         \/ ValidateUserOp(caller, op)
    \/ \E account \in Account, newOwner \in OwnerChoice :
         RotateOwner(account, newOwner)
    \/ Tick

Spec == Init /\ [][Next]_vars

---------------------------------------------------------------------------
TypeOK ==
    /\ policyRoots \in [Account -> SUBSET Leaf]
    /\ nonces \in [Account -> Nonce]
    /\ policyAdmin \in [Account -> AdminChoice \cup {ZeroAddress}]
    /\ usedPermissionHashes \in [Account -> SUBSET Leaf]
    /\ owner \in [Account -> OwnerChoice]
    /\ now \in 0 .. MaxTime
    /\ receipt.by \in Address \cup {ZeroAddress}
    /\ receipt.ops \in SUBSET UserOp
    /\ uses \in [Leaf -> 0 .. 2]
    /\ revoked \in SUBSET Leaf

\* A single-use permission is accepted at most once in each epoch, whoever
\* calls, in whatever order roots, admins and owners change (_markUsed).
SingleUseOnce == \A leaf \in Leaf : uses[leaf] <= 1

\* What makes SingleUseOnce inductive: the history agrees with the registry,
\* and what a root change revoked belongs to an epoch that has passed.
UsesMatchSpent ==
    \A leaf \in Leaf : uses[leaf] = IF leaf \in usedPermissionHashes[leaf.account] THEN 1 ELSE 0

RevokedEpochsPassed == \A leaf \in revoked : leaf.nonce < nonces[leaf.account]

\* The registry and the epochs account for everything that was ever accepted or
\* revoked: each spent leaf was accepted exactly once, every other single-use
\* leaf never, and no revoked leaf belongs to a current epoch.
LedgerInv == TypeOK /\ UsesMatchSpent /\ RevokedEpochsPassed

\* Every validation that is accepted rests on a leaf of the account's current
\* tree and epoch, and never on one that an earlier root change hit while it was
\* live: setting the very same root anew does not bring it back.
RevokedStaysRevoked ==
    [][receipt'.kind = "accepted"
         => \A op \in receipt'.ops : LeafOf(op) \in LiveLeaves(op.sender) \ revoked]_vars

\* Would the account's own call of validateUserOp accept the operation now?
Acceptable(op) ==
    /\ Validates(op)
    /\ SignatureValid(owner[op.sender], op)
    /\ op.perm.singleUse => LeafOf(op) \notin usedPermissionHashes[op.sender]

\* Nobody but an account and the admin it appointed can make an operation of
\* the account acceptable or unacceptable, or touch its policy: not a third
\* party that calls validateUserOp first, and not the session signer.
StrangersChangeNothing ==
    [][\A a \in Account :
         (receipt'.kind # "environment" /\ receipt'.by \notin {a, policyAdmin[a]})
            => /\ policyAdmin'[a] = policyAdmin[a]
               /\ policyRoots'[a] = policyRoots[a]
               /\ \A op \in UserOp :
                    op.sender = a => Acceptable(op)' = Acceptable(op)]_vars

\* A single-use permission is spent only by an operation whose signature is the
\* session signer's: a bad signature never burns it.
SpentBySigner ==
    [][\A a \in Account :
         usedPermissionHashes'[a] # usedPermissionHashes[a]
            => \E op \in receipt'.ops :
                 /\ op.sender = a
                 /\ op.signer = owner[a]
                 /\ usedPermissionHashes'[a] = usedPermissionHashes[a] \cup {LeafOf(op)}]_vars

Live == UNION {LiveLeaves(a) : a \in Account}

\* The gate keeps the ledger's promise: a permission lives while its leaf is in
\* the account's tree and of its epoch, dies with the next root, and is used when
\* the account has it accepted (policyRoots, nonces and usedPermissionHashes).
Ledger == INSTANCE PermissionLedger WITH
    Amendable <- FALSE,
    live <- Live,
    dead <- revoked,
    used <- uses
ImplementsLedger == Ledger!Spec

\* What a test of the repository says (test/invariant/ClankerGateInvariant.t.sol,
\* "ChainId mismatch is always rejected"): no operation is accepted under a
\* permission for another chain.
ChainMismatchRejected ==
    receipt.kind = "accepted" => \A op \in receipt.ops : op.perm.chainId \in {0, ChainId}
=============================================================================
