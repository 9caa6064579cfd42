--------------------------- MODULE EntryPoint4337 ---------------------------
(***************************************************************************)
(* The gate at work: the ERC-4337 EntryPoint (v0.7, not in this repository)  *)
(* handles bundles of UserOperations of accounts that ask the gate.  All      *)
(* operations of a bundle are validated first; one that fails reverts the     *)
(* whole bundle.  Then each is executed, and an execution that fails is        *)
(* undone alone, its validation staying done.  A bundle is one transaction:    *)
(* others come between bundles, or as callbacks of the contracts it calls.     *)
(***************************************************************************)
EXTENDS ClankerGate4337

CONSTANTS
    GateAddress,            \* the address of the gate itself
    SetPolicyRootSelector,  \* setPolicyRoot(address,bytes32) of the gate
    SetPolicyAdminSelector, \* setPolicyAdmin(address,address) of the gate
    RotateOwnerSelector,    \* the account's own function that changes its owner()
    MaxBundle               \* bound on the operations of a bundle

ASSUME EntryPointAssumption ==
    /\ MaxBundle \in Nat \ {0}
    /\ GateAddress \notin Account
    /\ \A p \in Permission : p.validAfter \in Nat /\ p.validUntil \in Nat

VARIABLES
    phase,      \* "idle", "validation" or "execution"
    bundle,     \* the operations being handled
    pos,        \* the one that is next
    leaves,     \* the leaves the operations of the bundle were accepted under
    checkpoint, \* the registry before the bundle: what a failing one goes back to
    attempts    \* history: executions tried per single-use leaf, up to 2

bundleVars == <<phase, bundle, pos, leaves, checkpoint>>
allVars    == <<vars, bundleVars, attempts>>

Bundles == UNION {[1 .. n -> UserOp] : n \in 1 .. MaxBundle}

InitEntryPoint ==
    /\ Init
    /\ phase = "idle"
    /\ bundle = <<>>
    /\ pos = 1
    /\ leaves = <<>>
    /\ checkpoint = [used |-> usedPermissionHashes, uses |-> uses]
    /\ attempts = [l \in Leaf |-> 0]

HandleOps(ops) ==
    /\ phase = "idle"
    /\ phase' = "validation"
    /\ bundle' = ops
    /\ pos' = 1
    /\ leaves' = <<>>
    /\ UNCHANGED <<vars, checkpoint, attempts>>

\* The window in the validation data; validUntil 0 is no limit.
InTimeRange(data) ==
    /\ data.validAfter <= now
    /\ data.validUntil = 0 \/ now <= data.validUntil

NextOp(next) ==
    IF pos < Len(bundle)
    THEN pos' = pos + 1 /\ UNCHANGED <<phase, bundle>>
    ELSE pos' = 1 /\ phase' = next /\ bundle' = (IF next = "idle" THEN <<>> ELSE bundle)

\* EntryPoint -> account -> gate: the account is the gate's caller.
ValidateOp ==
    LET op == bundle[pos]
    IN  /\ phase = "validation"
        /\ ValidateUserOp(op.sender, op)
        /\ InTimeRange(ValidationData(op))
        /\ leaves' = Append(leaves, LeafOf(op))
        /\ NextOp("execution")
        /\ checkpoint' = IF pos < Len(bundle)
                         THEN checkpoint
                         ELSE [used |-> usedPermissionHashes', uses |-> uses']
        /\ UNCHANGED attempts

\* The gate reverts, reports a bad signature, or returns a window that is not
\* now: nothing of the bundle remains.
FailBundle ==
    LET op == bundle[pos]
    IN  /\ phase = "validation"
        /\ ~(Acceptable(op) /\ InTimeRange(ValidationData(op)))
        /\ usedPermissionHashes' = checkpoint.used
        /\ uses' = checkpoint.uses
        /\ phase' = "idle" /\ bundle' = <<>> /\ pos' = 1 /\ leaves' = <<>>
        /\ receipt' = NoReceipt
        /\ UNCHANGED <<policyRoots, nonces, policyAdmin, owner, now, revoked,
                       checkpoint, attempts>>

\* What the account makes of the callData: whom it calls, with what.
CalledAddress(op) ==
    IF ExecKind(op.callData) = "Direct" THEN op.sender ELSE op.callData.target

DeliveredCall(op) ==
    IF ExecKind(op.callData) = "Direct"
    THEN [selector |-> op.callData.selector, args |-> op.callData.args]
    ELSE op.callData.inner

\* What the called code does to the gate and to the account, as the account.
Effect(op) ==
    LET to == CalledAddress(op)
        selector == DeliveredCall(op).selector
    IN  CASE to = GateAddress /\ selector = SetPolicyRootSelector ->
               \E root \in Root : SetPolicyRoot(op.sender, op.sender, root)
          [] to = GateAddress /\ selector = SetPolicyAdminSelector ->
               \E admin \in AdminChoice : SetPolicyAdmin(op.sender, op.sender, admin)
          [] to = op.sender /\ selector = RotateOwnerSelector ->
               \E newOwner \in OwnerChoice : RotateOwner(op.sender, newOwner)
          [] OTHER -> UNCHANGED vars

ExecuteOp ==
    LET op   == bundle[pos]
        leaf == leaves[pos]
    IN  /\ phase = "execution"
        /\ Effect(op) \/ UNCHANGED vars   \* the execution may fail
        /\ attempts' = IF op.perm.singleUse /\ attempts[leaf] < 2
                       THEN [attempts EXCEPT ![leaf] = @ + 1]
                       ELSE attempts
        /\ NextOp("idle")
        /\ leaves' = IF pos < Len(bundle) THEN leaves ELSE <<>>
        /\ UNCHANGED checkpoint

\* The policy is administered between bundles by the account and its admin,
\* and by an admin contract that an execution calls.
Administer ==
    /\ phase \in {"idle", "execution"}
    /\ \E account \in Account, caller \in Address :
         /\ caller # account \/ phase = "idle"
         /\ \/ \E root \in Root : SetPolicyRoot(caller, account, root)
            \/ \E perm \in Permission : SetPolicyRootWithPermission(caller, account, perm)
            \/ \E admin \in AdminChoice : SetPolicyAdmin(caller, account, admin)
    /\ UNCHANGED <<bundleVars, attempts>>

Environment ==
    /\ phase = "idle"
    /\ \/ Tick
       \/ \E account \in Account, newOwner \in OwnerChoice : RotateOwner(account, newOwner)
    /\ UNCHANGED <<bundleVars, attempts>>

NextEntryPoint ==
    \/ \E ops \in Bundles : HandleOps(ops)
    \/ ValidateOp
    \/ FailBundle
    \/ ExecuteOp
    \/ Administer
    \/ Environment

SpecEntryPoint == InitEntryPoint /\ [][NextEntryPoint]_allVars

---------------------------------------------------------------------------
TypeOKEntryPoint ==
    /\ TypeOK
    /\ phase \in {"idle", "validation", "execution"}
    /\ bundle \in Bundles \cup {<<>>}
    /\ (phase = "idle") = (bundle = <<>>)
    /\ pos \in 1 .. MaxBundle
    /\ leaves \in Seq(Leaf) /\ Len(leaves) <= Len(bundle)
    /\ attempts \in [Leaf -> 0 .. 2]

\* README: "one successful validation attempt, not one successful downstream
\* execution".  Between bundles the registry holds exactly the single-use leaves
\* whose execution was tried, once each: a bundle that failed in validation
\* spent nothing and an execution that failed is not repeated.
SpentMeansOneAttempt ==
    phase = "idle" =>
        \A leaf \in Leaf :
            attempts[leaf] = IF leaf \in usedPermissionHashes[leaf.account] THEN 1 ELSE 0

Executes == phase = "execution" /\ <<phase', pos'>> # <<phase, pos>>

\* The gate returns the window and the EntryPoint enforces it: what is executed
\* is executed inside the window and on the chain of its permission, although
\* the gate accepts operations outside the window and then skips the chain.
ExecutedInWindow ==
    [][Executes =>
        LET perm == bundle[pos].perm
        IN  /\ perm.validAfter <= now
            /\ perm.validUntil = 0 \/ now <= perm.validUntil
            /\ perm.chainId \in {0, ChainId}]_allVars

\* What the account really calls is what the permission describes: the call the
\* gate looked at is the call that is made.  A plain transfer of ETH delivers no
\* call, and its permission speaks of the wrapper instead.
ExecutedCallIsPermitted ==
    [][Executes =>
        LET op == bundle[pos]
            to == CalledAddress(op)
        IN  /\ to = op.perm.target \/ (to = op.sender /\ op.perm.target = ZeroAddress)
            /\ CallValue(op.callData) <= op.perm.maxValue
            /\ IF DeliveredCall(op) = NoInner
               THEN op.perm.selector = op.callData.selector
               ELSE ValidateCallData(DeliveredCall(op), op.perm)]_allVars

\* An executed operation changes a policy, its epoch or its admin, of any account,
\* only under a permission for the gate, and an owner only under one for the
\* account itself, named or left open as the zero target.
SignerCannotEscalate ==
    [][Executes =>
        LET perm == bundle[pos].perm
        IN  /\ <<policyRoots', nonces', policyAdmin'>> # <<policyRoots, nonces, policyAdmin>>
                 => perm.target = GateAddress
            /\ owner' # owner => perm.target \in {ZeroAddress, bundle[pos].sender}]_allVars
=============================================================================
