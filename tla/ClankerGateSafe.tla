-------------------------- MODULE ClankerGateSafe --------------------------
(***************************************************************************)
(* The Safe module (src/ClankerGateSafe.sol).  A Safe configures its policy   *)
(* root, its callers and the targets it may delegatecall; an authorized       *)
(* caller has a transaction checked and executed in one go.  Between the       *)
(* check and the end of the execution foreign code runs, which may come back   *)
(* to the module, and when the execution fails everything since the check is   *)
(* undone.  The stack holds the executions under way.  A call that reverts     *)
(* leaves no trace and is a stutter.                                           *)
(***************************************************************************)
EXTENDS ClankerGateCore

CONSTANTS
    Safe,           \* the Safes that enabled the module
    Tx,             \* the transactions anybody may ask for
    Root,           \* the roots a Safe may set
    Target,         \* the addresses a Safe may delegatecall
    GateAddress,    \* the address of the module itself
    MaxNonce,       \* bound on the policy epochs of a Safe
    MaxTime         \* bound on block.timestamp

Nonce == 0 .. MaxNonce

Leaf == [account : Safe, perm : Permission, nonce : Nonce]

ASSUME SafeAssumption ==
    /\ \A tx \in Tx : tx.safe \in Safe /\ tx.perm \in Permission /\ tx.to \in Target
    /\ Root \subseteq SUBSET Leaf
    /\ MaxNonce \in Nat
    /\ MaxTime \in Nat

VARIABLES
    authorizations,                 \* safe -> its CallerAuth
    isAuthorizedCaller,             \* safe -> the authorized callers
    delegatecallWhitelistVersion,   \* safe -> target -> version
    usedPermissionHashes,           \* safe -> the single-use leaves spent
    now,                            \* block.timestamp
    stack,                          \* the executions under way
    cause,      \* history: who made the last step
    executed,   \* history: successful executions per single-use leaf, up to 2
    allowed,    \* history: safe -> targets allowed since its last root change
    revoked     \* history: the leaves that were live when a root change hit them

storage == <<authorizations, isAuthorizedCaller, delegatecallWhitelistVersion,
             usedPermissionHashes>>
history == <<executed, allowed, revoked>>
vars    == <<authorizations, isAuthorizedCaller, delegatecallWhitelistVersion,
             usedPermissionHashes, now, stack, cause, executed, allowed, revoked>>

LeafOf(tx) ==
    HashPermissionWithAccount(tx.safe, tx.perm, authorizations[tx.safe].nonce)

LiveLeaves(safe) ==
    {leaf \in authorizations[safe].policyRoot :
        leaf.account = safe /\ leaf.nonce = authorizations[safe].nonce}

---------------------------------------------------------------------------
Init ==
    /\ authorizations = [s \in Safe |-> [policyRoot |-> NoRoot, nonce |-> 0,
                                         whitelistVersion |-> 0, enabled |-> FALSE]]
    /\ isAuthorizedCaller = [s \in Safe |-> {}]
    /\ delegatecallWhitelistVersion = [s \in Safe |-> [t \in Target |-> 0]]
    /\ usedPermissionHashes = [s \in Safe |-> {}]
    /\ now \in 0 .. MaxTime
    /\ stack = <<>>
    /\ cause = "none"
    /\ executed = [l \in Leaf |-> 0]
    /\ allowed = [s \in Safe |-> {}]
    /\ revoked = {}

\* The four configuration functions, called by the Safe itself.

\* Mutated form: the epoch is cleared with the zero root.
WithRootResets(auth, root) ==
    [policyRoot |-> root, nonce |-> IF root = NoRoot THEN 0 ELSE auth.nonce + 1,
     whitelistVersion |-> auth.whitelistVersion + 1, enabled |-> TRUE]

\* Mutated form: the delegatecall whitelist survives the root (CG-20b undone).
WithRootKeepsWhitelist(auth, root) ==
    [auth EXCEPT !.policyRoot = root, !.nonce = @ + 1, !.enabled = TRUE,
                 !.whitelistVersion = IF @ = 0 THEN 1 ELSE @]

WithRoot(auth, root) ==
    [policyRoot |-> root, nonce |-> auth.nonce + 1,
     whitelistVersion |-> auth.whitelistVersion + 1, enabled |-> TRUE]

SetPolicyRoot(safe, root) ==
    /\ authorizations[safe].nonce < MaxNonce
    /\ authorizations' = [authorizations EXCEPT ![safe] = WithRoot(@, root)]
    /\ allowed' = [allowed EXCEPT ![safe] = {}]
    /\ revoked' = revoked \cup LiveLeaves(safe)
    /\ UNCHANGED <<isAuthorizedCaller, delegatecallWhitelistVersion, usedPermissionHashes>>

AuthorizeCaller(safe, caller) ==
    /\ isAuthorizedCaller' = [isAuthorizedCaller EXCEPT ![safe] = @ \cup {caller}]
    /\ UNCHANGED <<authorizations, delegatecallWhitelistVersion, usedPermissionHashes,
                   allowed, revoked>>

DeauthorizeCaller(safe, caller) ==
    /\ isAuthorizedCaller' = [isAuthorizedCaller EXCEPT ![safe] = @ \ {caller}]
    /\ UNCHANGED <<authorizations, delegatecallWhitelistVersion, usedPermissionHashes,
                   allowed, revoked>>

\* The stored version is the current one, so an entry dies with the next root.
AllowDelegatecall(safe, target) ==
    /\ delegatecallWhitelistVersion' = [delegatecallWhitelistVersion EXCEPT
         ![safe][target] = authorizations[safe].whitelistVersion]
    /\ allowed' = [allowed EXCEPT ![safe] = @ \cup {target}]
    /\ UNCHANGED <<authorizations, isAuthorizedCaller, usedPermissionHashes, revoked>>

DisallowDelegatecall(safe, target) ==
    /\ delegatecallWhitelistVersion' =
         [delegatecallWhitelistVersion EXCEPT ![safe][target] = 0]
    /\ allowed' = [allowed EXCEPT ![safe] = @ \ {target}]
    /\ UNCHANGED <<authorizations, isAuthorizedCaller, usedPermissionHashes, revoked>>

ConfigSelector ==
    {"setPolicyRoot", "authorizeCaller", "deauthorizeCaller", "setDelegatecallWhitelist"}

\* The Safe calls one of these functions of the module, whatever the arguments.
Configure(safe, selectors) ==
    \/ /\ "setPolicyRoot" \in selectors
       /\ \E root \in Root : SetPolicyRoot(safe, root)
    \/ /\ "authorizeCaller" \in selectors
       /\ \E caller \in Address : AuthorizeCaller(safe, caller)
    \/ /\ "deauthorizeCaller" \in selectors
       /\ \E caller \in Address : DeauthorizeCaller(safe, caller)
    \/ /\ "setDelegatecallWhitelist" \in selectors
       /\ \E target \in Target :
            AllowDelegatecall(safe, target) \/ DisallowDelegatecall(safe, target)

\* Mutated form: the target is not compared.
TargetMatchesAny(tx) == TRUE

TargetMatches(tx) == tx.to = tx.perm.target

\* The checks of _validateAndExecute: operation 0 is CALL, 1 is DELEGATECALL.
Validates(caller, tx) ==
    LET auth == authorizations[tx.safe]
    IN  /\ auth.policyRoot # NoRoot
        /\ auth.enabled
        /\ VerifyMerkleProof(auth.policyRoot, tx.perm, tx.safe, auth.nonce)
        /\ tx.value <= tx.perm.maxValue
        /\ ValidatePermission(tx.perm, now) = VALID
        /\ tx.perm.authorizedCaller \in {ZeroAddress, caller}
        /\ TargetMatches(tx)
        /\ tx.operation \in {0, 1}
        /\ tx.operation = 1 =>
             delegatecallWhitelistVersion[tx.safe][tx.to] = auth.whitelistVersion
        /\ ValidateCallData(tx.call, tx.perm)

\* Mutated form: no reentrancy guard.
Reentrant == TRUE

\* ReentrancyGuardTransient: one lock for all the Safes.
NonReentrant == stack = <<>>

\* Mutated form: a spent permission is marked again instead of refused.
MarkUsedTwice(tx) ==
    usedPermissionHashes' =
        [usedPermissionHashes EXCEPT ![tx.safe] = @ \cup {LeafOf(tx)}]

MarkUsed(tx) ==
    /\ LeafOf(tx) \notin usedPermissionHashes[tx.safe]
    /\ usedPermissionHashes' =
         [usedPermissionHashes EXCEPT ![tx.safe] = @ \cup {LeafOf(tx)}]

Snapshot ==
    [authorizations |-> authorizations, callers |-> isAuthorizedCaller,
     versions |-> delegatecallWhitelistVersion, used |-> usedPermissionHashes,
     executed |-> executed, allowed |-> allowed, revoked |-> revoked]

\* execTransaction and its alias execTransactionWithProof, up to the call of
\* execTransactionFromModule.
ExecTransaction(caller, tx) ==
    /\ NonReentrant
    /\ caller \in isAuthorizedCaller[tx.safe]
    /\ Validates(caller, tx)
    /\ IF tx.perm.singleUse THEN MarkUsed(tx) ELSE UNCHANGED usedPermissionHashes
    /\ stack' = Append(stack, [tx |-> tx, leaf |-> LeafOf(tx), before |-> Snapshot])
    /\ cause' = "caller"
    /\ UNCHANGED <<authorizations, isAuthorizedCaller, delegatecallWhitelistVersion,
                   now, history>>

Running == stack # <<>>
Top     == stack[Len(stack)]
Pop     == SubSeq(stack, 1, Len(stack) - 1)

CountExecuted ==
    executed' = IF Top.tx.perm.singleUse /\ executed[Top.leaf] < 2
                THEN [executed EXCEPT ![Top.leaf] = @ + 1]
                ELSE executed

\* The execution is the Safe's call of a configuration function of the module.
CallsModule(tx) ==
    tx.operation = 0 /\ tx.to = GateAddress /\ tx.call.selector \in ConfigSelector

\* execTransactionFromModule returns true.
ExecutionSucceeds ==
    /\ Running
    /\ ~CallsModule(Top.tx)
    /\ stack' = Pop
    /\ CountExecuted
    /\ cause' = "execution"
    /\ UNCHANGED <<storage, now, allowed, revoked>>

\* The same, where the call that is made configures the module.
ExecutionConfigures ==
    /\ Running
    /\ CallsModule(Top.tx)
    /\ Configure(Top.tx.safe, {Top.tx.call.selector})
    /\ stack' = Pop
    /\ CountExecuted
    /\ cause' = "configuration"
    /\ UNCHANGED now

\* Delegatecalled code acts as the Safe and may do so as often as it likes.
DelegatecallConfigures ==
    /\ Running
    /\ Top.tx.operation = 1
    /\ Configure(Top.tx.safe, ConfigSelector)
    /\ cause' = "configuration"
    /\ UNCHANGED <<now, stack, executed>>

\* It returns false or reverts: ExecutionReverted undoes all since the check.
ExecutionFails ==
    /\ Running
    /\ stack' = Pop
    /\ authorizations' = Top.before.authorizations
    /\ isAuthorizedCaller' = Top.before.callers
    /\ delegatecallWhitelistVersion' = Top.before.versions
    /\ usedPermissionHashes' = Top.before.used
    /\ executed' = Top.before.executed
    /\ allowed' = Top.before.allowed
    /\ revoked' = Top.before.revoked
    /\ cause' = "execution"
    /\ UNCHANGED now

\* The owners have their Safe configure the module, at any time.
OwnersConfigure(safe) ==
    /\ Configure(safe, ConfigSelector)
    /\ cause' = "owners"
    /\ UNCHANGED <<now, stack, executed>>

Tick ==
    /\ ~Running
    /\ now < MaxTime
    /\ now' = now + 1
    /\ cause' = "none"
    /\ UNCHANGED <<storage, stack, history>>

Next ==
    \/ \E caller \in Address, tx \in Tx : ExecTransaction(caller, tx)
    \/ ExecutionSucceeds
    \/ ExecutionFails
    \/ ExecutionConfigures
    \/ DelegatecallConfigures
    \/ \E safe \in Safe : OwnersConfigure(safe)
    \/ Tick

Spec == Init /\ [][Next]_vars

---------------------------------------------------------------------------
CallerAuth == [policyRoot : SUBSET Leaf, nonce : Nonce, whitelistVersion : Nonce,
               enabled : BOOLEAN]

\* What the EVM restores when an execution fails, with its history.
State == [authorizations : [Safe -> CallerAuth], callers : [Safe -> SUBSET Address],
          versions : [Safe -> [Target -> Nonce]], used : [Safe -> SUBSET Leaf],
          executed : [Leaf -> 0 .. 2], allowed : [Safe -> SUBSET Target],
          revoked : SUBSET Leaf]

Frame == [tx : Tx, leaf : Leaf, before : State]

\* At most one execution is under way, for whichever Safe.
TypeOK ==
    /\ Snapshot \in State
    /\ now \in 0 .. MaxTime
    /\ stack \in Seq(Frame)
    /\ Len(stack) <= 1

\* Epoch and whitelist version move together, a whitelist entry of the version in
\* force is a target that is allowed, and what was revoked is of a past epoch.
Consistent(state) ==
    /\ \A s \in Safe :
         LET auth == state.authorizations[s]
         IN  /\ auth.whitelistVersion = auth.nonce
             /\ auth.enabled => auth.nonce > 0
             /\ \A t \in Target :
                  /\ state.versions[s][t] <= auth.nonce
                  /\ state.versions[s][t] = auth.nonce /\ auth.nonce > 0
                       => t \in state.allowed[s]
    /\ \A leaf \in state.revoked : leaf.nonce < state.authorizations[leaf.account].nonce

\* The registry holds what was executed, once each.
Settled(state) ==
    \A leaf \in Leaf :
        state.executed[leaf] = IF leaf \in state.used[leaf.account] THEN 1 ELSE 0

\* The permissions of all Safes that a proof can be given for under these policies.
LiveIn(policies) ==
    UNION {{leaf \in policies[s].policyRoot :
              leaf.account = s /\ leaf.nonce = policies[s].nonce} : s \in Safe}

\* What holds of the execution under way: it started from a settled state, in
\* which its permission lived, and has since marked that permission and nothing
\* else; permissions have gone since only by being revoked.
FrameInv(frame) ==
    LET before == frame.before
        safe   == frame.tx.safe
        once   == frame.tx.perm.singleUse
    IN  /\ Consistent(before) /\ Settled(before)
        /\ executed = before.executed
        /\ once => frame.leaf \notin before.used[safe]
        /\ usedPermissionHashes =
             IF once THEN [before.used EXCEPT ![safe] = @ \cup {frame.leaf}] ELSE before.used
        /\ frame.leaf.account = safe
        /\ frame.leaf \in LiveIn(before.authorizations)
        /\ frame.tx.perm.target = frame.tx.to
        /\ frame.tx.perm.selector = frame.tx.call.selector
        /\ frame.tx.operation = 1 => frame.tx.to \in before.allowed[safe]
        /\ before.revoked \subseteq revoked
        /\ LiveIn(before.authorizations) \subseteq LiveIn(authorizations) \cup revoked

\* The whole bookkeeping of the module, with an execution under way or without:
\* a failed execution can be undone to a state as good as any other.
BookkeepingInv ==
    /\ TypeOK
    /\ Consistent(Snapshot)
    /\ IF Running THEN FrameInv(Top) ELSE Settled(Snapshot)

\* README: use the Safe module "when validation and execution must be atomic".
\* Whenever no execution is under way, the registry holds exactly the single-use
\* permissions that were executed successfully, once each.
SpentMeansExecuted ==
    ~Running =>
        \A leaf \in Leaf :
            executed[leaf] = IF leaf \in usedPermissionHashes[leaf.account] THEN 1 ELSE 0

Starts == Len(stack') > Len(stack)

\* No execution starts under a permission that a root change hit while it was
\* live, and each starts under the current tree and epoch.
RevokedNeverStarts ==
    [][Starts => LET frame == stack'[Len(stack')]
                 IN  frame.leaf \in LiveLeaves(frame.tx.safe) \ revoked]_vars

\* What a reverting transaction falls back to: while an execution is under way
\* nothing is final.
Committed == IF Running THEN stack[1].before ELSE Snapshot

\* The module keeps the ledger's promise atomically: in one step from one final
\* state to the next, whatever the executed code reconfigures on the way, a
\* permission is used that lived before it, and a failed execution is no step.
Ledger == INSTANCE PermissionLedger WITH
    Amendable <- FALSE,
    live <- LiveIn(Committed.authorizations),
    dead <- Committed.revoked,
    used <- Committed.executed
ImplementsLedger == Ledger!Spec

\* CG-20b: a delegatecall starts only to a target that the Safe allowed after its
\* last root change and has not disallowed since.
DelegatecallIsFresh ==
    [][Starts => LET tx == stack'[Len(stack')].tx
                 IN  tx.operation = 1 => tx.to \in allowed[tx.safe]]_vars

\* What runs on behalf of a caller changes the configuration of a Safe only if
\* the permission it runs under is for a configuration function of the module,
\* or if it is delegatecalled to a target the Safe had allowed.
CallersCannotEscalate ==
    [][\A s \in Safe :
        (/\ cause' = "configuration"
         /\ \/ authorizations'[s] # authorizations[s]
            \/ isAuthorizedCaller'[s] # isAuthorizedCaller[s]
            \/ delegatecallWhitelistVersion'[s] # delegatecallWhitelistVersion[s])
        => /\ Top.tx.safe = s
           /\ \/ /\ Top.tx.operation = 1
                 /\ Top.tx.perm.target \in Top.before.allowed[s]
              \/ /\ Top.tx.perm.target = GateAddress
                 /\ Top.tx.perm.selector \in ConfigSelector]_vars
=============================================================================
