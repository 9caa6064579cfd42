----------------------- MODULE ClankerGate4337_proofs -----------------------
(***************************************************************************)
(* Theorems about ClankerGate4337: alone, with the SDK's clients at work       *)
(* (PolicyDeployment) and under the EntryPoint (EntryPoint4337), for every      *)
(* value of the constants.                                                   *)
(***************************************************************************)
EXTENDS EntryPoint4337, PolicyDeployment, FiniteSetTheorems, SequenceTheorems, TLAPS

(***************************************************************************)
(* The leaf that an account's next transaction is checked against is a leaf. *)
(***************************************************************************)
LEMMA LeafOfType ==
    ASSUME TypeOK, NEW op \in UserOp
    PROVE  /\ op.sender \in Account
           /\ op.perm \in Permission
           /\ LeafOf(op) \in Leaf
           /\ LeafOf(op).account = op.sender
           /\ LeafOf(op).nonce = nonces[op.sender]
BY GateAssumption DEF TypeOK, LeafOf, HashPermissionWithAccount, Leaf

(***************************************************************************)
(* Every step of the gate keeps the types.                                    *)
(***************************************************************************)
LEMMA TypeStep ==
    ASSUME TypeOK, [Next]_vars
    PROVE  TypeOK'
<1> USE GateAssumption
<1>1. ASSUME NEW caller \in Address, NEW account \in Account, NEW root \in Root,
             SetPolicyRoot(caller, account, root)
      PROVE  TypeOK'
  <2>1. LiveLeaves(account) \in SUBSET Leaf
    BY DEF LiveLeaves, TypeOK
  <2>2. policyRoots' \in [Account -> SUBSET Leaf] /\ nonces' \in [Account -> Nonce]
    BY <1>1 DEF SetPolicyRoot, NewEpoch, TypeOK, Nonce
  <2> QED BY <1>1, <2>1, <2>2 DEF SetPolicyRoot, TypeOK, Receipt
<1>2. ASSUME NEW caller \in Address, NEW account \in Account, NEW perm \in Permission,
             SetPolicyRootWithPermission(caller, account, perm)
      PROVE  TypeOK'
  <2>1. LiveLeaves(account) \in SUBSET Leaf
    BY DEF LiveLeaves, TypeOK
  <2>2. nonces[account] + 1 \in Nonce
    BY <1>2 DEF SetPolicyRootWithPermission, NewEpoch, TypeOK, Nonce
  <2>3. HashPermissionWithAccount(account, perm, nonces[account] + 1) \in Leaf
    BY <2>2 DEF HashPermissionWithAccount, Leaf
  <2>4. policyRoots' \in [Account -> SUBSET Leaf] /\ nonces' \in [Account -> Nonce]
    BY <1>2, <2>2, <2>3 DEF SetPolicyRootWithPermission, NewEpoch, TypeOK
  <2> QED BY <1>2, <2>1, <2>4 DEF SetPolicyRootWithPermission, TypeOK, Receipt
<1>3. ASSUME NEW caller \in Address, NEW account \in Account, NEW admin \in AdminChoice,
             SetPolicyAdmin(caller, account, admin)
      PROVE  TypeOK'
  BY <1>3 DEF SetPolicyAdmin, TypeOK, Receipt
<1>4. ASSUME NEW caller \in Address, NEW op \in UserOp, ValidateUserOpSigFailed(caller, op)
      PROVE  TypeOK'
  BY <1>4 DEF ValidateUserOpSigFailed, gateVars, TypeOK, Receipt
<1>5. ASSUME NEW caller \in Address, NEW op \in UserOp, ValidateUserOp(caller, op)
      PROVE  TypeOK'
  <2>1. LeafOf(op) \in Leaf /\ op.sender \in Account
    BY LeafOfType
  <2>2. Count(LeafOf(op)) \in [Leaf -> 0 .. 2]
    BY <2>1 DEF Count, TypeOK
  <2>3. usedPermissionHashes' \in [Account -> SUBSET Leaf] /\ uses' \in [Leaf -> 0 .. 2]
    BY <1>5, <2>1, <2>2 DEF ValidateUserOp, MarkUsed, TypeOK
  <2> QED BY <1>5, <2>3 DEF ValidateUserOp, TypeOK, Receipt
<1>6. ASSUME NEW account \in Account, NEW newOwner \in OwnerChoice,
             RotateOwner(account, newOwner)
      PROVE  TypeOK'
  BY <1>6 DEF RotateOwner, gateVars, TypeOK, NoReceipt, Receipt
<1>7. CASE Tick
  BY <1>7 DEF Tick, gateVars, TypeOK, NoReceipt, Receipt
<1>8. CASE UNCHANGED vars
  BY <1>8 DEF vars, TypeOK
<1> QED BY <1>1, <1>2, <1>3, <1>4, <1>5, <1>6, <1>7, <1>8 DEF Next

(***************************************************************************)
(* Type correctness: roots are sets of leaves, epochs stay within the bound. *)
(***************************************************************************)
THEOREM TypeCorrect == Spec => []TypeOK
<1>1. Init => TypeOK
  BY GateAssumption DEF Init, TypeOK, NoReceipt, Receipt, NoRoot, Nonce
<1>2. TypeOK /\ [Next]_vars => TypeOK'
  BY TypeStep
<1> QED BY <1>1, <1>2, PTL DEF Spec

---------------------------------------------------------------------------
(***************************************************************************)
(* Opening a new epoch moves it past every leaf that was live.               *)
(***************************************************************************)
LEMMA NewEpochRevokes ==
    ASSUME TypeOK, RevokedEpochsPassed, NEW account \in Account, NEW root,
           NewEpoch(account, root), revoked' = revoked \cup LiveLeaves(account)
    PROVE  RevokedEpochsPassed'
<1>1. ASSUME NEW leaf \in revoked' PROVE leaf.nonce < nonces'[leaf.account]
  <2>1. leaf \in Leaf
    BY DEF TypeOK, LiveLeaves
  <2>2. nonces[leaf.account] \in Nat /\ leaf.nonce \in Nat /\ leaf.account \in Account
    BY <2>1, GateAssumption DEF TypeOK, Leaf, Nonce
  <2>3. nonces'[leaf.account] = IF leaf.account = account THEN nonces[account] + 1
                                ELSE nonces[leaf.account]
    BY <2>2 DEF NewEpoch, TypeOK
  <2>4. CASE leaf \in revoked
    BY <2>2, <2>3, <2>4 DEF RevokedEpochsPassed
  <2>5. CASE leaf \in LiveLeaves(account)
    BY <2>2, <2>3, <2>5 DEF LiveLeaves
  <2> QED BY <2>4, <2>5
<1> QED BY <1>1 DEF RevokedEpochsPassed

(***************************************************************************)
(* The registry and the history of accepted validations agree, and every     *)
(* revoked leaf is of a past epoch.  Both are inductive once types are known. *)
(***************************************************************************)
THEOREM LedgerHolds == Spec => []LedgerInv
<1>1. Init => UsesMatchSpent /\ RevokedEpochsPassed
  BY DEF Init, UsesMatchSpent, RevokedEpochsPassed, Leaf
<1>2. TypeOK /\ UsesMatchSpent /\ RevokedEpochsPassed /\ [Next]_vars
        => UsesMatchSpent' /\ RevokedEpochsPassed'
  <2> SUFFICES ASSUME TypeOK, UsesMatchSpent, RevokedEpochsPassed, [Next]_vars
               PROVE  UsesMatchSpent' /\ RevokedEpochsPassed'
    OBVIOUS
  <2>1. ASSUME NEW caller \in Address, NEW account \in Account, NEW root \in Root,
               SetPolicyRoot(caller, account, root)
        PROVE  UsesMatchSpent' /\ RevokedEpochsPassed'
    BY <2>1, NewEpochRevokes DEF SetPolicyRoot, UsesMatchSpent
  <2>2. ASSUME NEW caller \in Address, NEW account \in Account, NEW perm \in Permission,
               SetPolicyRootWithPermission(caller, account, perm)
        PROVE  UsesMatchSpent' /\ RevokedEpochsPassed'
    BY <2>2, NewEpochRevokes DEF SetPolicyRootWithPermission, UsesMatchSpent
  <2>3. ASSUME NEW caller \in Address, NEW account \in Account, NEW admin \in AdminChoice,
               SetPolicyAdmin(caller, account, admin)
        PROVE  UsesMatchSpent' /\ RevokedEpochsPassed'
    BY <2>3 DEF SetPolicyAdmin, UsesMatchSpent, RevokedEpochsPassed
  <2>4. ASSUME NEW caller \in Address, NEW op \in UserOp, ValidateUserOpSigFailed(caller, op)
        PROVE  UsesMatchSpent' /\ RevokedEpochsPassed'
    BY <2>4 DEF ValidateUserOpSigFailed, gateVars, UsesMatchSpent, RevokedEpochsPassed
  <2>5. ASSUME NEW caller \in Address, NEW op \in UserOp, ValidateUserOp(caller, op)
        PROVE  UsesMatchSpent' /\ RevokedEpochsPassed'
    <3>1. RevokedEpochsPassed'
      BY <2>5 DEF ValidateUserOp, RevokedEpochsPassed
    <3>2. CASE ~op.perm.singleUse
      BY <2>5, <3>1, <3>2 DEF ValidateUserOp, UsesMatchSpent
    <3>3. CASE op.perm.singleUse
      <4> DEFINE spent == LeafOf(op)
      <4>1. spent \in Leaf /\ spent.account = op.sender /\ op.sender \in Account
        BY LeafOfType
      <4>2. /\ spent \notin usedPermissionHashes[op.sender]
            /\ usedPermissionHashes' =
                 [usedPermissionHashes EXCEPT ![op.sender] = @ \cup {spent}]
            /\ uses' = Count(spent)
        BY <2>5, <3>3 DEF ValidateUserOp, MarkUsed
      <4>3. uses[spent] = 0
        BY <4>1, <4>2 DEF UsesMatchSpent
      <4>4. uses' = [uses EXCEPT ![spent] = 1]
        BY <4>1, <4>2, <4>3 DEF Count, TypeOK
      <4>5. ASSUME NEW leaf \in Leaf
            PROVE  uses'[leaf] = IF leaf \in usedPermissionHashes'[leaf.account] THEN 1 ELSE 0
        <5>1. leaf.account \in Account
          BY DEF Leaf
        <5>2. CASE leaf = spent
          BY <4>1, <4>2, <4>4, <5>2 DEF TypeOK
        <5>3. CASE leaf # spent
          BY <4>1, <4>2, <4>4, <5>1, <5>3 DEF TypeOK, UsesMatchSpent
        <5> QED BY <5>2, <5>3
      <4> QED BY <3>1, <4>5 DEF UsesMatchSpent
    <3> QED BY <3>2, <3>3
  <2>6. ASSUME NEW account \in Account, NEW newOwner \in OwnerChoice,
               RotateOwner(account, newOwner)
        PROVE  UsesMatchSpent' /\ RevokedEpochsPassed'
    BY <2>6 DEF RotateOwner, gateVars, UsesMatchSpent, RevokedEpochsPassed
  <2>7. CASE Tick
    BY <2>7 DEF Tick, gateVars, UsesMatchSpent, RevokedEpochsPassed
  <2>8. CASE UNCHANGED vars
    BY <2>8 DEF vars, UsesMatchSpent, RevokedEpochsPassed
  <2> QED BY <2>1, <2>2, <2>3, <2>4, <2>5, <2>6, <2>7, <2>8 DEF Next
<1> QED BY <1>1, <1>2, TypeCorrect, PTL DEF Spec, LedgerInv

(***************************************************************************)
(* A single-use permission is accepted at most once in an epoch.             *)
(***************************************************************************)
THEOREM SingleUseHolds == Spec => []SingleUseOnce
<1>1. LedgerInv => SingleUseOnce
  BY DEF LedgerInv, UsesMatchSpent, SingleUseOnce
<1> QED BY <1>1, LedgerHolds, PTL

(***************************************************************************)
(* A revoked permission is never accepted again: the only step that accepts  *)
(* verifies a leaf of the current epoch, and revoked leaves are of past ones. *)
(***************************************************************************)
THEOREM RevocationHolds == Spec => RevokedStaysRevoked
<1>1. LedgerInv /\ [Next]_vars
        => [receipt'.kind = "accepted"
              => \A op \in receipt'.ops : LeafOf(op) \in LiveLeaves(op.sender) \ revoked]_vars
  <2> SUFFICES ASSUME LedgerInv, [Next]_vars, vars' # vars, receipt'.kind = "accepted",
                      NEW op \in receipt'.ops
               PROVE  LeafOf(op) \in LiveLeaves(op.sender) \ revoked
    OBVIOUS
  <2>1. PICK caller \in Address, sent \in UserOp : ValidateUserOp(caller, sent)
    <3>1. ASSUME NEW caller \in Address, NEW account \in Account,
                 \/ \E root \in Root : SetPolicyRoot(caller, account, root)
                 \/ \E perm \in Permission : SetPolicyRootWithPermission(caller, account, perm)
                 \/ \E admin \in AdminChoice : SetPolicyAdmin(caller, account, admin)
          PROVE  FALSE
      <4>1. receipt' = Receipt(caller, "policy", {})
        BY <3>1 DEF SetPolicyRoot, SetPolicyRootWithPermission, SetPolicyAdmin
      <4> QED BY <4>1 DEF Receipt
    <3>2. ASSUME NEW caller \in Address, NEW other \in UserOp,
                 ValidateUserOpSigFailed(caller, other)
          PROVE  FALSE
      BY <3>2 DEF ValidateUserOpSigFailed, Receipt
    <3>3. ASSUME Tick \/ \E account \in Account, newOwner \in OwnerChoice :
                            RotateOwner(account, newOwner)
          PROVE  FALSE
      BY <3>3 DEF Tick, RotateOwner, NoReceipt, Receipt
    <3> QED BY <3>1, <3>2, <3>3 DEF Next
  <2>2. op = sent
    BY <2>1 DEF ValidateUserOp, Receipt
  <2>3. LeafOf(op) \in policyRoots[op.sender]
    BY <2>1, <2>2 DEF ValidateUserOp, Validates, PolicyAllows, VerifyMerkleProof, LeafOf
  <2>4. LeafOf(op).account = op.sender /\ LeafOf(op).nonce = nonces[op.sender]
    BY <2>1, <2>2, LeafOfType DEF LedgerInv
  <2>5. nonces[op.sender] \in Nat
    BY <2>1, <2>2, GateAssumption DEF LedgerInv, TypeOK, Nonce
  <2>6. LeafOf(op) \notin revoked
    BY <2>4, <2>5 DEF LedgerInv, RevokedEpochsPassed
  <2> QED BY <2>3, <2>4, <2>6 DEF LiveLeaves
<1> QED BY <1>1, LedgerHolds, PTL DEF Spec, RevokedStaysRevoked

---------------------------------------------------------------------------
(***************************************************************************)
(* What an account's operations are checked against is its own part of the   *)
(* gate, its owner() and the clock.                                          *)
(***************************************************************************)
LEMMA AcceptableLocal ==
    ASSUME NEW op, policyRoots'[op.sender] = policyRoots[op.sender],
           nonces'[op.sender] = nonces[op.sender], owner' = owner, now' = now,
           usedPermissionHashes'[op.sender] = usedPermissionHashes[op.sender]
    PROVE  Acceptable(op)' = Acceptable(op)
<1>1. LeafOf(op)' = LeafOf(op)
  BY DEF LeafOf, HashPermissionWithAccount
<1>2. Validates(op)' = Validates(op)
  BY DEF Validates, PolicyAllows, VerifyMerkleProof, HashPermissionWithAccount
<1> QED BY <1>1, <1>2 DEF Acceptable, SignatureValid

(***************************************************************************)
(* Only an account and its admin change what the gate does for the account.  *)
(***************************************************************************)
THEOREM StrangersHold == Spec => StrangersChangeNothing
<1> DEFINE Untouched(a) ==
      (receipt'.kind # "environment" /\ receipt'.by \notin {a, policyAdmin[a]})
         => /\ policyAdmin'[a] = policyAdmin[a]
            /\ policyRoots'[a] = policyRoots[a]
            /\ \A op \in UserOp : op.sender = a => Acceptable(op)' = Acceptable(op)
<1>1. ASSUME TypeOK, [Next]_vars, NEW a \in Account,
             receipt'.kind # "environment", receipt'.by \notin {a, policyAdmin[a]},
             vars' # vars
      PROVE  /\ policyAdmin'[a] = policyAdmin[a]
             /\ policyRoots'[a] = policyRoots[a]
             /\ \A op \in UserOp : op.sender = a => Acceptable(op)' = Acceptable(op)
  <2> SUFFICES /\ policyAdmin'[a] = policyAdmin[a]
               /\ policyRoots'[a] = policyRoots[a]
               /\ nonces'[a] = nonces[a]
               /\ usedPermissionHashes'[a] = usedPermissionHashes[a]
               /\ owner' = owner
               /\ now' = now
    BY AcceptableLocal
  <2>1. ASSUME NEW caller \in Address, NEW account \in Account, NEW root,
               AssertPolicyAdmin(caller, account), NewEpoch(account, root),
               receipt' = Receipt(caller, "policy", {})
        PROVE  policyRoots'[a] = policyRoots[a] /\ nonces'[a] = nonces[a]
    <3>1. account # a
      BY <1>1, <2>1 DEF AssertPolicyAdmin, Receipt
    <3> QED BY <1>1, <2>1, <3>1 DEF NewEpoch, TypeOK
  <2>2. CASE \E caller \in Address, account \in Account, root \in Root :
               SetPolicyRoot(caller, account, root)
    BY <2>1, <2>2 DEF SetPolicyRoot
  <2>3. CASE \E caller \in Address, account \in Account, perm \in Permission :
               SetPolicyRootWithPermission(caller, account, perm)
    BY <2>1, <2>3 DEF SetPolicyRootWithPermission
  <2>4. CASE \E caller \in Address, account \in Account, admin \in AdminChoice :
               SetPolicyAdmin(caller, account, admin)
    BY <1>1, <2>4 DEF SetPolicyAdmin, Receipt, TypeOK
  <2>5. CASE \E caller \in Address, op \in UserOp : ValidateUserOpSigFailed(caller, op)
    BY <2>5 DEF ValidateUserOpSigFailed, gateVars
  <2>6. ASSUME NEW caller \in Address, NEW op \in UserOp, ValidateUserOp(caller, op)
        PROVE  usedPermissionHashes'[a] = usedPermissionHashes[a]
    <3>1. CASE op.perm.singleUse
      <4>1. op.sender # a
        BY <1>1, <2>6, <3>1 DEF ValidateUserOp, MarkUsed, Receipt
      <4> QED BY <1>1, <2>6, <3>1, <4>1, GateAssumption DEF ValidateUserOp, MarkUsed, TypeOK
    <3>2. CASE ~op.perm.singleUse
      BY <2>6, <3>2 DEF ValidateUserOp
    <3> QED BY <3>1, <3>2
  <2>7. CASE \E caller \in Address, op \in UserOp : ValidateUserOp(caller, op)
    BY <2>6, <2>7 DEF ValidateUserOp
  <2> QED BY <1>1, <2>2, <2>3, <2>4, <2>5, <2>7
          DEF Next, RotateOwner, Tick, NoReceipt, Receipt
<1>2. TypeOK /\ [Next]_vars => [\A a \in Account : Untouched(a)]_vars
  BY <1>1
<1> QED BY <1>2, TypeCorrect, PTL DEF Spec, StrangersChangeNothing

(***************************************************************************)
(* A single-use permission is spent by nothing but an operation signed by    *)
(* the session signer, and one at a time.                                    *)
(***************************************************************************)
THEOREM SpendingHolds == Spec => SpentBySigner
<1>1. ASSUME TypeOK, [Next]_vars, NEW a \in Account,
             usedPermissionHashes'[a] # usedPermissionHashes[a]
      PROVE  \E op \in receipt'.ops :
                 /\ op.sender = a
                 /\ op.signer = owner[a]
                 /\ usedPermissionHashes'[a] = usedPermissionHashes[a] \cup {LeafOf(op)}
  <2>1. PICK caller \in Address, op \in UserOp : ValidateUserOp(caller, op)
    BY <1>1 DEF Next, SetPolicyRoot, SetPolicyRootWithPermission, SetPolicyAdmin,
                ValidateUserOpSigFailed, RotateOwner, Tick, gateVars, vars
  <2>2. op \in receipt'.ops
    BY <2>1 DEF ValidateUserOp, Receipt
  <2>3. /\ op.sender = a
        /\ usedPermissionHashes'[a] = usedPermissionHashes[a] \cup {LeafOf(op)}
    BY <1>1, <2>1, GateAssumption DEF ValidateUserOp, MarkUsed, TypeOK
  <2>4. op.signer = owner[a]
    BY <2>1, <2>3 DEF ValidateUserOp, SignatureValid
  <2> QED BY <2>2, <2>3, <2>4
<1>2. TypeOK /\ [Next]_vars
        => [\A a \in Account :
              usedPermissionHashes'[a] # usedPermissionHashes[a]
                => \E op \in receipt'.ops :
                     /\ op.sender = a
                     /\ op.signer = owner[a]
                     /\ usedPermissionHashes'[a] = usedPermissionHashes[a] \cup {LeafOf(op)}]_vars
  BY <1>1
<1> QED BY <1>2, TypeCorrect, PTL DEF Spec, SpentBySigner
---------------------------------------------------------------------------
(***************************************************************************)
(* What lives, spelt out leaf by leaf, and that nothing revoked lives.        *)
(***************************************************************************)
LEMMA LiveLeaf ==
    TypeOK => \A leaf : leaf \in Live
                <=> /\ leaf \in Leaf
                    /\ leaf \in policyRoots[leaf.account]
                    /\ leaf.nonce = nonces[leaf.account]
BY DEF TypeOK, Live, LiveLeaves, Leaf

LEMMA NothingRevokedLives ==
    LedgerInv => Live \cap revoked = {}
<1> SUFFICES ASSUME LedgerInv, NEW leaf \in Live,
                    leaf \in revoked
             PROVE  FALSE
  OBVIOUS
<1>1. leaf \in Leaf /\ leaf.nonce = nonces[leaf.account]
  BY LiveLeaf DEF LedgerInv
<1>2. leaf.nonce \in Nat
  BY <1>1, GateAssumption DEF Leaf, Nonce
<1> QED BY <1>1, <1>2 DEF LedgerInv, RevokedEpochsPassed

(***************************************************************************)
(* A root change is a change of the ledger: what it takes away is revoked.    *)
(***************************************************************************)
LEMMA NewEpochChanges ==
    ASSUME LedgerInv, (Live \cap revoked = {})', NEW account \in Account, NEW root,
           NewEpoch(account, root), revoked' = revoked \cup LiveLeaves(account), uses' = uses
    PROVE  Ledger!Change
<1>1. ASSUME NEW leaf \in Live,
             leaf \notin Live'
      PROVE  leaf \in revoked'
  <2>1. PICK a \in Account : leaf \in LiveLeaves(a)
    BY <1>1 DEF Live
  <2>2. CASE a = account
    BY <2>1, <2>2
  <2>3. CASE a # account
    <3>1. policyRoots'[a] = policyRoots[a] /\ nonces'[a] = nonces[a]
      BY <2>3 DEF NewEpoch, LedgerInv, TypeOK
    <3>2. LiveLeaves(a)' = LiveLeaves(a)
      BY <3>1 DEF LiveLeaves
    <3> QED BY <1>1, <2>1, <3>2 DEF Live
  <2> QED BY <2>2, <2>3
<1> QED BY <1>1 DEF Ledger!Change, Ledger!Reconfigure

(***************************************************************************)
(* The ERC-4337 gate implements the permission ledger: a root change is a     *)
(* change of the ledger, accepting a single-use permission is its use, and    *)
(* every other step leaves the ledger alone.                                  *)
(***************************************************************************)
THEOREM GateImplementsLedger == Spec => ImplementsLedger
<1>1. Init => Ledger!Init
  BY DEF Init, Ledger!Init, Live, LiveLeaves, NoRoot
<1>2. LedgerInv /\ (Live \cap revoked = {})' /\ [Next]_vars
        => [Ledger!Next]_Ledger!ledger
  <2> SUFFICES ASSUME LedgerInv, (Live \cap revoked = {})', [Next]_vars
               PROVE  Ledger!Next \/ UNCHANGED Ledger!ledger
    OBVIOUS
  <2>1. ASSUME UNCHANGED <<policyRoots, nonces>> PROVE Live' = Live
    BY <2>1 DEF Live, LiveLeaves
  <2>2. CASE \E caller \in Address, account \in Account, root \in Root :
               SetPolicyRoot(caller, account, root)
    BY <2>2, NewEpochChanges DEF SetPolicyRoot, Ledger!Next
  <2>3. CASE \E caller \in Address, account \in Account, perm \in Permission :
               SetPolicyRootWithPermission(caller, account, perm)
    BY <2>3, NewEpochChanges DEF SetPolicyRootWithPermission, Ledger!Next
  <2>4. CASE \E caller \in Address, account \in Account, admin \in AdminChoice :
               SetPolicyAdmin(caller, account, admin)
    BY <2>1, <2>4 DEF SetPolicyAdmin, Ledger!ledger
  <2>5. CASE \E caller \in Address, op \in UserOp : ValidateUserOpSigFailed(caller, op)
    BY <2>1, <2>5 DEF ValidateUserOpSigFailed, gateVars, Ledger!ledger
  <2>6. ASSUME NEW caller \in Address, NEW op \in UserOp, ValidateUserOp(caller, op)
        PROVE  Ledger!Next \/ UNCHANGED Ledger!ledger
    <3>1. Live' = Live /\ revoked' = revoked
      BY <2>1, <2>6 DEF ValidateUserOp
    <3>2. CASE ~op.perm.singleUse
      BY <2>6, <3>1, <3>2 DEF ValidateUserOp, Ledger!ledger
    <3>3. CASE op.perm.singleUse
      <4> DEFINE leaf == LeafOf(op)
      <4>1. /\ leaf \in Leaf
            /\ leaf.account = op.sender
            /\ leaf.nonce = nonces[op.sender]
        BY LeafOfType DEF LedgerInv
      <4>2. leaf \in policyRoots[op.sender]
        BY <2>6 DEF ValidateUserOp, Validates, PolicyAllows, VerifyMerkleProof, LeafOf
      <4>3. leaf \in Live
        BY <4>1, <4>2, LiveLeaf DEF LedgerInv
      <4>4. leaf \notin usedPermissionHashes[op.sender] /\ uses' = Count(leaf)
        BY <2>6, <3>3 DEF ValidateUserOp, MarkUsed
      <4>5. uses[leaf] = 0
        BY <4>1, <4>4 DEF LedgerInv, UsesMatchSpent
      <4>6. uses' = [uses EXCEPT ![leaf] = 1]
        BY <4>1, <4>4, <4>5 DEF Count, LedgerInv, TypeOK
      <4>7. Ledger!Use(leaf)
        BY <3>1, <4>3, <4>5, <4>6, NothingRevokedLives DEF Ledger!Use, Ledger!Reconfigure
      <4> QED BY <4>1, <4>7 DEF Ledger!Next
    <3> QED BY <3>2, <3>3
  <2>7. CASE \/ \E account \in Account, newOwner \in OwnerChoice :
                    RotateOwner(account, newOwner)
             \/ Tick
             \/ UNCHANGED vars
    BY <2>1, <2>7 DEF RotateOwner, Tick, gateVars, vars, Ledger!ledger
  <2> QED BY <2>2, <2>3, <2>4, <2>5, <2>6, <2>7 DEF Next
<1> QED BY <1>1, <1>2, LedgerHolds, NothingRevokedLives, PTL DEF Spec, ImplementsLedger, Ledger!Spec

---------------------------------------------------------------------------
(***************************************************************************)
(* The clients: what a deployment lets an account's signers use.              *)
(***************************************************************************)
LeafAt(a, p, n) == HashPermissionWithAccount(a, p, n)

\* The epochs in which an account spent a permission.
SpentEpochs(a, p) == {n \in Nonce : LeafAt(a, p, n) \in usedPermissionHashes[a]}

IsLive(a, p) == LeafAt(a, p, nonces[a]) \in policyRoots[a]

ShapeInv ==
    /\ nonces \in [Account -> Nonce]
    /\ DOMAIN policyRoots = Account
    /\ DOMAIN usedPermissionHashes = Account
    /\ landed \in [Account \X Permission -> Nat]

\* No epoch is spent in advance, the current one only while it is live; and of
\* the deployments that were counted, one is left for the epoch that is live.
UsesInv(a, p) ==
    /\ \A n \in SpentEpochs(a, p) : n <= nonces[a]
    /\ nonces[a] \in SpentEpochs(a, p) => IsLive(a, p)
    /\ Cardinality(SpentEpochs(a, p) \ {nonces[a]}) + (IF IsLive(a, p) THEN 1 ELSE 0)
         <= landed[<<a, p>>]

CountInv == ShapeInv /\ \A a \in Account, p \in Permission : UsesInv(a, p)

---------------------------------------------------------------------------
(***************************************************************************)
(* Leaves differ when account, permission or epoch do.                       *)
(***************************************************************************)
LEMMA LeafAtInjective ==
    ASSUME NEW a, NEW p, NEW n, NEW b, NEW q, NEW m, LeafAt(a, p, n) = LeafAt(b, q, m)
    PROVE  a = b /\ p = q /\ n = m
BY DEF LeafAt, HashPermissionWithAccount

LEMMA SpentEpochsFinite ==
    ASSUME NEW a, NEW p
    PROVE  /\ IsFiniteSet(SpentEpochs(a, p)) /\ Cardinality(SpentEpochs(a, p)) \in Nat
           /\ \A n : Cardinality(SpentEpochs(a, p) \ {n}) \in Nat
<1>1. IsFiniteSet(Nonce)
  BY FS_Interval, GateAssumption DEF Nonce
<1>2. IsFiniteSet(SpentEpochs(a, p))
  BY <1>1, FS_Subset DEF SpentEpochs
<1> QED BY <1>2, FS_CardinalityType, FS_RemoveElement

(***************************************************************************)
(* The invariant gives the bound: the current epoch is spent only while it is  *)
(* live, and then a deployment is counted for it.                            *)
(***************************************************************************)
LEMMA SpentWithinLanded ==
    ASSUME ShapeInv, NEW a \in Account, NEW p \in Permission, UsesInv(a, p)
    PROVE  Cardinality(SpentEpochs(a, p)) <= landed[<<a, p>>]
<1> DEFINE spent == SpentEpochs(a, p)
<1>1. /\ IsFiniteSet(spent) /\ Cardinality(spent) \in Nat
      /\ Cardinality(spent \ {nonces[a]}) \in Nat /\ landed[<<a, p>>] \in Nat
  BY SpentEpochsFinite DEF ShapeInv
<1>2. Cardinality(spent \ {nonces[a]}) =
        IF nonces[a] \in spent THEN Cardinality(spent) - 1 ELSE Cardinality(spent)
  BY <1>1, FS_RemoveElement
<1>3. /\ nonces[a] \in spent => IsLive(a, p)
      /\ Cardinality(spent \ {nonces[a]}) + (IF IsLive(a, p) THEN 1 ELSE 0) <= landed[<<a, p>>]
  BY DEF UsesInv
<1> QED BY <1>1, <1>2, <1>3

(***************************************************************************)
(* Opening an epoch and counting what it makes live keeps the books.         *)
(***************************************************************************)
LEMMA NewEpochKeepsCount ==
    ASSUME CountInv, NEW account \in Account, NEW root, NewEpoch(account, root),
           CountLive(account), usedPermissionHashes' = usedPermissionHashes
    PROVE  CountInv'
<1>1. ShapeInv /\ nonces[account] + 1 \in Nonce /\ nonces[account] \in Nat
  BY GateAssumption DEF CountInv, ShapeInv, NewEpoch, Nonce
<1>2. \A a \in Account :
        /\ nonces'[a] = IF a = account THEN nonces[a] + 1 ELSE nonces[a]
        /\ policyRoots'[a] = IF a = account THEN root ELSE policyRoots[a]
  BY <1>1 DEF NewEpoch, ShapeInv
<1>3. \A a \in Account, p \in Permission :
        landed'[<<a, p>>] = IF a = account /\ IsLive(a, p)'
                            THEN landed[<<a, p>>] + 1 ELSE landed[<<a, p>>]
  BY DEF CountLive, IsLive, LeafAt
<1>4. ShapeInv'
  <2>1. nonces' \in [Account -> Nonce] /\ DOMAIN policyRoots' = Account
    BY <1>1 DEF NewEpoch, ShapeInv
  <2>2. landed' \in [Account \X Permission -> Nat]
    BY <1>1 DEF CountLive, ShapeInv
  <2> QED BY <1>1, <2>1, <2>2 DEF ShapeInv
<1>5. ASSUME NEW a \in Account, NEW p \in Permission
      PROVE  UsesInv(a, p)'
  <2>1. SpentEpochs(a, p)' = SpentEpochs(a, p) /\ UsesInv(a, p)
    BY DEF SpentEpochs, CountInv
  <2>2. CASE a # account
    <3>1. nonces'[a] = nonces[a] /\ landed'[<<a, p>>] = landed[<<a, p>>]
          /\ (IsLive(a, p)' <=> IsLive(a, p))
      BY <1>2, <1>3, <2>2 DEF IsLive
    <3> QED BY <2>1, <3>1 DEF UsesInv
  <2>3. CASE a = account
    <3> DEFINE spent == SpentEpochs(a, p)
    <3>1. nonces'[a] = nonces[a] + 1 /\ nonces[a] \in Nat
      BY <1>1, <1>2, <2>3
    <3>2. \A n \in spent : n \in Nat /\ n <= nonces[a]
      BY <2>1, GateAssumption DEF UsesInv, SpentEpochs, Nonce
    <3>3. nonces[a] + 1 \notin spent
      BY <3>1, <3>2
    <3>4. spent \ {nonces'[a]} = spent
      BY <3>1, <3>3
    <3>5. Cardinality(spent) <= landed[<<a, p>>]
          /\ Cardinality(spent) \in Nat /\ landed[<<a, p>>] \in Nat
      BY <1>1, <2>1, SpentWithinLanded, SpentEpochsFinite DEF ShapeInv
    <3>6. landed'[<<a, p>>] = landed[<<a, p>>] + (IF IsLive(a, p)' THEN 1 ELSE 0)
      BY <1>3, <2>3, <3>5
    <3>7. Cardinality(spent) + (IF IsLive(a, p)' THEN 1 ELSE 0) <= landed'[<<a, p>>]
      BY <3>5, <3>6
    <3>8. \A n \in spent : n <= nonces'[a]
      BY <3>1, <3>2
    <3> QED BY <2>1, <3>1, <3>3, <3>4, <3>7, <3>8 DEF UsesInv
  <2> QED BY <2>2, <2>3
<1> QED BY <1>4, <1>5 DEF CountInv

(***************************************************************************)
(* Spending a permission spends the epoch that is live.                      *)
(***************************************************************************)
LEMMA ValidateKeepsCount ==
    ASSUME CountInv, NEW op \in UserOp, ValidateUserOp(op.sender, op), UNCHANGED landed
    PROVE  CountInv'
<1> DEFINE new == LeafOf(op)
<1>1. op.sender \in Account /\ nonces' = nonces /\ policyRoots' = policyRoots /\ ShapeInv
  BY GateAssumption DEF ValidateUserOp, CountInv
<1>2. new = LeafAt(op.sender, op.perm, nonces[op.sender]) /\ new \in policyRoots[op.sender]
  BY DEF ValidateUserOp, Validates, PolicyAllows, VerifyMerkleProof, LeafOf, LeafAt
<1>3. /\ DOMAIN usedPermissionHashes' = Account
      /\ \A a \in Account :
           \/ usedPermissionHashes'[a] = usedPermissionHashes[a]
           \/ a = op.sender /\ usedPermissionHashes'[a] = usedPermissionHashes[a] \cup {new}
  BY <1>1 DEF ValidateUserOp, MarkUsed, ShapeInv
<1>4. ShapeInv'
  BY <1>1, <1>3 DEF ShapeInv
<1>5. ASSUME NEW a \in Account, NEW p \in Permission
      PROVE  UsesInv(a, p)'
  <2>1. UsesInv(a, p) /\ nonces[a] \in Nat
    BY <1>1, GateAssumption DEF CountInv, ShapeInv, Nonce
  <2>2. IsLive(a, p)' <=> IsLive(a, p)
    BY <1>1 DEF IsLive
  <2>3. \/ SpentEpochs(a, p)' = SpentEpochs(a, p)
        \/ IsLive(a, p) /\ SpentEpochs(a, p)' = SpentEpochs(a, p) \cup {nonces[a]}
    <3>1. CASE usedPermissionHashes'[a] = usedPermissionHashes[a]
      BY <3>1 DEF SpentEpochs
    <3>2. CASE a = op.sender /\ p = op.perm
               /\ usedPermissionHashes'[a] = usedPermissionHashes[a] \cup {new}
      <4>1. IsLive(a, p) /\ nonces[a] \in Nonce
        BY <1>1, <1>2, <3>2 DEF IsLive, ShapeInv
      <4>2. \A n : LeafAt(a, p, n) = new <=> n = nonces[a]
        BY <1>2, <3>2, LeafAtInjective
      <4>3. SpentEpochs(a, p)' = SpentEpochs(a, p) \cup {nonces[a]}
        BY <3>2, <4>1, <4>2 DEF SpentEpochs
      <4> QED BY <4>1, <4>3
    <3>3. CASE a = op.sender /\ p # op.perm
               /\ usedPermissionHashes'[a] = usedPermissionHashes[a] \cup {new}
      <4>1. \A n : LeafAt(a, p, n) # new
        BY <1>2, <3>3, LeafAtInjective
      <4> QED BY <3>3, <4>1 DEF SpentEpochs
    <3> QED BY <1>3, <3>1, <3>2, <3>3
  <2>4. SpentEpochs(a, p)' \ {nonces'[a]} = SpentEpochs(a, p) \ {nonces[a]}
    BY <1>1, <2>3
  <2>5. \A n \in SpentEpochs(a, p)' : n <= nonces'[a]
    BY <1>1, <2>1, <2>3 DEF UsesInv
  <2>6. nonces'[a] \in SpentEpochs(a, p)' => IsLive(a, p)'
    BY <1>1, <2>1, <2>2, <2>3 DEF UsesInv
  <2> QED BY <1>1, <2>1, <2>2, <2>4, <2>5, <2>6 DEF UsesInv
<1> QED BY <1>4, <1>5 DEF CountInv

LEMMA StutterKeepsCount ==
    ASSUME CountInv, UNCHANGED <<nonces, policyRoots, usedPermissionHashes, landed>>
    PROVE  CountInv'
<1>1. ASSUME NEW a \in Account, NEW p \in Permission
      PROVE  UsesInv(a, p)'
  <2>1. SpentEpochs(a, p)' = SpentEpochs(a, p) /\ (IsLive(a, p)' <=> IsLive(a, p))
    BY DEF SpentEpochs, IsLive
  <2> QED BY <2>1 DEF CountInv, UsesInv
<1> QED BY <1>1 DEF CountInv, ShapeInv

---------------------------------------------------------------------------
Reading == [account : Account, nonce : Nat, perms : SUBSET Permission]

\* What is drafted and submitted; a submitted single permission is one.
ClientInv ==
    /\ draft \in [Client -> SUBSET Reading]
    /\ \A tx \in pending :
         /\ tx.draft \in Reading
         /\ tx.method = "permission" => \E perm \in Permission : tx.draft.perms = {perm}

DeploymentInv == CountInv /\ ClientInv

LEMMA ClientKeeps ==
    ASSUME DeploymentInv, [NextDeployment]_clientVars
    PROVE  ClientInv'
<1>1. ASSUME NEW client \in Client, NEW account \in Account, NEW perms \in Wanted,
             ReadNonce(client, account, perms)
      PROVE  ClientInv'
  <2>1. Draft(account, nonces[account], perms) \in Reading
    BY GateAssumption, DeploymentAssumption
       DEF DeploymentInv, CountInv, ShapeInv, Nonce, Draft, Reading
  <2> QED BY <1>1, <2>1 DEF ReadNonce, DeploymentInv, ClientInv
<1>2. ASSUME NEW client \in Client, NEW account \in Account, NEW perm \in Permission,
             SubmitPermission(client, account, perm)
      PROVE  ClientInv'
  <2> DEFINE tx == [by |-> client, method |-> "permission", draft |-> Draft(account, 0, {perm})]
  <2>1. tx.draft \in Reading /\ tx.draft.perms = {perm}
    BY DEF Draft, Reading
  <2>2. draft' = draft /\ pending' = pending \cup {tx}
    BY <1>2 DEF SubmitPermission
  <2> HIDE DEF tx
  <2> QED BY <2>1, <2>2 DEF DeploymentInv, ClientInv
<1>3. ASSUME NEW client \in Client, Submit(client)
      PROVE  ClientInv'
  <2>1. PICK d \in draft[client] :
          pending' = pending \cup {[by |-> client, method |-> "root", draft |-> d]}
    BY <1>3 DEF Submit
  <2>2. d \in Reading /\ draft' = draft
    BY <1>3 DEF Submit, DeploymentInv, ClientInv
  <2> QED BY <2>1, <2>2 DEF DeploymentInv, ClientInv
<1>4. CASE draft' = draft /\ pending' \subseteq pending
  BY <1>4 DEF DeploymentInv, ClientInv
<1>5. (\E tx \in pending : Land(tx)) \/ Operate \/ UNCHANGED clientVars
        => draft' = draft /\ pending' \subseteq pending
  BY DEF Land, Operate, clientVars, deploymentVars
<1> QED BY <1>1, <1>2, <1>3, <1>4, <1>5 DEF NextDeployment

LEMMA CountKeeps ==
    ASSUME DeploymentInv, [NextDeployment]_clientVars
    PROVE  CountInv'
<1>1. ASSUME NEW account \in Account, NEW caller, NEW root, SetPolicyRoot(caller, account, root),
             CountLive(account)
      PROVE  CountInv'
  BY <1>1, NewEpochKeepsCount DEF SetPolicyRoot, DeploymentInv
<1>2. ASSUME NEW tx \in pending, Land(tx)
      PROVE  CountInv'
  <2>1. tx.draft.account \in Account
    BY DEF DeploymentInv, ClientInv, Reading
  <2>2. CASE SetPolicyRoot(tx.draft.account, tx.draft.account, Tree(tx.draft))
    BY <1>1, <1>2, <2>1, <2>2 DEF Land
  <2>3. ASSUME NEW perm, SetPolicyRootWithPermission(tx.draft.account, tx.draft.account, perm)
        PROVE  CountInv'
    BY <1>2, <2>1, <2>3, NewEpochKeepsCount DEF Land, SetPolicyRootWithPermission, DeploymentInv
  <2> QED BY <1>2, <2>2, <2>3 DEF Land
<1>3. ASSUME NEW op \in UserOp, ValidateUserOp(op.sender, op), UNCHANGED landed
      PROVE  CountInv'
  BY <1>3, ValidateKeepsCount DEF DeploymentInv
<1>4. CASE Operate
  <2>1. CASE \E account \in Account, admin \in AdminChoice :
               SetPolicyAdmin(account, account, admin) /\ UNCHANGED landed
    BY <2>1, StutterKeepsCount DEF SetPolicyAdmin, DeploymentInv
  <2> QED BY <1>1, <1>3, <1>4, <2>1 DEF Operate
<1>5. CASE UNCHANGED <<vars, landed>>
  BY <1>5, StutterKeepsCount DEF vars, DeploymentInv
<1>6. (\E client \in Client, account \in Account :
         \/ \E perms \in Wanted : ReadNonce(client, account, perms)
         \/ \E perm \in Permission : SubmitPermission(client, account, perm))
      \/ (\E client \in Client : Submit(client))
      \/ UNCHANGED clientVars
        => UNCHANGED <<vars, landed>>
  BY DEF ReadNonce, SubmitPermission, Submit, clientVars, deploymentVars
<1> QED BY <1>2, <1>4, <1>5, <1>6 DEF NextDeployment

LEMMA DeploymentInvariant == SpecDeployment => []DeploymentInv
<1>1. ASSUME InitDeployment PROVE DeploymentInv
  <2>1. ShapeInv /\ ClientInv
    BY <1>1, GateAssumption DEF InitDeployment, Init, ShapeInv, ClientInv, Nonce
  <2>2. ASSUME NEW a \in Account, NEW p \in Permission PROVE UsesInv(a, p)
    <3>1. SpentEpochs(a, p) = {} /\ ~IsLive(a, p) /\ landed[<<a, p>>] = 0
      BY <1>1 DEF InitDeployment, Init, SpentEpochs, IsLive, NoRoot
    <3>2. SpentEpochs(a, p) \ {nonces[a]} = {}
      BY <3>1
    <3>3. Cardinality(SpentEpochs(a, p) \ {nonces[a]}) = 0
      BY <3>2, FS_EmptySet
    <3> QED BY <3>1, <3>3 DEF UsesInv
  <2> QED BY <2>1, <2>2 DEF DeploymentInv, CountInv
<1>2. DeploymentInv /\ [NextDeployment]_clientVars => DeploymentInv'
  BY ClientKeeps, CountKeeps DEF DeploymentInv
<1> QED BY <1>1, <1>2, PTL DEF SpecDeployment

---------------------------------------------------------------------------
(***************************************************************************)
(* A single-use permission is accepted at most as often as it was deployed,   *)
(* whatever is submitted twice, lands late or is overtaken.                   *)
(***************************************************************************)
THEOREM UsesHold == SpecDeployment => []UsesPerDeployment
<1>1. DeploymentInv => UsesPerDeployment
  <2> SUFFICES ASSUME DeploymentInv, NEW a \in Account, NEW p \in Permission
               PROVE  Cardinality({n \in Nonce : HashPermissionWithAccount(a, p, n)
                                                  \in usedPermissionHashes[a]}) <= landed[<<a, p>>]
    BY DEF UsesPerDeployment
  <2>1. Cardinality(SpentEpochs(a, p)) <= landed[<<a, p>>]
    BY SpentWithinLanded DEF DeploymentInv, CountInv
  <2> QED BY <2>1 DEF SpentEpochs, LeafAt
<1> QED BY <1>1, DeploymentInvariant, PTL

(***************************************************************************)
(* A deployment that lands is live as a whole or not at all.                 *)
(***************************************************************************)
THEOREM LandingHolds == SpecDeployment => LandsWholeOrDead
<1> DEFINE Whole(tx) ==
      LET d == tx.draft
          granted == {HashPermissionWithAccount(d.account, p, nonces'[d.account]) : p \in d.perms}
      IN  LiveLeaves(d.account)' =
              IF tx.method = "permission" \/ d.nonce = nonces[d.account] THEN granted ELSE {}
<1>1. ASSUME DeploymentInv, [NextDeployment]_clientVars, NEW tx \in pending, tx \notin pending',
             nonces' # nonces
      PROVE  Whole(tx)
  <2> DEFINE d == tx.draft
  <2>1. Land(tx)
    <3>1. ASSUME NEW other \in pending, Land(other) PROVE other = tx
      BY <1>1, <3>1 DEF Land
    <3>2. ASSUME NEW client \in Client, Submit(client) PROVE FALSE
      BY <1>1, <3>2 DEF Submit
    <3>3. ~Operate
      BY <1>1 DEF Operate
    <3> QED BY <1>1, <3>1, <3>2, <3>3
            DEF NextDeployment, ReadNonce, SubmitPermission, deploymentVars, clientVars
  <2>2. d.account \in Account /\ d.nonce \in Nat /\ nonces[d.account] \in Nat
    BY <1>1, GateAssumption DEF DeploymentInv, ClientInv, Reading, CountInv, ShapeInv, Nonce
  <2>3. ASSUME NEW root, NewEpoch(d.account, root)
        PROVE  /\ nonces'[d.account] = nonces[d.account] + 1
               /\ LiveLeaves(d.account)' =
                    {leaf \in root : leaf.account = d.account /\ leaf.nonce = nonces[d.account] + 1}
    BY <1>1, <2>2, <2>3 DEF NewEpoch, DeploymentInv, CountInv, ShapeInv, LiveLeaves
  <2>4. CASE tx.method = "root" /\ SetPolicyRoot(d.account, d.account, Tree(d))
    <3>1. /\ nonces'[d.account] = nonces[d.account] + 1
          /\ LiveLeaves(d.account)' =
               {leaf \in Tree(d) : leaf.account = d.account /\ leaf.nonce = nonces[d.account] + 1}
      BY <2>3, <2>4 DEF SetPolicyRoot
    <3>2. d.nonce + 1 = nonces[d.account] + 1 <=> d.nonce = nonces[d.account]
      BY <2>2
    <3> QED BY <2>4, <3>1, <3>2 DEF Tree, HashPermissionWithAccount
  <2>5. ASSUME tx.method = "permission", NEW perm \in d.perms,
               SetPolicyRootWithPermission(d.account, d.account, perm)
        PROVE  Whole(tx)
    <3>1. d.perms = {perm}
      BY <1>1, <2>5 DEF DeploymentInv, ClientInv
    <3>2. /\ nonces'[d.account] = nonces[d.account] + 1
          /\ LiveLeaves(d.account)' =
               {leaf \in {HashPermissionWithAccount(d.account, perm, nonces[d.account] + 1)} :
                   leaf.account = d.account /\ leaf.nonce = nonces[d.account] + 1}
      BY <2>3, <2>5 DEF SetPolicyRootWithPermission
    <3> QED BY <2>5, <3>1, <3>2 DEF HashPermissionWithAccount
  <2> QED BY <2>1, <2>4, <2>5 DEF Land
<1>2. DeploymentInv /\ [NextDeployment]_clientVars
        => [\A tx \in pending : (tx \notin pending' /\ nonces' # nonces) => Whole(tx)]_clientVars
  BY <1>1
<1> QED BY <1>2, DeploymentInvariant, PTL DEF SpecDeployment, LandsWholeOrDead

---------------------------------------------------------------------------
(***************************************************************************)
(* What a step of the EntryPoint does to the gate: a step of the gate, except *)
(* where a failing bundle is undone.                                         *)
(***************************************************************************)
Checkpoint == [used : [Account -> SUBSET Leaf], uses : [Leaf -> 0 .. 2]]

\* How far the bundle has come.
PositionInv ==
    /\ bundle \in Seq(UserOp) /\ Len(bundle) <= MaxBundle
    /\ phase = "idle" => bundle = <<>> /\ leaves = <<>>
    /\ phase = "validation" => Len(leaves) = pos - 1 /\ pos <= Len(bundle)
    /\ phase = "execution" => Len(leaves) = Len(bundle) /\ pos <= Len(bundle)

TypeInv == TypeOKEntryPoint /\ checkpoint \in Checkpoint /\ PositionInv

LEMMA BundleType ==
    ASSUME NEW ops \in Bundles
    PROVE  ops \in Seq(UserOp) /\ Len(ops) \in 1 .. MaxBundle
<1>1. PICK n \in 1 .. MaxBundle : ops \in [1 .. n -> UserOp]
  BY DEF Bundles
<1>2. n \in Nat /\ MaxBundle \in Nat
  BY EntryPointAssumption
<1>3. ops \in Seq(UserOp)
  BY <1>1, <1>2, SeqDef
<1>4. Len(ops) = n
  BY <1>1, <1>2, <1>3, LenProperties
<1> QED BY <1>3, <1>4

\* Where the EntryPoint stands, once more for the provers.
LEMMA Position ==
    ASSUME TypeInv
    PROVE  /\ pos \in Nat /\ pos >= 1
           /\ Len(leaves) \in Nat /\ Len(bundle) \in Nat
           /\ \A i \in 1 .. Len(leaves) : leaves[i] \in Leaf
           /\ \A i \in 1 .. Len(bundle) : bundle[i] \in UserOp
           /\ phase # "idle" => bundle \in Bundles /\ bundle[pos] \in UserOp
<1>1. pos \in Nat /\ pos >= 1
  BY EntryPointAssumption DEF TypeInv, TypeOKEntryPoint
<1>2. /\ Len(leaves) \in Nat /\ Len(bundle) \in Nat
      /\ \A i \in 1 .. Len(leaves) : leaves[i] \in Leaf
      /\ \A i \in 1 .. Len(bundle) : bundle[i] \in UserOp
  BY LenProperties, ElementOfSeq DEF TypeInv, TypeOKEntryPoint, PositionInv
<1>3. ASSUME phase # "idle" PROVE bundle \in Bundles /\ bundle[pos] \in UserOp
  <2>1. pos <= Len(bundle) /\ bundle # <<>>
    BY <1>3 DEF TypeInv, TypeOKEntryPoint, PositionInv
  <2> QED BY <1>1, <1>2, <2>1 DEF TypeInv, TypeOKEntryPoint
<1> QED BY <1>1, <1>2, <1>3

(***************************************************************************)
(* What an execution does to the gate is a step of the gate that leaves the   *)
(* registry and the clock alone.                                             *)
(***************************************************************************)
LEMMA EffectStep ==
    ASSUME NEW op \in UserOp, Effect(op) \/ UNCHANGED vars
    PROVE  /\ [Next]_vars
           /\ usedPermissionHashes' = usedPermissionHashes /\ uses' = uses /\ now' = now
<1>1. op.sender \in Account /\ op.sender \in Address
  BY GateAssumption
<1>2. CASE \E root \in Root : SetPolicyRoot(op.sender, op.sender, root)
  BY <1>1, <1>2 DEF Next, SetPolicyRoot
<1>3. CASE \E admin \in AdminChoice : SetPolicyAdmin(op.sender, op.sender, admin)
  BY <1>1, <1>3 DEF Next, SetPolicyAdmin
<1>4. CASE \E newOwner \in OwnerChoice : RotateOwner(op.sender, newOwner)
  BY <1>1, <1>4 DEF Next, RotateOwner, gateVars
<1>5. CASE UNCHANGED vars
  BY <1>5 DEF vars
<1> QED BY <1>2, <1>3, <1>4, <1>5 DEF Effect

LEMMA AdministerStep ==
    ASSUME Administer
    PROVE  /\ [Next]_vars /\ UNCHANGED <<bundleVars, attempts>>
           /\ usedPermissionHashes' = usedPermissionHashes /\ uses' = uses /\ now' = now
<1>1. PICK account \in Account, caller \in Address :
        \/ \E root \in Root : SetPolicyRoot(caller, account, root)
        \/ \E perm \in Permission : SetPolicyRootWithPermission(caller, account, perm)
        \/ \E admin \in AdminChoice : SetPolicyAdmin(caller, account, admin)
  BY DEF Administer
<1>2. Next
  BY <1>1 DEF Next
<1> QED BY <1>1, <1>2
        DEF Administer, SetPolicyRoot, SetPolicyRootWithPermission, SetPolicyAdmin

LEMMA EnvironmentStep ==
    ASSUME Environment
    PROVE  /\ [Next]_vars /\ UNCHANGED <<bundleVars, attempts>> /\ phase = "idle"
           /\ usedPermissionHashes' = usedPermissionHashes /\ uses' = uses
<1>1. Next
  BY DEF Environment, Next
<1> QED BY <1>1 DEF Environment, Tick, RotateOwner, gateVars

(***************************************************************************)
(* Type correctness, with how far the bundle has come.                       *)
(***************************************************************************)
LEMMA TypeInvStep ==
    ASSUME TypeInv, [NextEntryPoint]_allVars
    PROVE  TypeInv'
<1> USE EntryPointAssumption, Position
<1>1. ASSUME NEW ops \in Bundles, HandleOps(ops)
      PROVE  TypeInv'
  <2>1. TypeOK'
    BY <1>1, TypeStep DEF HandleOps, TypeInv, TypeOKEntryPoint
  <2>2. ops \in Seq(UserOp) /\ Len(ops) \in 1 .. MaxBundle /\ ops # <<>>
    BY BundleType, EmptySeq
  <2>3. <<>> \in Seq(Leaf) /\ Len(<<>>) = 0
    BY EmptySeq
  <2>4. TypeOKEntryPoint'
    BY <1>1, <2>1, <2>2, <2>3 DEF HandleOps, TypeInv, TypeOKEntryPoint
  <2>5. PositionInv'
    BY <1>1, <2>2, <2>3 DEF HandleOps, TypeInv, PositionInv
  <2> QED BY <1>1, <2>4, <2>5 DEF HandleOps, TypeInv
<1>2. CASE ValidateOp
  <2> DEFINE op == bundle[pos]
  <2>1. op \in UserOp /\ op.sender \in Address /\ phase = "validation"
    BY <1>2, GateAssumption DEF ValidateOp
  <2>2. ValidateUserOp(op.sender, op)
    BY <1>2 DEF ValidateOp
  <2>3. TypeOK'
    BY <2>1, <2>2, TypeStep DEF Next, TypeInv, TypeOKEntryPoint
  <2>4. LeafOf(op) \in Leaf
    BY <2>1, LeafOfType DEF TypeInv, TypeOKEntryPoint
  <2>5. leaves' = Append(leaves, LeafOf(op)) /\ leaves \in Seq(Leaf)
    BY <1>2 DEF ValidateOp, TypeInv, TypeOKEntryPoint
  <2>6. leaves' \in Seq(Leaf) /\ Len(leaves') = Len(leaves) + 1
    BY <2>4, <2>5
  <2>7. /\ bundle' = bundle
        /\ \/ pos < Len(bundle) /\ pos' = pos + 1 /\ phase' = phase
           \/ pos >= Len(bundle) /\ pos' = 1 /\ phase' = "execution"
    BY <1>2 DEF ValidateOp, NextOp
  <2>8. Len(leaves) = pos - 1 /\ pos <= Len(bundle) /\ Len(bundle) <= MaxBundle
    BY <2>1 DEF TypeInv, PositionInv
  <2>9. checkpoint' \in Checkpoint
    <3>1. usedPermissionHashes' \in [Account -> SUBSET Leaf] /\ uses' \in [Leaf -> 0 .. 2]
      BY <2>3 DEF TypeOK
    <3> QED BY <1>2, <3>1 DEF ValidateOp, Checkpoint, TypeInv
  <2>10. TypeOKEntryPoint'
    BY <1>2, <2>1, <2>3, <2>6, <2>7, <2>8 DEF ValidateOp, TypeInv, TypeOKEntryPoint
  <2>11. PositionInv'
    BY <2>1, <2>6, <2>7, <2>8 DEF TypeInv, PositionInv
  <2> QED BY <2>9, <2>10, <2>11 DEF TypeInv
<1>3. CASE FailBundle
  <2>1. TypeOK'
    BY <1>3 DEF FailBundle, TypeInv, TypeOKEntryPoint, TypeOK, Checkpoint, NoReceipt, Receipt
  <2>2. <<>> \in Seq(Leaf) /\ <<>> \in Seq(UserOp) /\ Len(<<>>) = 0
    BY EmptySeq
  <2>3. TypeOKEntryPoint'
    BY <1>3, <2>1, <2>2 DEF FailBundle, TypeInv, TypeOKEntryPoint
  <2> QED BY <1>3, <2>2, <2>3 DEF FailBundle, TypeInv, PositionInv
<1>4. CASE ExecuteOp
  <2>1. bundle[pos] \in UserOp /\ phase = "execution"
    BY <1>4 DEF ExecuteOp
  <2>2. TypeOK'
    BY <1>4, <2>1, EffectStep, TypeStep DEF ExecuteOp, TypeInv, TypeOKEntryPoint
  <2>3. <<>> \in Seq(Leaf) /\ <<>> \in Seq(UserOp) /\ Len(<<>>) = 0
    BY EmptySeq
  <2>4. attempts' \in [Leaf -> 0 .. 2]
    <3>1. leaves[pos] \in Leaf
      BY <2>1 DEF TypeInv, PositionInv
    <3>2. attempts \in [Leaf -> 0 .. 2] /\ attempts[leaves[pos]] \in 0 .. 2
      BY <3>1 DEF TypeInv, TypeOKEntryPoint
    <3>3. \/ attempts' = attempts
          \/ /\ attempts[leaves[pos]] < 2
             /\ attempts' = [attempts EXCEPT ![leaves[pos]] = @ + 1]
      BY <1>4 DEF ExecuteOp
    <3> QED BY <3>2, <3>3
  <2>5. CASE pos < Len(bundle)
    <3>1. bundle' = bundle /\ leaves' = leaves /\ pos' = pos + 1 /\ phase' = phase
      BY <1>4, <2>5 DEF ExecuteOp, NextOp
    <3>2. PositionInv'
      BY <2>1, <2>5, <3>1 DEF TypeInv, PositionInv
    <3>3. TypeOKEntryPoint'
      BY <2>2, <2>4, <2>5, <3>1 DEF TypeInv, TypeOKEntryPoint, PositionInv
    <3> QED BY <1>4, <3>2, <3>3 DEF ExecuteOp, TypeInv
  <2>6. CASE ~(pos < Len(bundle))
    <3>1. bundle' = <<>> /\ leaves' = <<>> /\ pos' = 1 /\ phase' = "idle"
      BY <1>4, <2>6 DEF ExecuteOp, NextOp
    <3>2. PositionInv'
      BY <2>3, <3>1 DEF PositionInv
    <3>3. TypeOKEntryPoint'
      BY <2>2, <2>3, <2>4, <3>1 DEF TypeOKEntryPoint
    <3> QED BY <1>4, <3>2, <3>3 DEF ExecuteOp, TypeInv
  <2> QED BY <2>5, <2>6
<1>5. CASE \/ [Next]_vars /\ UNCHANGED <<bundleVars, attempts>>
  <2>1. TypeOK'
    BY <1>5, TypeStep DEF TypeInv, TypeOKEntryPoint
  <2> QED BY <1>5, <2>1 DEF bundleVars, TypeInv, TypeOKEntryPoint, PositionInv
<1>6. CASE UNCHANGED allVars
  BY <1>5, <1>6 DEF allVars
<1> QED BY <1>1, <1>2, <1>3, <1>4, <1>5, <1>6, AdministerStep, EnvironmentStep
        DEF NextEntryPoint

THEOREM EntryPointTypeCorrect == SpecEntryPoint => [](TypeOKEntryPoint /\ TypeInv)
<1>1. InitEntryPoint => TypeInv
  <2> SUFFICES ASSUME InitEntryPoint PROVE TypeInv
    OBVIOUS
  <2>1. TypeOK
    BY GateAssumption DEF InitEntryPoint, Init, TypeOK, NoReceipt, Receipt, NoRoot, Nonce
  <2>2. <<>> \in Seq(Leaf) /\ <<>> \in Seq(UserOp) /\ Len(<<>>) = 0
    BY EmptySeq
  <2>3. checkpoint \in Checkpoint
    BY <2>1 DEF InitEntryPoint, Checkpoint, TypeOK
  <2>4. TypeOKEntryPoint
    BY <2>1, <2>2, EntryPointAssumption DEF InitEntryPoint, TypeOKEntryPoint
  <2> QED BY <2>2, <2>3, <2>4, EntryPointAssumption DEF InitEntryPoint, TypeInv, PositionInv
<1>2. TypeInv /\ [NextEntryPoint]_allVars => TypeInv'
  BY TypeInvStep
<1>3. TypeInv => TypeOKEntryPoint
  BY DEF TypeInv
<1> QED BY <1>1, <1>2, <1>3, PTL DEF SpecEntryPoint

---------------------------------------------------------------------------
(***************************************************************************)
(* What the gate checked of an operation before the EntryPoint goes on to the *)
(* next, in terms of the operation and the clock only: roots, epochs, admins   *)
(* and owners may change before it is executed.                              *)
(***************************************************************************)
CallPermitted(op) ==
    LET to == CalledAddress(op)
    IN  /\ to = op.perm.target \/ (to = op.sender /\ op.perm.target = ZeroAddress)
        /\ CallValue(op.callData) <= op.perm.maxValue
        /\ IF DeliveredCall(op) = NoInner
           THEN op.perm.selector = op.callData.selector
           ELSE ValidateCallData(DeliveredCall(op), op.perm)

InWindow(perm) ==
    /\ perm.validAfter <= now
    /\ perm.validUntil = 0 \/ now <= perm.validUntil
    /\ perm.chainId \in {0, ChainId}

\* What was accepted stays permitted and inside its window until it is executed.
AcceptedInv ==
    \A i \in 1 .. Len(leaves) : CallPermitted(bundle[i]) /\ InWindow(bundle[i].perm)

LEMMA AllowedMeansPermitted ==
    ASSUME NEW op, Validates(op)
    PROVE  CallPermitted(op)
<1>1. /\ CallValue(op.callData) <= op.perm.maxValue
      /\ TargetMatches(op)
      /\ ValidateCallData(InnerCallData(op.callData), op.perm)
  BY DEF Validates, PolicyAllows
<1>2. CalledAddress(op) = op.perm.target
        \/ (CalledAddress(op) = op.sender /\ op.perm.target = ZeroAddress)
  BY <1>1 DEF TargetMatches, CalledAddress, ActualTarget
<1>3. CASE DeliveredCall(op) = NoInner
  <2>1. InnerCallData(op.callData).selector = op.callData.selector
    BY <1>3 DEF InnerCallData, DeliveredCall
  <2> QED BY <1>1, <1>2, <1>3, <2>1 DEF CallPermitted, ValidateCallData
<1>4. CASE DeliveredCall(op) # NoInner
  <2>1. InnerCallData(op.callData) = DeliveredCall(op)
    BY <1>4 DEF InnerCallData, DeliveredCall
  <2> QED BY <1>1, <1>2, <1>4, <2>1 DEF CallPermitted
<1> QED BY <1>3, <1>4

\* The gate accepts outside the window, and then has not looked at the chain; the
\* EntryPoint goes on only inside it.
LEMMA TimelyMeansInWindow ==
    ASSUME now \in Nat, NEW op \in UserOp, Validates(op), InTimeRange(ValidationData(op))
    PROVE  InWindow(op.perm)
<1>1. op.perm.validAfter \in Nat /\ op.perm.validUntil \in Nat
  BY GateAssumption, EntryPointAssumption
<1>2. op.perm.validAfter <= now /\ (op.perm.validUntil = 0 \/ now <= op.perm.validUntil)
  BY DEF InTimeRange, ValidationData, PackValidationData
<1>3. ValidatePermission(op.perm, now) # ERR_CHAIN
  BY DEF Validates, PolicyAllows
<1>4. ~(op.perm.validAfter > 0 /\ now < op.perm.validAfter)
      /\ ~(op.perm.validUntil > 0 /\ now > op.perm.validUntil)
  BY <1>1, <1>2
<1>5. op.perm.chainId \in {0, ChainId}
  BY <1>3, <1>4 DEF ValidatePermission
<1> QED BY <1>2, <1>5 DEF InWindow

LEMMA AcceptedInvStep ==
    ASSUME TypeInv, AcceptedInv, [NextEntryPoint]_allVars
    PROVE  AcceptedInv'
<1> USE Position
<1>1. ASSUME leaves' = <<>> PROVE AcceptedInv'
  <2>1. Len(leaves') = 0
    BY <1>1, EmptySeq
  <2> QED BY <2>1 DEF AcceptedInv
<1>2. ASSUME bundle' = bundle, leaves' = leaves, now' = now PROVE AcceptedInv'
  BY <1>2 DEF AcceptedInv, InWindow
<1>3. CASE \E ops \in Bundles : HandleOps(ops)
  BY <1>1, <1>3 DEF HandleOps
<1>4. CASE ValidateOp
  <2> DEFINE op == bundle[pos]
  <2>1. op \in UserOp /\ phase = "validation" /\ now \in Nat
    BY <1>4, GateAssumption DEF ValidateOp, TypeInv, TypeOKEntryPoint, TypeOK
  <2>2. Validates(op) /\ InTimeRange(ValidationData(op)) /\ now' = now
    BY <1>4 DEF ValidateOp, ValidateUserOp
  <2>3. CallPermitted(op) /\ InWindow(op.perm)
    BY <2>1, <2>2, AllowedMeansPermitted, TimelyMeansInWindow
  <2>4. LeafOf(op) \in Leaf /\ leaves \in Seq(Leaf)
    BY <2>1, LeafOfType DEF TypeInv, TypeOKEntryPoint
  <2>5. Len(leaves') = Len(leaves) + 1 /\ Len(leaves) = pos - 1
    BY <1>4, <2>1, <2>4 DEF ValidateOp, TypeInv, PositionInv
  <2>6. bundle' = bundle
    BY <1>4 DEF ValidateOp, NextOp
  <2>7. ASSUME NEW i \in 1 .. Len(leaves')
        PROVE  CallPermitted(bundle[i]) /\ InWindow(bundle[i].perm)
    <3>1. i = pos \/ i \in 1 .. Len(leaves)
      BY <2>5
    <3> QED BY <2>3, <3>1 DEF AcceptedInv
  <2> QED BY <2>2, <2>6, <2>7 DEF AcceptedInv, InWindow
<1>5. CASE FailBundle
  BY <1>1, <1>5 DEF FailBundle
<1>6. CASE ExecuteOp
  <2>1. now' = now
    BY <1>6, EffectStep DEF ExecuteOp
  <2>2. CASE pos < Len(bundle)
    BY <1>2, <1>6, <2>1, <2>2 DEF ExecuteOp, NextOp
  <2>3. CASE ~(pos < Len(bundle))
    BY <1>1, <1>6, <2>3 DEF ExecuteOp
  <2> QED BY <2>2, <2>3
<1>7. CASE Administer
  BY <1>2, <1>7, AdministerStep DEF bundleVars
<1>8. CASE Environment
  BY <1>1, <1>8, EnvironmentStep DEF bundleVars, TypeInv, PositionInv
<1>9. CASE UNCHANGED allVars
  BY <1>2, <1>9 DEF allVars, bundleVars, vars
<1> QED BY <1>3, <1>4, <1>5, <1>6, <1>7, <1>8, <1>9 DEF NextEntryPoint

LEMMA AcceptedInvariant == SpecEntryPoint => [](TypeInv /\ AcceptedInv)
<1>1. InitEntryPoint => AcceptedInv
  BY EmptySeq DEF InitEntryPoint, AcceptedInv
<1>2. TypeInv /\ AcceptedInv /\ [NextEntryPoint]_allVars => AcceptedInv'
  BY AcceptedInvStep
<1> QED BY <1>1, <1>2, EntryPointTypeCorrect, PTL DEF SpecEntryPoint

\* The operation that is executed was accepted, and execution is ExecuteOp.
LEMMA ExecutedWasAccepted ==
    ASSUME TypeInv, AcceptedInv, [NextEntryPoint]_allVars, Executes
    PROVE  /\ ExecuteOp /\ bundle[pos] \in UserOp
           /\ CallPermitted(bundle[pos]) /\ InWindow(bundle[pos].perm)
<1>1. phase = "execution" /\ <<phase', pos'>> # <<phase, pos>>
  BY DEF Executes
<1>2. ExecuteOp
  BY <1>1, AdministerStep
     DEF NextEntryPoint, HandleOps, ValidateOp, FailBundle, Environment, bundleVars, allVars
<1>3. pos \in 1 .. Len(leaves)
  BY <1>1, Position DEF TypeInv, PositionInv
<1>4. bundle[pos] \in UserOp
  BY <1>1, Position
<1> QED BY <1>2, <1>3, <1>4 DEF AcceptedInv

(***************************************************************************)
(* What is executed is executed inside its window and on its chain.           *)
(***************************************************************************)
THEOREM WindowHolds == SpecEntryPoint => ExecutedInWindow
<1>1. TypeInv /\ AcceptedInv /\ [NextEntryPoint]_allVars
        => [Executes =>
             LET perm == bundle[pos].perm
             IN  /\ perm.validAfter <= now
                 /\ perm.validUntil = 0 \/ now <= perm.validUntil
                 /\ perm.chainId \in {0, ChainId}]_allVars
  BY ExecutedWasAccepted DEF InWindow
<1> QED BY <1>1, AcceptedInvariant, PTL DEF SpecEntryPoint, ExecutedInWindow

(***************************************************************************)
(* The call that is made is the call that was permitted.                     *)
(***************************************************************************)
THEOREM PermittedHolds == SpecEntryPoint => ExecutedCallIsPermitted
<1>1. TypeInv /\ AcceptedInv /\ [NextEntryPoint]_allVars
        => [Executes =>
             LET op == bundle[pos]
                 to == CalledAddress(op)
             IN  /\ to = op.perm.target \/ (to = op.sender /\ op.perm.target = ZeroAddress)
                 /\ CallValue(op.callData) <= op.perm.maxValue
                 /\ IF DeliveredCall(op) = NoInner
                    THEN op.perm.selector = op.callData.selector
                    ELSE ValidateCallData(DeliveredCall(op), op.perm)]_allVars
  BY ExecutedWasAccepted DEF CallPermitted
<1> QED BY <1>1, AcceptedInvariant, PTL DEF SpecEntryPoint, ExecutedCallIsPermitted

(***************************************************************************)
(* An executed operation changes policies, epochs and admins only under a       *)
(* permission for the gate, and owners only under one for the account itself.  *)
(***************************************************************************)
THEOREM SignerHolds == SpecEntryPoint => SignerCannotEscalate
<1>1. ASSUME TypeInv, AcceptedInv, [NextEntryPoint]_allVars, Executes
      PROVE  LET perm == bundle[pos].perm
             IN  /\ <<policyRoots', nonces', policyAdmin'>> # <<policyRoots, nonces, policyAdmin>>
                      => perm.target = GateAddress
                 /\ owner' # owner => perm.target \in {ZeroAddress, bundle[pos].sender}
  <2> DEFINE op == bundle[pos]
             to == CalledAddress(op)
  <2>1. ExecuteOp /\ op \in UserOp /\ CallPermitted(op)
    BY <1>1, ExecutedWasAccepted
  <2>2. Effect(op) \/ UNCHANGED vars
    BY <2>1 DEF ExecuteOp
  <2>3. to = op.perm.target \/ (to = op.sender /\ op.perm.target = ZeroAddress)
    BY <2>1 DEF CallPermitted
  <2>4. op.sender # GateAddress
    BY <2>1, GateAssumption, EntryPointAssumption
  <2>5. <<policyRoots', nonces', policyAdmin'>> # <<policyRoots, nonces, policyAdmin>>
          => to = GateAddress
    BY <2>2 DEF Effect, RotateOwner, gateVars, vars
  <2>6. owner' # owner => to = op.sender
    BY <2>2 DEF Effect, SetPolicyRoot, SetPolicyAdmin, vars
  <2> QED BY <2>3, <2>4, <2>5, <2>6
<1>2. TypeInv /\ AcceptedInv /\ [NextEntryPoint]_allVars
        => [Executes =>
             LET perm == bundle[pos].perm
             IN  /\ <<policyRoots', nonces', policyAdmin'>> # <<policyRoots, nonces, policyAdmin>>
                      => perm.target = GateAddress
                 /\ owner' # owner => perm.target \in {ZeroAddress, bundle[pos].sender}]_allVars
  BY <1>1
<1> QED BY <1>2, AcceptedInvariant, PTL DEF SpecEntryPoint, SignerCannotEscalate

---------------------------------------------------------------------------
(***************************************************************************)
(* A single-use leaf of the bundle awaits its execution from the moment it was *)
(* accepted.  In between it is spent and not attempted, which is what           *)
(* SpentMeansOneAttempt does not see: it speaks of the time between bundles.    *)
(***************************************************************************)
AwaitsAt(i) ==
    /\ i \in 1 .. Len(leaves)
    /\ bundle[i].perm.singleUse
    /\ phase = "execution" => pos <= i

Awaits(leaf) == \E i \in 1 .. Len(leaves) : AwaitsAt(i) /\ leaves[i] = leaf

Spent(leaf) == leaf \in usedPermissionHashes[leaf.account]

\* No leaf awaits twice, what awaits is spent, the rest of what is spent was
\* attempted, and a failing bundle goes back to what was spent before it.
AttemptInv ==
    /\ \A i, j \in 1 .. Len(leaves) :
         AwaitsAt(i) /\ AwaitsAt(j) /\ leaves[i] = leaves[j] => i = j
    /\ \A leaf \in Leaf :
         /\ Awaits(leaf) => Spent(leaf)
         /\ attempts[leaf] = IF Spent(leaf) /\ ~Awaits(leaf) THEN 1 ELSE 0
         /\ leaf \in checkpoint.used[leaf.account]
              <=> Spent(leaf) /\ ~(phase = "validation" /\ Awaits(leaf))

LEMMA ValidateKeepsAttempts ==
    ASSUME TypeInv, TypeInv', AttemptInv, ValidateOp
    PROVE  AttemptInv'
<1> DEFINE op == bundle[pos]
           new == LeafOf(op)
           single == op.perm.singleUse
<1> USE Position
<1>1. /\ op \in UserOp /\ phase = "validation" /\ Len(leaves) = pos - 1 /\ pos <= Len(bundle)
      /\ ValidateUserOp(op.sender, op) /\ bundle' = bundle /\ attempts' = attempts
      /\ leaves' = Append(leaves, new) /\ leaves \in Seq(Leaf)
  BY DEF ValidateOp, NextOp, TypeInv, TypeOKEntryPoint, PositionInv
<1>2. new \in Leaf /\ new.account = op.sender /\ op.sender \in Account
  BY <1>1, LeafOfType DEF TypeInv, TypeOKEntryPoint
<1>3. /\ Len(leaves') = pos /\ leaves'[pos] = new
      /\ \A i \in 1 .. Len(leaves) : leaves'[i] = leaves[i]
  BY <1>1, <1>2
<1>4. \/ pos < Len(bundle) /\ phase' = "validation" /\ checkpoint' = checkpoint
      \/ /\ pos >= Len(bundle) /\ phase' = "execution" /\ pos' = 1
         /\ checkpoint'.used = usedPermissionHashes'
  BY <1>1 DEF ValidateOp, NextOp
<1>5. \A i \in 1 .. Len(leaves') :
        AwaitsAt(i)' <=> (i # pos /\ AwaitsAt(i)) \/ (i = pos /\ single)
  BY <1>1, <1>3, <1>4 DEF AwaitsAt
<1>6. \A leaf : Awaits(leaf)' <=> Awaits(leaf) \/ (single /\ leaf = new)
  <2>1. ASSUME NEW leaf, Awaits(leaf)' PROVE Awaits(leaf) \/ (single /\ leaf = new)
    <3>1. PICK i \in 1 .. Len(leaves') : AwaitsAt(i)' /\ leaves'[i] = leaf
      BY <2>1 DEF Awaits
    <3>2. CASE i = pos
      BY <1>3, <1>5, <3>1, <3>2
    <3>3. CASE i # pos
      BY <1>1, <1>3, <1>5, <3>1, <3>3 DEF Awaits
    <3> QED BY <3>2, <3>3
  <2>2. ASSUME NEW leaf, Awaits(leaf) PROVE Awaits(leaf)'
    <3>1. PICK i \in 1 .. Len(leaves) : AwaitsAt(i) /\ leaves[i] = leaf
      BY <2>2 DEF Awaits
    <3>2. i \in 1 .. Len(leaves') /\ i # pos /\ leaves'[i] = leaf
      BY <1>1, <1>3, <3>1
    <3> QED BY <1>5, <3>1, <3>2 DEF Awaits
  <2>3. ASSUME NEW leaf, single, leaf = new PROVE Awaits(leaf)'
    <3>1. PICK i \in 1 .. Len(leaves') : i = pos
      BY <1>3
    <3>2. AwaitsAt(i)' /\ leaves'[i] = leaf
      BY <1>3, <1>5, <2>3, <3>1
    <3> QED BY <3>1, <3>2 DEF Awaits
  <2> QED BY <2>1, <2>2, <2>3
<1>7. /\ single => ~Spent(new)
      /\ \A leaf \in Leaf : Spent(leaf)' <=> Spent(leaf) \/ (single /\ leaf = new)
  <2>1. usedPermissionHashes \in [Account -> SUBSET Leaf]
    BY DEF TypeInv, TypeOKEntryPoint, TypeOK
  <2>2. CASE single
    <3>1. /\ new \notin usedPermissionHashes[op.sender]
          /\ usedPermissionHashes' =
                [usedPermissionHashes EXCEPT ![op.sender] = @ \cup {new}]
      BY <1>1, <2>2 DEF ValidateUserOp, MarkUsed
    <3>2. \A leaf \in Leaf : leaf.account \in Account
      BY DEF Leaf
    <3> QED BY <1>2, <2>1, <2>2, <3>1, <3>2 DEF Spent
  <2>3. CASE ~single
    BY <1>1, <2>3 DEF ValidateUserOp, Spent
  <2> QED BY <2>2, <2>3
<1>8. single => ~Awaits(new)
  BY <1>2, <1>7 DEF AttemptInv
<1>9. ASSUME NEW i \in 1 .. Len(leaves'), NEW j \in 1 .. Len(leaves'),
             AwaitsAt(i)', AwaitsAt(j)', leaves'[i] = leaves'[j]
      PROVE  i = j
  <2>1. ASSUME NEW k \in 1 .. Len(leaves'), k # pos, AwaitsAt(k)'
        PROVE  k \in 1 .. Len(leaves) /\ AwaitsAt(k) /\ leaves'[k] = leaves[k]
    BY <1>1, <1>3, <1>5, <2>1
  <2>2. ASSUME NEW k \in 1 .. Len(leaves'), k # pos, AwaitsAt(k)', leaves'[k] = new, single
        PROVE  FALSE
    BY <1>8, <2>1, <2>2 DEF Awaits
  <2>3. CASE i # pos /\ j # pos
    BY <1>9, <2>1, <2>3 DEF AttemptInv
  <2>4. CASE i = pos /\ j # pos
    BY <1>3, <1>5, <1>9, <2>2, <2>4
  <2>5. CASE i # pos /\ j = pos
    BY <1>3, <1>5, <1>9, <2>2, <2>5
  <2> QED BY <2>3, <2>4, <2>5
<1>10. ASSUME NEW leaf \in Leaf
       PROVE  /\ Awaits(leaf)' => Spent(leaf)'
              /\ attempts'[leaf] = IF Spent(leaf)' /\ ~Awaits(leaf)' THEN 1 ELSE 0
              /\ leaf \in checkpoint'.used[leaf.account]
                   <=> Spent(leaf)' /\ ~(phase' = "validation" /\ Awaits(leaf)')
  <2>1. /\ Awaits(leaf) => Spent(leaf)
        /\ attempts[leaf] = IF Spent(leaf) /\ ~Awaits(leaf) THEN 1 ELSE 0
        /\ leaf \in checkpoint.used[leaf.account] <=> Spent(leaf) /\ ~Awaits(leaf)
    BY <1>1 DEF AttemptInv
  <2>2. /\ Awaits(leaf)' => Spent(leaf)'
        /\ Spent(leaf)' /\ ~Awaits(leaf)' <=> Spent(leaf) /\ ~Awaits(leaf)
    BY <1>6, <1>7, <1>8, <2>1
  <2>3. leaf \in checkpoint'.used[leaf.account]
          <=> Spent(leaf)' /\ ~(phase' = "validation" /\ Awaits(leaf)')
    BY <1>4, <2>1, <2>2 DEF Spent
  <2> QED BY <1>1, <2>1, <2>2, <2>3
<1> QED BY <1>9, <1>10 DEF AttemptInv

LEMMA ExecuteKeepsAttempts ==
    ASSUME TypeInv, TypeInv', AttemptInv, ExecuteOp
    PROVE  AttemptInv'
<1> DEFINE op == bundle[pos]
           done == leaves[pos]
           single == op.perm.singleUse
<1> USE Position
<1>1. /\ op \in UserOp /\ phase = "execution" /\ pos <= Len(leaves) /\ Len(leaves) = Len(bundle)
      /\ checkpoint' = checkpoint
      /\ attempts' = IF single /\ attempts[done] < 2
                     THEN [attempts EXCEPT ![done] = @ + 1] ELSE attempts
  BY DEF ExecuteOp, TypeInv, PositionInv
<1>2. usedPermissionHashes' = usedPermissionHashes
  BY <1>1, EffectStep DEF ExecuteOp
<1>3. \/ /\ pos < Len(bundle) /\ phase' = "execution" /\ pos' = pos + 1
         /\ leaves' = leaves /\ bundle' = bundle
      \/ pos = Len(bundle) /\ phase' = "idle" /\ leaves' = <<>>
  BY <1>1 DEF ExecuteOp, NextOp
<1>4. AwaitsAt(pos) <=> single
  BY <1>1 DEF AwaitsAt
<1>5. \A i \in 1 .. Len(leaves) :
        i \in 1 .. Len(leaves') /\ AwaitsAt(i)' <=> AwaitsAt(i) /\ i # pos
  <2>1. CASE pos < Len(bundle)
    BY <1>1, <1>3, <2>1 DEF AwaitsAt
  <2>2. CASE pos = Len(bundle)
    <3>1. Len(leaves') = 0
      BY <1>3, <2>2, EmptySeq
    <3> QED BY <1>1, <2>2, <3>1 DEF AwaitsAt
  <2> QED BY <1>1, <2>1, <2>2
<1>6. \A i \in 1 .. Len(leaves') : i \in 1 .. Len(leaves) /\ leaves'[i] = leaves[i]
  <2>1. CASE pos < Len(bundle)
    BY <1>3, <2>1
  <2>2. CASE pos = Len(bundle)
    <3>1. Len(leaves') = 0
      BY <1>3, <2>2, EmptySeq
    <3> QED BY <3>1
  <2> QED BY <1>1, <2>1, <2>2
<1>7. \A leaf : Awaits(leaf)' <=> Awaits(leaf) /\ ~(single /\ leaf = done)
  <2>1. ASSUME NEW leaf, Awaits(leaf)' PROVE Awaits(leaf) /\ ~(single /\ leaf = done)
    <3>1. PICK i \in 1 .. Len(leaves') : AwaitsAt(i)' /\ leaves'[i] = leaf
      BY <2>1 DEF Awaits
    <3>2. i \in 1 .. Len(leaves) /\ AwaitsAt(i) /\ i # pos /\ leaves[i] = leaf
      BY <1>5, <1>6, <3>1
    <3>3. pos \in 1 .. Len(leaves)
      BY <1>1
    <3>4. ~(single /\ leaf = done)
      BY <1>4, <3>2, <3>3 DEF AttemptInv
    <3> QED BY <3>2, <3>4 DEF Awaits
  <2>2. ASSUME NEW leaf, Awaits(leaf), ~(single /\ leaf = done) PROVE Awaits(leaf)'
    <3>1. PICK i \in 1 .. Len(leaves) : AwaitsAt(i) /\ leaves[i] = leaf
      BY <2>2 DEF Awaits
    <3>2. i # pos
      BY <1>4, <2>2, <3>1
    <3> QED BY <1>5, <1>6, <3>1, <3>2 DEF Awaits
  <2> QED BY <2>1, <2>2
<1>8. done \in Leaf /\ attempts \in [Leaf -> 0 .. 2]
  BY <1>1 DEF TypeInv, TypeOKEntryPoint
<1>9. single => Awaits(done) /\ Spent(done) /\ attempts[done] = 0
  <2>1. pos \in 1 .. Len(leaves)
    BY <1>1
  <2>2. single => Awaits(done)
    BY <1>4, <2>1 DEF Awaits
  <2> QED BY <1>8, <2>2 DEF AttemptInv
<1>10. \A leaf \in Leaf : Spent(leaf)' <=> Spent(leaf)
  BY <1>2 DEF Spent
<1>11. ASSUME NEW leaf \in Leaf
       PROVE  attempts'[leaf] = IF single /\ leaf = done THEN 1 ELSE attempts[leaf]
  <2>1. CASE single
    <3>1. attempts[done] = 0
      BY <1>9, <2>1
    <3>2. attempts' = [attempts EXCEPT ![done] = attempts[done] + 1]
      BY <1>1, <2>1, <3>1
    <3>3. attempts'[done] = 1 /\ (leaf # done => attempts'[leaf] = attempts[leaf])
      BY <1>8, <3>1, <3>2
    <3> QED BY <2>1, <3>3
  <2>2. CASE ~single
    BY <1>1, <2>2
  <2> QED BY <2>1, <2>2
<1>12. ASSUME NEW leaf \in Leaf
       PROVE  /\ Awaits(leaf)' => Spent(leaf)'
              /\ attempts'[leaf] = IF Spent(leaf)' /\ ~Awaits(leaf)' THEN 1 ELSE 0
              /\ leaf \in checkpoint'.used[leaf.account]
                   <=> Spent(leaf)' /\ ~(phase' = "validation" /\ Awaits(leaf)')
  <2>1. /\ Awaits(leaf) => Spent(leaf)
        /\ attempts[leaf] = IF Spent(leaf) /\ ~Awaits(leaf) THEN 1 ELSE 0
        /\ leaf \in checkpoint.used[leaf.account] <=> Spent(leaf)
    BY <1>1 DEF AttemptInv
  <2>2. phase' # "validation"
    BY <1>3
  <2> QED BY <1>1, <1>7, <1>9, <1>10, <1>11, <2>1, <2>2
<1>13. ASSUME NEW i \in 1 .. Len(leaves'), NEW j \in 1 .. Len(leaves'),
              AwaitsAt(i)', AwaitsAt(j)', leaves'[i] = leaves'[j]
       PROVE  i = j
  BY <1>5, <1>6, <1>13 DEF AttemptInv
<1> QED BY <1>12, <1>13 DEF AttemptInv

LEMMA FailKeepsAttempts ==
    ASSUME TypeInv, AttemptInv, FailBundle
    PROVE  AttemptInv'
<1>1. /\ phase = "validation" /\ phase' = "idle" /\ leaves' = <<>> /\ attempts' = attempts
      /\ checkpoint' = checkpoint /\ usedPermissionHashes' = checkpoint.used
  BY DEF FailBundle
<1>2. Len(leaves') = 0
  BY <1>1, EmptySeq
<1>3. \A leaf : ~Awaits(leaf)'
  BY <1>2 DEF Awaits
<1>4. \A leaf \in Leaf : Spent(leaf)' <=> Spent(leaf) /\ ~Awaits(leaf)
  BY <1>1 DEF AttemptInv, Spent
<1>5. \A leaf \in Leaf : leaf \in checkpoint'.used[leaf.account] <=> Spent(leaf)'
  BY <1>1 DEF Spent
<1> QED BY <1>1, <1>2, <1>3, <1>4, <1>5 DEF AttemptInv

\* A step outside bundles, or that leaves bundle and registry alone.
LEMMA OthersKeepAttempts ==
    ASSUME AttemptInv, usedPermissionHashes' = usedPermissionHashes,
           UNCHANGED <<checkpoint, attempts>>,
           \/ UNCHANGED <<phase, pos, bundle, leaves>>
           \/ leaves = <<>> /\ leaves' = <<>> /\ phase = "idle"
    PROVE  AttemptInv'
<1>1. \A leaf \in Leaf : Spent(leaf)' <=> Spent(leaf)
  BY DEF Spent
<1>2. CASE UNCHANGED <<phase, pos, bundle, leaves>>
  <2>1. \A i : AwaitsAt(i)' <=> AwaitsAt(i)
    BY <1>2 DEF AwaitsAt
  <2>2. \A leaf : Awaits(leaf)' <=> Awaits(leaf)
    BY <1>2, <2>1 DEF Awaits
  <2> QED BY <1>1, <1>2, <2>1, <2>2 DEF AttemptInv
<1>3. CASE leaves = <<>> /\ leaves' = <<>> /\ phase = "idle"
  <2>1. Len(leaves) = 0 /\ Len(leaves') = 0
    BY <1>3, EmptySeq
  <2>2. \A leaf : ~Awaits(leaf) /\ ~Awaits(leaf)'
    BY <2>1 DEF Awaits
  <2> QED BY <1>1, <1>3, <2>1, <2>2 DEF AttemptInv
<1> QED BY <1>2, <1>3

LEMMA AttemptInvariant == SpecEntryPoint => [](TypeInv /\ AttemptInv)
<1>1. InitEntryPoint => AttemptInv
  <2> SUFFICES ASSUME InitEntryPoint PROVE AttemptInv
    OBVIOUS
  <2>1. Len(leaves) = 0
    BY EmptySeq DEF InitEntryPoint
  <2>2. \A leaf : ~Awaits(leaf)
    BY <2>1 DEF Awaits
  <2>3. \A leaf \in Leaf : leaf.account \in Account
    BY DEF Leaf
  <2> QED BY <2>1, <2>2, <2>3 DEF InitEntryPoint, Init, AttemptInv, Spent
<1>2. TypeInv /\ TypeInv' /\ AttemptInv /\ [NextEntryPoint]_allVars => AttemptInv'
  <2> SUFFICES ASSUME TypeInv, TypeInv', AttemptInv, [NextEntryPoint]_allVars
               PROVE  AttemptInv'
    OBVIOUS
  <2>1. CASE \E ops \in Bundles : HandleOps(ops)
    BY <2>1, OthersKeepAttempts DEF HandleOps, TypeInv, PositionInv, vars
  <2>2. CASE ValidateOp
    BY <2>2, ValidateKeepsAttempts
  <2>3. CASE FailBundle
    BY <2>3, FailKeepsAttempts
  <2>4. CASE ExecuteOp
    BY <2>4, ExecuteKeepsAttempts
  <2>5. CASE Administer
    BY <2>5, AdministerStep, OthersKeepAttempts DEF bundleVars
  <2>6. CASE Environment
    BY <2>6, EnvironmentStep, OthersKeepAttempts DEF bundleVars
  <2>7. CASE UNCHANGED allVars
    BY <2>7, OthersKeepAttempts DEF allVars, bundleVars, vars
  <2> QED BY <2>1, <2>2, <2>3, <2>4, <2>5, <2>6, <2>7 DEF NextEntryPoint
<1> QED BY <1>1, <1>2, EntryPointTypeCorrect, PTL DEF SpecEntryPoint

(***************************************************************************)
(* Between bundles, what is spent was attempted, once, and nothing else was.  *)
(***************************************************************************)
THEOREM AttemptsHold == SpecEntryPoint => []SpentMeansOneAttempt
<1>1. TypeInv /\ AttemptInv => SpentMeansOneAttempt
  <2> SUFFICES ASSUME TypeInv, AttemptInv, phase = "idle", NEW leaf \in Leaf
               PROVE  attempts[leaf] =
                        IF leaf \in usedPermissionHashes[leaf.account] THEN 1 ELSE 0
    BY DEF SpentMeansOneAttempt
  <2>1. ~Awaits(leaf)
    BY EmptySeq DEF TypeInv, PositionInv, Awaits
  <2> QED BY <2>1 DEF AttemptInv, Spent
<1> QED BY <1>1, AttemptInvariant, PTL
=============================================================================
