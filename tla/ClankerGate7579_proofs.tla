----------------------- MODULE ClankerGate7579_proofs -----------------------
(***************************************************************************)
(* Theorems about ClankerGate7579 and about ModuleDeployment7579, for every   *)
(* value of their constants.  What the gate promises is proved of the gate     *)
(* given any roots at all, GateSpec: the gate alone and the gate with its       *)
(* clients are both instances of it.                                         *)
(***************************************************************************)
EXTENDS ModuleDeployment7579, TLAPS

GateNext ==
    \/ \E account \in Account :
         \/ \E o \in SignerChoice, r \in SUBSET Leaf, v \in ValidatorChoice :
              OnInstall(account, o, r, v)
         \/ OnUninstall(account)
         \/ \E newOwner \in OwnerChoice : RotateOwner(account, newOwner)
    \/ \E caller \in Address, account \in Account :
         \/ \E root \in SUBSET Leaf : SetPolicyRoot(caller, account, root)
         \/ \E newOwner \in SignerChoice : SetOwner(caller, account, newOwner)
         \/ \E admin \in AdminChoice : SetPolicyAdmin(caller, account, admin)
    \/ \E op \in UserOp : ValidateUserOpSigFailed(op) \/ ValidateUserOp(op)
    \/ Tick

GateSpec == Init /\ [][GateNext]_vars

LEMMA NextIsGateNext == Next => GateNext
BY GateAssumption DEF Next, GateNext

(***************************************************************************)
(* The leaf that an account's next operation is checked against is a leaf.    *)
(***************************************************************************)
LEMMA LeafOfType ==
    ASSUME TypeOK, NEW op \in UserOp
    PROVE  /\ op.sender \in Account
           /\ op.perm \in Permission
           /\ LeafOf(op) \in Leaf
           /\ LeafOf(op).account = op.sender
           /\ LeafOf(op).nonce = accountConfigs[op.sender].nonce
<1>1. op.sender \in Account /\ op.perm \in Permission
  BY GateAssumption
<1>2. accountConfigs[op.sender].nonce \in Epoch
  BY <1>1 DEF TypeOK, AccountConfig
<1> QED BY <1>1, <1>2 DEF LeafOf, HashPermissionWithAccount, Leaf

LEMMA LiveLeavesType ==
    ASSUME TypeOK, NEW account \in Account
    PROVE  LiveLeaves(account) \in SUBSET Leaf
BY DEF TypeOK, LiveLeaves, AccountConfig

(***************************************************************************)
(* A setter leaves everything but the configuration of its account alone, and *)
(* that of an account which is installed, in the same epoch.                 *)
(***************************************************************************)
LEMMA SetterFacts ==
    ASSUME TypeOK, NEW caller \in Address, NEW account \in Account,
           \/ \E root \in SUBSET Leaf : SetPolicyRoot(caller, account, root)
           \/ \E newOwner \in SignerChoice : SetOwner(caller, account, newOwner)
           \/ \E admin \in AdminChoice : SetPolicyAdmin(caller, account, admin)
    PROVE  \E config \in AccountConfig :
             /\ Administer(caller, account, config)
             /\ config.installed
             /\ config.nonce = accountConfigs[account].nonce
<1>1. accountConfigs[account] \in AccountConfig /\ accountConfigs[account].installed
  BY DEF TypeOK, SetPolicyRoot, SetOwner, SetPolicyAdmin, Administer, MayAdminister
<1>2. CASE \E root \in SUBSET Leaf : SetPolicyRoot(caller, account, root)
  <2>1. PICK root \in SUBSET Leaf : SetPolicyRoot(caller, account, root)
    BY <1>2
  <2>2. [accountConfigs[account] EXCEPT !.policyRoot = root] \in AccountConfig
    BY <1>1, GateAssumption DEF AccountConfig
  <2> QED BY <1>1, <2>1, <2>2 DEF SetPolicyRoot, AccountConfig
<1>3. CASE \E newOwner \in SignerChoice : SetOwner(caller, account, newOwner)
  <2>1. PICK newOwner \in SignerChoice : SetOwner(caller, account, newOwner)
    BY <1>3
  <2>2. [accountConfigs[account] EXCEPT !.owner = newOwner] \in AccountConfig
    BY <1>1 DEF AccountConfig
  <2> QED BY <1>1, <2>1, <2>2 DEF SetOwner, AccountConfig
<1>4. CASE \E admin \in AdminChoice : SetPolicyAdmin(caller, account, admin)
  <2>1. PICK admin \in AdminChoice : SetPolicyAdmin(caller, account, admin)
    BY <1>4
  <2>2. [accountConfigs[account] EXCEPT !.policyAdmin = admin] \in AccountConfig
    BY <1>1, GateAssumption DEF AccountConfig
  <2> QED BY <1>1, <2>1, <2>2 DEF SetPolicyAdmin, AccountConfig
<1> QED BY <1>2, <1>3, <1>4

(***************************************************************************)
(* Type correctness: configurations are records, epochs stay in their bound.  *)
(***************************************************************************)
LEMMA TypeStep ==
    /\ Init => TypeOK
    /\ TypeOK /\ [GateNext]_vars => TypeOK'
<1>1. Init => TypeOK
  <2>1. NoConfig \in AccountConfig
    BY GateAssumption DEF NoConfig, AccountConfig, NoRoot, Epoch
  <2> QED BY <2>1, GateAssumption DEF Init, TypeOK, NoReceipt, Receipt, Epoch
<1>2. TypeOK /\ [GateNext]_vars => TypeOK'
  <2> SUFFICES ASSUME TypeOK, [GateNext]_vars PROVE TypeOK'
    OBVIOUS
  <2>1. ASSUME NEW account \in Account, NEW o \in SignerChoice, NEW r \in SUBSET Leaf,
               NEW v \in ValidatorChoice, OnInstall(account, o, r, v)
        PROVE  TypeOK'
    <3>1. FreshEpoch(account) \in Epoch
      BY <2>1, GateAssumption DEF OnInstall, FreshEpoch, TypeOK, Epoch
    <3>2. [policyRoot |-> r, nonce |-> FreshEpoch(account), owner |-> o,
           installed |-> TRUE, signatureValidator |-> v,
           policyAdmin |-> account] \in AccountConfig
      BY <3>1, GateAssumption DEF AccountConfig
    <3>3. accountConfigs' \in [Account -> AccountConfig] /\ installEpoch' \in [Account -> Epoch]
      BY <2>1, <3>1, <3>2 DEF OnInstall, TypeOK
    <3> QED BY <2>1, <3>3, GateAssumption DEF OnInstall, TypeOK, Receipt
  <2>2. ASSUME NEW account \in Account, OnUninstall(account)
        PROVE  TypeOK'
    <3>1. NoConfig \in AccountConfig
      BY GateAssumption DEF NoConfig, AccountConfig, NoRoot, Epoch
    <3>2. accountConfigs' \in [Account -> AccountConfig] /\ retired' \in SUBSET Leaf
      BY <2>2, <3>1, LiveLeavesType DEF OnUninstall, TypeOK
    <3> QED BY <2>2, <3>2, GateAssumption DEF OnUninstall, TypeOK, Receipt
  <2>3. ASSUME NEW caller \in Address, NEW account \in Account,
               \/ \E root \in SUBSET Leaf : SetPolicyRoot(caller, account, root)
               \/ \E newOwner \in SignerChoice : SetOwner(caller, account, newOwner)
               \/ \E admin \in AdminChoice : SetPolicyAdmin(caller, account, admin)
        PROVE  TypeOK'
    BY <2>3, SetterFacts DEF Administer, TypeOK, Receipt
  <2>4. ASSUME NEW op \in UserOp, ValidateUserOpSigFailed(op)
        PROVE  TypeOK'
    BY <2>4, GateAssumption DEF ValidateUserOpSigFailed, TypeOK, Receipt
  <2>5. ASSUME NEW op \in UserOp, ValidateUserOp(op)
        PROVE  TypeOK'
    <3>1. LeafOf(op) \in Leaf /\ op.sender \in Account
      BY LeafOfType
    <3>2. Count(LeafOf(op)) \in [Leaf -> 0 .. 2]
      BY <3>1 DEF Count, TypeOK
    <3>3. usedPermissionHashes' \in [Account -> SUBSET Leaf] /\ uses' \in [Leaf -> 0 .. 2]
      BY <2>5, <3>1, <3>2 DEF ValidateUserOp, MarkUsed, TypeOK
    <3> QED BY <2>5, <3>1, <3>3, GateAssumption DEF ValidateUserOp, TypeOK, Receipt
  <2>6. ASSUME NEW account \in Account, NEW newOwner \in OwnerChoice,
               RotateOwner(account, newOwner)
        PROVE  TypeOK'
    BY <2>6 DEF RotateOwner, TypeOK, NoReceipt, Receipt
  <2>7. CASE Tick
    BY <2>7, GateAssumption DEF Tick, TypeOK, NoReceipt, Receipt
  <2>8. CASE UNCHANGED vars
    BY <2>8 DEF vars, TypeOK
  <2> QED BY <2>1, <2>2, <2>3, <2>4, <2>5, <2>6, <2>7, <2>8 DEF GateNext
<1> QED BY <1>1, <1>2
---------------------------------------------------------------------------
(***************************************************************************)
(* The configurations, the registry and the history of accepted validations   *)
(* agree, and every retired leaf is of an install that is over.              *)
(***************************************************************************)
LEMMA LedgerStep ==
    /\ Init => LedgerInv
    /\ LedgerInv /\ [GateNext]_vars => LedgerInv'
<1> DEFINE Inv == ConfigMatchesEpoch /\ UsesMatchSpent /\ RetiredEpochsOver
<1>1. Init => Inv
  BY DEF Init, ConfigMatchesEpoch, UsesMatchSpent, RetiredEpochsOver, Leaf, NoConfig
<1>2. TypeOK /\ Inv /\ [GateNext]_vars => Inv'
  <2> SUFFICES ASSUME TypeOK, Inv, [GateNext]_vars PROVE Inv'
    OBVIOUS
  <2> USE DEF Epoch
  <2>1. ASSUME NEW account \in Account, NEW o \in SignerChoice, NEW r \in SUBSET Leaf,
               NEW v \in ValidatorChoice, OnInstall(account, o, r, v)
        PROVE  Inv'
    <3>1. ConfigMatchesEpoch'
      BY <2>1 DEF OnInstall, ConfigMatchesEpoch, TypeOK
    <3>2. ASSUME NEW leaf \in retired
          PROVE  leaf.nonce < installEpoch'[leaf.account]
                 \/ (leaf.account # account /\ leaf.nonce <= installEpoch'[leaf.account])
      <4>1. /\ leaf.account \in Account
            /\ leaf.nonce \in Nat
            /\ installEpoch[leaf.account] \in Nat
            /\ leaf.nonce <= installEpoch[leaf.account]
        BY GateAssumption DEF TypeOK, Leaf, RetiredEpochsOver
      <4> QED BY <2>1, <4>1 DEF OnInstall, FreshEpoch, TypeOK
    <3>3. RetiredEpochsOver'
      <4> SUFFICES ASSUME NEW leaf \in retired
                   PROVE  /\ leaf.nonce <= installEpoch'[leaf.account]
                          /\ leaf.nonce = installEpoch'[leaf.account]
                               => ~accountConfigs'[leaf.account].installed
        BY <2>1 DEF OnInstall, RetiredEpochsOver
      <4>1. leaf.account \in Account /\ leaf.nonce \in Nat
            /\ installEpoch'[leaf.account] \in Nat
        BY <2>1, GateAssumption DEF OnInstall, FreshEpoch, TypeOK, Leaf
      <4>2. CASE leaf.account # account
        BY <2>1, <3>2, <4>1, <4>2 DEF OnInstall, TypeOK, RetiredEpochsOver
      <4>3. CASE leaf.account = account
        BY <3>2, <4>1, <4>3
      <4> QED BY <4>2, <4>3
    <3> QED BY <2>1, <3>1, <3>3 DEF OnInstall, UsesMatchSpent
  <2>2. ASSUME NEW account \in Account, OnUninstall(account)
        PROVE  Inv'
    <3>1. ConfigMatchesEpoch'
      BY <2>2 DEF OnUninstall, ConfigMatchesEpoch, TypeOK, NoConfig
    <3>2. ASSUME NEW leaf \in retired'
          PROVE  /\ leaf.nonce <= installEpoch[leaf.account]
                 /\ leaf.nonce = installEpoch[leaf.account]
                      => ~accountConfigs'[leaf.account].installed
      <4>1. CASE leaf \in retired
        <5>1. leaf.account \in Account
          BY <4>1 DEF TypeOK, Leaf
        <5> QED BY <2>2, <4>1, <5>1 DEF OnUninstall, RetiredEpochsOver, TypeOK, NoConfig
      <4>2. CASE leaf \in LiveLeaves(account)
        <5>1. leaf.account = account /\ leaf.nonce = installEpoch[account]
          BY <2>2, <4>2 DEF OnUninstall, LiveLeaves, ConfigMatchesEpoch
        <5>2. ~accountConfigs'[account].installed
          BY <2>2 DEF OnUninstall, TypeOK, NoConfig
        <5>3. installEpoch[account] \in Nat
          BY GateAssumption DEF TypeOK
        <5> QED BY <5>1, <5>2, <5>3
      <4> QED BY <2>2, <4>1, <4>2 DEF OnUninstall
    <3>3. RetiredEpochsOver'
      BY <2>2, <3>2 DEF OnUninstall, RetiredEpochsOver
    <3> QED BY <2>2, <3>1, <3>3 DEF OnUninstall, UsesMatchSpent
  <2>3. ASSUME NEW caller \in Address, NEW account \in Account,
               \/ \E root \in SUBSET Leaf : SetPolicyRoot(caller, account, root)
               \/ \E newOwner \in SignerChoice : SetOwner(caller, account, newOwner)
               \/ \E admin \in AdminChoice : SetPolicyAdmin(caller, account, admin)
        PROVE  Inv'
    <3>1. PICK config \in AccountConfig :
            /\ Administer(caller, account, config)
            /\ config.installed
            /\ config.nonce = accountConfigs[account].nonce
      BY <2>3, SetterFacts
    <3>2. accountConfigs[account].installed
      BY <3>1 DEF Administer, MayAdminister
    <3>3. /\ accountConfigs' = [accountConfigs EXCEPT ![account] = config]
          /\ UNCHANGED <<installEpoch, usedPermissionHashes, uses, retired>>
      BY <3>1 DEF Administer
    <3>4. ConfigMatchesEpoch'
      BY <3>1, <3>2, <3>3 DEF ConfigMatchesEpoch, TypeOK
    <3>5. \A a \in Account : accountConfigs'[a].installed = accountConfigs[a].installed
      BY <3>1, <3>2, <3>3 DEF TypeOK, AccountConfig
    <3>6. RetiredEpochsOver'
      BY <3>3, <3>5 DEF RetiredEpochsOver, TypeOK, Leaf
    <3> QED BY <3>3, <3>4, <3>6 DEF UsesMatchSpent
  <2>4. ASSUME NEW op \in UserOp, ValidateUserOpSigFailed(op)
        PROVE  Inv'
    BY <2>4 DEF ValidateUserOpSigFailed, ConfigMatchesEpoch, UsesMatchSpent, RetiredEpochsOver
  <2>5. ASSUME NEW op \in UserOp, ValidateUserOp(op)
        PROVE  Inv'
    <3>1. ConfigMatchesEpoch' /\ RetiredEpochsOver'
      BY <2>5 DEF ValidateUserOp, ConfigMatchesEpoch, RetiredEpochsOver
    <3>2. CASE ~op.perm.singleUse
      BY <2>5, <3>1, <3>2 DEF ValidateUserOp, UsesMatchSpent
    <3>3. CASE op.perm.singleUse
      <4> DEFINE spent == LeafOf(op)
      <4>1. spent \in Leaf /\ spent.account = op.sender /\ op.sender \in Account
        BY LeafOfType
      <4>2. /\ spent \notin usedPermissionHashes[op.sender]
            /\ usedPermissionHashes' =
                 [usedPermissionHashes EXCEPT ![op.sender] = @ \cup {spent}]
            /\ uses' = Count(spent)
        BY <2>5, <3>3 DEF ValidateUserOp, MarkUsed
      <4>3. uses[spent] = 0
        BY <4>1, <4>2 DEF UsesMatchSpent
      <4>4. uses' = [uses EXCEPT ![spent] = 1]
        BY <4>1, <4>2, <4>3 DEF Count, TypeOK
      <4>5. ASSUME NEW leaf \in Leaf
            PROVE  uses'[leaf] = IF leaf \in usedPermissionHashes'[leaf.account] THEN 1 ELSE 0
        <5>1. leaf.account \in Account
          BY DEF Leaf
        <5>2. CASE leaf = spent
          BY <4>1, <4>2, <4>4, <5>2 DEF TypeOK
        <5>3. CASE leaf # spent
          BY <4>1, <4>2, <4>4, <5>1, <5>3 DEF TypeOK, UsesMatchSpent
        <5> QED BY <5>2, <5>3
      <4> QED BY <3>1, <4>5 DEF UsesMatchSpent
    <3> QED BY <3>2, <3>3
  <2>6. CASE \/ \E account \in Account, newOwner \in OwnerChoice :
                    RotateOwner(account, newOwner)
             \/ Tick
             \/ UNCHANGED vars
    BY <2>6 DEF RotateOwner, Tick, vars, ConfigMatchesEpoch, UsesMatchSpent, RetiredEpochsOver
  <2> QED BY <2>1, <2>2, <2>3, <2>4, <2>5, <2>6 DEF GateNext
<1> QED BY <1>1, <1>2, TypeStep DEF LedgerInv

LEMMA GateLedger == GateSpec => []LedgerInv
BY LedgerStep, PTL DEF GateSpec

LEMMA LedgerMeansOnce == LedgerInv => SingleUseOnce
BY DEF LedgerInv, UsesMatchSpent, SingleUseOnce

---------------------------------------------------------------------------
(***************************************************************************)
(* What lives, spelt out leaf by leaf: it is of the install under way, which  *)
(* no retired leaf is.                                                       *)
(***************************************************************************)
LEMMA LiveLeaf ==
    LedgerInv => \A leaf : leaf \in Live
                <=> /\ leaf \in Leaf
                    /\ leaf \in accountConfigs[leaf.account].policyRoot
                    /\ leaf.nonce = accountConfigs[leaf.account].nonce
BY DEF LedgerInv, TypeOK, AccountConfig, Live, LiveLeaves, Leaf

LEMMA NothingRetiredLives ==
    LedgerInv => Live \cap retired = {}
<1> SUFFICES ASSUME LedgerInv, NEW leaf \in Live, leaf \in retired
             PROVE  FALSE
  OBVIOUS
<1>1. /\ leaf.account \in Account
      /\ leaf \in accountConfigs[leaf.account].policyRoot
      /\ leaf.nonce = accountConfigs[leaf.account].nonce
  BY LiveLeaf DEF Leaf
<1>2. accountConfigs[leaf.account].installed
  BY <1>1 DEF LedgerInv, ConfigMatchesEpoch, NoConfig, NoRoot
<1>3. leaf.nonce = installEpoch[leaf.account]
  BY <1>1, <1>2 DEF LedgerInv, ConfigMatchesEpoch
<1> QED BY <1>2, <1>3 DEF LedgerInv, RetiredEpochsOver

(***************************************************************************)
(* What validateUserOp accepts rests on a leaf that lives.                    *)
(***************************************************************************)
LEMMA AcceptedLives ==
    ASSUME LedgerInv, NEW op \in UserOp, ValidateUserOp(op)
    PROVE  LeafOf(op) \in Live /\ LeafOf(op) \in LiveLeaves(op.sender)
<1>1. /\ LeafOf(op) \in Leaf
      /\ op.sender \in Account
      /\ LeafOf(op).account = op.sender
      /\ LeafOf(op).nonce = accountConfigs[op.sender].nonce
  BY LeafOfType DEF LedgerInv
<1>2. LeafOf(op) \in accountConfigs[op.sender].policyRoot
  BY DEF ValidateUserOp, Validates, PolicyAllows, VerifyMerkleProof, LeafOf
<1> QED BY <1>1, <1>2 DEF Live, LiveLeaves

(***************************************************************************)
(* A permission that lived when its install ended is never accepted again.    *)
(***************************************************************************)
LEMMA GateRetirement == GateSpec => RetiredStaysRetired
<1>1. LedgerInv /\ [GateNext]_vars
        => [receipt'.kind = "accepted"
              => \A op \in receipt'.ops : LeafOf(op) \in LiveLeaves(op.sender) \ retired]_vars
  <2> SUFFICES ASSUME LedgerInv, [GateNext]_vars, vars' # vars, receipt'.kind = "accepted",
                      NEW op \in receipt'.ops
               PROVE  LeafOf(op) \in LiveLeaves(op.sender) \ retired
    OBVIOUS
  <2>1. PICK sent \in UserOp : ValidateUserOp(sent)
    <3>1. ASSUME NEW account \in Account,
                 \/ OnUninstall(account)
                 \/ \E o \in SignerChoice, r \in SUBSET Leaf, v \in ValidatorChoice :
                      OnInstall(account, o, r, v)
          PROVE  FALSE
      BY <3>1 DEF OnInstall, OnUninstall, Receipt
    <3>2. ASSUME NEW caller \in Address, NEW account \in Account,
                 \/ \E root \in SUBSET Leaf : SetPolicyRoot(caller, account, root)
                 \/ \E newOwner \in SignerChoice : SetOwner(caller, account, newOwner)
                 \/ \E admin \in AdminChoice : SetPolicyAdmin(caller, account, admin)
          PROVE  FALSE
      BY <3>2 DEF SetPolicyRoot, SetOwner, SetPolicyAdmin, Administer, Receipt
    <3>3. ASSUME NEW other \in UserOp, ValidateUserOpSigFailed(other) PROVE FALSE
      BY <3>3 DEF ValidateUserOpSigFailed, Receipt
    <3>4. ASSUME Tick \/ \E account \in Account, newOwner \in OwnerChoice :
                            RotateOwner(account, newOwner)
          PROVE  FALSE
      BY <3>4 DEF Tick, RotateOwner, NoReceipt, Receipt
    <3> QED BY <3>1, <3>2, <3>3, <3>4 DEF GateNext
  <2>2. op = sent
    BY <2>1 DEF ValidateUserOp, Receipt
  <2> QED BY <2>1, <2>2, AcceptedLives, NothingRetiredLives
<1> QED BY <1>1, GateLedger, PTL DEF GateSpec, RetiredStaysRetired

---------------------------------------------------------------------------
(***************************************************************************)
(* What an account's operations and signatures are checked against is its own *)
(* configuration and registry, its owner() and the clock.                    *)
(***************************************************************************)
LEMMA AcceptableLocal ==
    ASSUME NEW op, accountConfigs'[op.sender] = accountConfigs[op.sender],
           owner' = owner, now' = now,
           usedPermissionHashes'[op.sender] = usedPermissionHashes[op.sender]
    PROVE  /\ Acceptable(op)' = Acceptable(op)
           /\ IsValidSignature(op.sender, op.signer)' = IsValidSignature(op.sender, op.signer)
<1>1. LeafOf(op)' = LeafOf(op)
  BY DEF LeafOf, HashPermissionWithAccount
<1>2. ResolveSigner(op.sender)' = ResolveSigner(op.sender)
  BY DEF ResolveSigner
<1>3. Validates(op)' = Validates(op)
  BY <1>2 DEF Validates, PolicyAllows, VerifyMerkleProof, HashPermissionWithAccount
<1> QED BY <1>1, <1>2, <1>3 DEF Acceptable, SignatureValid, IsValidSignature

(***************************************************************************)
(* Only an account and its admin change what the gate does for the account.  *)
(***************************************************************************)
LEMMA GateStrangers == GateSpec => StrangersChangeNothing
<1> DEFINE Untouched(a) ==
      (receipt'.kind # "environment" /\ receipt'.by \notin {a, accountConfigs[a].policyAdmin})
         => /\ accountConfigs'[a] = accountConfigs[a]
            /\ \A op \in UserOp :
                 op.sender = a =>
                   /\ Acceptable(op)' = Acceptable(op)
                   /\ IsValidSignature(a, op.signer)' = IsValidSignature(a, op.signer)
<1>1. ASSUME TypeOK, [GateNext]_vars, NEW a \in Account, vars' # vars,
             receipt'.kind # "environment",
             receipt'.by \notin {a, accountConfigs[a].policyAdmin}
      PROVE  /\ accountConfigs'[a] = accountConfigs[a]
             /\ \A op \in UserOp :
                  op.sender = a =>
                    /\ Acceptable(op)' = Acceptable(op)
                    /\ IsValidSignature(a, op.signer)' = IsValidSignature(a, op.signer)
  <2> SUFFICES /\ accountConfigs'[a] = accountConfigs[a]
               /\ usedPermissionHashes'[a] = usedPermissionHashes[a]
               /\ owner' = owner
               /\ now' = now
    BY AcceptableLocal
  <2>1. CASE \E account \in Account, o \in SignerChoice, r \in SUBSET Leaf, v \in ValidatorChoice :
               OnInstall(account, o, r, v)
    BY <1>1, <2>1 DEF OnInstall, Receipt, TypeOK
  <2>2. CASE \E account \in Account : OnUninstall(account)
    BY <1>1, <2>2 DEF OnUninstall, Receipt, TypeOK
  <2>3. ASSUME NEW caller \in Address, NEW account \in Account, NEW config,
               Administer(caller, account, config)
        PROVE  /\ accountConfigs'[a] = accountConfigs[a]
               /\ UNCHANGED <<usedPermissionHashes, owner, now>>
    <3>1. account # a
      BY <1>1, <2>3 DEF Administer, MayAdminister, Receipt
    <3> QED BY <1>1, <2>3, <3>1 DEF Administer, TypeOK
  <2>4. CASE \E caller \in Address, account \in Account :
               \/ \E root \in SUBSET Leaf : SetPolicyRoot(caller, account, root)
               \/ \E newOwner \in SignerChoice : SetOwner(caller, account, newOwner)
               \/ \E admin \in AdminChoice : SetPolicyAdmin(caller, account, admin)
    BY <2>3, <2>4 DEF SetPolicyRoot, SetOwner, SetPolicyAdmin
  <2>5. CASE \E op \in UserOp : ValidateUserOpSigFailed(op)
    BY <2>5 DEF ValidateUserOpSigFailed
  <2>6. CASE \E op \in UserOp : ValidateUserOp(op)
    <3>1. PICK op \in UserOp : ValidateUserOp(op)
      BY <2>6
    <3>2. op.sender # a
      BY <1>1, <3>1 DEF ValidateUserOp, Receipt
    <3> QED BY <1>1, <3>1, <3>2, GateAssumption DEF ValidateUserOp, MarkUsed, TypeOK
  <2> QED BY <1>1, <2>1, <2>2, <2>4, <2>5, <2>6
          DEF GateNext, RotateOwner, Tick, NoReceipt, Receipt
<1>2. LedgerInv /\ [GateNext]_vars => [\A a \in Account : Untouched(a)]_vars
  BY <1>1 DEF LedgerInv
<1> QED BY <1>2, GateLedger, PTL DEF GateSpec, StrangersChangeNothing

---------------------------------------------------------------------------
(***************************************************************************)
(* The ERC-7579 gate implements the permission ledger: installing, amending   *)
(* and uninstalling change the ledger, accepting a single-use permission is   *)
(* its use, and every other step leaves the ledger alone.                    *)
(***************************************************************************)
LEMMA GateKeepsLedger == GateSpec => ImplementsLedger
<1>1. Init => Ledger!Init
  BY DEF Init, Ledger!Init, Live, LiveLeaves, NoConfig, NoRoot
<1>2. LedgerInv /\ (Live \cap retired = {})' /\ [GateNext]_vars
        => [Ledger!Next]_Ledger!ledger
  <2> SUFFICES ASSUME LedgerInv, (Live \cap retired = {})', [GateNext]_vars
               PROVE  Ledger!Next \/ UNCHANGED Ledger!ledger
    OBVIOUS
  <2>1. ASSUME UNCHANGED accountConfigs PROVE Live' = Live
    BY <2>1 DEF Live, LiveLeaves
  <2>2. ASSUME retired \subseteq retired', uses' = uses PROVE Ledger!Next
    BY <2>2 DEF Ledger!Next, Ledger!Change, Ledger!Reconfigure
  <2>3. CASE \E account \in Account :
               \/ OnUninstall(account)
               \/ \E o \in SignerChoice, r \in SUBSET Leaf, v \in ValidatorChoice :
                    OnInstall(account, o, r, v)
    BY <2>2, <2>3 DEF OnInstall, OnUninstall
  <2>4. CASE \E caller \in Address, account \in Account :
               \/ \E root \in SUBSET Leaf : SetPolicyRoot(caller, account, root)
               \/ \E newOwner \in SignerChoice : SetOwner(caller, account, newOwner)
               \/ \E admin \in AdminChoice : SetPolicyAdmin(caller, account, admin)
    BY <2>2, <2>4 DEF SetPolicyRoot, SetOwner, SetPolicyAdmin, Administer
  <2>5. CASE \E op \in UserOp : ValidateUserOpSigFailed(op)
    BY <2>1, <2>5 DEF ValidateUserOpSigFailed, Ledger!ledger
  <2>6. ASSUME NEW op \in UserOp, ValidateUserOp(op)
        PROVE  Ledger!Next \/ UNCHANGED Ledger!ledger
    <3>1. Live' = Live /\ retired' = retired
      BY <2>1, <2>6 DEF ValidateUserOp
    <3>2. CASE ~op.perm.singleUse
      BY <2>6, <3>1, <3>2 DEF ValidateUserOp, Ledger!ledger
    <3>3. CASE op.perm.singleUse
      <4> DEFINE leaf == LeafOf(op)
      <4>1. leaf \in Leaf /\ leaf \in Live /\ leaf.account = op.sender
        BY <2>6, LeafOfType, AcceptedLives DEF LedgerInv
      <4>2. leaf \notin usedPermissionHashes[op.sender] /\ uses' = Count(leaf)
        BY <2>6, <3>3 DEF ValidateUserOp, MarkUsed
      <4>3. uses[leaf] = 0
        BY <4>1, <4>2 DEF LedgerInv, UsesMatchSpent
      <4>4. uses' = [uses EXCEPT ![leaf] = 1]
        BY <4>1, <4>2, <4>3 DEF Count, LedgerInv, TypeOK
      <4>5. Ledger!Use(leaf)
        BY <3>1, <4>1, <4>3, <4>4, NothingRetiredLives DEF Ledger!Use, Ledger!Reconfigure
      <4> QED BY <4>1, <4>5 DEF Ledger!Next
    <3> QED BY <3>2, <3>3
  <2>7. CASE \/ \E account \in Account, newOwner \in OwnerChoice :
                    RotateOwner(account, newOwner)
             \/ Tick
             \/ UNCHANGED vars
    BY <2>1, <2>7 DEF RotateOwner, Tick, vars, Ledger!ledger
  <2> QED BY <2>3, <2>4, <2>5, <2>6, <2>7 DEF GateNext
<1> QED BY <1>1, <1>2, GateLedger, NothingRetiredLives, PTL
        DEF GateSpec, ImplementsLedger, Ledger!Spec

---------------------------------------------------------------------------
(***************************************************************************)
(* The gate alone.                                                            *)
(***************************************************************************)
LEMMA SpecIsGateSpec == Spec => GateSpec
BY NextIsGateNext, PTL DEF Spec, GateSpec

\* Configurations are records and epochs stay in their bound.
THEOREM TypeCorrect == Spec => []TypeOK
<1>1. LedgerInv => TypeOK
  BY DEF LedgerInv
<1> QED BY <1>1, SpecIsGateSpec, GateLedger, PTL

\* The configurations, the registry and the history agree (M-5).
THEOREM LedgerHolds == Spec => []LedgerInv
BY SpecIsGateSpec, GateLedger, PTL

\* A single-use permission is accepted at most once in an epoch.
THEOREM SingleUseHolds == Spec => []SingleUseOnce
BY LedgerHolds, LedgerMeansOnce, PTL

\* A permission that lived when its install ended is never accepted again.
THEOREM RetirementHolds == Spec => RetiredStaysRetired
BY SpecIsGateSpec, GateRetirement

\* Only an account and its admin change what the gate does for the account.
THEOREM StrangersHold == Spec => StrangersChangeNothing
BY SpecIsGateSpec, GateStrangers

\* The ERC-7579 gate implements the permission ledger.
THEOREM GateImplementsLedger == Spec => ImplementsLedger
BY SpecIsGateSpec, GateKeepsLedger

---------------------------------------------------------------------------
(***************************************************************************)
(* The gate and its clients.  What a reading tells: the number of the install, *)
(* or 0 between two of them.                                                  *)
(***************************************************************************)
ReadingInv ==
    /\ LedgerInv
    /\ \A a \in Account : accountConfigs[a].installed => installEpoch[a] # 0

Reading ==
    [account : Account, perms : SUBSET Permission, nonce : Epoch,
     installed : BOOLEAN, epoch : Epoch]

\* What a draft knows of it: a reading of an install that has begun by now.
DraftInv(d) ==
    /\ d \in Reading
    /\ d.epoch <= installEpoch[d.account]
    /\ d.installed => d.nonce = d.epoch /\ d.epoch # 0
    /\ ~d.installed => d.nonce = 0

CallInv(tx) ==
    /\ DraftInv(tx.draft)
    /\ \/ /\ tx.method = "setPolicyRoot" /\ tx.by \in Address
          /\ tx.root = Tree(tx.draft, tx.draft.nonce)
       \/ /\ tx.method = "onInstall" /\ tx.by = tx.draft.account
          /\ tx.root = Tree(tx.draft, tx.draft.nonce + 1)
       \/ tx.method = "onUninstall" /\ tx.by = tx.draft.account

ClientInv ==
    /\ ReadingInv
    /\ draft \in [Client -> SUBSET Reading]
    /\ \A c \in Client : \A d \in draft[c] : DraftInv(d)
    /\ \A tx \in pending : CallInv(tx)

---------------------------------------------------------------------------
LEMMA TreeType ==
    ASSUME NEW d, DraftInv(d), NEW nonce \in Epoch
    PROVE  Tree(d, nonce) \in SUBSET Leaf
BY DEF DraftInv, Reading, Tree, HashPermissionWithAccount, Leaf

\* No install is ever taken back.
LEMMA GateKeeps ==
    ASSUME ReadingInv, GateNext \/ UNCHANGED vars
    PROVE  ReadingInv' /\ \A a \in Account : installEpoch[a] <= installEpoch'[a]
<1> DEFINE Goes(a) == /\ installEpoch[a] <= installEpoch'[a]
                      /\ accountConfigs'[a].installed => installEpoch'[a] # 0
<1> SUFFICES ASSUME NEW a \in Account PROVE Goes(a)
  BY LedgerStep DEF ReadingInv
<1>1. installEpoch[a] \in Nat /\ (accountConfigs[a].installed => installEpoch[a] # 0)
  BY GateAssumption DEF ReadingInv, LedgerInv, TypeOK, Epoch
<1>2. ASSUME NEW account \in Account, NEW o, NEW r, NEW v, OnInstall(account, o, r, v)
      PROVE  Goes(a)
  BY <1>1, <1>2 DEF OnInstall, FreshEpoch, ReadingInv, LedgerInv, TypeOK
<1>3. ASSUME NEW account \in Account, OnUninstall(account)
      PROVE  Goes(a)
  BY <1>1, <1>3 DEF OnUninstall, NoConfig, ReadingInv, LedgerInv, TypeOK
<1>4. ASSUME NEW caller \in Address, NEW account \in Account,
             \/ \E root \in SUBSET Leaf : SetPolicyRoot(caller, account, root)
             \/ \E newOwner \in SignerChoice : SetOwner(caller, account, newOwner)
             \/ \E admin \in AdminChoice : SetPolicyAdmin(caller, account, admin)
      PROVE  Goes(a)
  <2>1. PICK config \in AccountConfig : Administer(caller, account, config)
    BY <1>4, SetterFacts DEF ReadingInv, LedgerInv
  <2> QED BY <1>1, <2>1 DEF Administer, MayAdminister, ReadingInv, LedgerInv, TypeOK
<1>5. ASSUME UNCHANGED <<accountConfigs, installEpoch>> PROVE Goes(a)
  BY <1>1, <1>5
<1>6. CASE \/ \E op \in UserOp : ValidateUserOpSigFailed(op) \/ ValidateUserOp(op)
           \/ \E account \in Account, newOwner \in OwnerChoice : RotateOwner(account, newOwner)
           \/ Tick
           \/ UNCHANGED vars
  BY <1>5, <1>6 DEF ValidateUserOpSigFailed, ValidateUserOp, RotateOwner, Tick, vars
<1> QED BY <1>2, <1>3, <1>4, <1>6 DEF GateNext

(***************************************************************************)
(* A draft stays right while the installs go on.                             *)
(***************************************************************************)
LEMMA DraftKeeps ==
    ASSUME ReadingInv, ReadingInv', NEW d, DraftInv(d),
           \A a \in Account : installEpoch[a] <= installEpoch'[a]
    PROVE  DraftInv(d)'
<1>1. d.account \in Account /\ d.epoch \in Nat /\ d \in Reading
  BY GateAssumption DEF DraftInv, Reading, Epoch
<1>2. installEpoch[d.account] \in Nat /\ installEpoch'[d.account] \in Nat
  BY <1>1, GateAssumption DEF ReadingInv, LedgerInv, TypeOK, Epoch
<1>3. d.epoch <= installEpoch'[d.account]
  BY <1>1, <1>2 DEF DraftInv
<1> QED BY <1>1, <1>3 DEF DraftInv, Reading

LEMMA ReadingMakesDraft ==
    ASSUME ReadingInv, NEW account \in Account, NEW perms \in Wanted
    PROVE  DraftInv(Draft(account, perms))
<1>1. /\ accountConfigs[account].installed \in BOOLEAN
      /\ accountConfigs[account].nonce \in Epoch
      /\ installEpoch[account] \in Epoch
  BY DEF ReadingInv, LedgerInv, TypeOK, AccountConfig
<1>2. Draft(account, perms) \in Reading
  BY <1>1, DeploymentAssumption DEF Draft, Reading
<1>3. /\ accountConfigs[account].installed =>
           accountConfigs[account].nonce = installEpoch[account] /\ installEpoch[account] # 0
      /\ ~accountConfigs[account].installed => accountConfigs[account].nonce = 0
  BY DEF ReadingInv, LedgerInv, ConfigMatchesEpoch, NoConfig
<1> QED BY <1>1, <1>2, <1>3, GateAssumption DEF Draft, DraftInv, Epoch

LEMMA CallKeeps ==
    ASSUME ReadingInv, ReadingInv', NEW tx, CallInv(tx),
           \A a \in Account : installEpoch[a] <= installEpoch'[a]
    PROVE  CallInv(tx)'
<1>1. DraftInv(tx.draft)'
  BY DraftKeeps DEF CallInv
<1> QED BY <1>1 DEF CallInv, Tree, HashPermissionWithAccount

LEMMA SubmitMakesCalls ==
    ASSUME ClientInv, NEW client \in Client, Submit(client)
    PROVE  \A tx \in pending' : CallInv(tx)
<1>1. PICK d \in draft[client] :
        \/ SubmitInstall(d)
        \/ SubmitUninstall(d)
        \/ \E by \in {d.account} \cup (AdminChoice \ {ZeroAddress}) : SubmitRoot(by, d)
  BY DEF Submit
<1>2. DraftInv(d) /\ d.account \in Address
  BY GateAssumption DEF ClientInv, DraftInv, Reading
<1>3. CASE SubmitInstall(d)
  BY <1>2, <1>3 DEF SubmitInstall, Call, CallInv, ClientInv
<1>4. CASE SubmitUninstall(d)
  BY <1>2, <1>4 DEF SubmitUninstall, Call, CallInv, ClientInv
<1>5. CASE \E by \in {d.account} \cup (AdminChoice \ {ZeroAddress}) : SubmitRoot(by, d)
  BY <1>2, <1>5, GateAssumption DEF SubmitRoot, Call, CallInv, ClientInv
<1> QED BY <1>1, <1>3, <1>4, <1>5

\* A transaction that lands does what anybody may do at the gate, with a root
\* of leaves: a tree is never built for an epoch that the gate cannot reach.
LEMMA LandIsGateStep ==
    ASSUME ClientInv, NEW tx \in pending, Land(tx)
    PROVE  GateNext \/ UNCHANGED vars
<1> DEFINE d == tx.draft
<1>1. /\ CallInv(tx) /\ DraftInv(d) /\ d.account \in Account
      /\ d.nonce \in Epoch /\ d.epoch \in Epoch /\ d.installed \in BOOLEAN
      /\ installEpoch[d.account] \in Epoch /\ MaxEpoch \in Nat
  BY GateAssumption DEF ClientInv, ReadingInv, LedgerInv, TypeOK, CallInv, DraftInv, Reading
<1>2. CASE tx.method = "setPolicyRoot" /\ SetPolicyRoot(tx.by, d.account, tx.root)
  <2>1. tx.by \in Address /\ tx.root \in SUBSET Leaf
    BY <1>1, <1>2, TreeType DEF CallInv
  <2> QED BY <1>1, <1>2, <2>1 DEF GateNext
<1>3. ASSUME tx.method = "onInstall", NEW o \in SignerChoice, NEW v \in ValidatorChoice,
             OnInstall(tx.by, o, tx.root, v)
      PROVE  GateNext
  <2>1. tx.by = d.account /\ tx.root = Tree(d, d.nonce + 1)
    BY <1>1, <1>3 DEF CallInv
  <2>2. d.nonce + 1 \in Epoch
    BY <1>1, <1>3, <2>1 DEF OnInstall, DraftInv, Epoch
  <2>3. tx.root \in SUBSET Leaf
    BY <1>1, <2>1, <2>2, TreeType
  <2> QED BY <1>1, <1>3, <2>1, <2>3 DEF GateNext
<1>4. CASE tx.method = "onUninstall" /\ OnUninstall(tx.by)
  <2>1. tx.by \in Account
    BY <1>1, <1>4 DEF CallInv
  <2> QED BY <1>4, <2>1 DEF GateNext
<1> QED BY <1>2, <1>3, <1>4 DEF Land, Execute7579

LEMMA DeploymentStep ==
    ASSUME ClientInv, [NextDeployment]_allVars
    PROVE  GateNext \/ UNCHANGED vars
<1>1. CASE \E tx \in pending : Land(tx)
  BY <1>1, LandIsGateStep
<1> QED BY <1>1, NextIsGateNext DEF NextDeployment, GetAccountConfig, Submit, allVars

(***************************************************************************)
(* Drafts and submissions stay right through every step.                     *)
(***************************************************************************)
LEMMA ClientInvariant == SpecDeployment => []ClientInv
<1>1. InitDeployment => ClientInv
  <2> SUFFICES ASSUME InitDeployment PROVE ClientInv
    OBVIOUS
  <2>1. ReadingInv
    BY LedgerStep DEF InitDeployment, Init, ReadingInv, NoConfig
  <2> QED BY <2>1 DEF InitDeployment, ClientInv
<1>2. ClientInv /\ [NextDeployment]_allVars => ClientInv'
  <2> SUFFICES ASSUME ClientInv, [NextDeployment]_allVars PROVE ClientInv'
    OBVIOUS
  <2>0. ReadingInv' /\ \A a \in Account : installEpoch[a] <= installEpoch'[a]
    BY DeploymentStep, GateKeeps DEF ClientInv
  <2>1. ASSUME UNCHANGED draft, pending' \subseteq pending
        PROVE  ClientInv'
    <3>1. \A c \in Client : \A d \in draft[c] : DraftInv(d)'
      BY <2>0, DraftKeeps DEF ClientInv
    <3>2. \A tx \in pending : CallInv(tx)'
      BY <2>0, CallKeeps DEF ClientInv
    <3> QED BY <2>0, <2>1, <3>1, <3>2 DEF ClientInv
  <2>2. ASSUME NEW client \in Client, NEW account \in Account, NEW perms \in Wanted,
               GetAccountConfig(client, account, perms)
        PROVE  ClientInv'
    <3>2. DraftInv(Draft(account, perms)) /\ Draft(account, perms) \in Reading
      BY ReadingMakesDraft DEF ClientInv, DraftInv
    <3>3. draft' \in [Client -> SUBSET Reading]
      BY <2>2, <3>2 DEF GetAccountConfig, ClientInv
    <3>4. \A c \in Client : \A d \in draft'[c] : DraftInv(d)
      BY <2>2, <3>2 DEF GetAccountConfig, ClientInv
    <3>5. \A c \in Client : \A d \in draft'[c] : DraftInv(d)'
      BY <2>0, <3>4, DraftKeeps DEF ClientInv
    <3>6. \A tx \in pending' : CallInv(tx)'
      BY <2>0, <2>2, CallKeeps DEF ClientInv, GetAccountConfig
    <3> QED BY <2>0, <3>3, <3>5, <3>6 DEF ClientInv
  <2>3. ASSUME NEW client \in Client, Submit(client)
        PROVE  ClientInv'
    <3>2. UNCHANGED draft
      BY <2>3 DEF Submit
    <3>3. \A c \in Client : \A d \in draft[c] : DraftInv(d)'
      BY <2>0, DraftKeeps DEF ClientInv
    <3>4. \A tx \in pending' : CallInv(tx)'
      BY <2>0, <2>3, SubmitMakesCalls, CallKeeps DEF ClientInv
    <3> QED BY <2>0, <3>2, <3>3, <3>4 DEF ClientInv
  <2>4. ASSUME NEW tx \in pending, Land(tx)
        PROVE  ClientInv'
    <3>1. UNCHANGED draft /\ pending' \subseteq pending
      BY <2>4 DEF Land
    <3> QED BY <2>1, <3>1
  <2>5. CASE (Next /\ UNCHANGED deploymentVars) \/ UNCHANGED allVars
    <3>1. UNCHANGED draft /\ pending' \subseteq pending
      BY <2>5 DEF allVars, deploymentVars
    <3> QED BY <2>1, <3>1
  <2> QED BY <2>2, <2>3, <2>4, <2>5 DEF NextDeployment
<1> QED BY <1>1, <1>2, PTL DEF SpecDeployment

(***************************************************************************)
(* Whatever clients submit and whenever it lands, the gate does what it may     *)
(* do by itself: what it promises, it promises with clients at work.            *)
(***************************************************************************)
THEOREM DeploymentIsGate == SpecDeployment => GateSpec
<1>1. InitDeployment => Init
  BY DEF InitDeployment
<1>2. ClientInv /\ [NextDeployment]_allVars => [GateNext]_vars
  BY DeploymentStep
<1> QED BY <1>1, <1>2, ClientInvariant, PTL DEF SpecDeployment, GateSpec

\* The configurations, the registry and the history agree (M-5).
THEOREM LedgerHoldsWithClients == SpecDeployment => []LedgerInv
BY DeploymentIsGate, GateLedger, PTL

\* A single-use permission is accepted at most once in an epoch.
THEOREM SingleUseHoldsWithClients == SpecDeployment => []SingleUseOnce
BY LedgerHoldsWithClients, LedgerMeansOnce, PTL

\* A permission that lived when its install ended is never accepted again.
THEOREM RetirementHoldsWithClients == SpecDeployment => RetiredStaysRetired
BY DeploymentIsGate, GateRetirement

\* Only an account and its admin change what the gate does for the account.
THEOREM StrangersHoldWithClients == SpecDeployment => StrangersChangeNothing
BY DeploymentIsGate, GateStrangers

\* The ERC-7579 gate and its clients implement the permission ledger.
THEOREM DeploymentImplementsLedger == SpecDeployment => ImplementsLedger
BY DeploymentIsGate, GateKeepsLedger

---------------------------------------------------------------------------
(***************************************************************************)
(* Of a tree set for one epoch, all is live in that epoch and nothing in any  *)
(* other.                                                                    *)
(***************************************************************************)
LEMMA WholeOrNothing ==
    ASSUME NEW d, NEW n, NEW m
    PROVE  {leaf \in Tree(d, n) : leaf.account = d.account /\ leaf.nonce = m}
             = IF n = m THEN Tree(d, m) ELSE {}
BY DEF Tree, HashPermissionWithAccount

LEMMA RootTakesEffect ==
    ASSUME ClientInv, NEW tx \in pending, tx.method = "setPolicyRoot",
           SetPolicyRoot(tx.by, tx.draft.account, tx.root)
    PROVE  LiveLeaves(tx.draft.account)' =
             IF tx.draft.epoch = installEpoch[tx.draft.account] /\ tx.draft.installed
             THEN Tree(tx.draft, installEpoch'[tx.draft.account]) ELSE {}
<1> DEFINE d == tx.draft
<1> DEFINE config == accountConfigs[d.account]
<1>1. /\ d.account \in Account /\ d.epoch \in Nat /\ d.installed \in BOOLEAN
      /\ d.installed => d.nonce = d.epoch /\ d.epoch # 0
      /\ ~d.installed => d.nonce = 0
      /\ tx.root = Tree(d, d.nonce)
  BY GateAssumption DEF ClientInv, CallInv, DraftInv, Reading, Epoch
<1>2. /\ config.installed /\ config.nonce = installEpoch[d.account]
      /\ installEpoch[d.account] \in Nat /\ installEpoch[d.account] # 0
  BY <1>1, GateAssumption DEF ClientInv, ReadingInv, LedgerInv, TypeOK, ConfigMatchesEpoch, Epoch,
                              SetPolicyRoot, Administer, MayAdminister
<1>3. /\ accountConfigs'[d.account].policyRoot = tx.root
      /\ accountConfigs'[d.account].nonce = config.nonce
      /\ installEpoch' = installEpoch
  BY <1>1 DEF ClientInv, ReadingInv, LedgerInv, TypeOK, AccountConfig, SetPolicyRoot, Administer
<1>4. LiveLeaves(d.account)' =
        {leaf \in Tree(d, d.nonce) : leaf.account = d.account /\ leaf.nonce = installEpoch[d.account]}
  BY <1>1, <1>2, <1>3 DEF LiveLeaves
<1>5. LiveLeaves(d.account)' =
        IF d.nonce = installEpoch[d.account] THEN Tree(d, installEpoch[d.account]) ELSE {}
  BY <1>4, WholeOrNothing
<1>6. d.nonce = installEpoch[d.account] <=> d.epoch = installEpoch[d.account] /\ d.installed
  BY <1>1, <1>2
<1> QED BY <1>3, <1>5, <1>6

LEMMA InitialTreeTakesEffect ==
    ASSUME ClientInv, NEW tx \in pending, tx.method = "onInstall",
           NEW o \in SignerChoice, NEW v \in ValidatorChoice, OnInstall(tx.by, o, tx.root, v)
    PROVE  LiveLeaves(tx.draft.account)' =
             IF tx.draft.epoch = installEpoch[tx.draft.account]
                  /\ (tx.draft.installed \/ tx.draft.epoch = 0)
             THEN Tree(tx.draft, installEpoch'[tx.draft.account]) ELSE {}
<1> DEFINE d == tx.draft
<1>1. /\ d.account \in Account /\ d.epoch \in Nat /\ d.installed \in BOOLEAN /\ d.nonce \in Nat
      /\ d.epoch <= installEpoch[d.account]
      /\ d.installed => d.nonce = d.epoch /\ d.epoch # 0
      /\ ~d.installed => d.nonce = 0
      /\ tx.root = Tree(d, d.nonce + 1) /\ tx.by = d.account
  BY GateAssumption DEF ClientInv, CallInv, DraftInv, Reading, Epoch
<1>2. installEpoch[d.account] \in Nat
  BY <1>1, GateAssumption DEF ClientInv, ReadingInv, LedgerInv, TypeOK, Epoch
<1>3. /\ accountConfigs'[d.account].policyRoot = tx.root
      /\ accountConfigs'[d.account].nonce = installEpoch[d.account] + 1
      /\ installEpoch'[d.account] = installEpoch[d.account] + 1
  BY <1>1 DEF ClientInv, ReadingInv, LedgerInv, TypeOK, OnInstall, FreshEpoch
<1>4. LiveLeaves(d.account)' =
        {leaf \in Tree(d, d.nonce + 1) : leaf.account = d.account /\ leaf.nonce = installEpoch'[d.account]}
  BY <1>1, <1>3 DEF LiveLeaves
<1>5. LiveLeaves(d.account)' =
        IF d.nonce + 1 = installEpoch'[d.account] THEN Tree(d, installEpoch'[d.account]) ELSE {}
  BY <1>4, WholeOrNothing
<1>6. d.nonce + 1 = installEpoch'[d.account]
        <=> d.epoch = installEpoch[d.account] /\ (d.installed \/ d.epoch = 0)
  BY <1>1, <1>2, <1>3
<1> QED BY <1>5, <1>6

(***************************************************************************)
(* Every tree a client submits takes effect as a whole in the install it was   *)
(* meant for and in no other, whenever its transaction lands.                  *)
(***************************************************************************)
THEOREM TreesHold == SpecDeployment => TakesEffectInItsInstall
<1> DEFINE Effect ==
      \A tx \in pending :
         (/\ tx \notin pending'
          /\ accountConfigs' # accountConfigs
          /\ tx.method # "onUninstall") =>
            LET d == tx.draft
                foreseen == /\ d.epoch = installEpoch[d.account]
                            /\ d.installed \/ (tx.method = "onInstall" /\ d.epoch = 0)
            IN  LiveLeaves(d.account)' =
                    IF foreseen THEN Tree(d, installEpoch'[d.account]) ELSE {}
<1>1. ClientInv /\ [NextDeployment]_allVars => [Effect]_allVars
  <2> SUFFICES ASSUME ClientInv, [NextDeployment]_allVars, NEW tx \in pending, tx \notin pending',
                      accountConfigs' # accountConfigs, tx.method # "onUninstall"
               PROVE  LiveLeaves(tx.draft.account)' =
                        IF /\ tx.draft.epoch = installEpoch[tx.draft.account]
                           /\ tx.draft.installed \/ (tx.method = "onInstall" /\ tx.draft.epoch = 0)
                        THEN Tree(tx.draft, installEpoch'[tx.draft.account]) ELSE {}
    OBVIOUS
  <2>1. Land(tx)
    <3>1. ASSUME NEW other \in pending, Land(other) PROVE other = tx
      BY <3>1 DEF Land
    <3>2. ASSUME NEW client \in Client, Submit(client) PROVE FALSE
      BY <3>2 DEF Submit, SubmitInstall, SubmitUninstall, SubmitRoot
    <3> QED BY <3>1, <3>2 DEF NextDeployment, GetAccountConfig, deploymentVars, allVars
  <2>2. ~(UNCHANGED vars)
    BY DEF vars
  <2>3. CASE tx.method = "setPolicyRoot" /\ SetPolicyRoot(tx.by, tx.draft.account, tx.root)
    BY <2>3, RootTakesEffect
  <2>4. CASE tx.method = "onInstall"
             /\ \E o \in SignerChoice, v \in ValidatorChoice : OnInstall(tx.by, o, tx.root, v)
    BY <2>4, InitialTreeTakesEffect
  <2> QED BY <2>1, <2>2, <2>3, <2>4 DEF Land, Execute7579
<1>2. SpecDeployment => [][Effect]_allVars
  BY <1>1, ClientInvariant, PTL DEF SpecDeployment
<1> QED BY <1>2 DEF TakesEffectInItsInstall
=============================================================================
