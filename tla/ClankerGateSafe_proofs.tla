----------------------- MODULE ClankerGateSafe_proofs -----------------------
(* Theorems about ClankerGateSafe, for every value of its constants. *)
EXTENDS ClankerGateSafe, SequenceTheorems, TLAPS

(***************************************************************************)
(* At most one execution is under way: the stack is empty or a single frame.  *)
(***************************************************************************)
LEMMA StackShape ==
    ASSUME stack \in Seq(Frame), Len(stack) <= 1
    PROVE  IF Running
           THEN Len(stack) = 1 /\ Top = stack[1] /\ Top \in Frame /\ Pop = <<>>
           ELSE stack = <<>> /\ Len(stack) = 0
<1>1. CASE stack = <<>>
  BY <1>1 DEF Running
<1>2. CASE stack # <<>>
  <2>1. Len(stack) = 1
    <3>1. PICK n \in Nat : n = Len(stack)
      BY LenProperties
    <3>2. n <= 1 /\ n # 0
      BY <1>2, <3>1, EmptySeq
    <3> QED BY <3>1, <3>2
  <2>2. Top = stack[1] /\ Top \in Frame
    BY <2>1 DEF Top
  <2>3. Pop = <<>>
    BY <2>1 DEF Pop
  <2> QED BY <1>2, <2>1, <2>2, <2>3 DEF Running
<1> QED BY <1>1, <1>2

\* A permission lives if it is in the tree of its Safe and of its epoch.
LEMMA LiveInMember ==
    ASSUME NEW policies, NEW leaf
    PROVE  leaf \in LiveIn(policies)
             <=> \E s \in Safe : /\ leaf \in policies[s].policyRoot
                                 /\ leaf.account = s
                                 /\ leaf.nonce = policies[s].nonce
BY DEF LiveIn

LEMMA SnapshotFields ==
    /\ Snapshot.authorizations = authorizations
    /\ Snapshot.callers = isAuthorizedCaller
    /\ Snapshot.versions = delegatecallWhitelistVersion
    /\ Snapshot.used = usedPermissionHashes
    /\ Snapshot.executed = executed
    /\ Snapshot.allowed = allowed
    /\ Snapshot.revoked = revoked
BY DEF Snapshot

\* The types of the variables, one by one.
LEMMA SnapshotType ==
    Snapshot \in State
      <=> /\ authorizations \in [Safe -> CallerAuth]
          /\ isAuthorizedCaller \in [Safe -> SUBSET Address]
          /\ delegatecallWhitelistVersion \in [Safe -> [Target -> Nonce]]
          /\ usedPermissionHashes \in [Safe -> SUBSET Leaf]
          /\ executed \in [Leaf -> 0 .. 2]
          /\ allowed \in [Safe -> SUBSET Target]
          /\ revoked \in SUBSET Leaf
BY DEF Snapshot, State

(***************************************************************************)
(* What Consistent says of the variables themselves.                         *)
(***************************************************************************)
LEMMA ConsistentNow ==
    Consistent(Snapshot)
      <=> /\ \A s \in Safe :
               /\ authorizations[s].whitelistVersion = authorizations[s].nonce
               /\ authorizations[s].enabled => authorizations[s].nonce > 0
               /\ \A t \in Target :
                    /\ delegatecallWhitelistVersion[s][t] <= authorizations[s].nonce
                    /\ delegatecallWhitelistVersion[s][t] = authorizations[s].nonce
                         /\ authorizations[s].nonce > 0 => t \in allowed[s]
          /\ \A leaf \in revoked : leaf.nonce < authorizations[leaf.account].nonce
BY SnapshotFields DEF Consistent

(***************************************************************************)
(* Configuring the module keeps it consistent, touches one Safe only, leaves  *)
(* the registry alone, and takes live permissions away only by revoking them. *)
(***************************************************************************)
LEMMA ConfigureKeeps ==
    ASSUME Snapshot \in State, Consistent(Snapshot), NEW safe \in Safe, NEW selectors,
           Configure(safe, selectors)
    PROVE  /\ authorizations' \in [Safe -> CallerAuth]
           /\ isAuthorizedCaller' \in [Safe -> SUBSET Address]
           /\ delegatecallWhitelistVersion' \in [Safe -> [Target -> Nonce]]
           /\ allowed' \in [Safe -> SUBSET Target]
           /\ revoked' \in SUBSET Leaf
           /\ Consistent(Snapshot)'
           /\ usedPermissionHashes' = usedPermissionHashes
           /\ revoked \subseteq revoked'
           /\ LiveIn(authorizations) \subseteq LiveIn(authorizations') \cup revoked'
           /\ \A s \in Safe \ {safe} :
                /\ authorizations'[s] = authorizations[s]
                /\ isAuthorizedCaller'[s] = isAuthorizedCaller[s]
                /\ delegatecallWhitelistVersion'[s] = delegatecallWhitelistVersion[s]
<1> USE SnapshotType, SafeAssumption DEF Nonce
<1>a. Consistent(Snapshot)'
        <=> /\ \A s \in Safe :
                 /\ authorizations'[s].whitelistVersion = authorizations'[s].nonce
                 /\ authorizations'[s].enabled => authorizations'[s].nonce > 0
                 /\ \A t \in Target :
                      /\ delegatecallWhitelistVersion'[s][t] <= authorizations'[s].nonce
                      /\ delegatecallWhitelistVersion'[s][t] = authorizations'[s].nonce
                           /\ authorizations'[s].nonce > 0 => t \in allowed'[s]
            /\ \A leaf \in revoked' : leaf.nonce < authorizations'[leaf.account].nonce
  BY DEF Consistent, Snapshot
<1>1. ASSUME NEW root \in Root, SetPolicyRoot(safe, root)
      PROVE  /\ authorizations' \in [Safe -> CallerAuth]
             /\ revoked' \in SUBSET Leaf
             /\ allowed' \in [Safe -> SUBSET Target]
             /\ Consistent(Snapshot)'
             /\ LiveIn(authorizations) \subseteq LiveIn(authorizations') \cup revoked'
  <2> DEFINE auth == authorizations[safe]
  <2>1. /\ auth \in CallerAuth
        /\ auth.whitelistVersion = auth.nonce
        /\ auth.nonce \in Nat /\ auth.nonce < MaxNonce
    BY <1>1, ConsistentNow DEF SetPolicyRoot, CallerAuth
  <2>2. /\ authorizations' = [authorizations EXCEPT ![safe] = WithRoot(auth, root)]
        /\ WithRoot(auth, root) \in CallerAuth
        /\ WithRoot(auth, root).nonce = auth.nonce + 1
        /\ WithRoot(auth, root).whitelistVersion = auth.nonce + 1
    BY <1>1, <2>1 DEF SetPolicyRoot, WithRoot, CallerAuth
  <2>3. LiveLeaves(safe) \subseteq Leaf
    BY <2>1 DEF LiveLeaves, CallerAuth
  <2>4. /\ authorizations' \in [Safe -> CallerAuth]
        /\ revoked' = revoked \cup LiveLeaves(safe) /\ revoked' \in SUBSET Leaf
        /\ allowed' = [allowed EXCEPT ![safe] = {}] /\ allowed' \in [Safe -> SUBSET Target]
        /\ delegatecallWhitelistVersion' = delegatecallWhitelistVersion
    BY <1>1, <2>2, <2>3 DEF SetPolicyRoot
  <2>5. ASSUME NEW s \in Safe, NEW t \in Target
        PROVE  /\ delegatecallWhitelistVersion'[s][t] <= authorizations'[s].nonce
               /\ delegatecallWhitelistVersion'[s][t] = authorizations'[s].nonce
                    /\ authorizations'[s].nonce > 0 => t \in allowed'[s]
    <3>1. CASE s = safe
      <4>1. delegatecallWhitelistVersion[safe][t] \in Nat
            /\ delegatecallWhitelistVersion[safe][t] <= auth.nonce
        BY ConsistentNow
      <4> QED BY <2>1, <2>2, <2>4, <3>1, <4>1
    <3>2. CASE s # safe
      BY <2>2, <2>4, <3>2, ConsistentNow
    <3> QED BY <3>1, <3>2
  <2>6. ASSUME NEW s \in Safe
        PROVE  /\ authorizations'[s].whitelistVersion = authorizations'[s].nonce
               /\ authorizations'[s].enabled => authorizations'[s].nonce > 0
    BY <2>1, <2>2, ConsistentNow
  <2>7. ASSUME NEW leaf \in revoked' PROVE leaf.nonce < authorizations'[leaf.account].nonce
    <3>1. leaf.account \in Safe /\ leaf.nonce \in Nat
      BY <2>4 DEF Leaf
    <3>2. CASE leaf \in revoked
      <4>1. leaf.nonce < authorizations[leaf.account].nonce
        BY <3>2, ConsistentNow
      <4> QED BY <2>1, <2>2, <3>1, <4>1
    <3>3. CASE leaf \in LiveLeaves(safe)
      BY <2>1, <2>2, <3>3 DEF LiveLeaves
    <3> QED BY <2>4, <3>2, <3>3
  <2>8. ASSUME NEW leaf \in LiveIn(authorizations), leaf \notin LiveIn(authorizations')
        PROVE  leaf \in revoked'
    <3>1. PICK s \in Safe : /\ leaf \in authorizations[s].policyRoot
                            /\ leaf.account = s
                            /\ leaf.nonce = authorizations[s].nonce
      BY <2>8, LiveInMember
    <3>2. s = safe
      BY <2>2, <2>8, <3>1, LiveInMember
    <3> QED BY <2>4, <3>1, <3>2 DEF LiveLeaves
  <2> QED BY <1>a, <2>4, <2>5, <2>6, <2>7, <2>8
<1>2. CASE \E root \in Root : SetPolicyRoot(safe, root)
  BY <1>1, <1>2 DEF SetPolicyRoot
<1>3. CASE \E caller \in Address : AuthorizeCaller(safe, caller) \/ DeauthorizeCaller(safe, caller)
  BY <1>3, <1>a, ConsistentNow DEF AuthorizeCaller, DeauthorizeCaller
<1>4. ASSUME NEW target \in Target,
             AllowDelegatecall(safe, target) \/ DisallowDelegatecall(safe, target)
      PROVE  /\ delegatecallWhitelistVersion' \in [Safe -> [Target -> Nonce]]
             /\ allowed' \in [Safe -> SUBSET Target]
             /\ Consistent(Snapshot)'
             /\ \A s \in Safe \ {safe} :
                  delegatecallWhitelistVersion'[s] = delegatecallWhitelistVersion[s]
  <2>1. authorizations' = authorizations /\ revoked' = revoked
    BY <1>4 DEF AllowDelegatecall, DisallowDelegatecall
  <2>2. PICK version \in Nonce :
          /\ delegatecallWhitelistVersion' =
               [delegatecallWhitelistVersion EXCEPT ![safe][target] = version]
          /\ \/ version = authorizations[safe].nonce
                /\ allowed' = [allowed EXCEPT ![safe] = @ \cup {target}]
             \/ version = 0 /\ allowed' = [allowed EXCEPT ![safe] = @ \ {target}]
    <3>1. authorizations[safe].whitelistVersion \in Nonce
          /\ authorizations[safe].whitelistVersion = authorizations[safe].nonce
      BY ConsistentNow DEF CallerAuth
    <3> QED BY <1>4, <3>1 DEF AllowDelegatecall, DisallowDelegatecall
  <2>3. delegatecallWhitelistVersion' \in [Safe -> [Target -> Nonce]]
    BY <2>2
  <2>4. allowed' \in [Safe -> SUBSET Target]
    BY <2>2
  <2>5. ASSUME NEW s \in Safe, NEW t \in Target
        PROVE  /\ delegatecallWhitelistVersion'[s][t] <= authorizations[s].nonce
               /\ delegatecallWhitelistVersion'[s][t] = authorizations[s].nonce
                    /\ authorizations[s].nonce > 0 => t \in allowed'[s]
    <3>1. /\ delegatecallWhitelistVersion[s][t] <= authorizations[s].nonce
          /\ delegatecallWhitelistVersion[s][t] = authorizations[s].nonce
               /\ authorizations[s].nonce > 0 => t \in allowed[s]
          /\ authorizations[s].nonce \in Nat
      BY ConsistentNow DEF CallerAuth
    <3>2. CASE s = safe /\ t = target
      <4>1. delegatecallWhitelistVersion'[s][t] = version
        BY <2>2, <3>2
      <4> QED BY <2>2, <3>1, <3>2, <4>1
    <3>3. CASE ~(s = safe /\ t = target)
      <4>1. delegatecallWhitelistVersion'[s][t] = delegatecallWhitelistVersion[s][t]
        BY <2>2, <3>3
      <4>2. t \in allowed[s] => t \in allowed'[s]
        BY <2>2, <3>3
      <4> QED BY <3>1, <4>1, <4>2
    <3> QED BY <3>2, <3>3
  <2> QED BY <1>a, <2>1, <2>2, <2>3, <2>4, <2>5, ConsistentNow
<1>5. CASE \E target \in Target :
             AllowDelegatecall(safe, target) \/ DisallowDelegatecall(safe, target)
  BY <1>4, <1>5 DEF AllowDelegatecall, DisallowDelegatecall
<1> QED BY <1>2, <1>3, <1>5 DEF Configure
---------------------------------------------------------------------------
(***************************************************************************)
(* Changing only the configuration keeps the promises made about the          *)
(* execution under way.                                                      *)
(***************************************************************************)
LEMMA FrameSurvives ==
    ASSUME NEW frame, FrameInv(frame), executed' = executed,
           usedPermissionHashes' = usedPermissionHashes, revoked \subseteq revoked',
           LiveIn(authorizations) \subseteq LiveIn(authorizations') \cup revoked'
    PROVE  /\ executed' = frame.before.executed
           /\ usedPermissionHashes' =
                IF frame.tx.perm.singleUse
                THEN [frame.before.used EXCEPT ![frame.tx.safe] = @ \cup {frame.leaf}]
                ELSE frame.before.used
           /\ frame.before.revoked \subseteq revoked'
           /\ LiveIn(frame.before.authorizations) \subseteq LiveIn(authorizations') \cup revoked'
BY DEF FrameInv

(***************************************************************************)
(* A successful execution counts for its permission and settles the registry. *)
(***************************************************************************)
LEMMA Settling ==
    ASSUME TypeOK, Running, FrameInv(Top), CountExecuted,
           usedPermissionHashes' = usedPermissionHashes
    PROVE  /\ executed' \in [Leaf -> 0 .. 2]
           /\ Settled(Snapshot)'
           /\ IF Top.tx.perm.singleUse
              THEN /\ Top.before.executed[Top.leaf] = 0
                   /\ executed' = [Top.before.executed EXCEPT ![Top.leaf] = 1]
              ELSE executed' = Top.before.executed
<1> DEFINE before == Top.before
           leaf   == Top.leaf
           safe   == Top.tx.safe
<1>1. /\ Top \in Frame /\ leaf \in Leaf /\ safe \in Safe
      /\ before.used \in [Safe -> SUBSET Leaf]
      /\ before.executed \in [Leaf -> 0 .. 2]
  BY StackShape, SafeAssumption DEF TypeOK, Frame, State
<1>2. \A l \in Leaf : before.executed[l] = IF l \in before.used[l.account] THEN 1 ELSE 0
  BY DEF FrameInv, Settled
<1>3. executed = before.executed /\ leaf.account = safe
  BY DEF FrameInv
<1>4. Settled(Snapshot)' <=> \A l \in Leaf :
        executed'[l] = IF l \in usedPermissionHashes'[l.account] THEN 1 ELSE 0
  BY DEF Settled, Snapshot
<1>5. CASE ~Top.tx.perm.singleUse
  <2>1. executed' = before.executed /\ usedPermissionHashes' = before.used
    BY <1>3, <1>5 DEF CountExecuted, FrameInv
  <2> QED BY <1>1, <1>2, <1>4, <1>5, <2>1
<1>6. CASE Top.tx.perm.singleUse
  <2>1. leaf \notin before.used[safe]
        /\ usedPermissionHashes' = [before.used EXCEPT ![safe] = @ \cup {leaf}]
    BY <1>6 DEF FrameInv
  <2>2. before.executed[leaf] = 0
    BY <1>1, <1>2, <1>3, <2>1
  <2>3. executed' = [before.executed EXCEPT ![leaf] = 1]
    BY <1>1, <1>3, <1>6, <2>2 DEF CountExecuted
  <2>4. ASSUME NEW l \in Leaf
        PROVE  executed'[l] = IF l \in usedPermissionHashes'[l.account] THEN 1 ELSE 0
    <3>1. l.account \in Safe
      BY DEF Leaf
    <3>2. CASE l = leaf
      BY <1>1, <1>3, <2>1, <2>3, <3>2
    <3>3. CASE l # leaf
      BY <1>1, <1>2, <1>3, <2>1, <2>3, <3>1, <3>3
    <3> QED BY <3>2, <3>3
  <2>5. executed' \in [Leaf -> 0 .. 2]
    BY <1>1, <2>3
  <2> QED BY <1>4, <1>6, <2>2, <2>3, <2>4, <2>5
<1> QED BY <1>5, <1>6

(***************************************************************************)
(* What a transaction has passed when it is let through.                      *)
(***************************************************************************)
LEMMA StartFacts ==
    ASSUME BookkeepingInv, NEW caller \in Address, NEW tx \in Tx, ExecTransaction(caller, tx)
    PROVE  /\ ~Running
           /\ stack' = <<[tx |-> tx, leaf |-> LeafOf(tx), before |-> Snapshot]>>
           /\ tx.safe \in Safe /\ LeafOf(tx) \in Leaf
           /\ LeafOf(tx).account = tx.safe
           /\ LeafOf(tx) \in LiveLeaves(tx.safe)
           /\ LeafOf(tx) \in LiveIn(authorizations)
           /\ LeafOf(tx) \notin revoked
           /\ tx.to = tx.perm.target
           /\ tx.call.selector = tx.perm.selector
           /\ tx.operation = 1 => tx.to \in allowed[tx.safe]
<1>1. tx.safe \in Safe /\ tx.perm \in Permission /\ tx.to \in Target
  BY SafeAssumption
<1>2. ~Running /\ stack = <<>>
  BY DEF ExecTransaction, NonReentrant, Running
<1>3. authorizations[tx.safe] \in CallerAuth
  BY <1>1, SnapshotType DEF BookkeepingInv, TypeOK
<1>4. /\ LeafOf(tx) \in Leaf
      /\ LeafOf(tx).account = tx.safe
      /\ LeafOf(tx).nonce = authorizations[tx.safe].nonce
  BY <1>1, <1>3 DEF LeafOf, HashPermissionWithAccount, Leaf, CallerAuth
<1>5. /\ authorizations[tx.safe].enabled
      /\ LeafOf(tx) \in authorizations[tx.safe].policyRoot
      /\ tx.to = tx.perm.target
      /\ tx.call.selector = tx.perm.selector
      /\ tx.operation = 1 => delegatecallWhitelistVersion[tx.safe][tx.to]
                                = authorizations[tx.safe].whitelistVersion
  BY DEF ExecTransaction, Validates, VerifyMerkleProof, LeafOf, TargetMatches, ValidateCallData
<1>6. tx.operation = 1 => tx.to \in allowed[tx.safe]
  BY <1>1, <1>5, ConsistentNow DEF BookkeepingInv
<1>7. LeafOf(tx) \in LiveLeaves(tx.safe) /\ LeafOf(tx) \in LiveIn(authorizations)
  BY <1>1, <1>4, <1>5, LiveInMember DEF LiveLeaves
<1>8. LeafOf(tx) \notin revoked
  <2>1. LeafOf(tx).nonce \in Nat
    BY <1>4, SafeAssumption DEF Leaf, Nonce
  <2> QED BY <1>4, <2>1, ConsistentNow DEF BookkeepingInv
<1>9. stack' = <<[tx |-> tx, leaf |-> LeafOf(tx), before |-> Snapshot]>>
  BY <1>2 DEF ExecTransaction
<1> QED BY <1>1, <1>2, <1>4, <1>5, <1>6, <1>7, <1>8, <1>9
(***************************************************************************)
(* The bookkeeping of the module, whatever foreign code does while it has     *)
(* control: by induction over the steps of Safes, callers and executed code.  *)
(***************************************************************************)
THEOREM BookkeepingHolds == Spec => []BookkeepingInv
<1>1. Init => BookkeepingInv
  <2> SUFFICES ASSUME Init PROVE BookkeepingInv
    OBVIOUS
  <2>1. Snapshot \in State
    BY SafeAssumption, SnapshotType DEF Init, CallerAuth, NoRoot, Nonce
  <2>2. Consistent(Snapshot)
    BY ConsistentNow DEF Init
  <2>3. Settled(Snapshot)
    BY SnapshotFields DEF Init, Settled, Leaf
  <2>4. stack = <<>> /\ stack \in Seq(Frame) /\ Len(stack) <= 1
    BY EmptySeq DEF Init
  <2> QED BY <2>1, <2>2, <2>3, <2>4 DEF Init, BookkeepingInv, TypeOK, Running
<1>2. BookkeepingInv /\ [Next]_vars => BookkeepingInv'
  <2> SUFFICES ASSUME BookkeepingInv, [Next]_vars PROVE BookkeepingInv'
    OBVIOUS
  <2>1. /\ Snapshot \in State /\ Consistent(Snapshot)
        /\ now \in 0 .. MaxTime
        /\ stack \in Seq(Frame) /\ Len(stack) <= 1
    BY DEF BookkeepingInv, TypeOK
  <2>2. Snapshot' \in State
          <=> /\ authorizations' \in [Safe -> CallerAuth]
              /\ isAuthorizedCaller' \in [Safe -> SUBSET Address]
              /\ delegatecallWhitelistVersion' \in [Safe -> [Target -> Nonce]]
              /\ usedPermissionHashes' \in [Safe -> SUBSET Leaf]
              /\ executed' \in [Leaf -> 0 .. 2]
              /\ allowed' \in [Safe -> SUBSET Target]
              /\ revoked' \in SUBSET Leaf
    BY DEF Snapshot, State
  <2>3. ASSUME Running
        PROVE  /\ Top \in Frame /\ Top = stack[1] /\ Top.tx \in Tx /\ Top.tx.safe \in Safe
               /\ Top.before \in State /\ FrameInv(Top)
               /\ Pop = <<>>
    BY <2>1, <2>3, StackShape, SafeAssumption DEF Frame, BookkeepingInv
  <2>4. ASSUME stack' = <<>>, Snapshot' \in State, Consistent(Snapshot)', Settled(Snapshot)',
               now' = now
        PROVE  BookkeepingInv'
    <3>1. stack' \in Seq(Frame) /\ Len(stack') <= 1 /\ ~Running'
      BY <2>4, EmptySeq DEF Running
    <3> QED BY <2>1, <2>4, <3>1 DEF BookkeepingInv, TypeOK
  <2>5. ASSUME Running, stack' = stack, now' = now, executed' = executed,
               Configure(Top.tx.safe, ConfigSelector) \/ \E safe \in Safe : Configure(safe, ConfigSelector)
        PROVE  BookkeepingInv'
    <3>1. PICK safe \in Safe : Configure(safe, ConfigSelector)
      BY <2>3, <2>5
    <3>2. Snapshot' \in State /\ Consistent(Snapshot)'
      BY <2>1, <2>2, <2>5, <3>1, ConfigureKeeps, SnapshotType
    <3>3. /\ executed' = Top.before.executed
          /\ usedPermissionHashes' =
               IF Top.tx.perm.singleUse
               THEN [Top.before.used EXCEPT ![Top.tx.safe] = @ \cup {Top.leaf}]
               ELSE Top.before.used
          /\ Top.before.revoked \subseteq revoked'
          /\ LiveIn(Top.before.authorizations) \subseteq LiveIn(authorizations') \cup revoked'
      BY <2>1, <2>3, <2>5, <3>1, ConfigureKeeps, FrameSurvives
    <3>4. Top' = Top /\ Running'
      BY <2>5 DEF Top, Running
    <3>5. FrameInv(Top)'
      BY <2>3, <2>5, <3>3, <3>4 DEF FrameInv, LiveIn
    <3> QED BY <2>1, <2>5, <3>2, <3>4, <3>5 DEF BookkeepingInv, TypeOK
  <2>6. ASSUME NEW caller \in Address, NEW tx \in Tx, ExecTransaction(caller, tx)
        PROVE  BookkeepingInv'
    <3> DEFINE frame == [tx |-> tx, leaf |-> LeafOf(tx), before |-> Snapshot]
    <3>1. /\ ~Running /\ stack' = <<frame>>
          /\ tx.safe \in Safe /\ LeafOf(tx) \in Leaf /\ LeafOf(tx).account = tx.safe
          /\ LeafOf(tx) \in LiveIn(authorizations)
          /\ tx.to = tx.perm.target
          /\ tx.call.selector = tx.perm.selector
          /\ tx.operation = 1 => tx.to \in allowed[tx.safe]
      BY <2>6, StartFacts
    <3>2. /\ UNCHANGED <<authorizations, isAuthorizedCaller, delegatecallWhitelistVersion,
                          now, executed, allowed, revoked>>
          /\ IF tx.perm.singleUse
             THEN /\ LeafOf(tx) \notin usedPermissionHashes[tx.safe]
                  /\ usedPermissionHashes' =
                       [usedPermissionHashes EXCEPT ![tx.safe] = @ \cup {LeafOf(tx)}]
             ELSE usedPermissionHashes' = usedPermissionHashes
      BY <2>6 DEF ExecTransaction, MarkUsed, history
    <3>3. usedPermissionHashes' \in [Safe -> SUBSET Leaf]
      BY <2>1, <3>1, <3>2, SnapshotType
    <3>4. Snapshot' \in State
      BY <2>1, <2>2, <3>2, <3>3, SnapshotType
    <3>5. Consistent(Snapshot)'
      BY <2>1, <3>2 DEF Consistent, Snapshot
    <3>6. frame \in Frame /\ stack' \in Seq(Frame) /\ Len(stack') = 1 /\ Running'
      BY <2>1, <3>1 DEF Frame, Running
    <3>7. Top' = frame
      BY <3>1 DEF Top
    <3>8. Settled(Snapshot)
      BY <3>1 DEF BookkeepingInv
    <3>9. FrameInv(Top)'
      <4> HIDE DEF frame
      <4>1. frame.tx = tx /\ frame.leaf = LeafOf(tx) /\ frame.before = Snapshot
        BY DEF frame
      <4>2. LiveIn(authorizations') = LiveIn(authorizations)
        BY <3>2
      <4> QED BY <2>1, <3>1, <3>2, <3>7, <3>8, <4>1, <4>2, SnapshotFields DEF FrameInv
    <3> QED BY <2>1, <3>2, <3>4, <3>5, <3>6, <3>9 DEF BookkeepingInv, TypeOK
  <2>7. CASE ExecutionSucceeds
    <3>1. /\ Running /\ stack' = Pop /\ CountExecuted
          /\ UNCHANGED <<authorizations, isAuthorizedCaller, delegatecallWhitelistVersion,
                         usedPermissionHashes, now, allowed, revoked>>
      BY <2>7 DEF ExecutionSucceeds, storage
    <3>2. executed' \in [Leaf -> 0 .. 2] /\ Settled(Snapshot)'
      BY <2>3, <3>1, Settling DEF BookkeepingInv
    <3>3. Consistent(Snapshot)'
      BY <2>1, <3>1 DEF Consistent, Snapshot
    <3> QED BY <2>1, <2>2, <2>3, <2>4, <3>1, <3>2, <3>3, SnapshotType
  <2>8. CASE ExecutionConfigures
    <3>1. /\ Running /\ stack' = Pop /\ CountExecuted /\ now' = now
          /\ Configure(Top.tx.safe, {Top.tx.call.selector})
      BY <2>8 DEF ExecutionConfigures
    <3>2. /\ authorizations' \in [Safe -> CallerAuth]
          /\ isAuthorizedCaller' \in [Safe -> SUBSET Address]
          /\ delegatecallWhitelistVersion' \in [Safe -> [Target -> Nonce]]
          /\ allowed' \in [Safe -> SUBSET Target]
          /\ revoked' \in SUBSET Leaf
          /\ Consistent(Snapshot)'
          /\ usedPermissionHashes' = usedPermissionHashes
      BY <2>1, <2>3, <3>1, ConfigureKeeps
    <3>3. executed' \in [Leaf -> 0 .. 2] /\ Settled(Snapshot)'
      BY <2>3, <3>1, <3>2, Settling DEF BookkeepingInv
    <3> QED BY <2>1, <2>2, <2>3, <2>4, <3>1, <3>2, <3>3, SnapshotType
  <2>9. CASE DelegatecallConfigures
    BY <2>5, <2>9 DEF DelegatecallConfigures
  <2>10. CASE ExecutionFails
    <3>1. Running /\ stack' = Pop /\ now' = now /\ Snapshot' = Top.before
      <4>1. Running /\ Top.before \in State
        BY <2>3, <2>10 DEF ExecutionFails
      <4>2. Snapshot' =
              [authorizations |-> Top.before.authorizations, callers |-> Top.before.callers,
               versions |-> Top.before.versions, used |-> Top.before.used,
               executed |-> Top.before.executed, allowed |-> Top.before.allowed,
               revoked |-> Top.before.revoked]
        BY <2>10 DEF ExecutionFails, Snapshot
      <4>3. Snapshot' = Top.before
        BY <4>1, <4>2 DEF State
      <4> QED BY <2>10, <4>1, <4>3 DEF ExecutionFails
    <3>2. Snapshot' \in State /\ Consistent(Snapshot)' /\ Settled(Snapshot)'
      BY <2>3, <3>1 DEF FrameInv, Consistent, Settled
    <3> QED BY <2>3, <2>4, <3>1, <3>2
  <2>11. CASE \E safe \in Safe : OwnersConfigure(safe)
    <3>1. PICK safe \in Safe : /\ Configure(safe, ConfigSelector)
                               /\ UNCHANGED <<now, stack, executed>>
      BY <2>11 DEF OwnersConfigure
    <3>2. CASE Running
      BY <2>5, <3>1, <3>2
    <3>3. CASE ~Running
      <4>1. stack' = <<>>
        BY <3>1, <3>3 DEF Running
      <4>2. Snapshot' \in State /\ Consistent(Snapshot)' /\ usedPermissionHashes' = usedPermissionHashes
        BY <2>1, <2>2, <3>1, ConfigureKeeps, SnapshotType
      <4>3. Settled(Snapshot)'
        BY <3>1, <3>3, <4>2 DEF BookkeepingInv, Settled, Snapshot
      <4> QED BY <2>4, <3>1, <4>1, <4>2, <4>3
    <3> QED BY <3>2, <3>3
  <2>12. CASE Tick
    <3>1. /\ ~Running /\ now < MaxTime /\ now' = now + 1
          /\ Snapshot' = Snapshot /\ stack' = stack
      BY <2>12 DEF Tick, storage, history, Snapshot
    <3>2. stack = <<>> /\ ~Running' /\ now' \in 0 .. MaxTime
      BY <2>1, <3>1, SafeAssumption DEF Running
    <3>3. Consistent(Snapshot)' /\ Settled(Snapshot)'
      BY <2>1, <3>1 DEF BookkeepingInv, Consistent, Settled
    <3> QED BY <2>1, <3>1, <3>2, <3>3 DEF BookkeepingInv, TypeOK
  <2>13. CASE UNCHANGED vars
    <3>1. /\ UNCHANGED <<authorizations, isAuthorizedCaller, delegatecallWhitelistVersion,
                         usedPermissionHashes, now, stack, executed, allowed, revoked>>
          /\ Snapshot' = Snapshot /\ Top' = Top /\ Running' = Running
      BY <2>13 DEF vars, Snapshot, Top, Running
    <3>2. Consistent(Snapshot)' /\ Settled(Snapshot)' = Settled(Snapshot)
      BY <2>1, <3>1 DEF Consistent, Settled
    <3>3. Running => FrameInv(Top)'
      BY <2>3, <3>1 DEF FrameInv
    <3> QED BY <2>1, <3>1, <3>2, <3>3 DEF BookkeepingInv, TypeOK
  <2> QED BY <2>6, <2>7, <2>8, <2>9, <2>10, <2>11, <2>12, <2>13 DEF Next
<1> QED BY <1>1, <1>2, PTL DEF Spec
---------------------------------------------------------------------------
(***************************************************************************)
(* Between executions the registry holds exactly what was executed.          *)
(***************************************************************************)
THEOREM AtomicityHolds == Spec => []SpentMeansExecuted
<1>1. BookkeepingInv => SpentMeansExecuted
  BY SnapshotFields DEF BookkeepingInv, SpentMeansExecuted, Settled
<1> QED BY <1>1, BookkeepingHolds, PTL

(***************************************************************************)
(* Only execTransaction adds to the stack.                                   *)
(***************************************************************************)
LEMMA OnlyCallersStart ==
    ASSUME BookkeepingInv, [Next]_vars, Starts
    PROVE  \E caller \in Address, tx \in Tx : ExecTransaction(caller, tx)
<1>1. stack \in Seq(Frame) /\ Len(stack) <= 1
  BY DEF BookkeepingInv, TypeOK
<1>2. stack' # stack
  BY <1>1, LenProperties DEF Starts
<1>3. ASSUME Running, stack' = Pop PROVE FALSE
  <2>1. Len(stack) = 1 /\ stack' = <<>>
    BY <1>1, <1>3, StackShape
  <2> QED BY <2>1 DEF Starts
<1> QED BY <1>2, <1>3 DEF Next, ExecutionSucceeds, ExecutionFails, ExecutionConfigures,
             DelegatecallConfigures, OwnersConfigure, Tick, vars

(***************************************************************************)
(* An execution starts under a permission that lives and was never revoked,   *)
(* and a delegatecall only to a target allowed since the last root change.    *)
(***************************************************************************)
THEOREM RevocationHolds == Spec => RevokedNeverStarts
<1>1. BookkeepingInv /\ [Next]_vars
        => [Starts => LET frame == stack'[Len(stack')]
                      IN  frame.leaf \in LiveLeaves(frame.tx.safe) \ revoked]_vars
  <2> SUFFICES ASSUME BookkeepingInv, [Next]_vars, Starts
               PROVE  stack'[Len(stack')].leaf
                        \in LiveLeaves(stack'[Len(stack')].tx.safe) \ revoked
    OBVIOUS
  <2>1. PICK caller \in Address, tx \in Tx : ExecTransaction(caller, tx)
    BY OnlyCallersStart
  <2>2. /\ stack' = <<[tx |-> tx, leaf |-> LeafOf(tx), before |-> Snapshot]>>
        /\ LeafOf(tx) \in LiveLeaves(tx.safe) \ revoked
    BY <2>1, StartFacts
  <2> QED BY <2>2
<1> QED BY <1>1, BookkeepingHolds, PTL DEF Spec, RevokedNeverStarts

THEOREM FreshnessHolds == Spec => DelegatecallIsFresh
<1>1. BookkeepingInv /\ [Next]_vars
        => [Starts => LET tx == stack'[Len(stack')].tx
                      IN  tx.operation = 1 => tx.to \in allowed[tx.safe]]_vars
  <2> SUFFICES ASSUME BookkeepingInv, [Next]_vars, Starts,
                      stack'[Len(stack')].tx.operation = 1
               PROVE  stack'[Len(stack')].tx.to \in allowed[stack'[Len(stack')].tx.safe]
    OBVIOUS
  <2>1. PICK caller \in Address, tx \in Tx : ExecTransaction(caller, tx)
    BY OnlyCallersStart
  <2>2. /\ stack' = <<[tx |-> tx, leaf |-> LeafOf(tx), before |-> Snapshot]>>
        /\ tx.operation = 1 => tx.to \in allowed[tx.safe]
    BY <2>1, StartFacts
  <2> QED BY <2>2
<1> QED BY <1>1, BookkeepingHolds, PTL DEF Spec, DelegatecallIsFresh

(***************************************************************************)
(* Executed code changes the configuration of its own Safe only, and only     *)
(* under a permission for that or from a target the Safe had allowed.         *)
(***************************************************************************)
THEOREM EscalationHolds == Spec => CallersCannotEscalate
<1> DEFINE Configured(s) ==
      /\ cause' = "configuration"
      /\ \/ authorizations'[s] # authorizations[s]
         \/ isAuthorizedCaller'[s] # isAuthorizedCaller[s]
         \/ delegatecallWhitelistVersion'[s] # delegatecallWhitelistVersion[s]
    Permitted(s) ==
      /\ Top.tx.safe = s
      /\ \/ /\ Top.tx.operation = 1
            /\ Top.tx.perm.target \in Top.before.allowed[s]
         \/ /\ Top.tx.perm.target = GateAddress
            /\ Top.tx.perm.selector \in ConfigSelector
<1>1. ASSUME BookkeepingInv, [Next]_vars, vars' # vars, NEW s \in Safe, Configured(s)
      PROVE  Permitted(s)
  <2>1. ExecutionConfigures \/ DelegatecallConfigures
    BY <1>1 DEF Next, ExecTransaction, ExecutionSucceeds, ExecutionFails, OwnersConfigure, Tick
  <2>2. Running
    BY <2>1 DEF ExecutionConfigures, DelegatecallConfigures
  <2>3. /\ FrameInv(Top) /\ Top.tx.safe \in Safe
        /\ Snapshot \in State /\ Consistent(Snapshot)
    BY <1>1, <2>2, StackShape, SafeAssumption DEF BookkeepingInv, TypeOK, Frame
  <2>4. PICK selectors : Configure(Top.tx.safe, selectors)
    BY <2>1 DEF ExecutionConfigures, DelegatecallConfigures
  <2>5. Top.tx.safe = s
    BY <1>1, <2>3, <2>4, ConfigureKeeps
  <2>6. CASE DelegatecallConfigures
    BY <2>3, <2>5, <2>6 DEF DelegatecallConfigures, FrameInv
  <2>7. CASE ExecutionConfigures
    BY <2>3, <2>5, <2>7 DEF ExecutionConfigures, CallsModule, FrameInv
  <2> QED BY <2>1, <2>6, <2>7
<1>2. BookkeepingInv /\ [Next]_vars => [\A s \in Safe : Configured(s) => Permitted(s)]_vars
  BY <1>1
<1> QED BY <1>2, BookkeepingHolds, PTL DEF Spec, CallersCannotEscalate

---------------------------------------------------------------------------
(***************************************************************************)
(* Nothing that was revoked lives.                                           *)
(***************************************************************************)
LEMMA NothingRevokedLives ==
    ASSUME NEW state \in State, Consistent(state)
    PROVE  LiveIn(state.authorizations) \cap state.revoked = {}
<1> SUFFICES ASSUME NEW leaf \in LiveIn(state.authorizations), leaf \in state.revoked
             PROVE  FALSE
  OBVIOUS
<1>1. leaf.account \in Safe /\ leaf.nonce = state.authorizations[leaf.account].nonce
  BY LiveInMember
<1>2. leaf.nonce \in Nat
  BY SafeAssumption DEF State, Leaf, Nonce
<1> QED BY <1>1, <1>2 DEF Consistent

(***************************************************************************)
(* The module implements the permission ledger.  While an execution is under   *)
(* way the ledger stands still; when it succeeds, its permission is used and   *)
(* all it configured takes effect in one step of the ledger; when it fails,    *)
(* nothing happened.                                                         *)
(***************************************************************************)
THEOREM ModuleImplementsLedger == Spec => ImplementsLedger
<1>1. Init => Ledger!Init
  <2> SUFFICES ASSUME Init PROVE Ledger!Init
    OBVIOUS
  <2>1. Committed = Snapshot
    BY DEF Init, Committed, Running
  <2>2. LiveIn(authorizations) = {}
    BY LiveInMember DEF Init, NoRoot
  <2> QED BY <2>1, <2>2, SnapshotFields DEF Init, Ledger!Init
<1>2. BookkeepingInv /\ BookkeepingInv' /\ [Next]_vars => [Ledger!Next]_Ledger!ledger
  <2> SUFFICES ASSUME BookkeepingInv, BookkeepingInv', [Next]_vars
               PROVE  Ledger!Next \/ UNCHANGED Ledger!ledger
    OBVIOUS
  <2>1. ASSUME Committed' = Committed PROVE UNCHANGED Ledger!ledger
    BY <2>1 DEF Ledger!ledger
  <2>2. /\ Snapshot \in State /\ Consistent(Snapshot)
        /\ Snapshot' \in State /\ Consistent(Snapshot)'
        /\ stack \in Seq(Frame) /\ Len(stack) <= 1
    BY DEF BookkeepingInv, TypeOK
  <2>3. /\ Snapshot'.authorizations = authorizations'
        /\ Snapshot'.revoked = revoked'
        /\ Snapshot'.executed = executed'
    BY DEF Snapshot
  <2>4. LiveIn(authorizations') \cap revoked' = {}
    <3>1. Consistent(Snapshot')
      BY <2>2 DEF Consistent
    <3> QED BY <2>2, <2>3, <3>1, NothingRevokedLives
  <2>5. ASSUME ~Running PROVE Committed = Snapshot /\ stack = <<>>
    BY <2>5 DEF Committed, Running
  <2>6. ASSUME Running
        PROVE  /\ Top = stack[1] /\ Top \in Frame /\ Pop = <<>>
               /\ Committed = Top.before /\ FrameInv(Top)
               /\ Top.tx.safe \in Safe /\ Top.leaf \in Leaf
    BY <2>2, <2>6, StackShape, SafeAssumption DEF Committed, Frame, BookkeepingInv
  <2>7. ASSUME Running, stack' = Pop, CountExecuted,
               usedPermissionHashes' = usedPermissionHashes, revoked \subseteq revoked',
               LiveIn(authorizations) \subseteq LiveIn(authorizations') \cup revoked'
        PROVE  Ledger!Next
    <3> DEFINE before == Top.before
    <3>1. Committed = before /\ Committed' = Snapshot'
      BY <2>6, <2>7 DEF Committed, Running
    <3>2. /\ before.revoked \subseteq revoked'
          /\ LiveIn(before.authorizations) \subseteq LiveIn(authorizations') \cup revoked'
      BY <2>6, <2>7 DEF FrameInv
    <3>3. Ledger!Reconfigure
      BY <2>3, <2>4, <3>1, <3>2 DEF Ledger!Reconfigure
    <3>4. IF Top.tx.perm.singleUse
          THEN /\ before.executed[Top.leaf] = 0
               /\ executed' = [before.executed EXCEPT ![Top.leaf] = 1]
          ELSE executed' = before.executed
      BY <2>6, <2>7, Settling DEF BookkeepingInv
    <3>5. CASE Top.tx.perm.singleUse
      <4>1. Top.leaf \in LiveIn(before.authorizations)
        BY <2>6, <2>7 DEF FrameInv
      <4>2. Ledger!Use(Top.leaf)
        BY <2>3, <3>1, <3>3, <3>4, <3>5, <4>1 DEF Ledger!Use
      <4> QED BY <2>6, <2>7, <4>2 DEF Ledger!Next
    <3>6. CASE ~Top.tx.perm.singleUse
      BY <2>3, <3>1, <3>3, <3>4, <3>6 DEF Ledger!Next, Ledger!Change
    <3> QED BY <3>5, <3>6
  <2>8. ASSUME NEW caller \in Address, NEW tx \in Tx, ExecTransaction(caller, tx)
        PROVE  Committed' = Committed
    <3>1. /\ ~Running
          /\ stack' = <<[tx |-> tx, leaf |-> LeafOf(tx), before |-> Snapshot]>>
      BY <2>8, StartFacts
    <3> QED BY <2>5, <3>1 DEF Committed, Running
  <2>9. CASE ExecutionSucceeds
    BY <2>7, <2>9 DEF ExecutionSucceeds, storage
  <2>10. CASE ExecutionConfigures
    <3>1. Running /\ Configure(Top.tx.safe, {Top.tx.call.selector})
      BY <2>10 DEF ExecutionConfigures
    <3> QED BY <2>2, <2>6, <2>7, <2>10, <3>1, ConfigureKeeps DEF ExecutionConfigures
  <2>11. ASSUME Running, stack' = stack PROVE Committed' = Committed
    BY <2>11 DEF Committed, Running
  <2>12. CASE ExecutionFails
    <3>1. Running /\ stack' = <<>>
      BY <2>6, <2>12 DEF ExecutionFails
    <3>2. Committed' = Snapshot' /\ Committed = Top.before /\ Top.before \in State
      BY <2>6, <3>1 DEF Committed, Running, Frame
    <3>3. Snapshot'.authorizations = Top.before.authorizations
          /\ Snapshot'.revoked = Top.before.revoked
          /\ Snapshot'.executed = Top.before.executed
      BY <2>3, <2>12 DEF ExecutionFails
    <3> QED BY <3>2, <3>3 DEF Ledger!ledger
  <2>13. CASE \E safe \in Safe : OwnersConfigure(safe)
    <3>1. PICK safe \in Safe : OwnersConfigure(safe)
      BY <2>13
    <3>2. CASE Running
      BY <2>1, <2>11, <3>1, <3>2 DEF OwnersConfigure
    <3>3. CASE ~Running
      <4>1. /\ revoked \subseteq revoked'
            /\ LiveIn(authorizations) \subseteq LiveIn(authorizations') \cup revoked'
            /\ executed' = executed
        BY <2>2, <3>1, ConfigureKeeps DEF OwnersConfigure
      <4>2. Committed = Snapshot /\ Committed' = Snapshot'
        BY <2>5, <3>1, <3>3 DEF OwnersConfigure, Committed, Running
      <4>3. Ledger!Change
        BY <2>3, <2>4, <4>1, <4>2, SnapshotFields DEF Ledger!Change, Ledger!Reconfigure
      <4> QED BY <4>3 DEF Ledger!Next
    <3> QED BY <3>2, <3>3
  <2>14. CASE Tick \/ UNCHANGED vars
    <3>1. Snapshot' = Snapshot /\ stack' = stack
      BY <2>14 DEF Tick, vars, storage, history, Snapshot
    <3> QED BY <2>1, <3>1 DEF Committed, Running
  <2>15. CASE DelegatecallConfigures
    BY <2>1, <2>11, <2>15 DEF DelegatecallConfigures
  <2> QED BY <2>1, <2>8, <2>9, <2>10, <2>12, <2>13, <2>14, <2>15 DEF Next
<1> QED BY <1>1, <1>2, BookkeepingHolds, PTL DEF Spec, ImplementsLedger, Ledger!Spec
=============================================================================
