----------------------- MODULE PermissionLedger_proofs -----------------------
(* What the permission ledger promises, whatever gate implements it. *)
EXTENDS PermissionLedger, TLAPS

(***************************************************************************)
(* No permission is used twice and none that died lives.                     *)
(***************************************************************************)
THEOREM PromiseHolds == Spec => []Promise
<1>1. Init => Promise
  BY DEF Init, Promise
<1>2. Promise /\ [Next]_ledger => Promise'
  <2> SUFFICES ASSUME Promise, [Next]_ledger PROVE Promise'
    OBVIOUS
  <2>1. CASE Change
    BY <2>1 DEF Change, Reconfigure, Promise
  <2>2. ASSUME NEW leaf \in Leaf, Use(leaf) PROVE Promise'
    BY <2>2 DEF Use, Reconfigure, Promise
  <2>3. CASE UNCHANGED ledger
    BY <2>3 DEF ledger, Promise
  <2> QED BY <2>1, <2>2, <2>3 DEF Next
<1> QED BY <1>1, <1>2, PTL DEF Spec

(***************************************************************************)
(* A permission that died is never used or revived: to be used it would have  *)
(* to live, which the dead do not.                                            *)
(***************************************************************************)
THEOREM DeathIsFinal == Spec => DeadStaysDead
<1>1. Promise /\ [Next]_ledger
        => [\A leaf \in dead : leaf \in dead' \ live' /\ used'[leaf] = used[leaf]]_ledger
  <2> SUFFICES ASSUME Promise, Next, NEW leaf \in dead
               PROVE  leaf \in dead' \ live' /\ used'[leaf] = used[leaf]
    OBVIOUS
  <2>1. CASE Change
    BY <2>1 DEF Change, Reconfigure
  <2>2. ASSUME NEW other \in Leaf, Use(other)
        PROVE  leaf \in dead' \ live' /\ used'[leaf] = used[leaf]
    <3>1. other # leaf
      BY <2>2 DEF Use, Promise
    <3> QED BY <2>2, <3>1 DEF Use, Reconfigure, Promise
  <2> QED BY <2>1, <2>2 DEF Next
<1> QED BY <1>1, PromiseHolds, PTL DEF Spec, DeadStaysDead
=============================================================================
