-------------------------- MODULE PermissionLedger --------------------------
(***************************************************************************)
(* What every gate of the repository promises its accounts, without saying   *)
(* how: permissions come to life, are used, and die.  A permission that can   *)
(* be used only once is used at most once, it is used only while it lives,    *)
(* and the dead do not come back.  The gates keep these promises with policy   *)
(* roots, epochs and a registry of spent leaves, none of which is seen here;   *)
(* each shows it in its own terms as ImplementsLedger.                        *)
(***************************************************************************)
EXTENDS Integers

CONSTANTS
    Leaf,       \* the permissions, each of one account and one epoch
    Amendable   \* may a permission stop living without dying?

VARIABLES
    live,       \* the permissions an operation may be justified by
    dead,       \* those whose epoch ended while they lived
    used        \* leaf -> how often it was used, where that may happen once

ledger == <<live, dead, used>>

Init ==
    /\ live = {}
    /\ dead = {}
    /\ used = [leaf \in Leaf |-> 0]

\* New permissions may appear, never one that died; what stops living dies,
\* unless the account may amend its permissions within an epoch.
Reconfigure ==
    /\ dead \subseteq dead'
    /\ live' \cap dead' = {}
    /\ ~Amendable => live \ live' \subseteq dead'

Change == Reconfigure /\ UNCHANGED used

\* The operation that uses the permission may reconfigure its account as well.
Use(leaf) ==
    /\ leaf \in live
    /\ used[leaf] = 0
    /\ used' = [used EXCEPT ![leaf] = 1]
    /\ Reconfigure

Next == Change \/ \E leaf \in Leaf : Use(leaf)

Spec == Init /\ [][Next]_ledger

---------------------------------------------------------------------------
\* No permission is used twice, and none lives that has died.
Promise == used \in [Leaf -> 0 .. 1] /\ live \cap dead = {}

\* A dead permission is neither used nor revived.
DeadStaysDead ==
    [][\A leaf \in dead : leaf \in dead' \ live' /\ used'[leaf] = used[leaf]]_ledger
=============================================================================
