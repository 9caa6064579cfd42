---------------------------- MODULE MerkleBuilder ----------------------------
(***************************************************************************)
(* The off-chain tree builder (sdk/src/builder): permissions are added, a    *)
(* tree is built from those added so far and its root is deployed, and        *)
(* proofs are asked for, before or after more permissions are added.          *)
(*                                                                         *)
(* keccak256 is injective: a hash is the record of what is hashed.  A leaf    *)
(* has no kids; an inner node is the set of the two hashes that combineHashes  *)
(* sorts, which is a singleton where a node is paired with itself.            *)
(***************************************************************************)
EXTENDS Integers, Sequences, FiniteSets

CONSTANTS
    Permission,      \* the permissions in play
    Config,          \* account, gate, chain and nonce of the builder
    MaxPermissions   \* bound on the permissions added

ASSUME BuilderAssumption == MaxPermissions \in Nat

VARIABLES
    permissions,    \* the permissions added so far, in order
    deployed,       \* what the last build() returned
    result          \* what the last getProof() returned

vars == <<permissions, deployed, result>>

HashPermissionLeaf(permission) == [of |-> <<Config, permission>>, kids |-> {}]

ZeroHash == [of |-> <<>>, kids |-> {}]

CombineHashes(a, b) == [of |-> <<"node">>, kids |-> {a, b}]

\* Mutated form: an odd node at the end of a level is dropped.
NextLevelDropsOdd(level) ==
    [i \in 1 .. (IF Len(level) = 1 THEN 1 ELSE Len(level) \div 2) |->
        IF Len(level) = 1 THEN level[1] ELSE CombineHashes(level[2 * i - 1], level[2 * i])]

\* An odd node at the end of a level is combined with itself.
NextLevel(level) ==
    [i \in 1 .. (Len(level) + 1) \div 2 |->
        LET left == level[2 * i - 1]
        IN  CombineHashes(left, IF 2 * i <= Len(level) THEN level[2 * i] ELSE left)]

\* The levels above the leaves, the leaves first.
LevelAbove(leaves) ==
    LET level[h \in 0 .. Len(leaves)] ==
            IF h = 0 THEN leaves ELSE NextLevel(level[h - 1])
    IN  level

\* The level at which at most one node is left.
Height(leaves) ==
    CHOOSE h \in 0 .. Len(leaves) :
        /\ Len(LevelAbove(leaves)[h]) <= 1
        /\ \A k \in 0 .. h - 1 : Len(LevelAbove(leaves)[k]) > 1

Levels(leaves) == [i \in 1 .. Height(leaves) + 1 |-> LevelAbove(leaves)[i - 1]]

BuildMerkleTree(leaves) ==
    LET nodes == Levels(leaves)
    IN  [root |-> IF leaves = <<>> THEN ZeroHash ELSE nodes[Len(nodes)][1],
         nodes |-> IF leaves = <<>> THEN <<>> ELSE nodes,
         leaves |-> leaves]

\* The first position of the leaf, counted from 0 as in the code.
IndexOf(leaves, leaf) ==
    CHOOSE i \in 0 .. Len(leaves) - 1 :
        leaves[i + 1] = leaf /\ \A j \in 0 .. i - 1 : leaves[j + 1] # leaf

\* Mutated form: a left node is its own sibling.
SiblingIndexAlways(level, index) == IF index % 2 = 1 THEN index - 1 ELSE index

\* The position of the sibling; a node without one is its own sibling.
SiblingIndex(level, index) ==
    LET siblingIndex == IF index % 2 = 1 THEN index - 1 ELSE index + 1
    IN  IF siblingIndex < Len(level) THEN siblingIndex ELSE index

\* The positions of the ancestors of the node at a position, level by level.
IndexAbove(start, levels) ==
    LET index[i \in 0 .. levels] == IF i = 0 THEN start ELSE index[i - 1] \div 2
    IN  index

GenerateProof(tree, leaf) ==
    LET index == IndexAbove(IndexOf(tree.leaves, leaf), Len(tree.nodes))
    IN  [i \in 1 .. Len(tree.nodes) - 1 |->
            tree.nodes[i][SiblingIndex(tree.nodes[i], index[i - 1]) + 1]]

\* The hashes from the leaf up, one for every sibling of the proof.
PathUp(leaf, proof) ==
    LET current[i \in 0 .. Len(proof)] ==
            IF i = 0 THEN leaf ELSE CombineHashes(current[i - 1], proof[i])
    IN  current

Recombine(leaf, proof) == PathUp(leaf, proof)[Len(proof)]

\* The SDK's verifyMerkleProof, and MerkleProof.verify on chain.
VerifyMerkleProof(root, proof, leaf) == Recombine(leaf, proof) = root

Leaves == [i \in DOMAIN permissions |-> HashPermissionLeaf(permissions[i])]

---------------------------------------------------------------------------
NoResult == [proof |-> <<>>, root |-> ZeroHash, leaf |-> ZeroHash]

Init ==
    /\ permissions = <<>>
    /\ deployed = [root |-> ZeroHash, leaves |-> <<>>]
    /\ result = NoResult

AddPermission(permission) ==
    /\ Len(permissions) < MaxPermissions
    /\ permissions' = Append(permissions, permission)
    /\ UNCHANGED <<deployed, result>>

Build ==
    /\ deployed' = [root |-> BuildMerkleTree(Leaves).root, leaves |-> Leaves]
    /\ UNCHANGED <<permissions, result>>

\* getProof builds the tree of all permissions added by now, not of those that
\* were deployed.  It throws when the permission is not there.
GetProof(permission) ==
    LET leaf == HashPermissionLeaf(permission)
        tree == BuildMerkleTree(Leaves)
    IN  /\ \E i \in DOMAIN Leaves : Leaves[i] = leaf
        /\ result' = [proof |-> GenerateProof(tree, leaf), root |-> tree.root, leaf |-> leaf]
        /\ UNCHANGED <<permissions, deployed>>

Next ==
    \/ \E permission \in Permission : AddPermission(permission)
    \/ Build
    \/ \E permission \in Permission : GetProof(permission)

Spec == Init /\ [][Next]_vars

---------------------------------------------------------------------------
LeafHashes == {HashPermissionLeaf(p) : p \in Permission}

\* A proof verifies against the deployed root exactly when that root is the one
\* it was made for: permissions added after build() never slip in, and however
\* odd the levels and whichever of several equal permissions is asked for, a
\* proof asked for before anything is added fits.
ProofFitsItsRoot ==
    result # NoResult =>
        (VerifyMerkleProof(deployed.root, result.proof, result.leaf)
            <=> deployed.root = result.root)

KidsOf(nodes) == UNION {node.kids : node \in nodes}

\* The hashes that a proof of so many siblings verifies for: Recombine reaches
\* the root only through kids of kids of it.
ProvableBy(root, siblings) ==
    LET below[n \in 0 .. siblings] ==
            IF n = 0 THEN {root} ELSE KidsOf(below[n - 1])
    IN  below

Provable(root) == UNION {ProvableBy(root, MaxPermissions)[n] : n \in 0 .. MaxPermissions}

\* What the gates rely on: some proof verifies against the deployed root for the
\* leaves of its tree and for no others.
RootIsItsLeaves ==
    deployed.leaves # <<>> =>
        Provable(deployed.root) \cap LeafHashes
            = {deployed.leaves[i] : i \in DOMAIN deployed.leaves}
=============================================================================
