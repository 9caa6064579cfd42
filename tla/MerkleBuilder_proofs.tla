------------------------- MODULE MerkleBuilder_proofs -------------------------
(***************************************************************************)
(* Trees of any size.  The library's induction theorems cannot be used here   *)
(* (they take an operator), so induction is over a set of naturals.           *)
(***************************************************************************)
EXTENDS MerkleBuilder, WellFoundedInduction, TLAPS

\* A non-empty set of naturals has a least element.
LEMMA LeastNatural ==
    ASSUME NEW T \in SUBSET Nat, T # {}
    PROVE  \E n \in T : \A m \in T : n <= m
<1>1. PICK n \in T : \A m \in T : ~(<<m, n>> \in OpToRel(<, Nat))
  BY NatLessThanWellFounded, WFMin
<1>2. \A m \in T : ~(m < n)
  BY <1>1 DEF OpToRel
<1>3. \A m \in T : n <= m
  BY <1>2
<1> QED BY <1>3

\* Induction over the naturals, for a set.
LEMMA NaturalsByStep ==
    ASSUME NEW T \in SUBSET Nat, 0 \in T, \A n \in T : n + 1 \in T
    PROVE  T = Nat
<1> SUFFICES ASSUME T # Nat PROVE FALSE
  OBVIOUS
<1>1. PICK n \in Nat \ T : \A m \in Nat \ T : n <= m
  BY LeastNatural
<1>2. n - 1 \in T
  BY <1>1
<1> QED BY <1>1, <1>2

\* Induction from 0 to n, for a set.
LEMMA UpToByStep ==
    ASSUME NEW n \in Nat, NEW T, 0 \in T, \A i \in 0 .. n - 1 : i \in T => i + 1 \in T
    PROVE  0 .. n \subseteq T
<1> DEFINE reached == {i \in Nat : i <= n => i \in T}
<1>1. 0 \in reached /\ \A i \in reached : i + 1 \in reached
  OBVIOUS
<1>2. reached = Nat
  <2> HIDE DEF reached
  <2> QED BY <1>1, NaturalsByStep DEF reached
<1> QED BY <1>2

---------------------------------------------------------------------------
(***************************************************************************)
(* The recursive functions are defined: each value from the one before.       *)
(***************************************************************************)
LEMMA LevelAboveDef ==
    ASSUME NEW leaves, Len(leaves) \in Nat
    PROVE  LevelAbove(leaves) =
               [h \in 0 .. Len(leaves) |->
                   IF h = 0 THEN leaves ELSE NextLevel(LevelAbove(leaves)[h - 1])]
<1> DEFINE F(level, m) ==
               [h \in 0 .. m |-> IF h = 0 THEN leaves ELSE NextLevel(level[h - 1])]
           T == {m \in Nat : \E level : level = F(level, m)}
<1>1. 0 \in T
  <2> DEFINE level == [h \in 0 .. 0 |-> leaves]
  <2>1. level = F(level, 0)
    OBVIOUS
  <2> HIDE DEF F, level
  <2> QED BY <2>1
<1>2. ASSUME NEW m \in T PROVE m + 1 \in T
  <2>1. PICK level : level = F(level, m)
    OBVIOUS
  <2> DEFINE more == [h \in 0 .. m + 1 |->
                         IF h <= m THEN level[h] ELSE NextLevel(level[m])]
  <2>2. more = F(more, m + 1)
    BY <2>1
  <2> HIDE DEF F, more
  <2> QED BY <2>2
<1>3. T = Nat
  <2> HIDE DEF T
  <2> QED BY <1>1, <1>2, NaturalsByStep DEF T
<1>4. \E level : level = F(level, Len(leaves))
  BY <1>3
<1> QED BY <1>4, Zenon DEF LevelAbove

LEMMA IndexAboveDef ==
    ASSUME NEW start, NEW levels \in Nat
    PROVE  IndexAbove(start, levels) =
               [i \in 0 .. levels |->
                   IF i = 0 THEN start ELSE IndexAbove(start, levels)[i - 1] \div 2]
<1> DEFINE F(index, m) == [i \in 0 .. m |-> IF i = 0 THEN start ELSE index[i - 1] \div 2]
           T == {m \in Nat : \E index : index = F(index, m)}
<1>1. 0 \in T
  <2> DEFINE index == [i \in 0 .. 0 |-> start]
  <2>1. index = F(index, 0)
    OBVIOUS
  <2> HIDE DEF F, index
  <2> QED BY <2>1
<1>2. ASSUME NEW m \in T PROVE m + 1 \in T
  <2>1. PICK index : index = F(index, m)
    OBVIOUS
  <2> DEFINE more == [i \in 0 .. m + 1 |-> IF i <= m THEN index[i] ELSE index[m] \div 2]
  <2>2. more = F(more, m + 1)
    BY <2>1
  <2> HIDE DEF F, more
  <2> QED BY <2>2
<1>3. T = Nat
  <2> HIDE DEF T
  <2> QED BY <1>1, <1>2, NaturalsByStep DEF T
<1>4. \E index : index = F(index, levels)
  BY <1>3
<1> QED BY <1>4, Zenon DEF IndexAbove

LEMMA PathUpDef ==
    ASSUME NEW leaf, NEW proof, Len(proof) \in Nat
    PROVE  PathUp(leaf, proof) =
               [i \in 0 .. Len(proof) |->
                   IF i = 0 THEN leaf
                   ELSE CombineHashes(PathUp(leaf, proof)[i - 1], proof[i])]
<1> DEFINE F(path, m) ==
               [i \in 0 .. m |-> IF i = 0 THEN leaf ELSE CombineHashes(path[i - 1], proof[i])]
           T == {m \in Nat : \E path : path = F(path, m)}
<1>1. 0 \in T
  <2> DEFINE path == [i \in 0 .. 0 |-> leaf]
  <2>1. path = F(path, 0)
    OBVIOUS
  <2> HIDE DEF F, path
  <2> QED BY <2>1
<1>2. ASSUME NEW m \in T PROVE m + 1 \in T
  <2>1. PICK path : path = F(path, m)
    OBVIOUS
  <2> DEFINE more == [i \in 0 .. m + 1 |->
                         IF i <= m THEN path[i] ELSE CombineHashes(path[m], proof[m + 1])]
  <2>2. more = F(more, m + 1)
    BY <2>1
  <2> HIDE DEF F, more
  <2> QED BY <2>2
<1>3. T = Nat
  <2> HIDE DEF T
  <2> QED BY <1>1, <1>2, NaturalsByStep DEF T
<1>4. \E path : path = F(path, Len(proof))
  BY <1>3
<1> QED BY <1>4, Zenon DEF PathUp

LEMMA ProvableByDef ==
    ASSUME NEW root, NEW siblings \in Nat
    PROVE  ProvableBy(root, siblings) =
               [n \in 0 .. siblings |->
                   IF n = 0 THEN {root} ELSE KidsOf(ProvableBy(root, siblings)[n - 1])]
<1> DEFINE top == {root}
           F(below, m) == [n \in 0 .. m |-> IF n = 0 THEN top ELSE KidsOf(below[n - 1])]
           T == {m \in Nat : \E below : below = F(below, m)}
<1> HIDE DEF top
<1>1. 0 \in T
  <2> DEFINE below == [n \in 0 .. 0 |-> top]
  <2>1. below = F(below, 0)
    OBVIOUS
  <2> HIDE DEF F, below
  <2> QED BY <2>1
<1>2. ASSUME NEW m \in T PROVE m + 1 \in T
  <2>1. PICK below : below = F(below, m)
    OBVIOUS
  <2> DEFINE more == [n \in 0 .. m + 1 |->
                         IF n <= m THEN below[n] ELSE KidsOf(below[m])]
  <2>2. more = F(more, m + 1)
    BY <2>1
  <2> HIDE DEF F, more
  <2> QED BY <2>2
<1>3. T = Nat
  <2> HIDE DEF T
  <2> QED BY <1>1, <1>2, NaturalsByStep DEF T
<1>4. \E below : below = F(below, siblings)
  BY <1>3
<1> QED BY <1>4, Zenon DEF ProvableBy, top

---------------------------------------------------------------------------
(***************************************************************************)
(* The levels of a tree.                                                      *)
(***************************************************************************)
IsLevel(level) ==
    /\ Len(level) \in Nat
    /\ Len(level) >= 1
    /\ level = [i \in 1 .. Len(level) |-> level[i]]

NodesOf(level) == {level[i] : i \in 1 .. Len(level)}

\* The next level is about half as long.
LEMMA NextLevelIsShorter ==
    ASSUME NEW level, IsLevel(level)
    PROVE  /\ IsLevel(NextLevel(level))
           /\ Len(NextLevel(level)) = (Len(level) + 1) \div 2
           /\ Len(level) > 1 => Len(NextLevel(level)) < Len(level)
<1> DEFINE n == (Len(level) + 1) \div 2
<1>1. n \in Nat \ {0}
  BY DEF IsLevel
<1>2. Len(NextLevel(level)) = n
  BY <1>1 DEF NextLevel
<1> QED BY <1>1, <1>2 DEF IsLevel, NextLevel

\* The hashes a level is made of are those of the level below it.
LEMMA KidsOfNextLevel ==
    ASSUME NEW level, IsLevel(level)
    PROVE  KidsOf(NodesOf(NextLevel(level))) = NodesOf(level)
<1> DEFINE next == NextLevel(level)
           n == Len(level)
           right(i) == IF 2 * i <= n THEN level[2 * i] ELSE level[2 * i - 1]
<1>0. n \in Nat
  BY DEF IsLevel
<1>1. Len(next) = (n + 1) \div 2
  BY NextLevelIsShorter
<1>2. \A i \in 1 .. Len(next) : next[i].kids = {level[2 * i - 1], right(i)}
  BY <1>1 DEF NextLevel, CombineHashes
<1>3. ASSUME NEW i \in 1 .. Len(next)
      PROVE  2 * i - 1 \in 1 .. n
  BY <1>1 DEF IsLevel
<1>4. KidsOf(NodesOf(next)) \subseteq NodesOf(level)
  BY <1>2, <1>3 DEF KidsOf, NodesOf, IsLevel
<1>5. ASSUME NEW j \in 1 .. n
      PROVE  \E i \in 1 .. Len(next) : level[j] \in next[i].kids
  <2>1. \E i \in 1 .. (n + 1) \div 2 : j = 2 * i - 1 \/ j = 2 * i
    <3> HIDE DEF n
    <3>1. j = 2 * ((j + 1) \div 2) - 1 \/ j = 2 * ((j + 1) \div 2)
      BY <1>0
    <3>2. (j + 1) \div 2 \in 1 .. (n + 1) \div 2
      BY <1>0
    <3> QED BY <3>1, <3>2
  <2>2. PICK i \in 1 .. Len(next) : j = 2 * i - 1 \/ j = 2 * i
    BY <1>1, <2>1
  <2>3. level[j] \in {level[2 * i - 1], right(i)}
    <3>1. CASE j = 2 * i - 1
      BY <3>1
    <3>2. CASE j = 2 * i
      <4>1. 2 * i <= n
        BY <3>2
      <4>2. right(i) = level[2 * i]
        BY <4>1
      <4> QED BY <3>2, <4>2
    <3> QED BY <2>2, <3>1, <3>2
  <2>4. next[i].kids = {level[2 * i - 1], right(i)}
    BY <1>2, <2>2
  <2> HIDE DEF next, right
  <2> QED BY <2>2, <2>3, <2>4
<1>6. NodesOf(level) \subseteq KidsOf(NodesOf(next))
  <2> SUFFICES ASSUME NEW j \in 1 .. n PROVE level[j] \in KidsOf(NodesOf(next))
    BY DEF NodesOf
  <2>1. PICK i \in 1 .. Len(next) : level[j] \in next[i].kids
    BY <1>5
  <2>2. next[i] \in NodesOf(next)
    BY DEF NodesOf
  <2> HIDE DEF next
  <2> QED BY <2>1, <2>2 DEF KidsOf
<1> QED BY <1>4, <1>6

LEMMA LevelZero ==
    ASSUME NEW leaves, IsLevel(leaves)
    PROVE  LevelAbove(leaves)[0] = leaves
BY LevelAboveDef DEF IsLevel

LEMMA LevelStep ==
    ASSUME NEW leaves, IsLevel(leaves), NEW h \in 0 .. Len(leaves) - 1
    PROVE  LevelAbove(leaves)[h + 1] = NextLevel(LevelAbove(leaves)[h])
<1>1. Len(leaves) \in Nat
  BY DEF IsLevel
<1>2. h + 1 \in 0 .. Len(leaves) /\ h + 1 # 0 /\ (h + 1) - 1 = h
  BY <1>1
<1> DEFINE L == LevelAbove(leaves)
<1>3. L = [i \in 0 .. Len(leaves) |-> IF i = 0 THEN leaves ELSE NextLevel(L[i - 1])]
  BY <1>1, LevelAboveDef
<1> HIDE DEF L
<1>4. L[h + 1] = NextLevel(L[h])
  BY <1>2, <1>3
<1> QED BY <1>4 DEF L

\* Every level is shorter than the one below it, until one node is left.
LEMMA LevelLengths ==
    ASSUME NEW leaves, IsLevel(leaves), NEW h \in 0 .. Len(leaves)
    PROVE  /\ IsLevel(LevelAbove(leaves)[h])
           /\ \/ Len(LevelAbove(leaves)[h]) = 1
              \/ Len(LevelAbove(leaves)[h]) + h <= Len(leaves)
<1> DEFINE L == LevelAbove(leaves)
           n == Len(leaves)
           T == {i \in 0 .. n : IsLevel(L[i]) /\ (Len(L[i]) = 1 \/ Len(L[i]) + i <= n)}
<1>1. n \in Nat
  BY DEF IsLevel
<1>2. 0 \in T
  BY <1>1, LevelZero
<1>3. ASSUME NEW i \in 0 .. n - 1, i \in T
      PROVE  i + 1 \in T
  <2>1. L[i + 1] = NextLevel(L[i])
    BY LevelStep
  <2>2. /\ IsLevel(L[i + 1])
        /\ Len(L[i + 1]) = (Len(L[i]) + 1) \div 2
        /\ Len(L[i]) > 1 => Len(L[i + 1]) < Len(L[i])
    BY <1>3, <2>1, NextLevelIsShorter
  <2>3. Len(L[i]) \in Nat /\ Len(L[i]) >= 1 /\ i \in Nat
    BY <1>1, <1>3 DEF IsLevel
  <2>4. Len(L[i]) = 1 \/ Len(L[i]) + i <= n
    BY <1>3
  <2>5. Len(L[i + 1]) = 1 \/ Len(L[i + 1]) + (i + 1) <= n
    <3> DEFINE a == Len(L[i])
               b == Len(L[i + 1])
    <3>1. a \in Nat /\ a >= 1 /\ b \in Nat /\ b = (a + 1) \div 2
      BY <2>2, <2>3 DEF IsLevel
    <3>2. (a = 1 \/ a + i <= n) /\ (a > 1 => b < a)
      BY <2>2, <2>4
    <3> HIDE DEF a, b
    <3>3. b = 1 \/ b + (i + 1) <= n
      BY <1>1, <2>3, <3>1, <3>2
    <3> QED BY <3>3 DEF b
  <2>6. i + 1 \in 0 .. n
    BY <1>1, <2>3
  <2> QED BY <2>2, <2>5, <2>6
<1>4. 0 .. n \subseteq T
  <2> HIDE DEF T
  <2> QED BY <1>1, <1>2, <1>3, UpToByStep
<1> QED BY <1>4

\* There is a level with one node.
LEMMA HeightDef ==
    ASSUME NEW leaves, IsLevel(leaves)
    PROVE  /\ Height(leaves) \in Nat
           /\ Height(leaves) \in 0 .. Len(leaves)
           /\ Len(LevelAbove(leaves)[Height(leaves)]) = 1
           /\ IsLevel(LevelAbove(leaves)[Height(leaves)])
<1> DEFINE L == LevelAbove(leaves)
           n == Len(leaves)
           low == {h \in 0 .. n : Len(L[h]) <= 1}
           IsHeight(h) == Len(L[h]) <= 1 /\ \A k \in 0 .. h - 1 : Len(L[k]) > 1
<1>1. n \in Nat
  BY DEF IsLevel
<1>2. \A h \in 0 .. n : IsLevel(L[h]) /\ Len(L[h]) \in Nat /\ Len(L[h]) >= 1
  BY LevelLengths DEF IsLevel
<1>3. n \in low
  <2>1. n \in 0 .. n
    BY <1>1
  <2>2. Len(L[n]) = 1 \/ Len(L[n]) + n <= n
    BY <2>1, LevelLengths
  <2>3. Len(L[n]) \in Nat /\ Len(L[n]) >= 1
    BY <1>2, <2>1
  <2> DEFINE last == Len(L[n])
  <2>4. last \in Nat /\ last >= 1 /\ (last = 1 \/ last + n <= n)
    BY <2>2, <2>3
  <2>5. last <= 1
    <3> HIDE DEF last, n
    <3> QED BY <1>1, <2>4
  <2> QED BY <2>1, <2>5
<1>4. PICK h \in low : \A k \in low : h <= k
  <2>1. low \in SUBSET Nat /\ low # {}
    BY <1>1, <1>3
  <2> HIDE DEF low
  <2> QED BY <2>1, LeastNatural
<1>5. h \in 0 .. n /\ IsHeight(h)
  <2> QED BY <1>1, <1>2, <1>4
<1>6. Height(leaves) \in 0 .. n /\ IsHeight(Height(leaves))
  BY <1>5, Zenon DEF Height
<1>7. Len(L[Height(leaves)]) = 1
  <2> DEFINE top == Len(L[Height(leaves)])
  <2>1. top \in Nat /\ top >= 1 /\ top <= 1
    BY <1>2, <1>6
  <2> HIDE DEF top
  <2>2. top = 1
    BY <2>1
  <2> QED BY <2>2 DEF top
<1>8. Height(leaves) \in Nat
  <2> DEFINE H == Height(leaves)
  <2> HIDE DEF H, n
  <2>1. H \in Nat
    BY <1>1, <1>6 DEF H
  <2> QED BY <2>1 DEF H
<1> QED BY <1>2, <1>6, <1>7, <1>8

---------------------------------------------------------------------------
(***************************************************************************)
(* What is below the root, step by step.                                      *)
(***************************************************************************)
\* Leaves as the builder hashes them: nothing below them.
AreLeaves(leaves) == IsLevel(leaves) /\ NodesOf(leaves) \subseteq LeafHashes

RootOf(leaves) == LevelAbove(leaves)[Height(leaves)][1]

\* What is n steps below the root.
HashesBelow(leaves, n) ==
    IF n <= Height(leaves) THEN NodesOf(LevelAbove(leaves)[Height(leaves) - n]) ELSE {}

LEMMA TreeOfLeaves ==
    ASSUME NEW leaves, IsLevel(leaves)
    PROVE  /\ BuildMerkleTree(leaves).root = RootOf(leaves)
           /\ BuildMerkleTree(leaves).leaves = leaves
           /\ Len(BuildMerkleTree(leaves).nodes) = Height(leaves) + 1
           /\ \A i \in 1 .. Height(leaves) + 1 :
                 BuildMerkleTree(leaves).nodes[i] = LevelAbove(leaves)[i - 1]
<1>1. leaves # <<>>
  BY DEF IsLevel
<1>2. Height(leaves) \in Nat
  BY HeightDef
<1>3. /\ Len(Levels(leaves)) = Height(leaves) + 1
      /\ \A i \in 1 .. Height(leaves) + 1 : Levels(leaves)[i] = LevelAbove(leaves)[i - 1]
  BY <1>2 DEF Levels
<1>4. Levels(leaves)[Len(Levels(leaves))] = LevelAbove(leaves)[Height(leaves)]
  BY <1>2, <1>3
<1> QED BY <1>1, <1>3, <1>4 DEF BuildMerkleTree, RootOf

\* A leaf is no inner node and has no kids.
LEMMA LeafIsNoNode ==
    ASSUME NEW leaf \in LeafHashes
    PROVE  leaf.kids = {} /\ \A a, b : leaf # CombineHashes(a, b)
<1>1. PICK p \in Permission : leaf = HashPermissionLeaf(p)
  BY DEF LeafHashes
<1>2. leaf.kids = {} /\ \A a, b : CombineHashes(a, b).kids = {a, b}
  BY <1>1 DEF HashPermissionLeaf, CombineHashes
<1> QED BY <1>2

LEMMA InnerNodes ==
    ASSUME NEW leaves, IsLevel(leaves), NEW h \in 0 .. Len(leaves) - 1,
           NEW node \in NodesOf(LevelAbove(leaves)[h + 1])
    PROVE  \E a, b : node = CombineHashes(a, b)
<1> DEFINE level == LevelAbove(leaves)[h]
<1>1. LevelAbove(leaves)[h + 1] = NextLevel(level)
  BY LevelStep
<1>2. IsLevel(level)
  BY LevelLengths DEF IsLevel
<1> HIDE DEF level
<1>3. PICK i \in 1 .. Len(NextLevel(level)) : node = NextLevel(level)[i]
  BY <1>1 DEF NodesOf
<1>4. i \in 1 .. (Len(level) + 1) \div 2
  BY <1>2, <1>3, NextLevelIsShorter
<1> QED BY <1>3, <1>4 DEF NextLevel

LEMMA KidsOfHashesBelow ==
    ASSUME NEW leaves, AreLeaves(leaves), NEW n \in Nat
    PROVE  KidsOf(HashesBelow(leaves, n)) = HashesBelow(leaves, n + 1)
<1> DEFINE H == Height(leaves)
           L == LevelAbove(leaves)
<1>1. IsLevel(leaves) /\ H \in 0 .. Len(leaves) /\ Len(leaves) \in Nat
  BY HeightDef DEF AreLeaves, IsLevel
<1> HIDE DEF H, L
<1>2. CASE n < H
  <2> DEFINE h == H - n - 1
  <2>1. h \in 0 .. Len(leaves) - 1 /\ h + 1 = H - n /\ h = H - (n + 1) /\ n <= H /\ n + 1 <= H
    BY <1>1, <1>2
  <2> HIDE DEF h
  <2>2. L[h + 1] = NextLevel(L[h]) /\ IsLevel(L[h])
    BY <1>1, <2>1, LevelStep, LevelLengths DEF L
  <2>3. KidsOf(NodesOf(L[h + 1])) = NodesOf(L[h])
    BY <2>2, KidsOfNextLevel
  <2>4. HashesBelow(leaves, n) = NodesOf(L[H - n])
    BY <2>1 DEF HashesBelow, H, L
  <2>5. HashesBelow(leaves, n + 1) = NodesOf(L[H - (n + 1)])
    BY <2>1 DEF HashesBelow, H, L
  <2> QED BY <2>1, <2>3, <2>4, <2>5
<1>3. CASE n = H
  <2>1. H - n = 0 /\ n <= H /\ ~(n + 1 <= H)
    BY <1>1, <1>3
  <2>2. L[0] = leaves
    BY <1>1, LevelZero DEF L
  <2>3. HashesBelow(leaves, n) = NodesOf(leaves) /\ HashesBelow(leaves, n + 1) = {}
    BY <2>1, <2>2 DEF HashesBelow, H, L
  <2>4. \A node \in NodesOf(leaves) : node.kids = {}
    BY LeafIsNoNode DEF AreLeaves
  <2> QED BY <2>3, <2>4 DEF KidsOf
<1>4. CASE n > H
  <2>1. ~(n <= H) /\ ~(n + 1 <= H)
    BY <1>1, <1>4
  <2> QED BY <2>1 DEF HashesBelow, KidsOf, H
<1> QED BY <1>1, <1>2, <1>3, <1>4

LEMMA HashesBelowZero ==
    ASSUME NEW leaves, IsLevel(leaves)
    PROVE  HashesBelow(leaves, 0) = {RootOf(leaves)}
<1>1. Height(leaves) \in Nat /\ Height(leaves) - 0 = Height(leaves) /\ 0 <= Height(leaves)
  <2> DEFINE H == Height(leaves)
  <2>1. H \in Nat
    BY HeightDef
  <2> HIDE DEF H
  <2>2. H - 0 = H /\ 0 <= H
    BY <2>1
  <2> QED BY <2>1, <2>2 DEF H
<1>2. Len(LevelAbove(leaves)[Height(leaves)]) = 1
  BY HeightDef
<1> QED BY <1>1, <1>2 DEF HashesBelow, RootOf, NodesOf

\* A leaf hash below the root is one of the leaves of the tree, at its full depth.
LEMMA LeavesBelow ==
    ASSUME NEW leaves, AreLeaves(leaves), NEW n \in Nat,
           NEW leaf \in LeafHashes, leaf \in HashesBelow(leaves, n)
    PROVE  n = Height(leaves) /\ leaf \in NodesOf(leaves)
<1> DEFINE H == Height(leaves)
           L == LevelAbove(leaves)
<1>1. IsLevel(leaves) /\ H \in 0 .. Len(leaves) /\ Len(leaves) \in Nat
  BY HeightDef DEF AreLeaves, IsLevel
<1> HIDE DEF H, L
<1>2. n <= H /\ leaf \in NodesOf(L[H - n])
  BY DEF HashesBelow, H, L
<1>3. CASE n < H
  <2> DEFINE h == H - n - 1
  <2>1. h \in 0 .. Len(leaves) - 1 /\ h + 1 = H - n
    BY <1>1, <1>3
  <2> HIDE DEF h
  <2>2. leaf \in NodesOf(LevelAbove(leaves)[h + 1])
    BY <1>2, <2>1 DEF L
  <2>3. \E a, b : leaf = CombineHashes(a, b)
    BY <1>1, <2>1, <2>2, InnerNodes
  <2> QED BY <2>3, LeafIsNoNode
<1>4. CASE n = H
  <2>1. L[H - n] = leaves
    <3>1. H - n = 0
      BY <1>1, <1>4
    <3> QED BY <1>1, <3>1, LevelZero DEF L
  <2> QED BY <1>2, <1>4, <2>1 DEF H
<1> QED BY <1>1, <1>2, <1>3, <1>4

\* Provable: of the leaf hashes, exactly the leaves of the tree.
LEMMA ProvableLeaves ==
    ASSUME NEW leaves, AreLeaves(leaves), Len(leaves) <= MaxPermissions
    PROVE  Provable(RootOf(leaves)) \cap LeafHashes = NodesOf(leaves)
<1> DEFINE B == ProvableBy(RootOf(leaves), MaxPermissions)
           T == {n \in 0 .. MaxPermissions : B[n] = HashesBelow(leaves, n)}
           H == Height(leaves)
<1>1. MaxPermissions \in Nat /\ IsLevel(leaves)
  BY BuilderAssumption DEF AreLeaves
<1>2. B = [n \in 0 .. MaxPermissions |->
              IF n = 0 THEN {RootOf(leaves)} ELSE KidsOf(B[n - 1])]
  BY <1>1, ProvableByDef
<1>3. 0 \in T
  <2> HIDE DEF B
  <2> QED BY <1>1, <1>2, HashesBelowZero
<1>4. ASSUME NEW n \in 0 .. MaxPermissions - 1, n \in T
      PROVE  n + 1 \in T
  <2>1. n \in Nat /\ n + 1 \in 0 .. MaxPermissions /\ n + 1 # 0 /\ (n + 1) - 1 = n
    BY <1>1
  <2>2. B[n + 1] = KidsOf(B[n])
    <3> HIDE DEF B
    <3> QED BY <1>2, <2>1
  <2>3. KidsOf(HashesBelow(leaves, n)) = HashesBelow(leaves, n + 1)
    BY <2>1, KidsOfHashesBelow
  <2> HIDE DEF B
  <2> QED BY <1>4, <2>1, <2>2, <2>3
<1>5. \A n \in 0 .. MaxPermissions : B[n] = HashesBelow(leaves, n)
  <2>1. 0 .. MaxPermissions \subseteq T
    <3> HIDE DEF T
    <3> QED BY <1>1, <1>3, <1>4, UpToByStep
  <2> HIDE DEF B
  <2> QED BY <2>1
<1>6. Provable(RootOf(leaves)) \cap LeafHashes \subseteq NodesOf(leaves)
  <2> SUFFICES ASSUME NEW leaf \in Provable(RootOf(leaves)), leaf \in LeafHashes
               PROVE  leaf \in NodesOf(leaves)
    OBVIOUS
  <2>1. PICK n \in 0 .. MaxPermissions : leaf \in B[n]
    BY DEF Provable
  <2>2. n \in Nat /\ leaf \in HashesBelow(leaves, n)
    BY <1>1, <1>5, <2>1
  <2> QED BY <2>2, LeavesBelow
<1>7. NodesOf(leaves) \subseteq Provable(RootOf(leaves)) \cap LeafHashes
  <2>1. H \in Nat /\ H \in 0 .. Len(leaves) /\ Len(leaves) \in Nat
    BY <1>1, HeightDef DEF IsLevel
  <2>2. H \in 0 .. MaxPermissions /\ H <= H /\ H - H = 0
    <3> DEFINE n == Len(leaves)
    <3>1. H \in Nat /\ H \in 0 .. n /\ n \in Nat /\ n <= MaxPermissions
      BY <2>1
    <3> HIDE DEF H, n
    <3> QED BY <1>1, <3>1
  <2>3. HashesBelow(leaves, H) = NodesOf(LevelAbove(leaves)[0])
    <3>1. HashesBelow(leaves, H) = NodesOf(LevelAbove(leaves)[H - H])
      BY <2>2 DEF HashesBelow
    <3> QED BY <2>2, <3>1
  <2>4. HashesBelow(leaves, H) = NodesOf(leaves)
    BY <1>1, <2>3, LevelZero
  <2>5. B[H] = NodesOf(leaves)
    BY <1>5, <2>2, <2>4
  <2>6. B[H] \subseteq Provable(RootOf(leaves))
    BY <2>2 DEF Provable
  <2> QED BY <2>5, <2>6 DEF AreLeaves
<1> QED BY <1>6, <1>7

\* A proof of any length, whatever its siblings, verifies for no other leaf.
LEMMA NoOtherLeafVerifies ==
    ASSUME NEW leaves, AreLeaves(leaves), NEW leaf \in LeafHashes,
           NEW proof, Len(proof) \in Nat,
           VerifyMerkleProof(RootOf(leaves), proof, leaf)
    PROVE  Len(proof) = Height(leaves) /\ leaf \in NodesOf(leaves)
<1> DEFINE P == PathUp(leaf, proof)
           n == Len(proof)
           T == {j \in 0 .. n : P[n - j] \in HashesBelow(leaves, j)}
<1>1. IsLevel(leaves) /\ n \in Nat
  BY DEF AreLeaves
<1>2. P = [i \in 0 .. n |-> IF i = 0 THEN leaf ELSE CombineHashes(P[i - 1], proof[i])]
  BY <1>1, PathUpDef
<1>3. P[n] = RootOf(leaves)
  BY DEF VerifyMerkleProof, Recombine
<1> HIDE DEF P, n
<1>4. 0 \in T
  <2>1. n - 0 = n
    BY <1>1
  <2> QED BY <1>1, <1>3, <2>1, HashesBelowZero
<1>5. ASSUME NEW j \in 0 .. n - 1, j \in T
      PROVE  j + 1 \in T
  <2> DEFINE i == n - j
  <2>1. i \in 0 .. n /\ i # 0 /\ i - 1 = n - (j + 1) /\ j \in Nat /\ j + 1 \in 0 .. n
    BY <1>1
  <2>2. P[i] \in HashesBelow(leaves, j)
    BY <1>5
  <2> HIDE DEF i
  <2>3. P[i] = CombineHashes(P[i - 1], proof[i])
    BY <1>2, <2>1
  <2>4. P[i - 1] \in P[i].kids
    BY <2>3 DEF CombineHashes
  <2>5. P[i - 1] \in KidsOf(HashesBelow(leaves, j))
    BY <2>2, <2>4 DEF KidsOf
  <2>6. P[i - 1] \in HashesBelow(leaves, j + 1)
    BY <2>1, <2>5, KidsOfHashesBelow
  <2> QED BY <2>1, <2>6
<1>6. 0 .. n \subseteq T
  <2> HIDE DEF T
  <2> QED BY <1>1, <1>4, <1>5, UpToByStep
<1>7. leaf \in HashesBelow(leaves, n)
  <2>1. n \in 0 .. n /\ n - n = 0 /\ 0 \in 0 .. n
    BY <1>1
  <2>2. P[n - n] \in HashesBelow(leaves, n)
    BY <1>6, <2>1
  <2>3. P[0] = leaf
    BY <1>2, <2>1
  <2> QED BY <2>1, <2>2, <2>3
<1> QED BY <1>1, <1>7, LeavesBelow DEF n

---------------------------------------------------------------------------
(***************************************************************************)
(* The proof that generateProof makes leads from the leaf to the root.        *)
(***************************************************************************)
\* A node and its sibling make the node above them.
LEMMA ParentOfSiblings ==
    ASSUME NEW level, IsLevel(level), NEW index \in 0 .. Len(level) - 1
    PROVE  /\ index \div 2 \in 0 .. Len(NextLevel(level)) - 1
           /\ CombineHashes(level[index + 1], level[SiblingIndex(level, index) + 1])
                = NextLevel(level)[index \div 2 + 1]
<1> DEFINE n == Len(level)
           k == index \div 2 + 1
           next == NextLevel(level)
           sibling == SiblingIndex(level, index)
<1>1. n \in Nat /\ n >= 1 /\ index \in 0 .. n - 1
  BY DEF IsLevel
<1>2. Len(next) = (n + 1) \div 2
  BY NextLevelIsShorter
<1>3. k \in 1 .. (n + 1) \div 2 /\ index \div 2 \in 0 .. (n + 1) \div 2 - 1
  <2> HIDE DEF n
  <2> QED BY <1>1
<1>4. next[k] = CombineHashes(level[2 * k - 1],
                              IF 2 * k <= n THEN level[2 * k] ELSE level[2 * k - 1])
  BY <1>3 DEF NextLevel
<1>5. CASE index % 2 = 1
  <2>1. 2 * k = index + 1 /\ 2 * k - 1 = index /\ 2 * k <= n /\ index - 1 < n
    <3> HIDE DEF n
    <3> QED BY <1>1, <1>5
  <2>2. sibling + 1 = index
    BY <1>5, <2>1 DEF SiblingIndex
  <2> HIDE DEF next, k, sibling
  <2>3. next[k] = CombineHashes(level[index], level[index + 1])
    BY <1>4, <2>1
  <2> QED BY <1>2, <1>3, <2>2, <2>3 DEF CombineHashes, next, k, sibling
<1>6. CASE index % 2 # 1
  <2>1. 2 * k = index + 2 /\ 2 * k - 1 = index + 1
    <3> HIDE DEF n
    <3> QED BY <1>1, <1>6
  <2>2. CASE index + 1 < n
    <3>1. 2 * k <= n
      <4> HIDE DEF n, k
      <4> QED BY <1>1, <2>1, <2>2
    <3>2. sibling + 1 = index + 2
      BY <1>6, <2>2 DEF SiblingIndex
    <3> HIDE DEF next, k, sibling
    <3>3. next[k] = CombineHashes(level[index + 1], level[index + 2])
      BY <1>4, <2>1, <3>1
    <3> QED BY <1>2, <1>3, <3>2, <3>3 DEF next, k, sibling
  <2>3. CASE ~(index + 1 < n)
    <3>1. ~(2 * k <= n)
      <4> HIDE DEF n, k
      <4> QED BY <1>1, <2>1, <2>3
    <3>2. sibling = index
      BY <1>6, <2>3 DEF SiblingIndex
    <3> HIDE DEF next, k, sibling
    <3>3. next[k] = CombineHashes(level[index + 1], level[index + 1])
      BY <1>4, <2>1, <3>1
    <3> QED BY <1>2, <1>3, <3>2, <3>3 DEF next, k, sibling
  <2> QED BY <2>2, <2>3
<1> QED BY <1>5, <1>6

LEMMA IndexOfLeaf ==
    ASSUME NEW leaves, IsLevel(leaves), NEW leaf \in NodesOf(leaves)
    PROVE  /\ IndexOf(leaves, leaf) \in 0 .. Len(leaves) - 1
           /\ leaves[IndexOf(leaves, leaf) + 1] = leaf
<1> DEFINE n == Len(leaves)
           at == {i \in 0 .. n - 1 : leaves[i + 1] = leaf}
           IsIndex(i) == leaves[i + 1] = leaf /\ \A j \in 0 .. i - 1 : leaves[j + 1] # leaf
<1>1. n \in Nat
  BY DEF IsLevel
<1>2. PICK k \in 1 .. n : leaves[k] = leaf
  BY DEF NodesOf
<1> HIDE DEF n
<1>3. k - 1 \in at /\ at \in SUBSET Nat
  BY <1>1, <1>2
<1>4. PICK i \in at : \A j \in at : i <= j
  <2> HIDE DEF at
  <2> QED BY <1>3, LeastNatural
<1>5. i \in 0 .. n - 1 /\ IsIndex(i)
  BY <1>1, <1>4
<1>6. IndexOf(leaves, leaf) \in 0 .. n - 1 /\ IsIndex(IndexOf(leaves, leaf))
  BY <1>5, Zenon DEF IndexOf, n
<1> QED BY <1>6 DEF n

\* getProof's answer verifies against the root of the tree it was made from.
LEMMA GeneratedProofVerifies ==
    ASSUME NEW leaves, IsLevel(leaves), NEW leaf \in NodesOf(leaves)
    PROVE  VerifyMerkleProof(RootOf(leaves), GenerateProof(BuildMerkleTree(leaves), leaf), leaf)
<1> DEFINE H == Height(leaves)
           L == LevelAbove(leaves)
           tree == BuildMerkleTree(leaves)
           start == IndexOf(leaves, leaf)
           index == IndexAbove(start, H + 1)
           proof == GenerateProof(tree, leaf)
           P == PathUp(leaf, proof)
           T == {i \in 0 .. H : index[i] \in 0 .. Len(L[i]) - 1 /\ P[i] = L[i][index[i] + 1]}
<1>1. H \in Nat /\ H \in 0 .. Len(leaves) /\ Len(leaves) \in Nat /\ Len(L[H]) = 1
  BY HeightDef DEF IsLevel
<1>2. /\ Len(tree.nodes) = H + 1
      /\ tree.leaves = leaves
      /\ \A i \in 1 .. H + 1 : tree.nodes[i] = L[i - 1]
  BY TreeOfLeaves
<1>3. proof = [i \in 1 .. H |->
                  tree.nodes[i][SiblingIndex(tree.nodes[i], index[i - 1]) + 1]]
  <2>1. (H + 1) - 1 = H
    <3> HIDE DEF H
    <3> QED BY <1>1
  <2> HIDE DEF H, tree
  <2> QED BY <1>2, <2>1 DEF GenerateProof
<1>4. /\ Len(proof) = H
      /\ \A i \in 0 .. H - 1 : proof[i + 1] = L[i][SiblingIndex(L[i], index[i]) + 1]
  <2> HIDE DEF proof, H, L, tree, index
  <2>1. Len(proof) = H
    BY <1>1, <1>3
  <2>2. ASSUME NEW i \in 0 .. H - 1
        PROVE  proof[i + 1] = L[i][SiblingIndex(L[i], index[i]) + 1]
    <3>1. i + 1 \in 1 .. H /\ i + 1 \in 1 .. H + 1 /\ (i + 1) - 1 = i
      BY <1>1
    <3> QED BY <1>2, <1>3, <3>1
  <2> QED BY <2>1, <2>2
<1>5. index = [i \in 0 .. H + 1 |-> IF i = 0 THEN start ELSE index[i - 1] \div 2]
  <2>1. H + 1 \in Nat
    <3> HIDE DEF H
    <3> QED BY <1>1
  <2> QED BY <2>1, IndexAboveDef
<1>6. P = [i \in 0 .. H |-> IF i = 0 THEN leaf ELSE CombineHashes(P[i - 1], proof[i])]
  BY <1>1, <1>4, PathUpDef
<1>7. start \in 0 .. Len(leaves) - 1 /\ leaves[start + 1] = leaf
  BY IndexOfLeaf
<1>8. L[0] = leaves
  BY LevelZero
<1> HIDE DEF H, L, tree, start, index, proof, P
<1>9. 0 \in T
  BY <1>1, <1>5, <1>6, <1>7, <1>8
<1>10. ASSUME NEW i \in 0 .. H - 1, i \in T
       PROVE  i + 1 \in T
  <2>1. i \in 0 .. Len(leaves) - 1 /\ i \in 0 .. Len(leaves) /\ i + 1 \in 0 .. H
        /\ i + 1 \in 0 .. H + 1 /\ i + 1 # 0 /\ (i + 1) - 1 = i
    BY <1>1
  <2>2. L[i + 1] = NextLevel(L[i]) /\ IsLevel(L[i])
    BY <2>1, LevelStep, LevelLengths DEF L
  <2>3. index[i + 1] = index[i] \div 2
    BY <1>5, <2>1
  <2>4. P[i + 1] = CombineHashes(P[i], proof[i + 1])
    BY <1>6, <2>1
  <2>5. /\ index[i] \in 0 .. Len(L[i]) - 1
        /\ P[i + 1] = CombineHashes(L[i][index[i] + 1],
                                    L[i][SiblingIndex(L[i], index[i]) + 1])
    BY <1>4, <1>10, <2>4
  <2>6. /\ index[i] \div 2 \in 0 .. Len(L[i + 1]) - 1
        /\ P[i + 1] = L[i + 1][index[i] \div 2 + 1]
    BY <2>2, <2>5, ParentOfSiblings
  <2> QED BY <2>1, <2>3, <2>6
<1>11. 0 .. H \subseteq T
  <2> HIDE DEF T
  <2> QED BY <1>1, <1>9, <1>10, UpToByStep
<1>12. P[H] = L[H][1]
  <2>1. H \in 0 .. H
    BY <1>1
  <2>2. index[H] \in 0 .. Len(L[H]) - 1 /\ P[H] = L[H][index[H] + 1]
    BY <1>11, <2>1
  <2>3. index[H] = 0
    BY <1>1, <2>2
  <2> QED BY <2>2, <2>3
<1> QED BY <1>4, <1>12 DEF VerifyMerkleProof, Recombine, RootOf, P, H, L, proof, tree

---------------------------------------------------------------------------
(***************************************************************************)
(* The builder.                                                               *)
(***************************************************************************)
\* The permissions are typed; what was deployed is the tree of some of them, and
\* a proof leads to the root it was returned with.
BuilderInv ==
    /\ permissions \in Seq(Permission)
    /\ Len(permissions) <= MaxPermissions
    /\ deployed.leaves # <<>> =>
         /\ AreLeaves(deployed.leaves)
         /\ Len(deployed.leaves) <= MaxPermissions
         /\ deployed.root = RootOf(deployed.leaves)
    /\ result # NoResult => VerifyMerkleProof(result.root, result.proof, result.leaf)

LEMMA LeavesOfPermissions ==
    ASSUME permissions \in Seq(Permission)
    PROVE  /\ Len(Leaves) = Len(permissions)
           /\ Leaves # <<>> => AreLeaves(Leaves)
           /\ \A i \in DOMAIN Leaves : Leaves[i] \in NodesOf(Leaves)
<1> DEFINE n == Len(permissions)
<1>1. n \in Nat /\ DOMAIN permissions = 1 .. n
  OBVIOUS
<1>2. Len(Leaves) = n /\ DOMAIN Leaves = 1 .. n
  BY <1>1 DEF Leaves
<1>3. Leaves # <<>> => n >= 1
  BY <1>1 DEF Leaves
<1>4. \A i \in 1 .. n : Leaves[i] \in LeafHashes
  BY <1>1 DEF Leaves, LeafHashes
<1>5. Leaves = [i \in 1 .. n |-> Leaves[i]]
  BY <1>1 DEF Leaves
<1>6. Leaves # <<>> => IsLevel(Leaves)
  BY <1>1, <1>2, <1>3, <1>5 DEF IsLevel
<1>7. NodesOf(Leaves) \subseteq LeafHashes
  BY <1>2, <1>4 DEF NodesOf
<1>8. \A i \in DOMAIN Leaves : Leaves[i] \in NodesOf(Leaves)
  BY <1>2 DEF NodesOf
<1> QED BY <1>2, <1>6, <1>7, <1>8 DEF AreLeaves

LEMMA BuilderInvStep == BuilderInv /\ [Next]_vars => BuilderInv'
<1> SUFFICES ASSUME BuilderInv, [Next]_vars PROVE BuilderInv'
  OBVIOUS
<1>1. ASSUME NEW permission \in Permission, AddPermission(permission)
      PROVE  BuilderInv'
  <2>1. permissions' \in Seq(Permission) /\ Len(permissions') = Len(permissions) + 1
    BY <1>1 DEF AddPermission, BuilderInv
  <2>2. Len(permissions') <= MaxPermissions
    BY <1>1, <2>1, BuilderAssumption DEF AddPermission, BuilderInv
  <2>3. deployed' = deployed /\ result' = result
    BY <1>1 DEF AddPermission
  <2> QED BY <2>1, <2>2, <2>3 DEF BuilderInv
<1>2. ASSUME Build PROVE BuilderInv'
  <2>1. /\ permissions' = permissions
        /\ result' = result
        /\ deployed' = [root |-> BuildMerkleTree(Leaves).root, leaves |-> Leaves]
    BY <1>2 DEF Build
  <2>2. /\ deployed'.root = BuildMerkleTree(Leaves).root
        /\ deployed'.leaves = Leaves
    BY <2>1
  <2>3. ASSUME Leaves # <<>>
        PROVE  AreLeaves(Leaves) /\ Len(Leaves) <= MaxPermissions
               /\ BuildMerkleTree(Leaves).root = RootOf(Leaves)
    BY <2>3, LeavesOfPermissions, TreeOfLeaves DEF BuilderInv, AreLeaves
  <2> QED BY <2>1, <2>2, <2>3 DEF BuilderInv
<1>3. ASSUME NEW permission \in Permission, GetProof(permission)
      PROVE  BuilderInv'
  <2> DEFINE leaf == HashPermissionLeaf(permission)
             tree == BuildMerkleTree(Leaves)
  <2>1. /\ permissions' = permissions
        /\ deployed' = deployed
        /\ \E i \in DOMAIN Leaves : Leaves[i] = leaf
        /\ result' = [proof |-> GenerateProof(tree, leaf), root |-> tree.root, leaf |-> leaf]
    BY <1>3 DEF GetProof
  <2>2. Leaves # <<>> /\ leaf \in NodesOf(Leaves)
    BY <2>1, LeavesOfPermissions DEF BuilderInv
  <2>3. IsLevel(Leaves)
    BY <2>2, LeavesOfPermissions DEF BuilderInv, AreLeaves
  <2>4. VerifyMerkleProof(tree.root, GenerateProof(tree, leaf), leaf)
    BY <2>2, <2>3, TreeOfLeaves, GeneratedProofVerifies
  <2>5. VerifyMerkleProof(result'.root, result'.proof, result'.leaf)
    BY <2>1, <2>4
  <2> QED BY <2>1, <2>5 DEF BuilderInv
<1>4. ASSUME UNCHANGED vars PROVE BuilderInv'
  BY <1>4 DEF vars, BuilderInv
<1> QED BY <1>1, <1>2, <1>3, <1>4 DEF Next

THEOREM BuilderInvariant == Spec => []BuilderInv
<1>1. Init => BuilderInv
  BY BuilderAssumption DEF Init, BuilderInv
<1> QED BY <1>1, BuilderInvStep, PTL DEF Spec

\* A proof verifies against the deployed root exactly when that root is the one
\* it was made for.
THEOREM ProofsFitTheirRoot == Spec => []ProofFitsItsRoot
<1>1. BuilderInv => ProofFitsItsRoot
  BY DEF BuilderInv, ProofFitsItsRoot, VerifyMerkleProof
<1> QED BY <1>1, BuilderInvariant, PTL

\* Some proof verifies against the deployed root for the leaves of its tree and
\* for no other leaves.
THEOREM RootsAreTheirLeaves == Spec => []RootIsItsLeaves
<1>1. ASSUME BuilderInv PROVE RootIsItsLeaves
  <2> SUFFICES ASSUME deployed.leaves # <<>>
               PROVE  Provable(deployed.root) \cap LeafHashes
                        = {deployed.leaves[i] : i \in DOMAIN deployed.leaves}
    BY DEF RootIsItsLeaves
  <2>1. Provable(deployed.root) \cap LeafHashes = NodesOf(deployed.leaves)
    BY <1>1, ProvableLeaves DEF BuilderInv
  <2>2. DOMAIN deployed.leaves = 1 .. Len(deployed.leaves)
    BY <1>1 DEF BuilderInv, AreLeaves, IsLevel
  <2> QED BY <2>1, <2>2 DEF NodesOf
<1> QED BY <1>1, BuilderInvariant, PTL

\* No list of siblings, however long and whatever is in it, makes a leaf verify
\* that is not in the deployed tree, or one that is with a proof of another length.
NoForgedProof ==
    deployed.leaves # <<>> =>
        \A leaf \in LeafHashes : \A proof :
            Len(proof) \in Nat /\ VerifyMerkleProof(deployed.root, proof, leaf)
                => /\ \E i \in DOMAIN deployed.leaves : deployed.leaves[i] = leaf
                   /\ Len(proof) = Height(deployed.leaves)

THEOREM OnlyLeavesVerify == Spec => []NoForgedProof
<1>1. ASSUME BuilderInv PROVE NoForgedProof
  <2> SUFFICES ASSUME deployed.leaves # <<>>, NEW leaf \in LeafHashes, NEW proof,
                      Len(proof) \in Nat, VerifyMerkleProof(deployed.root, proof, leaf)
               PROVE  /\ \E i \in DOMAIN deployed.leaves : deployed.leaves[i] = leaf
                      /\ Len(proof) = Height(deployed.leaves)
    BY DEF NoForgedProof
  <2>1. leaf \in NodesOf(deployed.leaves) /\ Len(proof) = Height(deployed.leaves)
    BY <1>1, NoOtherLeafVerifies DEF BuilderInv
  <2>2. DOMAIN deployed.leaves = 1 .. Len(deployed.leaves)
    BY <1>1 DEF BuilderInv, AreLeaves, IsLevel
  <2> QED BY <2>1, <2>2 DEF NodesOf
<1> QED BY <1>1, BuilderInvariant, PTL
=============================================================================
