------------------------ MODULE PolicyCompiler_proofs ------------------------
(***************************************************************************)
(* What the policy builder compiles is right for every ABI: parameters nested  *)
(* to any depth, any number of rules.  Induction is over sets, of naturals or   *)
(* of parameters.  The page that shows what is compiled rests on the same      *)
(* facts about offsets; its theorems are the last.                            *)
(***************************************************************************)
EXTENDS PolicyCompiler, PolicyBuilderApp, FiniteSetTheorems, WellFoundedInduction, TLAPS

\* Induction from 0 to n, for a set.
LEMMA UpToByStep ==
    ASSUME NEW n \in Nat, NEW T, 0 \in T, \A i \in 0 .. n - 1 : i \in T => i + 1 \in T
    PROVE  0 .. n \subseteq T
<1> DEFINE left == {i \in 0 .. n : i \notin T}
<1>1. SUFFICES ASSUME left # {} PROVE FALSE
  OBVIOUS
<1>2. left \subseteq Nat
  OBVIOUS
<1>3. PICK i \in left : \A j \in left : ~(<<j, i>> \in OpToRel(<, Nat))
  <2> HIDE DEF left
  <2> QED BY <1>1, <1>2, NatLessThanWellFounded, WFMin
<1>4. \A j \in left : ~(j < i)
  <2> HIDE DEF left
  <2> QED BY <1>2, <1>3 DEF OpToRel
<1>5. i \in 1 .. n
  <2>1. i \in 0 .. n /\ i \notin T
    OBVIOUS
  <2>2. i # 0
    BY <2>1
  <2> QED BY <2>1, <2>2
<1>6. i - 1 \in T
  <2>1. i - 1 \in 0 .. n /\ i - 1 < i
    BY <1>5
  <2> QED BY <1>4, <2>1
<1>7. i - 1 \in 0 .. n - 1 /\ (i - 1) + 1 = i
  BY <1>5
<1>8. i \in T
  BY <1>6, <1>7
<1> QED BY <1>3, <1>8

---------------------------------------------------------------------------
(***************************************************************************)
(* Parameters, level by level.                                               *)
(***************************************************************************)
ParamOver(below) ==
    [name : STRING, type : STRING \ {"tuple", "tuple[]"}, components : {<<>>}]
        \cup [name : STRING, type : {"tuple", "tuple[]"}, components : Fields(below)]

LEMMA ParamUpToDef ==
    ParamUpTo = [depth \in 0 .. Nesting |->
                    ParamOver(IF depth = 0 THEN {} ELSE ParamUpTo[depth - 1])]
<1> DEFINE F(params, m) ==
               [depth \in 0 .. m |-> ParamOver(IF depth = 0 THEN {} ELSE params[depth - 1])]
           T == {m \in 0 .. Nesting : \E params : params = F(params, m)}
<1>0. Nesting \in Nat
  BY NestingAssumption
<1>1. 0 \in T
  <2> DEFINE params == [depth \in 0 .. 0 |-> ParamOver({})]
  <2>1. params = F(params, 0)
    OBVIOUS
  <2> HIDE DEF F, params
  <2> QED BY <1>0, <2>1
<1>2. ASSUME NEW m \in 0 .. Nesting - 1, m \in T PROVE m + 1 \in T
  <2>1. PICK params : params = F(params, m)
    BY <1>2
  <2> DEFINE more == [depth \in 0 .. m + 1 |->
                         IF depth <= m THEN params[depth] ELSE ParamOver(params[m])]
  <2>2. more = F(more, m + 1)
    BY <2>1
  <2> HIDE DEF F, more
  <2> QED BY <1>0, <2>2
<1>3. 0 .. Nesting \subseteq T
  <2> HIDE DEF T
  <2> QED BY <1>0, <1>1, <1>2, UpToByStep
<1>4. \E params : params = F(params, Nesting)
  BY <1>0, <1>3
<1> QED BY <1>4, Zenon DEF ParamUpTo, ParamOver

\* The parameters that the tuples of a level are made of.
Below(depth) == IF depth = 0 THEN {} ELSE ParamUpTo[depth - 1]

LEMMA BelowStep ==
    /\ Below(0) = {}
    /\ Below(Nesting + 1) = Param
    /\ \A n \in 0 .. Nesting : Below(n + 1) = ParamOver(Below(n))
    /\ \A n \in 0 .. Nesting : Below(n) \subseteq Below(n + 1)
<1>0. Nesting \in Nat
  BY NestingAssumption
<1>1. Below(0) = {} /\ Below(Nesting + 1) = Param
  BY <1>0 DEF Below, Param
<1>2. ASSUME NEW n \in 0 .. Nesting PROVE Below(n + 1) = ParamOver(Below(n))
  BY <1>0, ParamUpToDef DEF Below
<1>3. ASSUME NEW A, NEW B, A \subseteq B PROVE ParamOver(A) \subseteq ParamOver(B)
  <2>1. Fields(A) \subseteq Fields(B)
    BY <1>3 DEF Fields
  <2> QED BY <2>1 DEF ParamOver
<1> DEFINE T == {n \in 0 .. Nesting : Below(n) \subseteq Below(n + 1)}
<1>4. 0 \in T
  BY <1>0, <1>1
<1>5. ASSUME NEW n \in 0 .. Nesting - 1, n \in T PROVE n + 1 \in T
  <2>1. n \in 0 .. Nesting /\ n + 1 \in 0 .. Nesting
    BY <1>0
  <2>2. Below(n + 1) = ParamOver(Below(n)) /\ Below((n + 1) + 1) = ParamOver(Below(n + 1))
    BY <1>2, <2>1
  <2>3. Below(n) \subseteq Below(n + 1)
    BY <1>5
  <2> QED BY <1>3, <2>1, <2>2, <2>3
<1>6. 0 .. Nesting \subseteq T
  <2> HIDE DEF T
  <2> QED BY <1>0, <1>4, <1>5, UpToByStep
<1> QED BY <1>1, <1>2, <1>6

LEMMA LevelFacts ==
    ASSUME NEW n \in 0 .. Nesting, NEW p \in Below(n + 1)
    PROVE  /\ p.components \in Seq(Below(n))
           /\ \A i \in DOMAIN p.components : p.components[i] \in Below(n)
           /\ DistinctNames(p.components) /\ p.name \in STRING
           /\ p.type \notin {"tuple", "tuple[]"} => p.components = <<>>
<1>1. p \in ParamOver(Below(n))
  BY BelowStep
<1> HIDE DEF Below
<1>2. /\ p.components \in Seq(Below(n)) /\ DistinctNames(p.components) /\ p.name \in STRING
      /\ p.type \notin {"tuple", "tuple[]"} => p.components = <<>>
  <2>1. CASE p \in [name : STRING, type : STRING \ {"tuple", "tuple[]"}, components : {<<>>}]
    <3>1. p.components = <<>> /\ p.name \in STRING
      BY <2>1
    <3> QED BY <3>1 DEF DistinctNames
  <2>2. CASE p \in [name : STRING, type : {"tuple", "tuple[]"}, components : Fields(Below(n))]
    <3>1. /\ p.components \in Fields(Below(n)) /\ p.name \in STRING
          /\ p.type \in {"tuple", "tuple[]"}
      BY <2>2
    <3> QED BY <3>1 DEF Fields
  <2> QED BY <1>1, <2>1, <2>2 DEF ParamOver
<1> QED BY <1>2

LEMMA ParamFacts ==
    ASSUME NEW p \in Param
    PROVE  /\ p.components \in Seq(Param)
           /\ \A i \in DOMAIN p.components : p.components[i] \in Param
           /\ DistinctNames(p.components) /\ p.name \in STRING
           /\ p.type \notin {"tuple", "tuple[]"} => p.components = <<>>
<1>1. Nesting \in 0 .. Nesting /\ p \in Below(Nesting + 1)
  BY BelowStep, NestingAssumption
<1>2. Below(Nesting) \subseteq Param
  BY <1>1, BelowStep
<1> QED BY <1>1, <1>2, LevelFacts

\* Induction over parameters, for a set: what holds of a parameter when it holds
\* of its components holds of every parameter.
LEMMA ParamsByStep ==
    ASSUME NEW G,
           \A p \in Param : (\A i \in DOMAIN p.components : p.components[i] \in G) => p \in G
    PROVE  Param \subseteq G
<1> DEFINE T == {n \in 0 .. Nesting + 1 : Below(n) \subseteq G}
<1>0. Nesting \in Nat /\ Nesting + 1 \in Nat
  BY NestingAssumption
<1>1. \A n \in 0 .. Nesting + 1 : Below(n) \subseteq Param
  <2> DEFINE U == {n \in 0 .. Nesting + 1 : Below((Nesting + 1) - n) \subseteq Param}
  <2>1. 0 \in U
    BY <1>0, BelowStep
  <2>2. ASSUME NEW n \in 0 .. Nesting, n \in U PROVE n + 1 \in U
    <3>1. Nesting - n \in 0 .. Nesting /\ (Nesting + 1) - (n + 1) = Nesting - n
          /\ (Nesting + 1) - n = (Nesting - n) + 1
      BY <1>0
    <3>2. Below(Nesting - n) \subseteq Below((Nesting - n) + 1)
      BY <3>1, BelowStep
    <3>3. Below((Nesting + 1) - n) \subseteq Param
      BY <2>2
    <3> HIDE DEF Below
    <3>4. Below((Nesting + 1) - (n + 1)) \subseteq Param
      BY <3>1, <3>2, <3>3
    <3> QED BY <1>0, <3>4
  <2>3. 0 .. Nesting + 1 \subseteq U
    <3> HIDE DEF U
    <3> QED BY <1>0, <2>1, <2>2, UpToByStep
  <2>4. ASSUME NEW n \in 0 .. Nesting + 1 PROVE Below(n) \subseteq Param
    <3>1. (Nesting + 1) - n \in U /\ (Nesting + 1) - ((Nesting + 1) - n) = n
      BY <1>0, <2>3
    <3> HIDE DEF Below
    <3> QED BY <3>1
  <2> QED BY <2>4
<1>2. 0 \in T
  BY <1>0, BelowStep
<1>3. ASSUME NEW n \in 0 .. Nesting, n \in T PROVE n + 1 \in T
  <2>1. n + 1 \in 0 .. Nesting + 1 /\ Below(n) \subseteq G
    BY <1>0, <1>3
  <2>2. ASSUME NEW p \in Below(n + 1) PROVE p \in G
    <3>1. \A i \in DOMAIN p.components : p.components[i] \in Below(n)
      BY LevelFacts
    <3>2. p \in Param
      BY <1>1, <2>1
    <3> QED BY <2>1, <3>1, <3>2
  <2> HIDE DEF Below
  <2> QED BY <2>1, <2>2
<1>4. 0 .. Nesting + 1 \subseteq T
  <2> HIDE DEF T
  <2> QED BY <1>0, <1>2, <1>3, UpToByStep
<1> QED BY <1>0, <1>4, BelowStep

---------------------------------------------------------------------------
(***************************************************************************)
(* The recursive functions are defined: each level from the one below.        *)
(***************************************************************************)
LEMMA TypesInDef ==
    \A p \in Param :
        TypesIn[p] = {p.type} \cup
            (IF p.type = "tuple"
             THEN UNION {TypesIn[p.components[i]] : i \in DOMAIN p.components}
             ELSE {})
<1> DEFINE B(f, p) == {p.type} \cup
            (IF p.type = "tuple"
             THEN UNION {f[p.components[i]] : i \in DOMAIN p.components}
             ELSE {})
           F(f, m) == [p \in Below(m) |-> B(f, p)]
           T == {m \in 0 .. Nesting + 1 : \E f : f = F(f, m)}
<1>0. Nesting \in Nat /\ Nesting + 1 \in Nat
  BY NestingAssumption
<1>1. 0 \in T
  <2> DEFINE none == [p \in {} |-> {}]
  <2>1. none = F(none, 0)
    BY BelowStep
  <2> HIDE DEF F, none
  <2> QED BY <1>0, <2>1
<1>2. ASSUME NEW m \in 0 .. Nesting, m \in T PROVE m + 1 \in T
  <2>1. PICK f : f = F(f, m)
    BY <1>2
  <2> DEFINE more == [p \in Below(m + 1) |-> B(f, p)]
  <2>2. \A p \in Below(m) : more[p] = f[p]
    <3>1. Below(m) \subseteq Below(m + 1)
      BY BelowStep
    <3> HIDE DEF B
    <3> QED BY <2>1, <3>1
  <2>3. ASSUME NEW p \in Below(m + 1) PROVE B(more, p) = B(f, p)
    <3>1. \A i \in DOMAIN p.components : more[p.components[i]] = f[p.components[i]]
      BY <2>2, LevelFacts
    <3> HIDE DEF more, Below
    <3> QED BY <3>1
  <2>4. more = F(more, m + 1)
    <3> HIDE DEF B
    <3> QED BY <2>3
  <2> HIDE DEF F, more
  <2> QED BY <1>0, <2>4
<1>3. 0 .. Nesting + 1 \subseteq T
  <2> HIDE DEF T
  <2> QED BY <1>0, <1>1, <1>2, UpToByStep
<1>4. \E f : f = F(f, Nesting + 1)
  <2> HIDE DEF F
  <2> QED BY <1>0, <1>3
<1>5. \E f : f = [p \in Param |-> B(f, p)]
  BY <1>4, BelowStep
<1>6. TypesIn = [p \in Param |-> B(TypesIn, p)]
  BY <1>5, Zenon DEF TypesIn
<1> QED BY <1>6

LEMMA HeadSizeDef ==
    \A p \in Param :
        HeadSize[p] = IF p.type = "tuple" /\ ~IsDynamicType(p)
            THEN Sums([i \in DOMAIN p.components |-> HeadSize[p.components[i]]])[Len(p.components)]
            ELSE 1
<1> DEFINE B(f, p) == IF p.type = "tuple" /\ ~IsDynamicType(p)
            THEN Sums([i \in DOMAIN p.components |-> f[p.components[i]]])[Len(p.components)]
            ELSE 1
           F(f, m) == [p \in Below(m) |-> B(f, p)]
           T == {m \in 0 .. Nesting + 1 : \E f : f = F(f, m)}
<1>0. Nesting \in Nat /\ Nesting + 1 \in Nat
  BY NestingAssumption
<1>1. 0 \in T
  <2> DEFINE none == [p \in {} |-> {}]
  <2>1. none = F(none, 0)
    BY BelowStep
  <2> HIDE DEF F, none
  <2> QED BY <1>0, <2>1
<1>2. ASSUME NEW m \in 0 .. Nesting, m \in T PROVE m + 1 \in T
  <2>1. PICK f : f = F(f, m)
    BY <1>2
  <2> DEFINE more == [p \in Below(m + 1) |-> B(f, p)]
  <2>2. \A p \in Below(m) : more[p] = f[p]
    <3>1. Below(m) \subseteq Below(m + 1)
      BY BelowStep
    <3> HIDE DEF B
    <3> QED BY <2>1, <3>1
  <2>3. ASSUME NEW p \in Below(m + 1) PROVE B(more, p) = B(f, p)
    <3>1. \A i \in DOMAIN p.components : more[p.components[i]] = f[p.components[i]]
      BY <2>2, LevelFacts
    <3> HIDE DEF more, Below
    <3> QED BY <3>1
  <2>4. more = F(more, m + 1)
    <3> HIDE DEF B
    <3> QED BY <2>3
  <2> HIDE DEF F, more
  <2> QED BY <1>0, <2>4
<1>3. 0 .. Nesting + 1 \subseteq T
  <2> HIDE DEF T
  <2> QED BY <1>0, <1>1, <1>2, UpToByStep
<1>4. \E f : f = F(f, Nesting + 1)
  <2> HIDE DEF F
  <2> QED BY <1>0, <1>3
<1>5. \E f : f = [p \in Param |-> B(f, p)]
  BY <1>4, BelowStep
<1>6. HeadSize = [p \in Param |-> B(HeadSize, p)]
  BY <1>5, Zenon DEF HeadSize
<1> QED BY <1>6

LEMMA CanonicalTypeDef ==
    \A p \in Param :
        CanonicalType[p] = IF p.type = "tuple" THEN <<"()", [i \in DOMAIN p.components |-> CanonicalType[p.components[i]]]>>
            ELSE <<p.type>>
<1> DEFINE B(f, p) == IF p.type = "tuple" THEN <<"()", [i \in DOMAIN p.components |-> f[p.components[i]]]>>
            ELSE <<p.type>>
           F(f, m) == [p \in Below(m) |-> B(f, p)]
           T == {m \in 0 .. Nesting + 1 : \E f : f = F(f, m)}
<1>0. Nesting \in Nat /\ Nesting + 1 \in Nat
  BY NestingAssumption
<1>1. 0 \in T
  <2> DEFINE none == [p \in {} |-> {}]
  <2>1. none = F(none, 0)
    BY BelowStep
  <2> HIDE DEF F, none
  <2> QED BY <1>0, <2>1
<1>2. ASSUME NEW m \in 0 .. Nesting, m \in T PROVE m + 1 \in T
  <2>1. PICK f : f = F(f, m)
    BY <1>2
  <2> DEFINE more == [p \in Below(m + 1) |-> B(f, p)]
  <2>2. \A p \in Below(m) : more[p] = f[p]
    <3>1. Below(m) \subseteq Below(m + 1)
      BY BelowStep
    <3> HIDE DEF B
    <3> QED BY <2>1, <3>1
  <2>3. ASSUME NEW p \in Below(m + 1) PROVE B(more, p) = B(f, p)
    <3>1. \A i \in DOMAIN p.components : more[p.components[i]] = f[p.components[i]]
      BY <2>2, LevelFacts
    <3> HIDE DEF more, Below
    <3> QED BY <3>1
  <2>4. more = F(more, m + 1)
    <3> HIDE DEF B
    <3> QED BY <2>3
  <2> HIDE DEF F, more
  <2> QED BY <1>0, <2>4
<1>3. 0 .. Nesting + 1 \subseteq T
  <2> HIDE DEF T
  <2> QED BY <1>0, <1>1, <1>2, UpToByStep
<1>4. \E f : f = F(f, Nesting + 1)
  <2> HIDE DEF F
  <2> QED BY <1>0, <1>3
<1>5. \E f : f = [p \in Param |-> B(f, p)]
  BY <1>4, BelowStep
<1>6. CanonicalType = [p \in Param |-> B(CanonicalType, p)]
  BY <1>5, Zenon DEF CanonicalType
<1> QED BY <1>6

LEMMA AbiTypeDef ==
    \A p \in Param :
        AbiType[p] = LET fields == [i \in DOMAIN p.components |-> AbiType[p.components[i]]]
            IN  CASE p.type = "tuple"   -> <<"()", fields>>
                  [] p.type = "tuple[]" -> <<"()[]", fields>>
                  [] Kind(p.type) \in BuiltIn \ {"tuple", "tuple[]"} -> <<Kind(p.type)>>
                  [] OTHER              -> <<"struct", p.type>>
<1> DEFINE B(f, p) == LET fields == [i \in DOMAIN p.components |-> f[p.components[i]]]
            IN  CASE p.type = "tuple"   -> <<"()", fields>>
                  [] p.type = "tuple[]" -> <<"()[]", fields>>
                  [] Kind(p.type) \in BuiltIn \ {"tuple", "tuple[]"} -> <<Kind(p.type)>>
                  [] OTHER              -> <<"struct", p.type>>
           F(f, m) == [p \in Below(m) |-> B(f, p)]
           T == {m \in 0 .. Nesting + 1 : \E f : f = F(f, m)}
<1>0. Nesting \in Nat /\ Nesting + 1 \in Nat
  BY NestingAssumption
<1>1. 0 \in T
  <2> DEFINE none == [p \in {} |-> {}]
  <2>1. none = F(none, 0)
    BY BelowStep
  <2> HIDE DEF F, none
  <2> QED BY <1>0, <2>1
<1>2. ASSUME NEW m \in 0 .. Nesting, m \in T PROVE m + 1 \in T
  <2>1. PICK f : f = F(f, m)
    BY <1>2
  <2> DEFINE more == [p \in Below(m + 1) |-> B(f, p)]
  <2>2. \A p \in Below(m) : more[p] = f[p]
    <3>1. Below(m) \subseteq Below(m + 1)
      BY BelowStep
    <3> HIDE DEF B
    <3> QED BY <2>1, <3>1
  <2>3. ASSUME NEW p \in Below(m + 1) PROVE B(more, p) = B(f, p)
    <3>1. \A i \in DOMAIN p.components : more[p.components[i]] = f[p.components[i]]
      BY <2>2, LevelFacts
    <3> HIDE DEF more, Below
    <3> QED BY <3>1
  <2>4. more = F(more, m + 1)
    <3> HIDE DEF B
    <3> QED BY <2>3
  <2> HIDE DEF F, more
  <2> QED BY <1>0, <2>4
<1>3. 0 .. Nesting + 1 \subseteq T
  <2> HIDE DEF T
  <2> QED BY <1>0, <1>1, <1>2, UpToByStep
<1>4. \E f : f = F(f, Nesting + 1)
  <2> HIDE DEF F
  <2> QED BY <1>0, <1>3
<1>5. \E f : f = [p \in Param |-> B(f, p)]
  BY <1>4, BelowStep
<1>6. AbiType = [p \in Param |-> B(AbiType, p)]
  BY <1>5, Zenon DEF AbiType
<1> QED BY <1>6

LEMMA HeadOfDef ==
    \A p \in Param :
        HeadOf[p] = LET name   == <<p.name>>
                fields == FlattenSeq([i \in DOMAIN p.components |-> HeadOf[p.components[i]]])
            IN  IF AbiDynamic(p) THEN <<HeadWord(name, "pointer")>>
                ELSE IF p.type = "tuple"
                THEN [n \in DOMAIN fields |-> [fields[n] EXCEPT !.of = name \o @]]
                ELSE IF Kind(p.type) = "fixed"
                THEN <<HeadWord(name, "first"), HeadWord(name, "second")>>
                ELSE <<HeadWord(name, "value")>>
<1> DEFINE B(f, p) == LET name   == <<p.name>>
                fields == FlattenSeq([i \in DOMAIN p.components |-> f[p.components[i]]])
            IN  IF AbiDynamic(p) THEN <<HeadWord(name, "pointer")>>
                ELSE IF p.type = "tuple"
                THEN [n \in DOMAIN fields |-> [fields[n] EXCEPT !.of = name \o @]]
                ELSE IF Kind(p.type) = "fixed"
                THEN <<HeadWord(name, "first"), HeadWord(name, "second")>>
                ELSE <<HeadWord(name, "value")>>
           F(f, m) == [p \in Below(m) |-> B(f, p)]
           T == {m \in 0 .. Nesting + 1 : \E f : f = F(f, m)}
<1>0. Nesting \in Nat /\ Nesting + 1 \in Nat
  BY NestingAssumption
<1>1. 0 \in T
  <2> DEFINE none == [p \in {} |-> {}]
  <2>1. none = F(none, 0)
    BY BelowStep
  <2> HIDE DEF F, none
  <2> QED BY <1>0, <2>1
<1>2. ASSUME NEW m \in 0 .. Nesting, m \in T PROVE m + 1 \in T
  <2>1. PICK f : f = F(f, m)
    BY <1>2
  <2> DEFINE more == [p \in Below(m + 1) |-> B(f, p)]
  <2>2. \A p \in Below(m) : more[p] = f[p]
    <3>1. Below(m) \subseteq Below(m + 1)
      BY BelowStep
    <3> HIDE DEF B
    <3> QED BY <2>1, <3>1
  <2>3. ASSUME NEW p \in Below(m + 1) PROVE B(more, p) = B(f, p)
    <3>1. \A i \in DOMAIN p.components : more[p.components[i]] = f[p.components[i]]
      BY <2>2, LevelFacts
    <3> HIDE DEF more, Below
    <3> QED BY <3>1
  <2>4. more = F(more, m + 1)
    <3> HIDE DEF B
    <3> QED BY <2>3
  <2> HIDE DEF F, more
  <2> QED BY <1>0, <2>4
<1>3. 0 .. Nesting + 1 \subseteq T
  <2> HIDE DEF T
  <2> QED BY <1>0, <1>1, <1>2, UpToByStep
<1>4. \E f : f = F(f, Nesting + 1)
  <2> HIDE DEF F
  <2> QED BY <1>0, <1>3
<1>5. \E f : f = [p \in Param |-> B(f, p)]
  BY <1>4, BelowStep
<1>6. HeadOf = [p \in Param |-> B(HeadOf, p)]
  BY <1>5, Zenon DEF HeadOf
<1> QED BY <1>6

---------------------------------------------------------------------------
(***************************************************************************)
(* Running sums, and sequences joined end to end.                             *)
(***************************************************************************)
LEMMA SumsDef ==
    ASSUME NEW sizes, Len(sizes) \in Nat
    PROVE  Sums(sizes) = [n \in 0 .. Len(sizes) |->
                             IF n = 0 THEN 0 ELSE Sums(sizes)[n - 1] + sizes[n]]
<1> DEFINE F(sum, m) == [n \in 0 .. m |-> IF n = 0 THEN 0 ELSE sum[n - 1] + sizes[n]]
           T == {m \in 0 .. Len(sizes) : \E sum : sum = F(sum, m)}
<1>1. 0 \in T
  <2> DEFINE sum == [n \in 0 .. 0 |-> 0]
  <2>1. sum = F(sum, 0)
    OBVIOUS
  <2> HIDE DEF F, sum
  <2> QED BY <2>1
<1>2. ASSUME NEW m \in 0 .. Len(sizes) - 1, m \in T PROVE m + 1 \in T
  <2>1. PICK sum : sum = F(sum, m)
    BY <1>2
  <2> DEFINE more == [n \in 0 .. m + 1 |-> IF n <= m THEN sum[n] ELSE sum[m] + sizes[m + 1]]
  <2>2. more = F(more, m + 1)
    BY <2>1
  <2> HIDE DEF F, more
  <2> QED BY <2>2
<1>3. 0 .. Len(sizes) \subseteq T
  <2> HIDE DEF T
  <2> QED BY <1>1, <1>2, UpToByStep
<1>4. \E sum : sum = F(sum, Len(sizes))
  BY <1>3
<1> QED BY <1>4, Zenon DEF Sums

LEMMA SumsFacts ==
    ASSUME NEW sizes \in Seq(Nat)
    PROVE  /\ Sums(sizes)[0] = 0
           /\ \A n \in 1 .. Len(sizes) : Sums(sizes)[n] = Sums(sizes)[n - 1] + sizes[n]
           /\ \A n \in 0 .. Len(sizes) : Sums(sizes)[n] \in Nat
<1> DEFINE size == Len(sizes)
           sum == Sums(sizes)
<1> HIDE DEF size, sum
<1>0. size \in Nat /\ \A n \in 1 .. size : sizes[n] \in Nat
  BY DEF size
<1>1. /\ sum[0] = 0
      /\ \A n \in 1 .. size : sum[n] = sum[n - 1] + sizes[n]
  BY <1>0, SumsDef DEF size, sum
<1> DEFINE T == {n \in 0 .. size : sum[n] \in Nat}
<1>2. 0 \in T
  BY <1>0, <1>1
<1>3. ASSUME NEW n \in 0 .. size - 1, n \in T PROVE n + 1 \in T
  <2>1. n + 1 \in 1 .. size /\ (n + 1) - 1 = n
    BY <1>0
  <2>2. sum[n + 1] = sum[n] + sizes[n + 1]
    BY <1>1, <2>1
  <2> QED BY <1>0, <1>3, <2>1, <2>2
<1>4. 0 .. size \subseteq T
  <2> HIDE DEF T
  <2> QED BY <1>0, <1>2, <1>3, UpToByStep
<1> QED BY <1>1, <1>4 DEF size, sum

\* What the first n sequences are, joined end to end, for every n.
Joins(seqs) ==
    LET join[n \in 0 .. Len(seqs)] == IF n = 0 THEN <<>> ELSE join[n - 1] \o seqs[n]
    IN  join

LEMMA JoinsDef ==
    ASSUME NEW seqs, Len(seqs) \in Nat
    PROVE  Joins(seqs) = [n \in 0 .. Len(seqs) |->
                             IF n = 0 THEN <<>> ELSE Joins(seqs)[n - 1] \o seqs[n]]
<1> DEFINE F(join, m) == [n \in 0 .. m |-> IF n = 0 THEN <<>> ELSE join[n - 1] \o seqs[n]]
           T == {m \in 0 .. Len(seqs) : \E join : join = F(join, m)}
<1>1. 0 \in T
  <2> DEFINE join == [n \in 0 .. 0 |-> <<>>]
  <2>1. join = F(join, 0)
    OBVIOUS
  <2> HIDE DEF F, join
  <2> QED BY <2>1
<1>2. ASSUME NEW m \in 0 .. Len(seqs) - 1, m \in T PROVE m + 1 \in T
  <2>1. PICK join : join = F(join, m)
    BY <1>2
  <2> DEFINE more == [n \in 0 .. m + 1 |-> IF n <= m THEN join[n] ELSE join[m] \o seqs[m + 1]]
  <2>2. more = F(more, m + 1)
    BY <2>1
  <2> HIDE DEF F, more
  <2> QED BY <2>2
<1>3. 0 .. Len(seqs) \subseteq T
  <2> HIDE DEF T
  <2> QED BY <1>1, <1>2, UpToByStep
<1>4. \E join : join = F(join, Len(seqs))
  <2>1. Len(seqs) \in T
    <3> HIDE DEF T
    <3> QED BY <1>3
  <2> HIDE DEF F
  <2> QED BY <2>1
<1> QED BY <1>4, Zenon DEF Joins

LEMMA JoinsFacts ==
    ASSUME NEW S, NEW seqs \in Seq(Seq(S))
    PROVE  /\ Joins(seqs)[0] = <<>>
           /\ \A n \in 1 .. Len(seqs) : Joins(seqs)[n] = Joins(seqs)[n - 1] \o seqs[n]
           /\ \A n \in 0 .. Len(seqs) : Joins(seqs)[n] \in Seq(S)
<1> DEFINE size == Len(seqs)
           join == Joins(seqs)
<1> HIDE DEF size, join
<1>0. size \in Nat /\ \A n \in 1 .. size : seqs[n] \in Seq(S)
  BY DEF size
<1>1. join = [n \in 0 .. size |-> IF n = 0 THEN <<>> ELSE join[n - 1] \o seqs[n]]
  BY <1>0, JoinsDef DEF size, join
<1>2. join[0] = <<>> /\ \A n \in 1 .. size : join[n] = join[n - 1] \o seqs[n]
  <2> DEFINE D(n) == IF n = 0 THEN <<>> ELSE join[n - 1] \o seqs[n]
  <2>1. D(0) = <<>> /\ \A n \in 1 .. size : D(n) = join[n - 1] \o seqs[n]
    <3>1. \A n \in 1 .. size : n # 0
      BY <1>0
    <3> QED BY <3>1, Zenon
  <2>2. \A n \in 0 .. size : join[n] = D(n)
    <3> HIDE DEF D
    <3>1. join = [n \in 0 .. size |-> D(n)]
      BY <1>1 DEF D
    <3> QED BY <3>1
  <2> HIDE DEF D
  <2>3. 0 \in 0 .. size /\ 1 .. size \subseteq 0 .. size
    BY <1>0
  <2> QED BY <2>1, <2>2, <2>3
<1> DEFINE T == {n \in 0 .. size : join[n] \in Seq(S)}
<1>3. 0 \in T
  <2>1. 0 \in 0 .. size
    BY <1>0
  <2>2. join[0] \in Seq(S)
    BY <1>2
  <2> QED BY <2>1, <2>2
<1>4. ASSUME NEW n \in 0 .. size - 1, n \in T PROVE n + 1 \in T
  <2>1. n + 1 \in 1 .. size /\ (n + 1) - 1 = n /\ n + 1 \in 0 .. size
    BY <1>0
  <2>2. join[n + 1] = join[n] \o seqs[n + 1] /\ join[n] \in Seq(S) /\ seqs[n + 1] \in Seq(S)
    BY <1>0, <1>2, <1>4, <2>1
  <2>3. join[n + 1] \in Seq(S)
    BY <2>2
  <2> QED BY <2>1, <2>3
<1>5. 0 .. size \subseteq T
  <2> HIDE DEF T
  <2> QED BY <1>0, <1>3, <1>4, UpToByStep
<1>6. \A n \in 0 .. size : join[n] \in Seq(S)
  BY <1>5
<1> QED BY <1>2, <1>6 DEF size, join

\* FlattenSeq joins all of them.
LEMMA FlattenIsJoins ==
    ASSUME NEW S, NEW seqs \in Seq(Seq(S))
    PROVE  FlattenSeq(seqs) = Joins(seqs)[Len(seqs)]
<1> DEFINE size == Len(seqs)
           join == Joins(seqs)
<1> HIDE DEF size, join
<1>0. size \in Nat /\ \A n \in 1 .. size : seqs[n] \in Seq(S)
  BY DEF size
<1>1. /\ join[0] = <<>>
      /\ \A n \in 1 .. size : join[n] = join[n - 1] \o seqs[n]
      /\ \A n \in 0 .. size : join[n] \in Seq(S)
  BY JoinsFacts DEF size, join
<1>2. CASE Len(seqs) = 0
  <2>1. FlattenSeq(seqs) = seqs /\ seqs = <<>>
    BY <1>2 DEF FlattenSeq
  <2> QED BY <1>1, <1>2, <2>1 DEF size, join
<1>3. CASE Len(seqs) # 0
  <2> DEFINE F(f) == [i \in 1 .. size |-> IF i = 1 THEN seqs[i] ELSE f[i - 1] \o seqs[i]]
             flatten == CHOOSE f : f = F(f)
             rest == [i \in 1 .. size |-> join[i]]
  <2>1. FlattenSeq(seqs) = flatten[size]
    BY <1>3, Zenon DEF FlattenSeq, size
  <2>0. size # 0
    BY <1>3 DEF size
  <2>2. \A s \in Seq(S) : <<>> \o s = s
    OBVIOUS
  <2>3. join[1] = seqs[1]
    <3>1. 1 \in 1 .. size /\ 1 - 1 = 0
      BY <1>0, <2>0
    <3>2. join[1] = join[1 - 1] \o seqs[1] /\ seqs[1] \in Seq(S)
      BY <1>0, <1>1, <3>1
    <3> QED BY <1>1, <2>2, <3>1, <3>2, Zenon
  <2>4. rest = F(rest)
    <3>1. ASSUME NEW n \in 1 .. size, n # 1 PROVE n \in 1 .. size /\ n - 1 \in 1 .. size
      BY <1>0, <3>1
    <3>2. \A n \in 1 .. size : n # 1 => rest[n - 1] = join[n - 1]
      BY <3>1
    <3>3. ASSUME NEW n \in 1 .. size
          PROVE  join[n] = IF n = 1 THEN seqs[n] ELSE rest[n - 1] \o seqs[n]
      <4> HIDE DEF rest
      <4> QED BY <1>1, <2>3, <3>2, Zenon
    <3> QED BY <3>3, Zenon
  <2>5. flatten = F(flatten)
    <3> HIDE DEF F, rest
    <3> QED BY <2>4
  <2> HIDE DEF flatten
  <2> DEFINE T == {n \in 0 .. size : n = 0 \/ flatten[n] = join[n]}
  <2>6. 0 \in T
    BY <1>0
  <2>7. ASSUME NEW n \in 0 .. size - 1, n \in T PROVE n + 1 \in T
    <3>1. n + 1 \in 1 .. size /\ n + 1 \in 0 .. size /\ (n + 1) - 1 = n
      BY <1>0
    <3>2. flatten[n + 1] = IF n + 1 = 1 THEN seqs[n + 1] ELSE flatten[(n + 1) - 1] \o seqs[n + 1]
      BY <2>5, <3>1
    <3>3. CASE n = 0
      BY <2>3, <3>1, <3>2, <3>3
    <3>4. CASE n # 0
      <4>1. flatten[n] = join[n]
        BY <2>7, <3>4
      <4>2. flatten[n + 1] = join[n + 1]
        <5>1. n + 1 # 1
          BY <3>4
        <5> QED BY <1>1, <3>1, <3>2, <4>1, <5>1, Zenon
      <4> QED BY <3>1, <4>2
    <3> QED BY <3>3, <3>4
  <2>8. 0 .. size \subseteq T
    <3> HIDE DEF T
    <3> QED BY <1>0, <2>6, <2>7, UpToByStep
  <2>9. flatten[size] = join[size]
    BY <1>0, <2>0, <2>8
  <2> QED BY <2>1, <2>9 DEF size, join
<1> QED BY <1>2, <1>3

LEMMA ConcatFacts ==
    ASSUME NEW S, NEW s \in Seq(S), NEW t \in Seq(S)
    PROVE  /\ s \o t \in Seq(S)
           /\ Len(s \o t) = Len(s) + Len(t) /\ Len(s) \in Nat /\ Len(t) \in Nat
           /\ \A k \in 1 .. Len(s) : (s \o t)[k] = s[k]
           /\ \A k \in 1 .. Len(t) : (s \o t)[Len(s) + k] = t[k]
OBVIOUS

\* In what is joined, every sequence stands after those before it.
LEMMA FlattenPositions ==
    ASSUME NEW S, NEW seqs \in Seq(Seq(S)), NEW sizes \in Seq(Nat),
           Len(sizes) = Len(seqs), \A i \in 1 .. Len(seqs) : sizes[i] = Len(seqs[i])
    PROVE  /\ FlattenSeq(seqs) \in Seq(S)
           /\ Len(FlattenSeq(seqs)) = Sums(sizes)[Len(seqs)]
           /\ \A i \in 1 .. Len(seqs) : \A k \in 1 .. sizes[i] :
                 /\ Sums(sizes)[i - 1] + k \in 1 .. Len(FlattenSeq(seqs))
                 /\ FlattenSeq(seqs)[Sums(sizes)[i - 1] + k] = seqs[i][k]
           /\ \A n \in 1 .. Len(FlattenSeq(seqs)) :
                 \E i \in 1 .. Len(seqs) : \E k \in 1 .. sizes[i] : n = Sums(sizes)[i - 1] + k
<1> DEFINE size == Len(seqs)
           sum == Sums(sizes)
           join == Joins(seqs)
<1> HIDE DEF size, sum, join
<1>0. size \in Nat /\ \A n \in 1 .. size : seqs[n] \in Seq(S) /\ sizes[n] = Len(seqs[n])
  BY DEF size
<1>1. /\ sum[0] = 0
      /\ \A n \in 1 .. size : sum[n] = sum[n - 1] + sizes[n]
      /\ \A n \in 0 .. size : sum[n] \in Nat
  BY SumsFacts DEF size, sum
<1>2. /\ join[0] = <<>>
      /\ \A n \in 1 .. size : join[n] = join[n - 1] \o seqs[n]
      /\ \A n \in 0 .. size : join[n] \in Seq(S)
      /\ FlattenSeq(seqs) = join[size]
  BY JoinsFacts, FlattenIsJoins DEF size, join
<1> DEFINE Placed(m, i, k) ==
               sum[i - 1] + k \in 1 .. Len(join[m]) /\ join[m][sum[i - 1] + k] = seqs[i][k]
           Found(m, n) == \E i \in 1 .. m : \E k \in 1 .. sizes[i] : n = sum[i - 1] + k
           Right(m) ==
               /\ Len(join[m]) = sum[m]
               /\ \A i \in 1 .. m : \A k \in 1 .. sizes[i] : Placed(m, i, k)
               /\ \A n \in 1 .. Len(join[m]) : Found(m, n)
           T == {m \in 0 .. size : Right(m)}
<1>3. 0 \in T
  BY <1>0, <1>1, <1>2
<1>4. ASSUME NEW m \in 0 .. size - 1, m \in T PROVE m + 1 \in T
  <2>1. m \in 0 .. size /\ m + 1 \in 1 .. size /\ m + 1 \in 0 .. size /\ (m + 1) - 1 = m
    BY <1>0
  <2>2. /\ join[m] \in Seq(S) /\ seqs[m + 1] \in Seq(S)
        /\ join[m + 1] = join[m] \o seqs[m + 1]
    BY <1>0, <1>2, <2>1
  <2>3. Right(m)
    BY <1>4
  <2>4. /\ sum[m + 1] = sum[m] + sizes[m + 1] /\ sum[m] \in Nat /\ Len(join[m]) = sum[m]
        /\ sizes[m + 1] = Len(seqs[m + 1])
    BY <1>0, <1>1, <2>1, <2>3
  <2>5. /\ Len(join[m + 1]) = sum[m] + sizes[m + 1] /\ sizes[m + 1] \in Nat
        /\ \A k \in 1 .. sum[m] : join[m + 1][k] = join[m][k]
        /\ \A k \in 1 .. sizes[m + 1] : join[m + 1][sum[m] + k] = seqs[m + 1][k]
    <3> DEFINE s == join[m]
               t == seqs[m + 1]
               st == join[m + 1]
    <3> HIDE DEF s, t, st
    <3>1. s \in Seq(S) /\ t \in Seq(S) /\ st = s \o t /\ Len(s) = sum[m] /\ Len(t) = sizes[m + 1]
      BY <2>2, <2>4 DEF s, t, st
    <3>2. /\ Len(st) = Len(s) + Len(t) /\ Len(s) \in Nat /\ Len(t) \in Nat
          /\ \A k \in 1 .. Len(s) : st[k] = s[k]
          /\ \A k \in 1 .. Len(t) : st[Len(s) + k] = t[k]
      <4>1. /\ Len(s \o t) = Len(s) + Len(t) /\ Len(s) \in Nat /\ Len(t) \in Nat
            /\ \A k \in 1 .. Len(s) : (s \o t)[k] = s[k]
            /\ \A k \in 1 .. Len(t) : (s \o t)[Len(s) + k] = t[k]
        <5>1. s \in Seq(S) /\ t \in Seq(S)
          BY <3>1
        <5> QED BY <5>1, ConcatFacts
      <4> QED BY <3>1, <4>1, Zenon
    <3> QED BY <3>1, <3>2 DEF s, t, st
  <2>6. \A i \in 1 .. m : \A k \in 1 .. sizes[i] : Placed(m, i, k)
    BY <2>3
  <2>7. ASSUME NEW i \in 1 .. m + 1, NEW k \in 1 .. sizes[i] PROVE Placed(m + 1, i, k)
    <3>1. CASE i = m + 1
      <4>1. sum[i - 1] = sum[m] /\ k \in 1 .. sizes[m + 1] /\ sum[m] \in Nat
        BY <2>1, <2>4, <3>1
      <4>2. sum[m] + k \in 1 .. sum[m] + sizes[m + 1]
        <5> DEFINE a == sum[m]
                   b == sizes[m + 1]
        <5> HIDE DEF a, b
        <5>1. a \in Nat /\ b \in Nat /\ k \in 1 .. b
          BY <2>5, <4>1 DEF a, b
        <5>2. a + k \in 1 .. a + b
          BY <5>1
        <5> QED BY <5>2 DEF a, b
      <4> QED BY <2>5, <3>1, <4>1, <4>2
    <3>2. CASE i # m + 1
      <4>1. i \in 1 .. m
        BY <2>1, <3>2
      <4>2. sum[i - 1] + k \in 1 .. sum[m] /\ join[m][sum[i - 1] + k] = seqs[i][k]
        BY <2>4, <2>6, <4>1
      <4>3. sum[i - 1] + k \in 1 .. sum[m] + sizes[m + 1]
        <5> DEFINE a == sum[m]
                   b == sizes[m + 1]
                   c == sum[i - 1] + k
        <5> HIDE DEF a, b, c
        <5>1. a \in Nat /\ b \in Nat /\ c \in 1 .. a
          BY <2>4, <2>5, <4>2 DEF a, b, c
        <5>2. c \in 1 .. a + b
          BY <5>1
        <5> QED BY <5>2 DEF a, b, c
      <4> QED BY <2>5, <4>2, <4>3
    <3> QED BY <3>1, <3>2
  <2>8. \A n \in 1 .. sum[m] : Found(m, n)
    BY <2>3, <2>4
  <2>9. ASSUME NEW n \in 1 .. Len(join[m + 1]) PROVE Found(m + 1, n)
    <3>1. n \in 1 .. sum[m] + sizes[m + 1]
      BY <2>5
    <3>2. CASE n <= sum[m]
      <4>1. n \in 1 .. sum[m]
        BY <2>4, <3>1, <3>2
      <4>2. PICK i \in 1 .. m : \E k \in 1 .. sizes[i] : n = sum[i - 1] + k
        BY <2>8, <4>1
      <4>3. i \in 1 .. m + 1
        BY <2>1
      <4> QED BY <4>2, <4>3
    <3>3. CASE ~(n <= sum[m])
      <4>1. PICK k \in 1 .. sizes[m + 1] : n = sum[m] + k
        <5>1. n - sum[m] \in 1 .. sizes[m + 1] /\ n = sum[m] + (n - sum[m])
          <6> DEFINE a == sum[m]
                     b == sizes[m + 1]
          <6> HIDE DEF a, b
          <6>1. a \in Nat /\ b \in Nat /\ n \in 1 .. a + b /\ ~(n <= a)
            BY <2>4, <2>5, <3>1, <3>3 DEF a, b
          <6>2. n - a \in 1 .. b /\ n = a + (n - a)
            BY <6>1
          <6> QED BY <6>2 DEF a, b
        <5> QED BY <5>1
      <4>2. m + 1 \in 1 .. m + 1
        BY <2>1
      <4> QED BY <2>1, <4>1, <4>2
    <3> QED BY <3>2, <3>3
  <2>10. Right(m + 1)
    <3> HIDE DEF Placed, Found
    <3> QED BY <2>4, <2>5, <2>7, <2>9
  <2> HIDE DEF Right
  <2> QED BY <2>1, <2>10
<1>5. 0 .. size \subseteq T
  <2> HIDE DEF T
  <2> QED BY <1>0, <1>3, <1>4, UpToByStep
<1>6. Right(size)
  <2> HIDE DEF Right
  <2> QED BY <1>0, <1>5
<1>7. join[size] \in Seq(S)
  BY <1>0, <1>2
<1> QED BY <1>2, <1>6, <1>7 DEF size, sum

\* Sums over the same sizes are the same, as far as they go.
LEMMA SumsAgree ==
    ASSUME NEW sizes \in Seq(Nat), NEW others \in Seq(Nat), NEW n \in Nat,
           n <= Len(sizes), n <= Len(others), \A i \in 1 .. n : sizes[i] = others[i]
    PROVE  Sums(sizes)[n] = Sums(others)[n]
<1> DEFINE sum == Sums(sizes)
           other == Sums(others)
           T == {i \in 0 .. n : sum[i] = other[i]}
<1>1. Len(sizes) \in Nat /\ Len(others) \in Nat
  OBVIOUS
<1> HIDE DEF sum, other
<1>2. /\ sum[0] = 0 /\ other[0] = 0
      /\ \A i \in 1 .. n : sum[i] = sum[i - 1] + sizes[i] /\ other[i] = other[i - 1] + others[i]
  <2>1. 1 .. n \subseteq 1 .. Len(sizes) /\ 1 .. n \subseteq 1 .. Len(others)
    BY <1>1
  <2> QED BY <2>1, SumsFacts DEF sum, other
<1>3. 0 \in T
  BY <1>2
<1>4. ASSUME NEW i \in 0 .. n - 1, i \in T PROVE i + 1 \in T
  <2>1. i + 1 \in 1 .. n /\ i + 1 \in 0 .. n /\ (i + 1) - 1 = i
    OBVIOUS
  <2>2. sum[i] = other[i]
    BY <1>4
  <2>3. sum[i + 1] = other[i + 1]
    BY <1>2, <2>1, <2>2
  <2> QED BY <2>1, <2>3
<1>5. 0 .. n \subseteq T
  <2> HIDE DEF T
  <2> QED BY <1>3, <1>4, UpToByStep
<1>6. sum[n] = other[n]
  BY <1>5
<1> QED BY <1>6 DEF sum, other

---------------------------------------------------------------------------
(***************************************************************************)
(* The head of the calldata: its words, and what the compiler counts.          *)
(***************************************************************************)
Word == [of : Seq(STRING) \ {<<>>}, holds : {"value", "pointer", "first", "second"}]

\* How many words each parameter has in the head.
WordsOf(params) == [i \in DOMAIN params |-> Len(HeadOf[params[i]])]

LEMMA HeadsAre ==
    ASSUME NEW params, params \in Seq(Param),
           \A i \in DOMAIN params : HeadOf[params[i]] \in Seq(Word)
    PROVE  /\ WordsOf(params) \in Seq(Nat) /\ Len(WordsOf(params)) = Len(params)
           /\ Heads(params) \in Seq(Word)
           /\ Len(Heads(params)) = Sums(WordsOf(params))[Len(params)]
           /\ \A i \in 1 .. Len(params) : \A k \in 1 .. Len(HeadOf[params[i]]) :
                 /\ Sums(WordsOf(params))[i - 1] + k \in 1 .. Len(Heads(params))
                 /\ Heads(params)[Sums(WordsOf(params))[i - 1] + k] = HeadOf[params[i]][k]
           /\ \A n \in 1 .. Len(Heads(params)) : \E i \in 1 .. Len(params) :
                 \E k \in 1 .. Len(HeadOf[params[i]]) : n = Sums(WordsOf(params))[i - 1] + k
<1> DEFINE seqs == [i \in DOMAIN params |-> HeadOf[params[i]]]
           sizes == WordsOf(params)
           size == Len(params)
<1>1. size \in Nat /\ DOMAIN params = 1 .. size
  OBVIOUS
<1>2. seqs \in Seq(Seq(Word)) /\ Len(seqs) = size /\ \A i \in 1 .. size : seqs[i] = HeadOf[params[i]]
  <2> HIDE DEF size
  <2>1. seqs = [i \in 1 .. size |-> HeadOf[params[i]]] /\ \A i \in 1 .. size : HeadOf[params[i]] \in Seq(Word)
    BY <1>1
  <2> HIDE DEF seqs
  <2> QED BY <1>1, <2>1
<1>3. /\ sizes \in Seq(Nat) /\ Len(sizes) = size
      /\ \A i \in 1 .. size : sizes[i] = Len(HeadOf[params[i]])
  <2> HIDE DEF size
  <2>1. sizes = [i \in 1 .. size |-> Len(HeadOf[params[i]])]
    BY <1>1 DEF WordsOf
  <2>2. \A i \in 1 .. size : Len(HeadOf[params[i]]) \in Nat
    BY <1>1
  <2> HIDE DEF sizes
  <2> QED BY <1>1, <2>1, <2>2
<1>4. Heads(params) = FlattenSeq(seqs)
  BY DEF Heads
<1> HIDE DEF seqs, sizes, size
<1>5. \A i \in 1 .. Len(seqs) : sizes[i] = Len(seqs[i])
  BY <1>2, <1>3
<1>6. /\ FlattenSeq(seqs) \in Seq(Word)
      /\ Len(FlattenSeq(seqs)) = Sums(sizes)[size]
      /\ \A i \in 1 .. size : \A k \in 1 .. sizes[i] :
            /\ Sums(sizes)[i - 1] + k \in 1 .. Len(FlattenSeq(seqs))
            /\ FlattenSeq(seqs)[Sums(sizes)[i - 1] + k] = seqs[i][k]
      /\ \A n \in 1 .. Len(FlattenSeq(seqs)) :
            \E i \in 1 .. size : \E k \in 1 .. sizes[i] : n = Sums(sizes)[i - 1] + k
  <2>1. Len(sizes) = Len(seqs) /\ Len(seqs) = size
    BY <1>2, <1>3
  <2>2. seqs \in Seq(Seq(Word)) /\ sizes \in Seq(Nat)
    BY <1>2, <1>3
  <2>3. /\ FlattenSeq(seqs) \in Seq(Word)
        /\ Len(FlattenSeq(seqs)) = Sums(sizes)[Len(seqs)]
        /\ \A i \in 1 .. Len(seqs) : \A k \in 1 .. sizes[i] :
              /\ Sums(sizes)[i - 1] + k \in 1 .. Len(FlattenSeq(seqs))
              /\ FlattenSeq(seqs)[Sums(sizes)[i - 1] + k] = seqs[i][k]
        /\ \A n \in 1 .. Len(FlattenSeq(seqs)) :
              \E i \in 1 .. Len(seqs) : \E k \in 1 .. sizes[i] : n = Sums(sizes)[i - 1] + k
    BY <1>5, <2>1, <2>2, FlattenPositions
  <2> QED BY <2>1, <2>3
<1>7. /\ \A i \in 1 .. size : \A k \in 1 .. Len(HeadOf[params[i]]) :
            /\ Sums(sizes)[i - 1] + k \in 1 .. Len(Heads(params))
            /\ Heads(params)[Sums(sizes)[i - 1] + k] = HeadOf[params[i]][k]
      /\ \A n \in 1 .. Len(Heads(params)) : \E i \in 1 .. size :
            \E k \in 1 .. Len(HeadOf[params[i]]) : n = Sums(sizes)[i - 1] + k
  <2>1. ASSUME NEW i \in 1 .. size, NEW k \in 1 .. Len(HeadOf[params[i]])
        PROVE  /\ Sums(sizes)[i - 1] + k \in 1 .. Len(Heads(params))
               /\ Heads(params)[Sums(sizes)[i - 1] + k] = HeadOf[params[i]][k]
    <3>1. k \in 1 .. sizes[i] /\ seqs[i] = HeadOf[params[i]]
      BY <1>2, <1>3
    <3> QED BY <1>4, <1>6, <3>1
  <2>2. ASSUME NEW n \in 1 .. Len(Heads(params))
        PROVE  \E i \in 1 .. size : \E k \in 1 .. Len(HeadOf[params[i]]) :
                   n = Sums(sizes)[i - 1] + k
    <3>1. PICK i \in 1 .. size : \E k \in 1 .. sizes[i] : n = Sums(sizes)[i - 1] + k
      BY <1>4, <1>6
    <3>2. sizes[i] = Len(HeadOf[params[i]])
      BY <1>3
    <3> QED BY <3>1, <3>2
  <2> QED BY <2>1, <2>2
<1> QED BY <1>3, <1>4, <1>6, <1>7, Zenon DEF sizes, size

\* No alias is a built-in type, or stands for a tuple.
LEMMA KindFacts ==
    /\ \A t \in BuiltIn : Kind(t) = t
    /\ \A t : (Kind(t) = "tuple" <=> t = "tuple") /\ (Kind(t) = "tuple[]" <=> t = "tuple[]")
BY AliasAssumption DEF Kind, BuiltIn

LEMMA HeadShape ==
    ASSUME NEW p \in Param
    PROVE  /\ HeadOf[p] \in Seq(Word)
           /\ AbiDynamic(p) => HeadOf[p] = <<HeadWord(<<p.name>>, "pointer")>>
           /\ ~AbiDynamic(p) /\ p.type = "tuple" =>
                 /\ Len(HeadOf[p]) = Len(Heads(p.components))
                 /\ \A n \in 1 .. Len(HeadOf[p]) :
                       /\ HeadOf[p][n].holds = Heads(p.components)[n].holds
                       /\ HeadOf[p][n].of = <<p.name>> \o Heads(p.components)[n].of
           /\ ~AbiDynamic(p) /\ Kind(p.type) = "fixed" =>
                 HeadOf[p] = <<HeadWord(<<p.name>>, "first"), HeadWord(<<p.name>>, "second")>>
           /\ ~AbiDynamic(p) /\ p.type # "tuple" /\ Kind(p.type) # "fixed" =>
                 HeadOf[p] = <<HeadWord(<<p.name>>, "value")>>
<1> DEFINE G == {q \in Param : HeadOf[q] \in Seq(Word)}
           Prefixed(q) == [n \in DOMAIN Heads(q.components) |->
                              [Heads(q.components)[n] EXCEPT !.of = <<q.name>> \o @]]
<1>1. ASSUME NEW q \in Param
      PROVE  HeadOf[q] = IF AbiDynamic(q) THEN <<HeadWord(<<q.name>>, "pointer")>>
                         ELSE IF q.type = "tuple" THEN Prefixed(q)
                         ELSE IF Kind(q.type) = "fixed"
                         THEN <<HeadWord(<<q.name>>, "first"), HeadWord(<<q.name>>, "second")>>
                         ELSE <<HeadWord(<<q.name>>, "value")>>
  BY HeadOfDef, Zenon DEF Heads
<1>2. ASSUME NEW q \in Param, Heads(q.components) \in Seq(Word)
      PROVE  /\ Prefixed(q) \in Seq(Word) /\ Len(Prefixed(q)) = Len(Heads(q.components))
             /\ \A n \in 1 .. Len(Heads(q.components)) :
                   /\ Prefixed(q)[n].holds = Heads(q.components)[n].holds
                   /\ Prefixed(q)[n].of = <<q.name>> \o Heads(q.components)[n].of
  <2> DEFINE heads == Heads(q.components)
             prefixed == Prefixed(q)
  <2> HIDE DEF heads
  <2>1. heads \in Seq(Word)
    BY <1>2 DEF heads
  <2>2. Len(heads) \in Nat /\ DOMAIN heads = 1 .. Len(heads) /\ \A n \in 1 .. Len(heads) : heads[n] \in Word
    BY <2>1
  <2>3. ASSUME NEW w \in Word
        PROVE  /\ [w EXCEPT !.of = <<q.name>> \o @] \in Word
               /\ [w EXCEPT !.of = <<q.name>> \o @].holds = w.holds
               /\ [w EXCEPT !.of = <<q.name>> \o @].of = <<q.name>> \o w.of
    <3>1. <<q.name>> \in Seq(STRING) /\ Len(<<q.name>>) = 1
      BY ParamFacts
    <3>2. w.of \in Seq(STRING)
      BY DEF Word
    <3>3. <<q.name>> \o w.of \in Seq(STRING) /\ Len(<<q.name>> \o w.of) = 1 + Len(w.of)
          /\ Len(w.of) \in Nat
      BY <3>1, <3>2, ConcatFacts
    <3>4. <<q.name>> \o w.of # <<>>
      <4>1. Len(<<q.name>> \o w.of) # 0
        BY <3>3
      <4> QED BY <4>1
    <3> QED BY <3>3, <3>4 DEF Word
  <2>4. prefixed = [n \in 1 .. Len(heads) |-> [heads[n] EXCEPT !.of = <<q.name>> \o @]]
    BY <2>2 DEF heads
  <2> HIDE DEF prefixed, Prefixed
  <2>5. \A n \in 1 .. Len(heads) : /\ prefixed[n] \in Word
                                   /\ prefixed[n].holds = heads[n].holds
                                   /\ prefixed[n].of = <<q.name>> \o heads[n].of
    <3>1. ASSUME NEW n \in 1 .. Len(heads)
          PROVE  prefixed[n] = [heads[n] EXCEPT !.of = <<q.name>> \o @] /\ heads[n] \in Word
      BY <2>2, <2>4
    <3> QED BY <2>3, <3>1
  <2>6. prefixed \in Seq(Word) /\ Len(prefixed) = Len(heads)
    <3>1. prefixed \in [1 .. Len(heads) -> Word]
      BY <2>4, <2>5
    <3> QED BY <2>2, <3>1
  <2> QED BY <2>5, <2>6 DEF heads, prefixed
<1>3. ASSUME NEW q \in Param, NEW holds \in {"value", "pointer", "first", "second"}
      PROVE  HeadWord(<<q.name>>, holds) \in Word
  <2>1. <<q.name>> \in Seq(STRING) \ {<<>>}
    BY ParamFacts
  <2> QED BY <2>1 DEF HeadWord, Word
<1> HIDE DEF Prefixed
<1>4. ASSUME NEW q \in Param, \A i \in DOMAIN q.components : q.components[i] \in G
      PROVE  q \in G /\ Heads(q.components) \in Seq(Word)
  <2>1. Heads(q.components) \in Seq(Word)
    <3>1. q.components \in Seq(Param)
      BY ParamFacts
    <3> QED BY <1>4, <3>1, HeadsAre
  <2>2. Prefixed(q) \in Seq(Word)
    BY <1>2, <2>1
  <2>3. /\ <<HeadWord(<<q.name>>, "pointer")>> \in Seq(Word)
        /\ <<HeadWord(<<q.name>>, "first"), HeadWord(<<q.name>>, "second")>> \in Seq(Word)
        /\ <<HeadWord(<<q.name>>, "value")>> \in Seq(Word)
    BY <1>3
  <2>4. HeadOf[q] \in Seq(Word)
    BY <1>1, <2>2, <2>3
  <2> QED BY <2>1, <2>4
<1>5. Param \subseteq G
  <2> HIDE DEF G
  <2> QED BY <1>4, ParamsByStep
<1>6. p \in G /\ Heads(p.components) \in Seq(Word)
  BY <1>4, <1>5, ParamFacts
<1>7. HeadOf[p] \in Seq(Word)
  BY <1>6
<1>8. CASE ~AbiDynamic(p) /\ p.type = "tuple"
  <2>1. HeadOf[p] = Prefixed(p)
    BY <1>1, <1>8
  <2>2. /\ Len(Prefixed(p)) = Len(Heads(p.components))
        /\ \A n \in 1 .. Len(Heads(p.components)) :
              /\ Prefixed(p)[n].holds = Heads(p.components)[n].holds
              /\ Prefixed(p)[n].of = <<p.name>> \o Heads(p.components)[n].of
    BY <1>2, <1>6
  <2>3. Kind(p.type) # "fixed"
    BY <1>8, KindFacts DEF BuiltIn
  <2> QED BY <1>7, <1>8, <2>1, <2>2, <2>3, Zenon
<1>9. CASE AbiDynamic(p) \/ p.type # "tuple"
  <2>1. /\ AbiDynamic(p) => HeadOf[p] = <<HeadWord(<<p.name>>, "pointer")>>
        /\ ~AbiDynamic(p) /\ Kind(p.type) = "fixed" =>
              HeadOf[p] = <<HeadWord(<<p.name>>, "first"), HeadWord(<<p.name>>, "second")>>
        /\ ~AbiDynamic(p) /\ p.type # "tuple" /\ Kind(p.type) # "fixed" =>
              HeadOf[p] = <<HeadWord(<<p.name>>, "value")>>
    BY <1>1, <1>9
  <2> QED BY <1>7, <1>9, <2>1
<1> QED BY <1>8, <1>9, Zenon

LEMMA TypesFacts ==
    ASSUME NEW p \in Param
    PROVE  /\ p.type \in TypesIn[p]
           /\ p.type # "tuple" => TypesIn[p] = {p.type}
           /\ p.type = "tuple" =>
                 \A i \in DOMAIN p.components : TypesIn[p.components[i]] \subseteq TypesIn[p]
           /\ p.type = "tuple" => \A t \in TypesIn[p] : t = "tuple" \/
                 \E i \in DOMAIN p.components : t \in TypesIn[p.components[i]]
BY TypesInDef

\* The same of the kinds as of the types.
LEMMA KindsFacts ==
    ASSUME NEW p \in Param
    PROVE  /\ Kind(p.type) \in KindsIn(p)
           /\ p.type # "tuple" => KindsIn(p) = {Kind(p.type)}
           /\ p.type = "tuple" =>
                 \A i \in DOMAIN p.components : KindsIn(p.components[i]) \subseteq KindsIn(p)
           /\ p.type = "tuple" => \A t \in KindsIn(p) : t = "tuple" \/
                 \E i \in DOMAIN p.components : t \in KindsIn(p.components[i])
<1>1. Kind("tuple") = "tuple"
  BY KindFacts DEF BuiltIn
<1> QED BY <1>1, TypesFacts DEF KindsIn

\* The compiler counts the words of a parameter right, unless fixed-size arrays
\* are among them.
LEMMA HeadSizeFacts ==
    ASSUME NEW p \in Param
    PROVE  HeadSize[p] \in Nat /\ ("fixed" \notin KindsIn(p) => HeadSize[p] = Len(HeadOf[p]))
<1> DEFINE Sized(f) == HeadSize[f] \in Nat
           Counted(f) == "fixed" \notin KindsIn(f) => HeadSize[f] = Len(HeadOf[f])
           G == {q \in Param : Sized(q) /\ Counted(q)}
<1>1. ASSUME NEW q \in Param, \A i \in DOMAIN q.components : q.components[i] \in G
      PROVE  q \in G
  <2> DEFINE fields == q.components
             size == Len(fields)
             sizes == [i \in DOMAIN fields |-> HeadSize[fields[i]]]
  <2>1. size \in Nat /\ DOMAIN fields = 1 .. size /\ fields \in Seq(Param)
        /\ \A i \in 1 .. size : fields[i] \in Param
    <3> HIDE DEF fields
    <3>1. fields \in Seq(Param)
      BY ParamFacts DEF fields
    <3> QED BY <3>1
  <2>6. \A i \in 1 .. size : Sized(fields[i]) /\ Counted(fields[i])
    <3> HIDE DEF size
    <3>1. \A i \in 1 .. size : q.components[i] \in G
      BY <1>1, <2>1
    <3>2. \A f \in G : Sized(f) /\ Counted(f)
      OBVIOUS
    <3> HIDE DEF G, Sized, Counted
    <3> QED BY <3>1, <3>2
  <2>2. sizes \in Seq(Nat) /\ Len(sizes) = size /\ \A i \in 1 .. size : sizes[i] = HeadSize[fields[i]]
    <3>1. \A i \in 1 .. size : HeadSize[fields[i]] \in Nat
      BY <2>6
    <3> HIDE DEF fields, size
    <3>2. sizes = [i \in 1 .. size |-> HeadSize[fields[i]]]
      BY <2>1
    <3> HIDE DEF sizes
    <3> QED BY <2>1, <3>1, <3>2
  <2>3. HeadSize[q] = IF q.type = "tuple" /\ ~IsDynamicType(q) THEN Sums(sizes)[size] ELSE 1
    BY HeadSizeDef, Zenon
  <2> HIDE DEF sizes, size
  <2>4. HeadSize[q] \in Nat
    <3>1. Sums(sizes)[size] \in Nat
      BY <2>1, <2>2, SumsFacts
    <3> QED BY <2>3, <3>1
  <2>5. ASSUME "fixed" \notin KindsIn(q) PROVE HeadSize[q] = Len(HeadOf[q])
    <3>1. AbiDynamic(q) <=> IsDynamicType(q)
      BY <2>5 DEF AbiDynamic, IsDynamicType
    <3>2. CASE q.type = "tuple" /\ ~IsDynamicType(q)
      <4>1. \A i \in 1 .. size : "fixed" \notin KindsIn(fields[i])
        BY <2>1, <2>5, <3>2, KindsFacts
      <4>2. \A i \in 1 .. size : HeadSize[fields[i]] = Len(HeadOf[fields[i]])
        BY <2>6, <4>1
      <4> HIDE DEF fields
      <4>3. \A i \in 1 .. size : HeadOf[fields[i]] \in Seq(Word)
        BY <2>1, HeadShape
      <4>4. /\ WordsOf(fields) \in Seq(Nat) /\ Len(WordsOf(fields)) = size
            /\ Len(Heads(fields)) = Sums(WordsOf(fields))[size]
        BY <2>1, <4>3, HeadsAre DEF size
      <4>5. \A i \in 1 .. size : WordsOf(fields)[i] = sizes[i]
        BY <2>1, <2>2, <4>2 DEF WordsOf
      <4>6. Sums(sizes)[size] = Sums(WordsOf(fields))[size]
        <5>1. size <= Len(sizes) /\ size <= Len(WordsOf(fields))
          BY <2>1, <2>2, <4>4
        <5> QED BY <2>1, <2>2, <4>4, <4>5, <5>1, SumsAgree
      <4>7. Len(HeadOf[q]) = Len(Heads(fields))
        BY <3>1, <3>2, HeadShape DEF fields
      <4> QED BY <2>3, <3>2, <4>4, <4>6, <4>7
    <3>3. CASE ~(q.type = "tuple" /\ ~IsDynamicType(q))
      <4>1. Kind(q.type) # "fixed"
        BY <2>5, KindsFacts
      <4>2. \E holds : HeadOf[q] = <<HeadWord(<<q.name>>, holds)>>
        <5>1. CASE AbiDynamic(q)
          BY <5>1, HeadShape
        <5>2. CASE ~AbiDynamic(q)
          BY <3>1, <3>3, <4>1, <5>2, HeadShape
        <5> QED BY <5>1, <5>2
      <4>3. Len(HeadOf[q]) = 1
        BY <4>2
      <4> QED BY <2>3, <3>3, <4>3
    <3> QED BY <3>2, <3>3
  <2> QED BY <2>4, <2>5
<1>2. Param \subseteq G
  <2> HIDE DEF G
  <2> QED BY <1>1, ParamsByStep
<1>3. p \in G
  BY <1>2
<1> QED BY <1>3, Zenon

LEMMA OffsetCounts ==
    ASSUME NEW params \in Seq(Param), NEW n \in 0 .. Len(params)
    PROVE  /\ OffsetOf(params, n) \in Nat
           /\ (\A j \in 1 .. n : "fixed" \notin KindsIn(params[j])) =>
                 OffsetOf(params, n) = Sums(WordsOf(params))[n]
<1> DEFINE size == Len(params)
           sizes == [j \in DOMAIN params |-> HeadSize[params[j]]]
<1>1. /\ size \in Nat /\ DOMAIN params = 1 .. size /\ n \in 0 .. size
      /\ \A j \in 1 .. size : params[j] \in Param
  OBVIOUS
<1>2. /\ sizes \in Seq(Nat) /\ Len(sizes) = size
      /\ \A j \in 1 .. size : sizes[j] = HeadSize[params[j]]
  <2> HIDE DEF size
  <2>1. sizes = [j \in 1 .. size |-> HeadSize[params[j]]]
        /\ \A j \in 1 .. size : HeadSize[params[j]] \in Nat
    BY <1>1, HeadSizeFacts
  <2> HIDE DEF sizes
  <2> QED BY <1>1, <2>1
<1>3. OffsetOf(params, n) = Sums(sizes)[n]
  BY DEF OffsetOf
<1>4. \A j \in 1 .. size : HeadOf[params[j]] \in Seq(Word)
  <2> HIDE DEF size
  <2> QED BY <1>1, HeadShape
<1>5. WordsOf(params) \in Seq(Nat) /\ Len(WordsOf(params)) = size
  BY <1>4, HeadsAre
<1>6. \A j \in 1 .. size : WordsOf(params)[j] = Len(HeadOf[params[j]])
  BY <1>1 DEF WordsOf
<1> HIDE DEF size, sizes
<1>7. Sums(sizes)[n] \in Nat
  BY <1>1, <1>2, SumsFacts
<1>8. ASSUME \A j \in 1 .. n : "fixed" \notin KindsIn(params[j])
      PROVE  Sums(sizes)[n] = Sums(WordsOf(params))[n]
  <2>1. n \in Nat /\ n <= size /\ 1 .. n \subseteq 1 .. size
    BY <1>1
  <2>2. \A j \in 1 .. n : sizes[j] = WordsOf(params)[j]
    BY <1>1, <1>2, <1>6, <1>8, <2>1, HeadSizeFacts
  <2> QED BY <1>2, <1>5, <2>1, <2>2, SumsAgree
<1> QED BY <1>3, <1>7, <1>8

---------------------------------------------------------------------------
(***************************************************************************)
(* Names, and where a path of names leads.                                   *)
(***************************************************************************)
LEMMA FindFacts ==
    ASSUME NEW params \in Seq(Param), NEW name \in Names(params)
    PROVE  /\ Find(params, name) \in 1 .. Len(params)
           /\ params[Find(params, name)].name = name
<1> DEFINE named == {i \in 1 .. Len(params) : params[i].name = name}
<1>1. Len(params) \in Nat /\ DOMAIN params = 1 .. Len(params)
  OBVIOUS
<1>2. named # {} /\ named \subseteq Nat
  BY <1>1 DEF Names
<1>3. PICK i \in named : \A j \in named : ~(<<j, i>> \in OpToRel(<, Nat))
  <2> HIDE DEF named
  <2> QED BY <1>2, NatLessThanWellFounded, WFMin
<1>4. \A j \in named : ~(j < i)
  <2> HIDE DEF named
  <2> QED BY <1>2, <1>3 DEF OpToRel
<1>5. i \in DOMAIN params /\ params[i].name = name
  BY <1>1
<1>6. \A j \in 1 .. i - 1 : params[j].name # name
  <2> SUFFICES ASSUME NEW j \in 1 .. i - 1, params[j].name = name PROVE FALSE
    OBVIOUS
  <2>1. j \in 1 .. Len(params) /\ j < i
    BY <1>1, <1>5
  <2> QED BY <1>4, <2>1
<1>7. /\ Find(params, name) \in DOMAIN params
      /\ params[Find(params, name)].name = name
  BY <1>5, <1>6, Zenon DEF Find
<1> QED BY <1>1, <1>7

LEMMA PlaceOfDef ==
    ASSUME NEW params, NEW path, Len(path) \in Nat
    PROVE  PlaceOf(params, path) =
             [n \in 0 .. Len(path) |->
                IF n = 0 THEN [params |-> params, offset |-> 0]
                ELSE LET above == PlaceOf(params, path)[n - 1]
                         i == Find(above.params, path[n])
                     IN  IF path[n] \in Names(above.params)
                              /\ MayConstrain(above.params[i], n = Len(path))
                         THEN [params |-> above.params[i].components,
                               offset |-> above.offset + OffsetOf(above.params, i - 1)]
                         ELSE Nowhere]
<1> DEFINE start == [params |-> params, offset |-> 0]
           Next_(above, n) ==
               LET i == Find(above.params, path[n])
               IN  IF path[n] \in Names(above.params)
                        /\ MayConstrain(above.params[i], n = Len(path))
                   THEN [params |-> above.params[i].components,
                         offset |-> above.offset + OffsetOf(above.params, i - 1)]
                   ELSE Nowhere
           F(place, m) == [n \in 0 .. m |-> IF n = 0 THEN start ELSE Next_(place[n - 1], n)]
           T == {m \in 0 .. Len(path) : \E place : place = F(place, m)}
<1> HIDE DEF start, Next_
<1>1. 0 \in T
  <2> DEFINE place == [n \in 0 .. 0 |-> start]
  <2>1. place = F(place, 0)
    OBVIOUS
  <2> HIDE DEF F, place
  <2> QED BY <2>1
<1>2. ASSUME NEW m \in 0 .. Len(path) - 1, m \in T PROVE m + 1 \in T
  <2>1. PICK place : place = F(place, m)
    BY <1>2
  <2> DEFINE more == [n \in 0 .. m + 1 |-> IF n <= m THEN place[n] ELSE Next_(place[m], m + 1)]
  <2>2. more = F(more, m + 1)
    BY <2>1
  <2> HIDE DEF F, more
  <2> QED BY <2>2
<1>3. 0 .. Len(path) \subseteq T
  <2> HIDE DEF T
  <2> QED BY <1>1, <1>2, UpToByStep
<1>4. \E place : place = F(place, Len(path))
  <2>1. Len(path) \in T
    <3> HIDE DEF T
    <3> QED BY <1>3
  <2> HIDE DEF F
  <2> QED BY <2>1
<1> QED BY <1>4, Zenon DEF PlaceOf, start, Next_

LEMMA PlaceFacts ==
    ASSUME NEW params \in Seq(Param), NEW path \in Seq(STRING)
    PROVE  /\ PlaceOf(params, path)[0] = [params |-> params, offset |-> 0]
           /\ \A n \in 0 .. Len(path) : PlaceOf(params, path)[n].params \in Seq(Param)
           /\ \A n \in 0 .. Len(path) : \/ PlaceOf(params, path)[n] = Nowhere
                                        \/ PlaceOf(params, path)[n].offset \in Nat
           /\ \A n \in 1 .. Len(path) :
                 LET above == PlaceOf(params, path)[n - 1]
                     i == Find(above.params, path[n])
                 IN  IF path[n] \in Names(above.params)
                          /\ MayConstrain(above.params[i], n = Len(path))
                     THEN /\ PlaceOf(params, path)[n].params = above.params[i].components
                          /\ PlaceOf(params, path)[n].offset =
                                above.offset + OffsetOf(above.params, i - 1)
                     ELSE PlaceOf(params, path)[n] = Nowhere
<1> DEFINE place == PlaceOf(params, path)
           size == Len(path)
           found(n) == Find(place[n - 1].params, path[n])
           goes(n) == /\ path[n] \in Names(place[n - 1].params)
                      /\ MayConstrain(place[n - 1].params[found(n)], n = size)
           to(n) == [params |-> place[n - 1].params[found(n)].components,
                     offset |-> place[n - 1].offset + OffsetOf(place[n - 1].params, found(n) - 1)]
           Next_(n) == IF goes(n) THEN to(n) ELSE Nowhere
<1> HIDE DEF size, place
<1>1. size \in Nat /\ \A n \in 1 .. size : path[n] \in STRING
  BY DEF size
<1>2. place = [n \in 0 .. size |-> IF n = 0 THEN [params |-> params, offset |-> 0] ELSE Next_(n)]
  BY <1>1, PlaceOfDef, Zenon DEF place, size
<1>3. place[0] = [params |-> params, offset |-> 0] /\ \A n \in 1 .. size : place[n] = Next_(n)
  <2> HIDE DEF Next_
  <2> QED BY <1>1, <1>2
<1> DEFINE Good(at) == at.params \in Seq(Param) /\ (at = Nowhere \/ at.offset \in Nat)
           T == {n \in 0 .. size : Good(place[n])}
<1>4. 0 \in T
  BY <1>1, <1>3
<1>5. ASSUME NEW n \in 0 .. size - 1, n \in T PROVE n + 1 \in T
  <2>1. n + 1 \in 1 .. size /\ (n + 1) - 1 = n /\ n + 1 \in 0 .. size
    BY <1>1
  <2>2. Good(place[n])
    BY <1>5
  <2>3. Good(Nowhere)
    BY DEF Nowhere
  <2>4. ASSUME goes(n + 1) PROVE Good(place[n + 1])
    <3> DEFINE at == place[n].params
               i == Find(at, path[n + 1])
    <3>1. path[n + 1] \in Names(at) /\ at \in Seq(Param)
      BY <2>1, <2>2, <2>4
    <3>2. place[n + 1] = [params |-> at[i].components,
                          offset |-> place[n].offset + OffsetOf(at, i - 1)]
      BY <1>3, <2>1, <2>4, Zenon
    <3>3. place[n] # Nowhere
      BY <3>1 DEF Nowhere, Names
    <3>4. place[n].offset \in Nat
      BY <2>2, <3>3
    <3> HIDE DEF at
    <3>5. i \in 1 .. Len(at)
      BY <3>1, FindFacts
    <3> HIDE DEF i
    <3>6. at[i] \in Param /\ Len(at) \in Nat
      BY <3>1, <3>5
    <3>7. at[i].components \in Seq(Param)
      BY <3>6, ParamFacts
    <3>8. OffsetOf(at, i - 1) \in Nat
      <4>1. i - 1 \in 0 .. Len(at)
        BY <3>5, <3>6
      <4> QED BY <3>1, <4>1, OffsetCounts
    <3>9. place[n].offset + OffsetOf(at, i - 1) \in Nat
      BY <3>4, <3>8
    <3> QED BY <3>2, <3>7, <3>9
  <2>5. ASSUME ~goes(n + 1) PROVE Good(place[n + 1])
    <3>1. place[n + 1] = Nowhere
      BY <1>3, <2>1, <2>5, Zenon
    <3> QED BY <2>3, <3>1
  <2> HIDE DEF Good, goes
  <2> QED BY <2>1, <2>4, <2>5
<1>6. 0 .. size \subseteq T
  <2> HIDE DEF T
  <2> QED BY <1>1, <1>4, <1>5, UpToByStep
<1>7. \A n \in 0 .. size : Good(place[n])
  <2> HIDE DEF Good
  <2> QED BY <1>6
<1>8. \A n \in 1 .. size : IF goes(n) THEN /\ place[n].params = to(n).params
                                         /\ place[n].offset = to(n).offset
                          ELSE place[n] = Nowhere
  BY <1>3, Zenon
<1>9. \A n \in 1 .. size : /\ to(n).params = place[n - 1].params[found(n)].components
                          /\ to(n).offset = place[n - 1].offset
                                              + OffsetOf(place[n - 1].params, found(n) - 1)
  OBVIOUS
<1> HIDE DEF to
<1>10. \A n \in 1 .. size :
          IF goes(n) THEN /\ place[n].params = place[n - 1].params[found(n)].components
                          /\ place[n].offset = place[n - 1].offset
                                              + OffsetOf(place[n - 1].params, found(n) - 1)
          ELSE place[n] = Nowhere
  BY <1>8, <1>9, Zenon
<1> QED BY <1>3, <1>7, <1>10, Zenon DEF place, size

---------------------------------------------------------------------------
(***************************************************************************)
(* Where a parameter's words are among those of its function.                 *)
(***************************************************************************)
LEMMA HeadsFacts ==
    ASSUME NEW params \in Seq(Param)
    PROVE  /\ Heads(params) \in Seq(Word)
           /\ \A i \in 1 .. Len(params) : Sums(WordsOf(params))[i - 1] \in Nat
           /\ \A i \in 1 .. Len(params) : \A k \in 1 .. Len(HeadOf[params[i]]) :
                 /\ Sums(WordsOf(params))[i - 1] + k \in 1 .. Len(Heads(params))
                 /\ Heads(params)[Sums(WordsOf(params))[i - 1] + k] = HeadOf[params[i]][k]
           /\ \A n \in 1 .. Len(Heads(params)) : \E i \in 1 .. Len(params) :
                 \E k \in 1 .. Len(HeadOf[params[i]]) : n = Sums(WordsOf(params))[i - 1] + k
<1>1. \A i \in DOMAIN params : HeadOf[params[i]] \in Seq(Word)
  <2>1. \A i \in DOMAIN params : params[i] \in Param
    OBVIOUS
  <2>2. \A p \in Param : HeadOf[p] \in Seq(Word)
    BY HeadShape
  <2> QED BY <2>1, <2>2
<1>2. WordsOf(params) \in Seq(Nat) /\ Len(WordsOf(params)) = Len(params)
  BY <1>1, HeadsAre
<1>3. \A i \in 1 .. Len(params) : Sums(WordsOf(params))[i - 1] \in Nat
  <2>1. \A i \in 1 .. Len(params) : i - 1 \in 0 .. Len(WordsOf(params))
    BY <1>2
  <2> QED BY <1>2, <2>1, SumsFacts
<1> QED BY <1>1, <1>3, HeadsAre

\* The words of a static tuple are those of its fields, in a row.
LEMMA FieldWords ==
    ASSUME NEW params \in Seq(Param), NEW i \in 1 .. Len(params),
           ~AbiDynamic(params[i]), params[i].type = "tuple",
           NEW j \in 1 .. Len(Heads(params[i].components))
    PROVE  LET n == Sums(WordsOf(params))[i - 1] + j
               field == Heads(params[i].components)[j]
           IN  /\ n \in 1 .. Len(Heads(params))
               /\ Heads(params)[n].holds = field.holds
               /\ Heads(params)[n].of = <<params[i].name>> \o field.of
<1> DEFINE p == params[i]
<1>1. p \in Param
  OBVIOUS
<1> HIDE DEF p
<1>2. j \in 1 .. Len(HeadOf[p]) /\ HeadOf[p][j].holds = Heads(p.components)[j].holds
      /\ HeadOf[p][j].of = <<p.name>> \o Heads(p.components)[j].of
  BY <1>1, HeadShape DEF p
<1> QED BY <1>2, HeadsFacts DEF p

LEMMA ValueWord ==
    ASSUME NEW params \in Seq(Param), NEW i \in 1 .. Len(params),
           ~AbiDynamic(params[i]), params[i].type # "tuple" /\ Kind(params[i].type) # "fixed"
    PROVE  LET n == Sums(WordsOf(params))[i - 1] + 1
           IN  /\ n \in 1 .. Len(Heads(params))
               /\ Heads(params)[n] = HeadWord(<<params[i].name>>, "value")
<1> DEFINE p == params[i]
<1>1. p \in Param
  OBVIOUS
<1> HIDE DEF p
<1>2. HeadOf[p] = <<HeadWord(<<p.name>>, "value")>>
  BY <1>1, HeadShape DEF p
<1>3. 1 \in 1 .. Len(HeadOf[p]) /\ HeadOf[p][1] = HeadWord(<<p.name>>, "value")
  BY <1>2
<1> QED BY <1>3, HeadsFacts DEF p

\* A word that holds a value belongs to a static parameter or a field of one.
LEMMA ValueWordFrom ==
    ASSUME NEW params \in Seq(Param), NEW n \in 1 .. Len(Heads(params)),
           Heads(params)[n].holds = "value"
    PROVE  \E i \in 1 .. Len(params) :
              /\ ~AbiDynamic(params[i])
              /\ \/ /\ params[i].type = "tuple"
                    /\ \E j \in 1 .. Len(Heads(params[i].components)) :
                          LET field == Heads(params[i].components)[j]
                          IN  /\ field.holds = "value"
                              /\ Heads(params)[n].of = <<params[i].name>> \o field.of
                 \/ /\ params[i].type # "tuple"
                    /\ Heads(params)[n].of = <<params[i].name>>
<1>0. PICK i \in 1 .. Len(params) :
          \E k \in 1 .. Len(HeadOf[params[i]]) : n = Sums(WordsOf(params))[i - 1] + k
  BY HeadsFacts
<1>1. PICK k \in 1 .. Len(HeadOf[params[i]]) : n = Sums(WordsOf(params))[i - 1] + k
  BY <1>0
<1>2. Heads(params)[n] = HeadOf[params[i]][k]
  BY <1>1, HeadsFacts
<1> DEFINE p == params[i]
<1>3. p \in Param
  OBVIOUS
<1> HIDE DEF p
<1>4. HeadOf[p][k].holds = "value" /\ k \in 1 .. Len(HeadOf[p])
  BY <1>1, <1>2 DEF p
<1>5. ~AbiDynamic(p)
  <2> SUFFICES ASSUME AbiDynamic(p) PROVE FALSE
    OBVIOUS
  <2>1. HeadOf[p] = <<HeadWord(<<p.name>>, "pointer")>>
    BY <1>3, HeadShape
  <2>2. HeadOf[p][k] = HeadWord(<<p.name>>, "pointer")
    BY <1>4, <2>1
  <2> QED BY <1>4, <2>2 DEF HeadWord
<1>6. CASE p.type = "tuple"
  <2>1. /\ k \in 1 .. Len(Heads(p.components))
        /\ HeadOf[p][k].holds = Heads(p.components)[k].holds
        /\ HeadOf[p][k].of = <<p.name>> \o Heads(p.components)[k].of
    BY <1>3, <1>4, <1>5, <1>6, HeadShape
  <2> QED BY <1>2, <1>4, <1>5, <1>6, <2>1 DEF p
<1>7. CASE p.type # "tuple"
  <2>1. Kind(p.type) # "fixed"
    <3> SUFFICES ASSUME Kind(p.type) = "fixed" PROVE FALSE
      OBVIOUS
    <3>1. HeadOf[p] = <<HeadWord(<<p.name>>, "first"), HeadWord(<<p.name>>, "second")>>
      BY <1>3, <1>5, HeadShape
    <3>2. HeadOf[p][k] \in {HeadWord(<<p.name>>, "first"), HeadWord(<<p.name>>, "second")}
      BY <1>4, <3>1
    <3> QED BY <1>4, <3>2 DEF HeadWord
  <2>2. HeadOf[p] = <<HeadWord(<<p.name>>, "value")>>
    BY <1>3, <1>5, <1>7, <2>1, HeadShape
  <2>3. HeadOf[p][k].of = <<p.name>>
    BY <1>4, <2>2 DEF HeadWord
  <2> QED BY <1>2, <1>5, <1>7, <2>3 DEF p
<1> QED BY <1>6, <1>7

\* Word w is word v of the fields that the first k names of a path lead to.
Under(w, v, path, k) ==
    /\ w.holds = v.holds
    /\ Len(w.of) = k + Len(v.of)
    /\ \A m \in 1 .. k : w.of[m] = path[m]
    /\ \A m \in 1 .. Len(v.of) : w.of[k + m] = v.of[m]

LEMMA UnderField ==
    ASSUME NEW w, NEW v, NEW field \in Word, NEW name \in STRING, NEW path, NEW k \in Nat,
           v.of = <<name>> \o field.of, v.holds = field.holds, Under(w, v, path, k)
    PROVE  w.of[k + 1] = name /\ (path[k + 1] = name => Under(w, field, path, k + 1))
<1> DEFINE rest == field.of
           all == v.of
           size == Len(rest)
<1>1. <<name>> \in Seq(STRING) /\ Len(<<name>>) = 1 /\ <<name>>[1] = name /\ rest \in Seq(STRING)
  BY DEF Word
<1> HIDE DEF rest, all
<1>2. all = <<name>> \o rest
  BY DEF rest, all
<1>3. /\ Len(<<name>> \o rest) = 1 + size /\ size \in Nat
      /\ \A m \in 1 .. 1 : (<<name>> \o rest)[m] = <<name>>[m]
      /\ \A m \in 1 .. size : (<<name>> \o rest)[1 + m] = rest[m]
  BY <1>1, ConcatFacts
<1>4. /\ Len(all) = 1 + size /\ size \in Nat /\ all[1] = name
      /\ \A m \in 1 .. size : all[1 + m] = rest[m]
  BY <1>1, <1>2, <1>3
<1>5. /\ w.holds = v.holds /\ Len(w.of) = k + Len(all)
      /\ \A m \in 1 .. k : w.of[m] = path[m]
      /\ \A m \in 1 .. Len(all) : w.of[k + m] = all[m]
  BY DEF Under, all
<1> HIDE DEF size
<1>6. w.of[k + 1] = name
  BY <1>4, <1>5
<1>7. Len(w.of) = (k + 1) + size
  BY <1>4, <1>5
<1>8. ASSUME NEW m \in 1 .. size PROVE w.of[(k + 1) + m] = rest[m]
  <2>1. 1 + m \in 1 .. Len(all) /\ (k + 1) + m = k + (1 + m)
    BY <1>4
  <2> QED BY <1>4, <1>5, <2>1
<1>9. ASSUME path[k + 1] = name, NEW m \in 1 .. k + 1 PROVE w.of[m] = path[m]
  <2>1. m \in 1 .. k \/ m = k + 1
    OBVIOUS
  <2> QED BY <1>5, <1>6, <1>9, <2>1
<1>10. ASSUME path[k + 1] = name PROVE Under(w, field, path, k + 1)
  BY <1>5, <1>7, <1>8, <1>9, <1>10 DEF Under, rest, size
<1> QED BY <1>6, <1>10

\* Where a step of a path leads, for a path that leads somewhere.
LEMMA StepFacts ==
    ASSUME NEW params \in Seq(Param), NEW path \in Seq(STRING), NEW n \in 1 .. Len(path),
           path[n] \in Names(PlaceOf(params, path)[n - 1].params),
           MayConstrain(PlaceOf(params, path)[n - 1].params[
               Find(PlaceOf(params, path)[n - 1].params, path[n])], n = Len(path))
    PROVE  LET above == PlaceOf(params, path)[n - 1]
               i == Find(above.params, path[n])
               p == above.params[i]
           IN  /\ above.params \in Seq(Param) /\ above.offset \in Nat
               /\ i \in 1 .. Len(above.params) /\ p \in Param /\ p.name = path[n]
               /\ ~AbiDynamic(p) /\ "fixed" \notin KindsIn(p) /\ Kind(p.type) # "fixed"
               /\ (p.type = "tuple") # (n = Len(path))
               /\ PlaceOf(params, path)[n].params = p.components
               /\ PlaceOf(params, path)[n].offset = above.offset + OffsetOf(above.params, i - 1)
               /\ OffsetOf(above.params, i - 1) \in Nat
<1> DEFINE above == PlaceOf(params, path)[n - 1]
           at == above.params
           i == Find(at, path[n])
           p == at[i]
<1> HIDE DEF above, i, p
<1>0. n - 1 \in 0 .. Len(path) /\ path[n] \in Names(at) /\ MayConstrain(p, n = Len(path))
  BY DEF above, i, p
<1>1. at \in Seq(Param) /\ (above = Nowhere \/ above.offset \in Nat)
  BY <1>0, PlaceFacts DEF above
<1>2. i \in 1 .. Len(at) /\ p.name = path[n]
  BY <1>0, <1>1, FindFacts DEF i, p
<1>3. p \in Param
  BY <1>1, <1>2 DEF p
<1>4. above.offset \in Nat
  BY <1>0, <1>1 DEF Nowhere, Names
<1>5. ~IsDynamicType(p) /\ (p.type = "tuple") # (n = Len(path))
  BY <1>0 DEF MayConstrain
<1>6. ~AbiDynamic(p) /\ "fixed" \notin KindsIn(p) /\ Kind(p.type) # "fixed"
  BY <1>3, <1>5, KindsFacts DEF AbiDynamic, IsDynamicType
<1>7. /\ PlaceOf(params, path)[n].params = p.components
      /\ PlaceOf(params, path)[n].offset = above.offset + OffsetOf(at, i - 1)
  BY PlaceFacts, Zenon DEF above, i, p
<1>8. OffsetOf(at, i - 1) \in Nat
  <2>1. Len(at) \in Nat
    BY <1>1
  <2>2. i - 1 \in 0 .. Len(at)
    BY <1>2, <2>1
  <2> QED BY <1>1, <2>2, OffsetCounts
<1> QED BY <1>1, <1>2, <1>3, <1>4, <1>5, <1>6, <1>7, <1>8, Zenon DEF above, i, p

\* A path that resolves, resolves to the word that holds its parameter.
LEMMA ResolvedPathIsSeen ==
    ASSUME NEW inputs \in Seq(Param), NEW path \in Seq(STRING) \ {<<>>},
           ResolveOffset(inputs, path) # Unresolved, NoFixedBefore(inputs, path[1])
    PROVE  ResolveOffset(inputs, path) \in Nat /\
           SeesItsParameter(inputs, ResolveOffset(inputs, path), path)
<1> DEFINE place == PlaceOf(inputs, path)
           size == Len(path)
           heads == Heads(inputs)
<1> HIDE DEF place, size, heads
<1>0. /\ size \in Nat /\ size >= 1 /\ path \in Seq(STRING)
      /\ \A n \in 1 .. size : path[n] \in STRING
  BY DEF size
<1>1. /\ place[0] = [params |-> inputs, offset |-> 0]
      /\ \A n \in 0 .. size : place[n] = Nowhere \/ place[n].offset \in Nat
  BY <1>0, PlaceFacts DEF place, size
<1> DEFINE found(n) == Find(place[n - 1].params, path[n])
           param(n) == place[n - 1].params[found(n)]
           Goes(n) == path[n] \in Names(place[n - 1].params) /\ MayConstrain(param(n), n = size)
<1>2. ASSUME NEW n \in 1 .. size, place[n] # Nowhere PROVE Goes(n)
  BY <1>0, <1>2, PlaceFacts, Zenon DEF place, size
<1>3. \A n \in 1 .. size : Goes(n)
  <2> DEFINE T == {n \in 0 .. size : place[size - n] # Nowhere}
  <2>1. 0 \in T
    <3>1. place[size].offset # Unresolved
      BY DEF ResolveOffset, place, size
    <3>2. size - 0 = size /\ 0 \in 0 .. size
      BY <1>0
    <3> QED BY <3>1, <3>2 DEF Nowhere
  <2>2. ASSUME NEW n \in 0 .. size - 1, n \in T PROVE n + 1 \in T
    <3>1. size - n \in 1 .. size /\ (size - n) - 1 = size - (n + 1) /\ n + 1 \in 0 .. size
      BY <1>0
    <3>2. Goes(size - n)
      BY <1>2, <2>2, <3>1
    <3>3. path[size - n] \in Names(place[size - (n + 1)].params)
      BY <3>1, <3>2
    <3>4. place[size - (n + 1)] # Nowhere
      BY <3>3 DEF Nowhere, Names
    <3> QED BY <3>1, <3>4
  <2>3. 0 .. size \subseteq T
    <3> HIDE DEF T
    <3> QED BY <1>0, <2>1, <2>2, UpToByStep
  <2>4. ASSUME NEW n \in 1 .. size PROVE place[n] # Nowhere
    <3>1. size - n \in 0 .. size /\ size - (size - n) = n
      BY <1>0
    <3> QED BY <2>3, <3>1
  <2> QED BY <1>2, <2>4
<1>4. ASSUME NEW n \in 1 .. size
      PROVE  /\ place[n - 1].params \in Seq(Param) /\ place[n - 1].offset \in Nat
             /\ found(n) \in 1 .. Len(place[n - 1].params)
             /\ param(n) \in Param /\ param(n).name = path[n]
             /\ ~AbiDynamic(param(n)) /\ "fixed" \notin KindsIn(param(n))
             /\ Kind(param(n).type) # "fixed" /\ (param(n).type = "tuple") # (n = size)
             /\ place[n].params = param(n).components
             /\ place[n].offset = place[n - 1].offset + OffsetOf(place[n - 1].params, found(n) - 1)
             /\ OffsetOf(place[n - 1].params, found(n) - 1) \in Nat
  <2>1. Goes(n) /\ n \in 1 .. Len(path)
    BY <1>3 DEF size
  <2>2. /\ path[n] \in Names(PlaceOf(inputs, path)[n - 1].params)
        /\ MayConstrain(PlaceOf(inputs, path)[n - 1].params[
               Find(PlaceOf(inputs, path)[n - 1].params, path[n])], n = Len(path))
    BY <2>1 DEF place, size
  <2> HIDE DEF Goes
  <2> QED BY <1>0, <2>1, <2>2, StepFacts DEF place, size
<1> HIDE DEF Goes, found, param
<1> DEFINE Clear(k) == \A j \in 1 .. found(k + 1) - 1 : "fixed" \notin KindsIn(place[k].params[j])
           InHeads(k, j) == /\ place[k].offset + j \in 1 .. Len(heads)
                            /\ Under(heads[place[k].offset + j], Heads(place[k].params)[j], path, k)
           Right(k) == Clear(k) /\ \A j \in 1 .. Len(Heads(place[k].params)) : InHeads(k, j)
           T == {k \in 0 .. size - 1 : Right(k)}
<1>5. heads \in Seq(Word) /\ Len(heads) \in Nat /\ \A n \in 1 .. Len(heads) : heads[n] \in Word
  <2>1. heads \in Seq(Word)
    BY HeadsFacts DEF heads
  <2> QED BY <2>1
\* In the same sequence, found counts the words before a parameter.
<1>6. ASSUME NEW k \in 0 .. size - 1, Clear(k)
      PROVE  place[k + 1].offset = place[k].offset
                                     + Sums(WordsOf(place[k].params))[found(k + 1) - 1]
  <2>1. k + 1 \in 1 .. size /\ (k + 1) - 1 = k
    BY <1>0
  <2> DEFINE at == place[k].params
             i == found(k + 1)
  <2> HIDE DEF at, i
  <2>2. at \in Seq(Param) /\ i \in 1 .. Len(at)
        /\ place[k + 1].offset = place[k].offset + OffsetOf(at, i - 1)
    BY <1>4, <2>1 DEF at, i
  <2>3. Len(at) \in Nat
    BY <2>2
  <2>4. i - 1 \in 0 .. Len(at)
    BY <2>2, <2>3
  <2>5. OffsetOf(at, i - 1) = Sums(WordsOf(at))[i - 1]
    BY <1>6, <2>2, <2>4, OffsetCounts DEF at, i
  <2> QED BY <2>2, <2>5 DEF at, i
<1>7. 0 \in T
  <2>1. 0 \in 0 .. size - 1 /\ 0 + 1 = 1
    BY <1>0
  <2>2. place[0].params = inputs /\ place[0].offset = 0
    BY <1>1
  <2>3. Clear(0)
    BY <2>1, <2>2 DEF NoFixedBefore, found
  <2>4. ASSUME NEW j \in 1 .. Len(heads) PROVE InHeads(0, j)
    <3>1. place[0].offset + j = j /\ Heads(place[0].params) = heads
      BY <1>5, <2>2 DEF heads
    <3>2. Under(heads[j], heads[j], path, 0)
      <4>1. heads[j] \in Word
        BY <1>5
      <4>2. Len(heads[j].of) \in Nat
        BY <4>1 DEF Word
      <4> QED BY <4>2 DEF Under
    <3> QED BY <3>1, <3>2
  <2>5. Heads(place[0].params) = heads
    BY <2>2 DEF heads
  <2> HIDE DEF Clear, InHeads
  <2> QED BY <2>1, <2>3, <2>4, <2>5
<1>8. ASSUME NEW k \in 0 .. size - 2, k \in T PROVE k + 1 \in T
  <2>1. /\ k + 1 \in 1 .. size /\ (k + 1) - 1 = k /\ k + 1 \in 0 .. size - 1 /\ k \in 0 .. size - 1
        /\ k + 1 # size /\ (k + 1) + 1 \in 1 .. size /\ ((k + 1) + 1) - 1 = k + 1 /\ k \in Nat
    BY <1>0
  <2>2. Right(k)
    BY <1>8
  <2> DEFINE at == place[k].params
             i == found(k + 1)
             p == at[i]
             before == Sums(WordsOf(at))[i - 1]
  <2> HIDE DEF at, i, p, before
  <2>3. /\ at \in Seq(Param) /\ place[k].offset \in Nat
        /\ i \in 1 .. Len(at) /\ p \in Param /\ p.name = path[k + 1]
        /\ ~AbiDynamic(p) /\ "fixed" \notin KindsIn(p) /\ p.type = "tuple"
        /\ place[k + 1].params = p.components
    BY <1>4, <2>1 DEF at, i, p, param
  <2>4. place[k + 1].offset = place[k].offset + before /\ place[k + 1].offset \in Nat
    <3>1. place[k + 1].offset \in Nat
      BY <1>4, <2>1
    <3> QED BY <1>6, <2>1, <2>2, <3>1 DEF at, i, before
  <2>5. Clear(k + 1)
    <3> DEFINE next == found((k + 1) + 1)
    <3> HIDE DEF next
    <3>1. place[k + 1].params \in Seq(Param) /\ next \in 1 .. Len(place[k + 1].params)
      BY <1>4, <2>1 DEF next
    <3>2. DOMAIN p.components = 1 .. Len(p.components) /\ Len(p.components) \in Nat
      BY <2>3, <3>1
    <3>3. 1 .. next - 1 \subseteq DOMAIN p.components
      BY <2>3, <3>1, <3>2
    <3>4. \A j \in DOMAIN p.components : "fixed" \notin KindsIn(p.components[j])
      BY <2>3, KindsFacts
    <3> QED BY <2>3, <3>3, <3>4 DEF next
  <2>6. ASSUME NEW j \in 1 .. Len(Heads(place[k + 1].params)) PROVE InHeads(k + 1, j)
    <3> DEFINE field == Heads(p.components)[j]
               n == before + j
               word == Heads(at)[n]
    <3>1. /\ n \in 1 .. Len(Heads(at))
          /\ word.holds = field.holds
          /\ word.of = <<p.name>> \o field.of
      BY <2>3, <2>6, FieldWords DEF p, before
    <3>2. field \in Word
      <4>1. p.components \in Seq(Param)
        BY <2>3, ParamFacts
      <4>2. Heads(p.components) \in Seq(Word)
        BY <4>1, HeadsFacts
      <4>3. j \in 1 .. Len(Heads(p.components))
        BY <2>3, <2>6
      <4> QED BY <4>2, <4>3
    <3> HIDE DEF field, n, word
    <3>3. /\ place[k].offset + n \in 1 .. Len(heads)
          /\ Under(heads[place[k].offset + n], word, path, k)
      BY <2>2, <3>1 DEF at, word
    <3>4. place[k].offset + n = place[k + 1].offset + j
      <4>1. n \in Nat /\ n = before + j /\ j \in Nat
        BY <3>1, <2>6 DEF n
      <4>2. before \in Int
        BY <2>3, HeadsFacts DEF before
      <4> QED BY <2>3, <2>4, <4>1, <4>2
    <3>5. Under(heads[place[k].offset + n], field, path, k + 1)
      <4>1. p.name \in STRING /\ p.name = path[k + 1]
        BY <2>3, ParamFacts
      <4> DEFINE w == heads[place[k].offset + n]
                 name == p.name
      <4> HIDE DEF w, name
      <4>2. /\ field \in Word /\ name \in STRING /\ k \in Nat
            /\ word.of = <<name>> \o field.of /\ word.holds = field.holds
            /\ Under(w, word, path, k)
        BY <2>1, <3>1, <3>2, <3>3, <4>1 DEF w, name
      <4>3. path[k + 1] = name => Under(w, field, path, k + 1)
        BY <4>2, UnderField
      <4> QED BY <4>1, <4>3 DEF w, name
    <3>6. field = Heads(place[k + 1].params)[j]
      BY <2>3 DEF field
    <3> QED BY <3>3, <3>4, <3>5, <3>6
  <2> HIDE DEF Clear, InHeads
  <2> QED BY <2>1, <2>5, <2>6
<1>9. Right(size - 1)
  <2>1. size - 1 \in Nat /\ (size - 1) - 1 = size - 2
    BY <1>0
  <2>2. 0 .. size - 1 \subseteq T
    <3> HIDE DEF T
    <3> QED BY <1>7, <1>8, <2>1, UpToByStep
  <2>3. size - 1 \in T
    <3> HIDE DEF T
    <3> QED BY <2>1, <2>2
  <2> HIDE DEF Right
  <2> QED BY <2>3
<1> DEFINE k == size - 1
           at == place[k].params
           i == found(size)
           p == at[i]
           n == Sums(WordsOf(at))[i - 1] + 1
           offset == place[size].offset
<1>10. k \in 0 .. size - 1 /\ k + 1 = size /\ size \in 1 .. size /\ k \in Nat
  BY <1>0
<1> HIDE DEF k, at, i, p, n, offset
<1>11. /\ at \in Seq(Param) /\ place[k].offset \in Nat
       /\ i \in 1 .. Len(at) /\ p \in Param /\ p.name = path[size]
       /\ ~AbiDynamic(p) /\ p.type # "tuple" /\ Kind(p.type) # "fixed"
       /\ offset \in Nat
  <2>1. offset = place[k].offset + OffsetOf(at, i - 1) /\ OffsetOf(at, i - 1) \in Nat
        /\ place[k].offset \in Nat
    BY <1>4, <1>10 DEF at, i, k, offset
  <2>2. offset \in Nat
    BY <2>1
  <2> QED BY <1>4, <1>10, <2>2 DEF at, i, p, k, param
<1>12. n \in 1 .. Len(Heads(at)) /\ Heads(at)[n] = HeadWord(<<p.name>>, "value")
  BY <1>11, ValueWord DEF p, n
<1>13. /\ place[k].offset + n \in 1 .. Len(heads)
       /\ Under(heads[place[k].offset + n], HeadWord(<<p.name>>, "value"), path, k)
  BY <1>9, <1>12 DEF at, k
<1>14. place[k].offset + n = offset + 1
  <2>1. offset = place[k].offset + (n - 1)
    <3>1. offset = place[k].offset + Sums(WordsOf(at))[i - 1]
      BY <1>6, <1>9, <1>10 DEF k, at, i, offset
    <3>2. Sums(WordsOf(at))[i - 1] \in Nat
      BY <1>11, HeadsFacts
    <3> QED BY <1>11, <3>1, <3>2 DEF n
  <2> QED BY <1>11, <1>12, <2>1
<1>15. heads[offset + 1] = HeadWord(path, "value")
  <2> DEFINE word == heads[offset + 1]
             of == word.of
  <2>1. word \in Word /\ Under(word, HeadWord(<<p.name>>, "value"), path, k)
    BY <1>5, <1>13, <1>14
  <2>2. /\ word.holds = "value" /\ Len(of) = k + 1
        /\ \A m \in 1 .. k : of[m] = path[m]
        /\ of[k + 1] = p.name
    BY <2>1 DEF Under, HeadWord
  <2>3. of \in Seq(STRING)
    BY <2>1 DEF Word
  <2> HIDE DEF of
  <2>4. \A m \in 1 .. size : of[m] = path[m]
    <3>1. \A m \in 1 .. size : m \in 1 .. k \/ m = size
      BY <1>10
    <3> QED BY <1>10, <1>11, <2>2, <3>1
  <2>5. of = path
    BY <1>0, <1>10, <2>2, <2>3, <2>4 DEF size
  <2> QED BY <2>1, <2>2, <2>5 DEF Word, HeadWord, of
<1>16. offset \in Nat /\ offset < Len(heads)
  BY <1>5, <1>11, <1>13, <1>14
<1> QED BY <1>15, <1>16 DEF SeesItsParameter, ResolveOffset, offset, heads, place, size

\* What can be constrained resolves.
LEMMA ParameterResolves ==
    ASSUME NEW inputs \in Seq(Param), NEW path \in Seq(STRING) \ {<<>>},
           DistinctNames(inputs), NoFixedIn(inputs, path[1]),
           NEW n \in DOMAIN Heads(inputs), Heads(inputs)[n] = HeadWord(path, "value")
    PROVE  ResolveOffset(inputs, path) # Unresolved
<1> DEFINE place == PlaceOf(inputs, path)
           size == Len(path)
           word == HeadWord(path, "value")
<1> HIDE DEF place, size, word
<1>0. /\ size \in Nat /\ size >= 1 /\ path \in Seq(STRING)
      /\ \A k \in 1 .. size : path[k] \in STRING
  BY DEF size
<1>1. /\ place[0] = [params |-> inputs, offset |-> 0]
      /\ \A k \in 0 .. size : place[k].params \in Seq(Param)
  BY <1>0, PlaceFacts DEF place, size
<1> DEFINE found(k) == Find(place[k - 1].params, path[k])
           param(k) == place[k - 1].params[found(k)]
           Goes(k) == path[k] \in Names(place[k - 1].params) /\ MayConstrain(param(k), k = size)
           At(k, j) == /\ j \in 1 .. Len(Heads(place[k].params))
                       /\ Under(word, Heads(place[k].params)[j], path, k)
           Clear(k) == \A i \in DOMAIN place[k].params :
                          (k = 0 => place[k].params[i].name = path[1]) =>
                              "fixed" \notin KindsIn(place[k].params[i])
           Right(k) == DistinctNames(place[k].params) /\ Clear(k) /\ \E j : At(k, j)
           T == {k \in 0 .. size - 1 : Right(k)}
<1>2. word.holds = "value" /\ word.of = path /\ Len(word.of) = size
  BY DEF word, HeadWord, size
<1>3. 0 \in T
  <2>1. place[0].params = inputs
    BY <1>1
  <2>2. DistinctNames(place[0].params) /\ Clear(0)
    BY <2>1 DEF NoFixedIn
  <2>3. Heads(inputs) \in Seq(Word)
    BY HeadsFacts
  <2>4. n \in 1 .. Len(Heads(inputs)) /\ Heads(inputs)[n] = word
    BY <2>3 DEF word
  <2>5. Under(word, word, path, 0)
    BY <1>0, <1>2 DEF Under
  <2>6. At(0, n)
    BY <2>1, <2>4, <2>5
  <2>7. 0 \in 0 .. size - 1
    BY <1>0
  <2> HIDE DEF Clear, At
  <2> QED BY <2>2, <2>6, <2>7
\* The parameter that the word is of is the one found, and may be passed through
\* or constrained.
<1>4. ASSUME NEW k \in 0 .. size - 1, Right(k)
      PROVE  /\ Goes(k + 1)
             /\ k + 1 # size =>
                  \E j : /\ j \in 1 .. Len(Heads(param(k + 1).components))
                         /\ Under(word, Heads(param(k + 1).components)[j], path, k + 1)
  <2> DEFINE at == place[k].params
  <2>1. at \in Seq(Param) /\ k \in Nat /\ k + 1 \in 1 .. size /\ (k + 1) - 1 = k
    BY <1>0, <1>1
  <2>2. PICK j : At(k, j)
    BY <1>4
  <2> DEFINE v == Heads(at)[j]
  <2>3. j \in 1 .. Len(Heads(at)) /\ Under(word, v, path, k)
    BY <2>2
  <2>4. Heads(at) \in Seq(Word)
    BY <2>1, HeadsFacts
  <2>5. v \in Word
    BY <2>3, <2>4
  <2>6. v.holds = "value"
    BY <1>2, <2>3 DEF Under
  <2>7. PICK i \in 1 .. Len(at) :
              /\ ~AbiDynamic(at[i])
              /\ \/ /\ at[i].type = "tuple"
                    /\ \E m \in 1 .. Len(Heads(at[i].components)) :
                          LET field == Heads(at[i].components)[m]
                          IN  /\ field.holds = "value"
                              /\ v.of = <<at[i].name>> \o field.of
                 \/ /\ at[i].type # "tuple"
                    /\ v.of = <<at[i].name>>
    BY <2>1, <2>3, <2>6, ValueWordFrom
  <2> DEFINE p == at[i]
  <2>8. p \in Param /\ p.name \in STRING /\ p.components \in Seq(Param) /\ i \in DOMAIN at
    <3>1. p \in Param /\ i \in DOMAIN at
      BY <2>1
    <3> QED BY <3>1, ParamFacts
  <2> HIDE DEF v
  <2>9. CASE p.type = "tuple"
    <3>1. PICK m \in 1 .. Len(Heads(p.components)) :
              LET field == Heads(p.components)[m]
              IN  field.holds = "value" /\ v.of = <<p.name>> \o field.of
      BY <2>7, <2>9
    <3> DEFINE field == Heads(p.components)[m]
    <3>2. Heads(p.components) \in Seq(Word)
      BY <2>8, HeadsFacts
    <3>3. field \in Word
      BY <3>1, <3>2
    <3>4. field.holds = v.holds /\ v.of = <<p.name>> \o field.of
      BY <2>6, <3>1
    <3> DEFINE name == p.name
    <3> HIDE DEF field, name
    <3>5. /\ field \in Word /\ name \in STRING /\ k \in Nat
          /\ v.of = <<name>> \o field.of /\ v.holds = field.holds
          /\ Under(word, v, path, k)
      BY <2>1, <2>3, <2>8, <3>3, <3>4 DEF name
    <3>6. word.of[k + 1] = name /\ (path[k + 1] = name => Under(word, field, path, k + 1))
      BY <3>5, UnderField
    <3>7. path[k + 1] = p.name /\ Under(word, field, path, k + 1)
      BY <1>2, <3>6 DEF name
    <3>8. k + 1 # size
      <4>1. Len(field.of) \in Nat /\ field.of # <<>>
        BY <3>3 DEF Word
      <4>2. Len(field.of) # 0
        BY <3>3, <4>1 DEF Word
      <4>3. size = (k + 1) + Len(field.of)
        BY <1>2, <3>7 DEF Under
      <4> QED BY <1>0, <2>1, <4>1, <4>2, <4>3
    <3>9. found(k + 1) = i
      <4>1. path[k + 1] \in Names(at)
        BY <2>8, <3>7 DEF Names
      <4>2. found(k + 1) \in 1 .. Len(at) /\ at[found(k + 1)].name = path[k + 1]
        BY <2>1, <4>1, FindFacts
      <4>3. found(k + 1) \in DOMAIN at
        BY <2>1, <4>2
      <4> QED BY <1>4, <2>8, <3>7, <4>2, <4>3 DEF DistinctNames
    <3>10. "fixed" \notin KindsIn(p)
      <4>1. k = 0 => p.name = path[1]
        BY <3>7
      <4> QED BY <1>4, <2>8, <4>1
    <3>11. MayConstrain(p, k + 1 = size)
      BY <2>7, <2>9, <3>8, <3>10 DEF MayConstrain, IsDynamicType, AbiDynamic
    <3>12. path[k + 1] \in Names(at)
      BY <2>8, <3>7 DEF Names
    <3>13. param(k + 1) = p
      BY <2>1, <3>9
    <3> HIDE DEF found, param
    <3> QED BY <2>1, <3>1, <3>7, <3>11, <3>12, <3>13 DEF field
  <2>10. CASE p.type # "tuple"
    <3>1. v.of = <<p.name>>
      BY <2>7, <2>10
    <3>2. /\ size = k + 1 /\ path[k + 1] = p.name
      <4>1. Len(v.of) = 1 /\ v.of[1] = p.name
        BY <3>1
      <4> QED BY <1>2, <2>1, <2>3, <4>1 DEF Under
    <3>9. found(k + 1) = i
      <4>1. path[k + 1] \in Names(at)
        BY <2>8, <3>2 DEF Names
      <4>2. found(k + 1) \in 1 .. Len(at) /\ at[found(k + 1)].name = path[k + 1]
        BY <2>1, <4>1, FindFacts
      <4>3. found(k + 1) \in DOMAIN at
        BY <2>1, <4>2
      <4> QED BY <1>4, <2>8, <3>2, <4>2, <4>3 DEF DistinctNames
    <3>10. "fixed" \notin KindsIn(p)
      <4>1. k = 0 => p.name = path[1]
        BY <3>2
      <4> QED BY <1>4, <2>8, <4>1
    <3>11. MayConstrain(p, k + 1 = size)
      BY <2>7, <2>10, <3>2, <3>10 DEF MayConstrain, IsDynamicType, AbiDynamic
    <3>12. path[k + 1] \in Names(at)
      BY <2>8, <3>2 DEF Names
    <3>13. param(k + 1) = p
      BY <2>1, <3>9
    <3> HIDE DEF found, param
    <3> QED BY <2>1, <3>2, <3>11, <3>12, <3>13
  <2> QED BY <2>9, <2>10
<1>5. ASSUME NEW k \in 0 .. size - 1, Right(k)
      PROVE  /\ place[k + 1].params = param(k + 1).components
             /\ place[k + 1].offset \in Nat
             /\ param(k + 1) \in Param
             /\ "fixed" \notin KindsIn(param(k + 1))
             /\ k + 1 # size => param(k + 1).type = "tuple"
  <2>1. Goes(k + 1)
    BY <1>4, <1>5
  <2>2. k + 1 \in 1 .. Len(path) /\ (k + 1) - 1 = k
    BY <1>0 DEF size
  <2>3. /\ path[k + 1] \in Names(PlaceOf(inputs, path)[(k + 1) - 1].params)
        /\ MayConstrain(PlaceOf(inputs, path)[(k + 1) - 1].params[
               Find(PlaceOf(inputs, path)[(k + 1) - 1].params, path[k + 1])], k + 1 = Len(path))
    BY <2>1 DEF place, size
  <2> DEFINE above == PlaceOf(inputs, path)[(k + 1) - 1]
             i == Find(above.params, path[k + 1])
             p == above.params[i]
  <2>4. /\ above.offset \in Nat /\ p \in Param
        /\ "fixed" \notin KindsIn(p)
        /\ (p.type = "tuple") # (k + 1 = Len(path))
        /\ PlaceOf(inputs, path)[k + 1].params = p.components
        /\ PlaceOf(inputs, path)[k + 1].offset = above.offset + OffsetOf(above.params, i - 1)
        /\ OffsetOf(above.params, i - 1) \in Nat
    BY <1>0, <2>2, <2>3, StepFacts, Zenon
  <2>5. param(k + 1) = p
    BY DEF place
  <2> HIDE DEF above, i, p, param
  <2>6. PlaceOf(inputs, path)[k + 1].offset \in Nat
    BY <2>4
  <2> QED BY <2>4, <2>5, <2>6 DEF place, size
<1>6. ASSUME NEW k \in 0 .. size - 2, k \in T PROVE k + 1 \in T
  <2>1. k \in 0 .. size - 1 /\ k + 1 \in 0 .. size - 1 /\ k + 1 # size /\ k + 1 # 0
    BY <1>0
  <2>2. Right(k)
    BY <1>6
  <2> DEFINE p == param(k + 1)
  <2> HIDE DEF p
  <2>3. /\ place[k + 1].params = p.components
        /\ p \in Param /\ "fixed" \notin KindsIn(p) /\ p.type = "tuple"
    BY <1>5, <2>1, <2>2 DEF p
  <2>4. DistinctNames(place[k + 1].params)
    BY <2>3, ParamFacts
  <2>5. Clear(k + 1)
    BY <2>3, KindsFacts
  <2>6. PICK j : /\ j \in 1 .. Len(Heads(p.components))
                 /\ Under(word, Heads(p.components)[j], path, k + 1)
    <3> HIDE DEF Right, Goes, param
    <3> QED BY <1>4, <2>1, <2>2 DEF p
  <2>7. At(k + 1, j)
    BY <2>3, <2>6
  <2> HIDE DEF Clear, At
  <2> QED BY <2>1, <2>4, <2>5, <2>7
<1>7. Right(size - 1) /\ size - 1 \in 0 .. size - 1 /\ (size - 1) + 1 = size
  <2>1. size - 1 \in Nat /\ (size - 1) - 1 = size - 2 /\ (size - 1) + 1 = size
    BY <1>0
  <2>2. 0 .. size - 1 \subseteq T
    <3> HIDE DEF T
    <3> QED BY <1>3, <1>6, <2>1, UpToByStep
  <2>3. size - 1 \in T /\ size - 1 \in 0 .. size - 1
    <3> HIDE DEF T
    <3> QED BY <2>1, <2>2
  <2> HIDE DEF Right
  <2> QED BY <2>1, <2>3
<1>8. place[size].offset \in Nat
  <2> HIDE DEF Right
  <2> QED BY <1>5, <1>7
<1> QED BY <1>8 DEF ResolveOffset, Unresolved, place, size

\* The selector of a function is right when its types are spelt in full.
LEMMA TypesAgree ==
    ASSUME NEW p \in Param, TypesIn[p] \subseteq BuiltIn \ {"tuple[]"}
    PROVE  CanonicalType[p] = AbiType[p]
<1> DEFINE InFull(q) == TypesIn[q] \subseteq BuiltIn \ {"tuple[]"}
           Agrees(q) == InFull(q) => CanonicalType[q] = AbiType[q]
           G == {q \in Param : Agrees(q)}
<1>1. ASSUME NEW q \in Param, \A i \in DOMAIN q.components : q.components[i] \in G
      PROVE  q \in G
  <2> SUFFICES ASSUME InFull(q) PROVE CanonicalType[q] = AbiType[q]
    OBVIOUS
  <2>1. q.type \in BuiltIn /\ q.type # "tuple[]" /\ Kind(q.type) = q.type
    BY TypesFacts, KindFacts
  <2>2. CASE q.type = "tuple"
    <3>1. \A i \in DOMAIN q.components : InFull(q.components[i])
      BY <2>2, TypesFacts
    <3>2. \A i \in DOMAIN q.components : CanonicalType[q.components[i]] = AbiType[q.components[i]]
      BY <1>1, <3>1
    <3>3. CanonicalType[q] = <<"()", [i \in DOMAIN q.components |-> CanonicalType[q.components[i]]]>>
      BY <2>2, CanonicalTypeDef
    <3>4. AbiType[q] = <<"()", [i \in DOMAIN q.components |-> AbiType[q.components[i]]]>>
      BY <2>1, <2>2, AbiTypeDef
    <3> QED BY <3>2, <3>3, <3>4
  <2>3. CASE q.type # "tuple"
    <3>1. CanonicalType[q] = <<q.type>>
      BY <2>3, CanonicalTypeDef
    <3>2. AbiType[q] = <<Kind(q.type)>>
      BY <2>1, <2>3, AbiTypeDef
    <3> QED BY <2>1, <3>1, <3>2
  <2> QED BY <2>2, <2>3
<1>2. Param \subseteq G
  <2> HIDE DEF G
  <2> QED BY <1>1, ParamsByStep
<1> QED BY <1>2

LEMMA SelectorsAgree ==
    ASSUME NEW func, func.inputs \in Seq(Param), SpeltInFull(func.inputs)
    PROVE  ComputeSelector(func.name, func.inputs) = FunctionSelector(func)
<1>1. \A i \in DOMAIN func.inputs : GetCanonicalType(func.inputs[i]) = AbiType[func.inputs[i]]
  <2>1. \A i \in DOMAIN func.inputs :
          func.inputs[i] \in Param /\ TypesIn[func.inputs[i]] \subseteq BuiltIn \ {"tuple[]"}
    BY DEF SpeltInFull
  <2> QED BY <2>1, TypesAgree DEF GetCanonicalType
<1> QED BY <1>1 DEF ComputeSelector, FunctionSelector

---------------------------------------------------------------------------
(***************************************************************************)
(* The builder.                                                              *)
(***************************************************************************)
\* A built permission is a function of the ABI with the first of the rules,
\* all of them resolved.
BuiltInv ==
    /\ built.of.inputs \in Seq(Param)
    /\ built.selector = ComputeSelector(built.of.name, built.of.inputs)
    /\ DOMAIN built.offsets \subseteq DOMAIN rules
    /\ \A i \in DOMAIN built.offsets :
          /\ built.offsets[i] = ResolveOffset(built.of.inputs, rules[i])
          /\ built.offsets[i] # Unresolved

BuilderInv == abi \in Seq(Entry) /\ TypeOK /\ BuiltInv

LEMMA EntryFacts ==
    ASSUME NEW entries \in Seq(Entry), NEW i \in Functions(entries)
    PROVE  entries[i] \in Entry /\ entries[i].inputs \in Seq(Param) /\ entries[i].name \in STRING
<1>1. i \in DOMAIN entries
  BY DEF Functions
<1>2. entries[i] \in Entry
  BY <1>1
<1> QED BY <1>2 DEF Entry

LEMMA ResolvedIsNat ==
    ASSUME NEW inputs \in Seq(Param), NEW path \in Seq(STRING),
           ResolveOffset(inputs, path) # Unresolved
    PROVE  ResolveOffset(inputs, path) \in Nat
<1>1. Len(path) \in 0 .. Len(path)
  OBVIOUS
<1>2. \/ PlaceOf(inputs, path)[Len(path)] = Nowhere
      \/ PlaceOf(inputs, path)[Len(path)].offset \in Nat
  BY <1>1, PlaceFacts
<1> QED BY <1>2 DEF ResolveOffset, Nowhere

\* What a compilation that does not throw yields.
LEMMA CompiledFacts ==
    ASSUME NEW entries \in Seq(Entry), NEW to, NEW name, NEW paths, Compiles(entries, name, paths)
    PROVE  LET compiled == CompilePolicy(entries, to, name, paths)
           IN  /\ compiled.target = to
               /\ compiled.of \in {entries[i] : i \in Functions(entries)}
               /\ compiled.of.inputs \in Seq(Param) /\ compiled.of.name = name
               /\ compiled.selector = ComputeSelector(compiled.of.name, compiled.of.inputs)
               /\ DOMAIN compiled.offsets = DOMAIN paths
               /\ \A i \in DOMAIN paths :
                     /\ compiled.offsets[i] = ResolveOffset(compiled.of.inputs, paths[i])
                     /\ compiled.offsets[i] # Unresolved
<1> DEFINE found == Matching(entries, name)
           at == CHOOSE i \in found : TRUE
           func == entries[at]
<1>1. found # {}
  <2> HIDE DEF found
  <2>1. Cardinality(found) = 1
    BY DEF Compiles, found
  <2>2. Cardinality({}) = 0
    BY FS_EmptySet
  <2>3. ASSUME found = {} PROVE FALSE
    <3>1. Cardinality(found) = 0
      BY <2>2, <2>3, Zenon
    <3> QED BY <2>1, <3>1
  <2> QED BY <2>3
<1>2. at \in found
  <2> HIDE DEF found
  <2> QED BY <1>1
<1>3. at \in Functions(entries) /\ func.name = name
  BY <1>2 DEF Matching
<1> HIDE DEF at
<1>4. func.inputs \in Seq(Param) /\ func \in {entries[i] : i \in Functions(entries)}
  BY <1>3, EntryFacts
<1> DEFINE offsets(f) == [i \in DOMAIN paths |-> ResolveOffset(f.inputs, paths[i])]
<1> HIDE DEF func, offsets
<1>5. \A any : CompilePolicy(entries, any, name, paths) =
          [target |-> any, of |-> func, selector |-> ComputeSelector(name, func.inputs),
           offsets |-> offsets(func)]
  BY DEF CompilePolicy, at, func, offsets
<1>6. \A i \in DOMAIN paths : CompilePolicy(entries, "", name, paths).offsets[i] # Unresolved
  BY DEF Compiles
<1>7. \A i \in DOMAIN paths : offsets(func)[i] # Unresolved
  <2>1. \A any : CompilePolicy(entries, any, name, paths).offsets = offsets(func)
    BY DEF CompilePolicy, at, func, offsets
  <2> QED BY <1>6, <2>1
<1>8. /\ DOMAIN offsets(func) = DOMAIN paths
      /\ \A i \in DOMAIN paths : offsets(func)[i] = ResolveOffset(func.inputs, paths[i])
  BY DEF offsets
<1> QED BY <1>3, <1>4, <1>5, <1>7, <1>8

LEMMA NothingBuilt ==
    /\ NoPermission.of.inputs \in Seq(Param)
    /\ NoPermission.selector = ComputeSelector(NoPermission.of.name, NoPermission.of.inputs)
    /\ DOMAIN NoPermission.offsets = {}
<1> DEFINE none == [type |-> "", name |-> "", inputs |-> <<>>]
           sel == ComputeSelector("", <<>>)
<1>1. none.inputs = <<>> /\ none.name = ""
  OBVIOUS
<1> HIDE DEF none, sel
<1>2. NoPermission = [target |-> "", of |-> none, selector |-> sel, offsets |-> <<>>]
  BY DEF NoPermission, none, sel
<1>3. NoPermission.of = none /\ NoPermission.selector = sel /\ NoPermission.offsets = <<>>
  BY <1>2
<1>4. sel = ComputeSelector(none.name, none.inputs)
  BY <1>1 DEF sel
<1>5. <<>> \in Seq(Param) /\ DOMAIN <<>> = {}
  OBVIOUS
<1> QED BY <1>1, <1>3, <1>4, <1>5

\* A builder just made.
Fresh ==
    /\ abi \in Seq(Entry)
    /\ target = "" /\ functionName = "" /\ rules = <<>> /\ built = NoPermission

LEMMA BuilderStarts == Fresh => BuilderInv
<1>1. Fresh => TypeOK
  <2>1. <<>> \in Seq(Path) /\ Len(<<>>) = 0 /\ 0 <= MaxRules
    <3>1. MaxRules \in Nat
      BY CompilerAssumption
    <3>2. 0 <= MaxRules
      BY <3>1
    <3>3. <<>> \in Seq(Path) /\ Len(<<>>) = 0
      OBVIOUS
    <3> QED BY <3>2, <3>3
  <2> QED BY <2>1 DEF TypeOK, Fresh
<1>2. Fresh => BuiltInv
  BY NothingBuilt DEF BuiltInv, Fresh
<1> QED BY <1>1, <1>2 DEF BuilderInv, Fresh

LEMMA BuilderKept ==
    ASSUME BuilderInv, UNCHANGED vars
    PROVE  BuilderInv'
BY DEF BuilderInv, TypeOK, BuiltInv, vars, Functions

LEMMA BuilderPreserved ==
    ASSUME BuilderInv, Next
    PROVE  BuilderInv'
<1>0. abi \in Seq(Entry) /\ abi' = abi /\ rules \in Seq(Path)
  BY DEF BuilderInv, TypeOK, Next, To, Fn, Where, Build
<1> USE DEF BuilderInv
<1>1. ASSUME NEW address \in Target, To(address) PROVE BuilderInv'
  BY <1>0, <1>1 DEF To, TypeOK, BuiltInv, Functions
<1>2. ASSUME NEW i \in Functions(abi), Fn(abi[i].name) PROVE BuilderInv'
  BY <1>0, <1>2 DEF Fn, TypeOK, BuiltInv, Functions
<1>3. ASSUME NEW path \in Path, Where(path) PROVE BuilderInv'
  <2>1. rules \in Seq(Path) /\ rules' = Append(rules, path) /\ Len(rules) < MaxRules
    BY <1>0, <1>3 DEF Where
  <2>2. /\ rules' \in Seq(Path) /\ Len(rules') = Len(rules) + 1 /\ Len(rules) \in Nat
        /\ \A i \in DOMAIN rules : i \in DOMAIN rules' /\ rules'[i] = rules[i]
    <3>1. Append(rules, path) \in Seq(Path) /\ Len(Append(rules, path)) = Len(rules) + 1
          /\ Len(rules) \in Nat
          /\ \A i \in DOMAIN rules : /\ i \in DOMAIN Append(rules, path)
                                      /\ Append(rules, path)[i] = rules[i]
      <4>1. rules \in Seq(Path)
        BY <2>1
      <4> QED BY <4>1
    <3> QED BY <2>1, <3>1
  <2>6. Len(rules') <= MaxRules
    <3>1. MaxRules \in Nat
      BY CompilerAssumption
    <3> QED BY <2>1, <2>2, <3>1
  <2>3. TypeOK'
    BY <1>0, <1>3, <2>2, <2>6 DEF Where, TypeOK, Functions
  <2>4. BuiltInv'
    BY <1>3, <2>2 DEF Where, BuiltInv
  <2> QED BY <1>0, <2>3, <2>4
<1>4. CASE Build
  <2>1. /\ target \in Target /\ functionName # ""
        /\ Compiles(abi, functionName, rules)
        /\ built' = CompilePolicy(abi, target, functionName, rules)
        /\ target' = target /\ functionName' = functionName /\ rules' = rules
    BY <1>4 DEF Build, TypeOK
  <2>2. /\ built'.target = target
        /\ built'.of \in {abi[i] : i \in Functions(abi)}
        /\ built'.of.inputs \in Seq(Param) /\ built'.of.name = functionName
        /\ built'.selector = ComputeSelector(built'.of.name, built'.of.inputs)
        /\ DOMAIN built'.offsets = DOMAIN rules
        /\ \A i \in DOMAIN rules :
              /\ built'.offsets[i] = ResolveOffset(built'.of.inputs, rules[i])
              /\ built'.offsets[i] # Unresolved
    <3> DEFINE compiled == CompilePolicy(abi, target, functionName, rules)
    <3>1. /\ compiled.target = target
          /\ compiled.of \in {abi[i] : i \in Functions(abi)}
          /\ compiled.of.inputs \in Seq(Param) /\ compiled.of.name = functionName
          /\ compiled.selector = ComputeSelector(compiled.of.name, compiled.of.inputs)
          /\ DOMAIN compiled.offsets = DOMAIN rules
          /\ \A i \in DOMAIN rules :
                /\ compiled.offsets[i] = ResolveOffset(compiled.of.inputs, rules[i])
                /\ compiled.offsets[i] # Unresolved
      <4>1. abi \in Seq(Entry) /\ Compiles(abi, functionName, rules)
        BY <1>0, <2>1
      <4> HIDE DEF BuilderInv
      <4> QED BY <4>1, CompiledFacts
    <3>2. built' = compiled
      BY <2>1
    <3> HIDE DEF compiled
    <3> QED BY <3>1, <3>2
  <2>3. BuiltInv'
    BY <2>1, <2>2 DEF BuiltInv
  <2>4. \A i \in DOMAIN built'.offsets : built'.offsets[i] \in Nat
    <3>1. ASSUME NEW i \in DOMAIN rules PROVE built'.offsets[i] \in Nat
      <4>1. rules[i] \in Path
        BY <1>0
      <4>2. rules[i] \in Seq(STRING)
        BY <4>1, CompilerAssumption
      <4> QED BY <2>2, <4>2, ResolvedIsNat
    <3> QED BY <2>2, <3>1
  <2>5. TypeOK'
    <3>1. target' \in Target \cup {""} /\ rules' \in Seq(Path) /\ Len(rules') <= MaxRules
          /\ functionName' \in {abi[i].name : i \in Functions(abi)} \cup {""}
      BY <2>1 DEF TypeOK
    <3>2. built'.target \in Target
      BY <2>1, <2>2
    <3>3. Functions(abi') = Functions(abi)
      BY <1>0
    <3> QED BY <1>0, <2>2, <2>4, <3>1, <3>2, <3>3 DEF TypeOK
  <2> QED BY <1>0, <2>3, <2>5
<1> QED BY <1>1, <1>2, <1>3, <1>4 DEF Next

LEMMA BuilderInvariant == Spec => []BuilderInv
<1>1. Init => BuilderInv
  <2> SUFFICES ASSUME Init PROVE BuilderInv
    OBVIOUS
  <2>1. abi \in Seq(Entry)
    BY CompilerAssumption DEF Init
  <2>2. Fresh
    BY <2>1 DEF Init, Fresh
  <2> QED BY <2>2, BuilderStarts
<1>2. BuilderInv /\ [Next]_vars => BuilderInv'
  BY BuilderKept, BuilderPreserved
<1> QED BY <1>1, <1>2, PTL DEF Spec

\* What follows from the invariant.
LEMMA BuilderSees ==
    ASSUME BuilderInv
    PROVE  RuleSeesItsParameter
<1> SUFFICES ASSUME NEW i \in DOMAIN built.offsets, NoFixedBefore(built.of.inputs, rules[i][1])
             PROVE  SeesItsParameter(built.of.inputs, built.offsets[i], rules[i])
  BY DEF RuleSeesItsParameter
<1>1. /\ built.of.inputs \in Seq(Param) /\ i \in DOMAIN rules /\ rules \in Seq(Path)
      /\ built.offsets[i] = ResolveOffset(built.of.inputs, rules[i])
      /\ built.offsets[i] # Unresolved
  BY DEF BuilderInv, BuiltInv, TypeOK
<1>2. rules[i] \in Seq(STRING) \ {<<>>}
  <2>1. rules[i] \in Path
    BY <1>1
  <2> QED BY <2>1, CompilerAssumption
<1> QED BY <1>1, <1>2, ResolvedPathIsSeen

LEMMA BuilderResolves ==
    ASSUME BuilderInv
    PROVE  StaticParametersResolve
<1> SUFFICES ASSUME NEW f \in Matching(abi, functionName), NEW i \in DOMAIN rules,
                    \E n \in DOMAIN Heads(abi[f].inputs) :
                        Heads(abi[f].inputs)[n] = HeadWord(rules[i], "value"),
                    DistinctNames(abi[f].inputs), NoFixedIn(abi[f].inputs, rules[i][1])
             PROVE  ResolveOffset(abi[f].inputs, rules[i]) # Unresolved
  BY DEF StaticParametersResolve
<1>1. abi[f].inputs \in Seq(Param)
  <2>1. f \in Functions(abi)
    BY DEF Matching
  <2> QED BY <2>1, EntryFacts DEF BuilderInv
<1>2. rules[i] \in Seq(STRING) \ {<<>>}
  <2>1. rules \in Seq(Path)
    BY DEF BuilderInv, TypeOK
  <2>2. rules[i] \in Path
    BY <2>1
  <2> QED BY <2>2, CompilerAssumption
<1> QED BY <1>1, <1>2, ParameterResolves

LEMMA BuilderSelects ==
    ASSUME BuilderInv
    PROVE  SelectorIsTheFunctions
<1> SUFFICES ASSUME SpeltInFull(built.of.inputs)
             PROVE  built.selector = FunctionSelector(built.of)
  BY DEF SelectorIsTheFunctions
<1> QED BY SelectorsAgree DEF BuilderInv, BuiltInv

---------------------------------------------------------------------------
\* The builder holds what its variables are said to hold.
THEOREM BuilderTypeCorrect == Spec => []TypeOK
<1>1. BuilderInv => TypeOK
  BY DEF BuilderInv
<1> QED BY <1>1, BuilderInvariant, PTL

\* A compiled rule looks at its parameter, for every ABI and any number of rules.
THEOREM SeeingHolds == Spec => []RuleSeesItsParameter
BY BuilderInvariant, BuilderSees, PTL

\* What a fixed offset can constrain, the compiler constrains.
THEOREM ResolvingHolds == Spec => []StaticParametersResolve
BY BuilderInvariant, BuilderResolves, PTL

\* A permission has the selector of its function when that is spelt in full.
THEOREM SelectorHolds == Spec => []SelectorIsTheFunctions
BY BuilderInvariant, BuilderSelects, PTL

---------------------------------------------------------------------------
\* Sums of ones count.
LEMMA OnesFacts ==
    ASSUME NEW sizes \in Seq(Nat), \A i \in 1 .. Len(sizes) : sizes[i] = 1
    PROVE  \A n \in 0 .. Len(sizes) : Sums(sizes)[n] = n
<1> DEFINE size == Len(sizes)
           T == {n \in 0 .. size : Sums(sizes)[n] = n}
<1>0. size \in Nat
  OBVIOUS
<1>1. 0 \in T
  BY <1>0, SumsFacts
<1>2. ASSUME NEW n \in 0 .. size - 1, n \in T PROVE n + 1 \in T
  <2>1. n + 1 \in 1 .. size /\ (n + 1) - 1 = n /\ Sums(sizes)[n] = n
    BY <1>0, <1>2
  <2>2. Sums(sizes)[n + 1] = Sums(sizes)[(n + 1) - 1] + sizes[n + 1]
    BY <2>1, SumsFacts
  <2>3. sizes[n + 1] = 1
    BY <2>1
  <2> QED BY <1>0, <2>1, <2>2, <2>3
<1>3. 0 .. size \subseteq T
  <2> HIDE DEF T, size
  <2> QED BY <1>0, <1>1, <1>2, UpToByStep
<1> QED BY <1>3

\* Of a set of naturals, the least.
LEMMA LeastFacts ==
    ASSUME NEW S \in SUBSET Nat, S # {}
    PROVE  LET least == CHOOSE n \in S : \A m \in S : n <= m
           IN  least \in S /\ \A m \in S : least <= m
<1>1. PICK n \in S : \A m \in S : ~(<<m, n>> \in OpToRel(<, Nat))
  BY NatLessThanWellFounded, WFMin
<1>2. \A m \in S : ~(m < n)
  BY <1>1 DEF OpToRel
<1>3. \A m \in S : n <= m
  BY <1>2
<1>4. \E k \in S : \A m \in S : k <= m
  BY <1>3
<1> QED BY <1>4

(***************************************************************************)
(* The policy builder page.  A field starts within its parameter, and two      *)
(* parameters do not overlap, so no two fields have one offset: that holds     *)
(* even where fixed-size arrays make the offsets wrong.                      *)
(***************************************************************************)
LEMMA OffsetSteps ==
    ASSUME NEW params \in Seq(Param)
    PROVE  /\ \A n \in 0 .. Len(params) : OffsetOf(params, n) \in Nat
           /\ \A n \in 1 .. Len(params) :
                 OffsetOf(params, n) = OffsetOf(params, n - 1) + HeadSize[params[n]]
<1> DEFINE size == Len(params)
           sizes == [j \in DOMAIN params |-> HeadSize[params[j]]]
<1>1. /\ size \in Nat /\ DOMAIN params = 1 .. size
      /\ \A j \in 1 .. size : params[j] \in Param
  OBVIOUS
<1>2. /\ sizes \in Seq(Nat) /\ Len(sizes) = size
      /\ \A j \in 1 .. size : sizes[j] = HeadSize[params[j]]
  <2> HIDE DEF size
  <2>1. sizes = [j \in 1 .. size |-> HeadSize[params[j]]]
        /\ \A j \in 1 .. size : HeadSize[params[j]] \in Nat
    BY <1>1, HeadSizeFacts
  <2> HIDE DEF sizes
  <2> QED BY <1>1, <2>1
<1>3. \A n : OffsetOf(params, n) = Sums(sizes)[n]
  BY DEF OffsetOf
<1> HIDE DEF sizes
<1>4. /\ \A n \in 1 .. Len(sizes) : Sums(sizes)[n] = Sums(sizes)[n - 1] + sizes[n]
      /\ \A n \in 0 .. Len(sizes) : Sums(sizes)[n] \in Nat
  BY <1>2, SumsFacts
<1> QED BY <1>2, <1>3, <1>4

LEMMA OffsetsGrow ==
    ASSUME NEW params \in Seq(Param), NEW i \in 0 .. Len(params), NEW j \in i .. Len(params)
    PROVE  OffsetOf(params, i) <= OffsetOf(params, j)
<1> DEFINE size == Len(params)
           T == {d \in 0 .. size - i : OffsetOf(params, i) <= OffsetOf(params, i + d)}
<1>1. size \in Nat /\ i \in Nat /\ i <= size /\ j \in Nat /\ i <= j /\ j <= size
  OBVIOUS
<1>2. /\ \A n \in 0 .. size : OffsetOf(params, n) \in Nat
      /\ \A n \in 1 .. size :
            OffsetOf(params, n) = OffsetOf(params, n - 1) + HeadSize[params[n]]
  BY OffsetSteps
<1>3. \A n \in 1 .. size : HeadSize[params[n]] \in Nat
  <2>1. \A n \in 1 .. size : params[n] \in Param
    OBVIOUS
  <2> QED BY <2>1, HeadSizeFacts
<1> HIDE DEF size
<1>4. 0 \in T
  <2>1. i + 0 = i /\ i \in 0 .. size /\ 0 \in 0 .. size - i
    BY <1>1
  <2>2. OffsetOf(params, i) <= OffsetOf(params, i)
    BY <1>2, <2>1
  <2> QED BY <2>1, <2>2
<1>5. ASSUME NEW d \in 0 .. (size - i) - 1, d \in T PROVE d + 1 \in T
  <2>1. /\ d + 1 \in 0 .. size - i /\ i + (d + 1) \in 1 .. size
        /\ (i + (d + 1)) - 1 = i + d /\ i + d \in 0 .. size /\ i \in 0 .. size
        /\ i + (d + 1) \in 0 .. size
    BY <1>1
  <2>2. OffsetOf(params, i) <= OffsetOf(params, i + d)
    BY <1>5
  <2> DEFINE low == OffsetOf(params, i)
             mid == OffsetOf(params, i + d)
             step == HeadSize[params[i + (d + 1)]]
  <2>3. OffsetOf(params, i + (d + 1)) = mid + step
    BY <1>2, <2>1
  <2>4. low \in Nat /\ mid \in Nat /\ step \in Nat /\ low <= mid
    BY <1>2, <1>3, <2>1, <2>2
  <2>5. low <= mid + step
    <3> HIDE DEF low, mid, step
    <3> QED BY <2>4
  <2> QED BY <2>1, <2>3, <2>5
<1>6. 0 .. size - i \subseteq T
  <2> HIDE DEF T
  <2>1. size - i \in Nat
    BY <1>1
  <2> QED BY <1>4, <1>5, <2>1, UpToByStep
<1>7. j - i \in 0 .. size - i /\ i + (j - i) = j
  BY <1>1
<1> QED BY <1>6, <1>7

\* What starts within a parameter starts before the next one.
LEMMA ParametersApart ==
    ASSUME NEW params \in Seq(Param), NEW i \in 1 .. Len(params), NEW j \in 1 .. Len(params),
           NEW o \in Nat,
           OffsetOf(params, i - 1) <= o, o < OffsetOf(params, i),
           OffsetOf(params, j - 1) <= o, o < OffsetOf(params, j)
    PROVE  i = j
<1> DEFINE size == Len(params)
<1>1. size \in Nat /\ \A n \in 0 .. size : OffsetOf(params, n) \in Nat
  <2>1. size \in Nat
    OBVIOUS
  <2> QED BY <2>1, OffsetSteps
<1>2. ASSUME NEW m \in 1 .. size, NEW n \in 1 .. size, m < n,
             o < OffsetOf(params, m), OffsetOf(params, n - 1) <= o
      PROVE  FALSE
  <2>1. m \in 0 .. size /\ n - 1 \in m .. size /\ n - 1 \in 0 .. size
    <3> HIDE DEF size
    <3> QED BY <1>1, <1>2
  <2>2. OffsetOf(params, m) <= OffsetOf(params, n - 1)
    BY <2>1, OffsetsGrow
  <2>3. OffsetOf(params, m) \in Nat /\ OffsetOf(params, n - 1) \in Nat
    BY <1>1, <2>1
  <2> DEFINE a == OffsetOf(params, m)
             b == OffsetOf(params, n - 1)
  <2> HIDE DEF a, b
  <2>4. a \in Nat /\ b \in Nat /\ a <= b /\ o < a /\ b <= o
    BY <1>2, <2>2, <2>3 DEF a, b
  <2> QED BY <2>4
<1>3. ~(i < j) /\ ~(j < i)
  BY <1>2
<1>4. i \in Nat /\ j \in Nat
  BY <1>1
<1> QED BY <1>3, <1>4

\* Where a field of the page lies: in the parameter of its first name, and
\* where it has a second, with that field of the parameter.
LEMMA FieldPlace ==
    ASSUME NEW params \in Seq(Param), NEW path \in Seq(STRING), Len(path) \in {1, 2},
           ResolveOffset(params, path) # Unresolved
    PROVE  \E i \in 1 .. Len(params) :
              LET offset == ResolveOffset(params, path)
                  fields == params[i].components
              IN  /\ params[i].name = path[1] /\ fields \in Seq(Param)
                  /\ OffsetOf(params, i - 1) <= offset /\ offset < OffsetOf(params, i)
                  /\ (Len(path) = 1) <=> (params[i].type # "tuple")
                  /\ Len(path) = 2 => \E k \in 1 .. Len(fields) :
                        /\ fields[k].name = path[2]
                        /\ OffsetOf(fields, k - 1) \in Nat
                        /\ OffsetOf(fields, k) = OffsetOf(fields, k - 1) + 1
                        /\ offset = OffsetOf(params, i - 1) + OffsetOf(fields, k - 1)
<1> DEFINE place == PlaceOf(params, path)
           size == Len(path)
           found(n) == Find(place[n - 1].params, path[n])
           param(n) == place[n - 1].params[found(n)]
           Goes(n) == path[n] \in Names(place[n - 1].params) /\ MayConstrain(param(n), n = size)
<1>0. size \in 1 .. 2 /\ size \in Nat /\ ResolveOffset(params, path) \in Nat
      /\ ResolveOffset(params, path) = place[size].offset
  BY ResolvedIsNat DEF ResolveOffset
<1>1. place[0] = [params |-> params, offset |-> 0]
  BY PlaceFacts
<1> HIDE DEF place, size
<1>2. ASSUME NEW n \in 1 .. size, place[n] # Nowhere PROVE Goes(n)
  BY <1>0, <1>2, PlaceFacts, Zenon DEF place, size
<1>3. ASSUME NEW n \in 1 .. size, Goes(n)
      PROVE  /\ place[n - 1].params \in Seq(Param) /\ place[n - 1].offset \in Nat
             /\ found(n) \in 1 .. Len(place[n - 1].params)
             /\ param(n) \in Param /\ param(n).name = path[n]
             /\ (param(n).type = "tuple") # (n = size)
             /\ place[n].params = param(n).components
             /\ place[n].offset = place[n - 1].offset + OffsetOf(place[n - 1].params, found(n) - 1)
             /\ OffsetOf(place[n - 1].params, found(n) - 1) \in Nat
             /\ place[n - 1] # Nowhere
  <2>1. n \in 1 .. Len(path)
    BY DEF size
  <2>2. /\ path[n] \in Names(PlaceOf(params, path)[n - 1].params)
        /\ MayConstrain(PlaceOf(params, path)[n - 1].params[
               Find(PlaceOf(params, path)[n - 1].params, path[n])], n = Len(path))
    BY <1>3 DEF place, size
  <2>3. path[n] \in Names(place[n - 1].params)
    BY <1>3
  <2>4. place[n - 1] # Nowhere
    BY <2>3 DEF Nowhere, Names
  <2> HIDE DEF Goes
  <2> QED BY <1>0, <2>1, <2>2, <2>4, StepFacts DEF place, size
<1>4. Goes(size)
  <2>1. place[size] # Nowhere
    BY <1>0 DEF Nowhere, ResolveOffset, Unresolved
  <2>2. size \in 1 .. size
    BY <1>0
  <2> QED BY <1>2, <2>1, <2>2
<1>5. Goes(1)
  <2>1. CASE size = 1
    BY <1>4, <2>1
  <2>2. CASE size = 2
    <3>1. 2 \in 1 .. size /\ 1 \in 1 .. size /\ 2 - 1 = 1
      BY <2>2
    <3>2. place[1] # Nowhere
      <4>1. Goes(2)
        BY <1>4, <2>2
      <4> HIDE DEF Goes
      <4> QED BY <1>3, <3>1, <4>1
    <3> QED BY <1>2, <3>1, <3>2
  <2> QED BY <1>0, <2>1, <2>2
<1> DEFINE i == found(1)
           p == params[i]
           low == OffsetOf(params, i - 1)
<1>6. /\ i \in 1 .. Len(params) /\ p \in Param /\ p.name = path[1]
      /\ (p.type = "tuple") # (1 = size)
      /\ place[1].params = p.components
      /\ place[1].offset = low /\ low \in Nat
  <2>1. 1 \in 1 .. size /\ 1 - 1 = 0
    BY <1>0
  <2>2. place[0].params = params /\ place[0].offset = 0
    BY <1>1
  <2>3. /\ place[0].params \in Seq(Param)
        /\ found(1) \in 1 .. Len(place[0].params)
        /\ param(1) \in Param /\ param(1).name = path[1]
        /\ (param(1).type = "tuple") # (1 = size)
        /\ place[1].params = param(1).components
        /\ place[1].offset = place[0].offset + OffsetOf(place[0].params, found(1) - 1)
        /\ OffsetOf(place[0].params, found(1) - 1) \in Nat
    <3> HIDE DEF Goes, found, param
    <3> QED BY <1>3, <1>5, <2>1
  <2>4. param(1) = p
    BY <2>1, <2>2
  <2> HIDE DEF param, found
  <2> QED BY <2>2, <2>3, <2>4
<1>7. OffsetOf(params, i) = low + HeadSize[p] /\ HeadSize[p] \in Nat
  BY <1>6, OffsetSteps, HeadSizeFacts
<1>8. p.components \in Seq(Param)
  BY <1>6, ParamFacts
<1> HIDE DEF Goes
<1>9. CASE size = 1
  <2>1. HeadSize[p] = 1
    BY <1>6, <1>9, HeadSizeDef
  <2>2. ResolveOffset(params, path) = low
    BY <1>0, <1>6, <1>9
  <2> DEFINE high == OffsetOf(params, i)
             o == ResolveOffset(params, path)
  <2>3. low <= o /\ o < high
    <3>1. low \in Nat /\ high = low + 1 /\ o = low
      BY <1>6, <1>7, <2>1, <2>2
    <3> HIDE DEF low, high, o
    <3> QED BY <3>1
  <2>4. Len(path) = 1 /\ p.type # "tuple"
    BY <1>6, <1>9 DEF size
  <2> HIDE DEF i
  <2> QED BY <1>6, <1>8, <2>3, <2>4
<1>10. CASE size = 2
  <2> DEFINE fields == p.components
             k == found(2)
             q == fields[k]
             deep == OffsetOf(fields, k - 1)
  <2>1. /\ k \in 1 .. Len(fields) /\ q \in Param /\ q.name = path[2] /\ q.type # "tuple"
        /\ place[2].offset = low + deep /\ deep \in Nat
    <3>1. 2 \in 1 .. size /\ 2 - 1 = 1 /\ Goes(2)
      BY <1>4, <1>10
    <3>2. /\ found(2) \in 1 .. Len(place[1].params)
          /\ param(2) \in Param /\ param(2).name = path[2]
          /\ (param(2).type = "tuple") # (2 = size)
          /\ place[2].offset = place[1].offset + OffsetOf(place[1].params, found(2) - 1)
          /\ OffsetOf(place[1].params, found(2) - 1) \in Nat
      <4> HIDE DEF found, param
      <4> QED BY <1>3, <3>1
    <3>3. param(2) = q
      BY <1>6, <3>1
    <3> HIDE DEF param, found, p, low
    <3> QED BY <1>6, <1>10, <3>2, <3>3
  <2>2. HeadSize[q] = 1
    BY <2>1, HeadSizeDef
  <2>3. OffsetOf(fields, k) = deep + 1
    BY <1>8, <2>1, <2>2, OffsetSteps
  <2>4. HeadSize[p] = OffsetOf(fields, Len(fields))
    <3>1. p.type = "tuple"
      BY <1>6, <1>10
    <3>2. ~IsDynamicType(p)
      <4>1. MayConstrain(param(1), 1 = size)
        BY <1>5 DEF Goes
      <4>2. param(1) = p
        <5>1. 1 - 1 = 0 /\ place[0].params = params
          BY <1>1
        <5> QED BY <5>1
      <4> QED BY <4>1, <4>2 DEF MayConstrain
    <3> HIDE DEF p
    <3> QED BY <1>6, <3>1, <3>2, HeadSizeDef DEF OffsetOf
  <2> DEFINE end == OffsetOf(fields, k)
             all == OffsetOf(fields, Len(fields))
             high == OffsetOf(params, i)
             o == ResolveOffset(params, path)
  <2>5. end <= all /\ all \in Nat
    <3>1. Len(fields) \in Nat
      BY <1>8
    <3>2. k \in 0 .. Len(fields) /\ Len(fields) \in k .. Len(fields) /\ Len(fields) \in 0 .. Len(fields)
      BY <2>1, <3>1
    <3> HIDE DEF p, k
    <3> QED BY <1>8, <3>2, OffsetsGrow, OffsetSteps
  <2>6. low <= o /\ o < high
    <3>1. /\ low \in Nat /\ deep \in Nat /\ all \in Nat /\ end = deep + 1 /\ end <= all
          /\ high = low + all /\ o = low + deep
      BY <1>0, <1>6, <1>7, <1>10, <2>1, <2>3, <2>4, <2>5
    <3> HIDE DEF low, deep, end, all, high, o
    <3> QED BY <3>1
  <2>7. Len(path) = 2 /\ p.type = "tuple" /\ o = low + deep
    BY <1>0, <1>6, <1>10, <2>1 DEF size
  <2>8. /\ k \in 1 .. Len(fields) /\ fields[k].name = path[2] /\ deep \in Nat
        /\ OffsetOf(fields, k) = OffsetOf(fields, k - 1) + 1
        /\ o = OffsetOf(params, i - 1) + OffsetOf(fields, k - 1)
    BY <2>1, <2>3, <2>7
  <2> HIDE DEF i, k
  <2> QED BY <1>6, <1>8, <2>6, <2>7, <2>8
<1> QED BY <1>0, <1>9, <1>10

LEMMA SameSequence ==
    ASSUME NEW S, NEW s \in Seq(S), NEW t \in Seq(S), Len(s) = Len(t),
           \A n \in 1 .. Len(s) : s[n] = t[n]
    PROVE  s = t
OBVIOUS

\* No two fields have one offset.
LEMMA FieldsApart ==
    ASSUME NEW params \in Seq(Param),
           NEW path \in Seq(STRING), Len(path) \in {1, 2},
           NEW other \in Seq(STRING), Len(other) \in {1, 2},
           ResolveOffset(params, path) # Unresolved,
           ResolveOffset(params, path) = ResolveOffset(params, other)
    PROVE  path = other
<1> DEFINE o == ResolveOffset(params, path)
           In(p, i, x) == /\ params[i].name = p[1] /\ params[i].components \in Seq(Param)
                          /\ OffsetOf(params, i - 1) <= x /\ x < OffsetOf(params, i)
                          /\ (Len(p) = 1) <=> (params[i].type # "tuple")
           At(p, i, k, x) == /\ params[i].components[k].name = p[2]
                             /\ OffsetOf(params[i].components, k - 1) \in Nat
                             /\ OffsetOf(params[i].components, k) =
                                   OffsetOf(params[i].components, k - 1) + 1
                             /\ x = OffsetOf(params, i - 1) + OffsetOf(params[i].components, k - 1)
           Fields2(i) == 1 .. Len(params[i].components)
           Lies(p, x) == \E i \in 1 .. Len(params) :
                            In(p, i, x) /\ (Len(p) = 2 => \E k \in Fields2(i) : At(p, i, k, x))
<1>1. Lies(path, o)
  BY FieldPlace, Zenon
<1>2. Lies(other, o)
  <2>1. ResolveOffset(params, other) # Unresolved
    OBVIOUS
  <2>2. Lies(other, ResolveOffset(params, other))
    BY <2>1, FieldPlace, Zenon
  <2> HIDE DEF Lies
  <2> QED BY <2>2
<1>3. o \in Nat
  BY ResolvedIsNat
<1> HIDE DEF o
<1>4. PICK i \in 1 .. Len(params) :
          In(path, i, o) /\ (Len(path) = 2 => \E k \in Fields2(i) : At(path, i, k, o))
  BY <1>1
<1>5. PICK j \in 1 .. Len(params) :
          In(other, j, o) /\ (Len(other) = 2 => \E k \in Fields2(j) : At(other, j, k, o))
  BY <1>2
<1>6. i = j
  <2>1. /\ OffsetOf(params, i - 1) <= o /\ o < OffsetOf(params, i)
        /\ OffsetOf(params, j - 1) <= o /\ o < OffsetOf(params, j)
    BY <1>4, <1>5
  <2> HIDE DEF In, At
  <2> QED BY <1>3, <2>1, ParametersApart
<1>7. path[1] = other[1] /\ Len(path) = Len(other)
  BY <1>4, <1>5, <1>6
<1>8. CASE Len(path) = 1
  <2>1. \A n \in 1 .. Len(path) : path[n] = other[n]
    BY <1>7, <1>8
  <2> QED BY <1>7, <2>1, SameSequence
<1>9. CASE Len(path) = 2
  <2> DEFINE fields == params[i].components
             low == OffsetOf(params, i - 1)
  <2>1. PICK k \in Fields2(i) : At(path, i, k, o)
    BY <1>4, <1>9
  <2>2. PICK m \in Fields2(i) : At(other, i, m, o)
    BY <1>5, <1>6, <1>7, <1>9
  <2>3. fields \in Seq(Param) /\ k \in 1 .. Len(fields) /\ m \in 1 .. Len(fields)
    BY <1>4
  <2>4. low \in Nat
    <3>1. Len(params) \in Nat
      OBVIOUS
    <3>2. i - 1 \in 0 .. Len(params)
      BY <3>1
    <3> HIDE DEF In, At
    <3> QED BY <3>2, OffsetSteps
  <2> DEFINE a == OffsetOf(fields, k - 1)
             b == OffsetOf(fields, m - 1)
             c == OffsetOf(fields, k)
             d == OffsetOf(fields, m)
  <2>5. /\ a \in Nat /\ b \in Nat /\ c = a + 1 /\ d = b + 1
        /\ o = low + a /\ o = low + b
    BY <2>1, <2>2
  <2> HIDE DEF In, At, Fields2
  <2>6. a = b /\ a <= a /\ a < c /\ b <= a /\ a < d
    <3> HIDE DEF low, a, b, c, d
    <3> QED BY <2>4, <2>5
  <2>7. k = m
    <3> HIDE DEF fields, low
    <3> QED BY <2>3, <2>5, <2>6, ParametersApart
  <2>8. path[2] = other[2]
    BY <2>1, <2>2, <2>7 DEF At
  <2>9. \A n \in 1 .. Len(path) : path[n] = other[n]
    BY <1>7, <1>9, <2>8
  <2> QED BY <1>7, <2>9, SameSequence
<1> QED BY <1>8, <1>9

LEMMA SinglesJoin ==
    ASSUME NEW S, NEW s \in Seq(S)
    PROVE  FlattenSeq([i \in DOMAIN s |-> <<s[i]>>]) = s
<1> DEFINE size == Len(s)
           seqs == [i \in DOMAIN s |-> <<s[i]>>]
           ones == [i \in DOMAIN s |-> 1]
           all == FlattenSeq(seqs)
<1>1. /\ size \in Nat /\ DOMAIN s = 1 .. size
      /\ \A i \in 1 .. size : s[i] \in S
  OBVIOUS
<1>2. /\ seqs \in Seq(Seq(S)) /\ Len(seqs) = size
      /\ \A i \in 1 .. size : seqs[i] = <<s[i]>> /\ Len(seqs[i]) = 1 /\ seqs[i][1] = s[i]
  <2> HIDE DEF size
  <2>1. \A i \in 1 .. size : <<s[i]>> \in Seq(S)
    BY <1>1
  <2>2. seqs = [i \in 1 .. size |-> <<s[i]>>]
    BY <1>1
  <2> QED BY <1>1, <2>1, <2>2
<1>3. ones \in Seq(Nat) /\ Len(ones) = size /\ \A i \in 1 .. size : ones[i] = 1
  <2> HIDE DEF size
  <2>1. ones = [i \in 1 .. size |-> 1]
    BY <1>1
  <2> QED BY <1>1, <2>1
<1> HIDE DEF seqs, ones, size
<1>4. /\ all \in Seq(S) /\ Len(all) = Sums(ones)[size]
      /\ \A i \in 1 .. size : \A k \in 1 .. ones[i] : all[Sums(ones)[i - 1] + k] = seqs[i][k]
  <2>1. Len(ones) = Len(seqs) /\ \A i \in 1 .. Len(seqs) : ones[i] = Len(seqs[i])
    BY <1>2, <1>3
  <2>2. /\ FlattenSeq(seqs) \in Seq(S) /\ Len(FlattenSeq(seqs)) = Sums(ones)[Len(seqs)]
        /\ \A i \in 1 .. Len(seqs) : \A k \in 1 .. ones[i] :
              FlattenSeq(seqs)[Sums(ones)[i - 1] + k] = seqs[i][k]
    <3>1. seqs \in Seq(Seq(S)) /\ ones \in Seq(Nat)
      BY <1>2, <1>3
    <3> QED BY <2>1, <3>1, FlattenPositions, Zenon
  <2> QED BY <1>2, <2>2
<1>5. \A n \in 0 .. size : Sums(ones)[n] = n
  BY <1>3, OnesFacts
<1>6. Len(all) = size
  BY <1>1, <1>4, <1>5
<1>7. ASSUME NEW i \in 1 .. size PROVE all[i] = s[i]
  <2>1. 1 \in 1 .. ones[i] /\ i - 1 \in 0 .. size /\ (i - 1) + 1 = i
    BY <1>1, <1>3
  <2>2. all[Sums(ones)[i - 1] + 1] = seqs[i][1]
    BY <1>4, <2>1
  <2> QED BY <1>2, <1>5, <2>1, <2>2
<1> HIDE DEF all
<1>8. Len(all) = Len(s) /\ \A i \in 1 .. Len(all) : all[i] = s[i]
  BY <1>6, <1>7 DEF size
<1>9. all = s
  BY <1>4, <1>8, SameSequence
<1> QED BY <1>9 DEF all, seqs

\* One name, or two.
FieldName == {path \in Seq(STRING) : Len(path) \in {1, 2}}

LEMMA FieldPathsFacts ==
    ASSUME NEW inputs \in Seq(Param)
    PROVE  FieldPaths(inputs) \in Seq(FieldName)
<1> DEFINE size == Len(inputs)
           fields(i) == inputs[i].components
           parts == [i \in DOMAIN inputs |->
                        IF inputs[i].type = "tuple"
                        THEN [n \in DOMAIN fields(i) |-> <<inputs[i].name, fields(i)[n].name>>]
                        ELSE <<<<inputs[i].name>>>>]
<1>1. /\ size \in Nat /\ DOMAIN inputs = 1 .. size
      /\ \A i \in 1 .. size : inputs[i] \in Param
  OBVIOUS
<1>2. ASSUME NEW i \in 1 .. size PROVE parts[i] \in Seq(FieldName)
  <2>1. inputs[i] \in Param /\ i \in DOMAIN inputs
    BY <1>1
  <2>2. /\ inputs[i].name \in STRING /\ fields(i) \in Seq(Param)
        /\ \A n \in DOMAIN fields(i) : fields(i)[n] \in Param
    BY <2>1, ParamFacts
  <2>3. CASE inputs[i].type = "tuple"
    <3> DEFINE len == Len(fields(i))
    <3>1. len \in Nat /\ DOMAIN fields(i) = 1 .. len
      BY <2>2
    <3>2. ASSUME NEW n \in 1 .. len PROVE <<inputs[i].name, fields(i)[n].name>> \in FieldName
      <4>1. fields(i)[n].name \in STRING
        BY <2>2, <3>1, ParamFacts
      <4> QED BY <2>2, <4>1 DEF FieldName
    <3>3. parts[i] = [n \in 1 .. len |-> <<inputs[i].name, fields(i)[n].name>>]
      BY <2>1, <2>3, <3>1
    <3> HIDE DEF len, fields, parts
    <3> QED BY <3>1, <3>2, <3>3
  <2>4. CASE inputs[i].type # "tuple"
    <3>1. parts[i] = <<<<inputs[i].name>>>>
      BY <2>1, <2>4
    <3>2. <<inputs[i].name>> \in FieldName
      BY <2>2 DEF FieldName
    <3> HIDE DEF parts
    <3> QED BY <3>1, <3>2
  <2> QED BY <2>3, <2>4
<1>3. parts \in Seq(Seq(FieldName))
  <2>1. DOMAIN parts = 1 .. size
    BY <1>1
  <2>2. parts \in [1 .. size -> Seq(FieldName)]
    <3>1. parts = [i \in 1 .. size |-> parts[i]]
      BY <2>1
    <3> HIDE DEF parts, size
    <3> QED BY <1>2, <3>1
  <2> HIDE DEF parts
  <2> QED BY <1>1, <2>2
<1> HIDE DEF parts
<1>4. Len(parts) \in Nat /\ Len(parts) \in 0 .. Len(parts)
  BY <1>3
<1>5. FlattenSeq(parts) \in Seq(FieldName)
  BY <1>3, <1>4, FlattenIsJoins, JoinsFacts
<1> QED BY <1>5 DEF parts, FieldPaths

---------------------------------------------------------------------------
(* The page's policy. *)

Shown(name) == GetFunctionEntry(name).inputs

RuleOn(name) ==
    {rule \in [fieldName : Seq(STRING), op : Op, rawValue : RawValue] :
        rule.fieldName \in ToSet(FieldPaths(Shown(name)))}

LEMMA PolicyFacts ==
    ASSUME NEW policy \in PolicyConfig
    PROVE  /\ policy.functionName \in STRING /\ policy.target \in STRING
           /\ policy.rules \in Seq(RuleOn(policy.functionName))
           /\ Cardinality(Matching(Abi, policy.functionName)) = 1
           /\ FieldPaths(Shown(policy.functionName)) # <<>>
<1>1. /\ policy.functionName \in STRING /\ policy.target \in STRING
      /\ policy.rules \in Seq([fieldName : Seq(STRING), op : Op, rawValue : RawValue])
      /\ Cardinality(Matching(Abi, policy.functionName)) = 1
      /\ FieldPaths(Shown(policy.functionName)) # <<>>
      /\ \A i \in DOMAIN policy.rules :
            policy.rules[i].fieldName \in ToSet(FieldPaths(Shown(policy.functionName)))
  BY DEF PolicyConfig, Shown
<1> DEFINE rs == policy.rules
           Rule == [fieldName : Seq(STRING), op : Op, rawValue : RawValue]
<1>2. \A i \in 1 .. Len(rs) : rs[i] \in RuleOn(policy.functionName)
  <2>1. DOMAIN rs = 1 .. Len(rs) /\ \A i \in 1 .. Len(rs) : rs[i] \in Rule
    <3>1. rs \in Seq(Rule)
      BY <1>1
    <3> HIDE DEF rs, Rule
    <3> QED BY <3>1
  <2> QED BY <1>1, <2>1 DEF RuleOn
<1>3. rs \in Seq(RuleOn(policy.functionName))
  <2>1. rs \in Seq(Rule)
    BY <1>1
  <2>2. Len(rs) \in Nat /\ rs = [i \in 1 .. Len(rs) |-> rs[i]]
    <3> HIDE DEF rs, Rule
    <3> QED BY <2>1
  <2> HIDE DEF rs
  <2> QED BY <1>2, <2>2
<1> QED BY <1>1, <1>3

LEMMA RulesReplaced ==
    ASSUME NEW policy \in PolicyConfig, NEW new \in Seq(RuleOn(policy.functionName))
    PROVE  [policy EXCEPT !.rules = new] \in PolicyConfig
<1> DEFINE Rule == [fieldName : Seq(STRING), op : Op, rawValue : RawValue]
           changed == [policy EXCEPT !.rules = new]
<1>1. policy \in [target : STRING, functionName : STRING, rules : Seq(Rule)]
  BY DEF PolicyConfig
<1>2. /\ new \in Seq(Rule)
      /\ \A i \in DOMAIN new : new[i].fieldName \in ToSet(FieldPaths(Shown(policy.functionName)))
  <2>1. RuleOn(policy.functionName) \subseteq Rule
    BY DEF RuleOn
  <2>2. \A i \in DOMAIN new : new[i] \in RuleOn(policy.functionName)
    OBVIOUS
  <2>3. new \in Seq(Rule)
    <3> HIDE DEF Rule
    <3> QED BY <2>1, <2>2
  <2> QED BY <2>2, <2>3 DEF RuleOn
<1>3. /\ changed \in [target : STRING, functionName : STRING, rules : Seq(Rule)]
      /\ changed.functionName = policy.functionName /\ changed.rules = new
  <2> HIDE DEF Rule
  <2> QED BY <1>1, <1>2
<1> HIDE DEF changed
<1> QED BY <1>2, <1>3, PolicyFacts DEF PolicyConfig, Shown

LEMMA ShownFacts ==
    ASSUME NEW policy \in PolicyConfig
    PROVE  LET name == policy.functionName
           IN  /\ Shown(name) \in Seq(Param)
               /\ FieldPaths(Shown(name)) \in Seq(FieldName)
               /\ Len(FieldPaths(Shown(name))) \in Nat \ {0}
<1> DEFINE name == policy.functionName
           found == Matching(Abi, name)
<1>1. found # {}
  <2> HIDE DEF found
  <2>1. Cardinality(found) = 1
    BY PolicyFacts DEF found
  <2>2. ASSUME found = {} PROVE FALSE
    <3>1. Cardinality(found) = 0
      BY <2>2, FS_EmptySet, Zenon
    <3> QED BY <2>1, <3>1
  <2> QED BY <2>2
<1>2. Shown(name) \in Seq(Param)
  <2> DEFINE at == CHOOSE i \in found : TRUE
  <2>1. at \in found
    <3> HIDE DEF found
    <3> QED BY <1>1
  <2>2. at \in DOMAIN Abi
    BY <2>1 DEF Matching, Functions
  <2> HIDE DEF at
  <2>3. Abi[at].inputs \in Seq(Param)
    BY <2>2, AppAssumption
  <2> QED BY <2>3 DEF at, Shown, GetFunctionEntry
<1> HIDE DEF name
<1>3. FieldPaths(Shown(name)) \in Seq(FieldName)
  BY <1>2, FieldPathsFacts
<1>4. FieldPaths(Shown(name)) # <<>>
  BY PolicyFacts DEF name
<1>5. Len(FieldPaths(Shown(name))) \in Nat \ {0}
  BY <1>3, <1>4
<1> QED BY <1>2, <1>3, <1>5 DEF name

\* A field of the map, which reads -1 where there is no offset.
LEMMA MapFacts ==
    ASSUME NEW policy \in PolicyConfig
    PROVE  LET name   == policy.functionName
               paths  == FieldPaths(Shown(name))
               fields == GetFieldsForFunction(name)
           IN  /\ DOMAIN fields = 1 .. Len(paths)
               /\ \A n \in 1 .. Len(paths) :
                     /\ fields[n].name = paths[n] /\ paths[n] \in FieldName
                     /\ fields[n].offset = ResolveOffset(Shown(name), paths[n])
<1> DEFINE name == policy.functionName
           inputs == Shown(name)
           paths == FieldPaths(inputs)
           fields == GetFieldsForFunction(name)
<1> HIDE DEF name
<1>1. paths \in Seq(FieldName)
  BY ShownFacts DEF name
<1>2. DOMAIN paths = 1 .. Len(paths) /\ \A n \in 1 .. Len(paths) : paths[n] \in FieldName
  <2> HIDE DEF paths
  <2> QED BY <1>1
<1>3. fields = [i \in DOMAIN paths |->
          [name |-> paths[i], offset |-> ResolveOffset(inputs, paths[i])]]
  BY DEF GetFieldsForFunction, Shown, NoOffset, Unresolved
<1> HIDE DEF fields, paths
<1> QED BY <1>2, <1>3 DEF name, inputs, paths, fields

\* The compiled rules are those of the list, each at the offset of its field.
LEMMA PageCompiles ==
    ASSUME TypeOKApp, Permission.compiled
    PROVE  LET name == activePolicy.functionName
               list == activePolicy.rules
           IN  /\ Len(Permission.rules) = Len(list) /\ DOMAIN Permission.rules = DOMAIN list
               /\ DOMAIN list = 1 .. Len(list)
               /\ \A i \in DOMAIN list :
                     /\ list[i] \in RuleOn(name)
                     /\ Permission.rules[i].offset = ResolveOffset(Shown(name), list[i].fieldName)
                     /\ Permission.rules[i].offset # Unresolved
                     /\ Permission.rules[i].op = list[i].op
<1> DEFINE name == activePolicy.functionName
           list == activePolicy.rules
           inputs == Shown(name)
           added == FlattenSeq([i \in DOMAIN list |-> IF AddsRule(list[i]) THEN <<list[i]>> ELSE <<>>])
           paths == [i \in DOMAIN added |-> added[i].fieldName]
           offsets == CompilePolicy(Abi, activePolicy.target, name, paths).offsets
           compiled == [i \in DOMAIN added |-> [offset |-> offsets[i], op |-> added[i].op]]
<1>1. activePolicy \in PolicyConfig
  BY DEF TypeOKApp
<1>2. list \in Seq(RuleOn(name))
  BY <1>1, PolicyFacts
<1>3. /\ Len(list) \in Nat /\ DOMAIN list = 1 .. Len(list)
      /\ \A i \in DOMAIN list : list[i] \in RuleOn(name)
  <2> HIDE DEF list, name
  <2> QED BY <1>2
<1>4. \A i \in DOMAIN list : AddsRule(list[i])
  <2>1. \A rule \in RuleOn(name) : rule.op \in Op
    BY DEF RuleOn
  <2> HIDE DEF list, name
  <2> QED BY <1>3, <2>1, AppAssumption DEF AddsRule
<1>5. added = list
  <2> DEFINE parts == [i \in DOMAIN list |-> IF AddsRule(list[i]) THEN <<list[i]>> ELSE <<>>]
  <2>1. parts = [i \in DOMAIN list |-> <<list[i]>>]
    <3> HIDE DEF list
    <3> QED BY <1>4
  <2>2. FlattenSeq([i \in DOMAIN list |-> <<list[i]>>]) = list
    <3> HIDE DEF list, name
    <3> QED BY <1>2, SinglesJoin
  <2> HIDE DEF parts, list
  <2>3. FlattenSeq(parts) = list
    BY <2>1, <2>2
  <2> QED BY <2>3 DEF parts
<1>6. Permission.compiled <=>
         ~ ((\E i \in DOMAIN list : list[i].rawValue = "garbage") \/ ~Compiles(Abi, name, paths))
  BY DEF Permission, TryBuildPermission
<1>7. Compiles(Abi, name, paths) /\ Permission.rules = compiled
  <2>1. ~((\E i \in DOMAIN list : list[i].rawValue = "garbage") \/ ~Compiles(Abi, name, paths))
    BY <1>6
  <2> QED BY <2>1 DEF Permission, TryBuildPermission
<1> DEFINE fieldsOf == [i \in DOMAIN list |-> list[i].fieldName]
           resolved == [i \in DOMAIN list |-> ResolveOffset(inputs, list[i].fieldName)]
<1>8. paths = fieldsOf /\ DOMAIN compiled = DOMAIN list
      /\ \A i \in DOMAIN list : compiled[i] = [offset |-> offsets[i], op |-> list[i].op]
  <2> HIDE DEF added, offsets, list
  <2> QED BY <1>5
<1>9. \A to : CompilePolicy(Abi, to, name, paths).offsets = resolved
  <2>1. \A to, ps : CompilePolicy(Abi, to, name, ps).offsets =
                       [i \in DOMAIN ps |-> ResolveOffset(inputs, ps[i])]
    BY DEF CompilePolicy, Shown, GetFunctionEntry
  <2>2. [i \in DOMAIN fieldsOf |-> ResolveOffset(inputs, fieldsOf[i])] = resolved
    <3> HIDE DEF list, inputs
    <3> QED OBVIOUS
  <2> HIDE DEF paths, fieldsOf, resolved, inputs, name
  <2> QED BY <1>8, <2>1, <2>2
<1>10. \A i \in DOMAIN list : resolved[i] # Unresolved
  <2>1. \A i \in DOMAIN paths : CompilePolicy(Abi, "", name, paths).offsets[i] # Unresolved
    BY <1>7 DEF Compiles
  <2>2. DOMAIN paths = DOMAIN list
    BY <1>8
  <2> HIDE DEF paths, list, name, resolved
  <2> QED BY <1>9, <2>1, <2>2
<1>11. offsets = resolved /\ \A i \in DOMAIN list : resolved[i] = ResolveOffset(inputs, list[i].fieldName)
  <2>1. offsets = resolved
    <3> HIDE DEF resolved, paths, name
    <3> QED BY <1>9
  <2> QED BY <2>1
<1>12. Len(Permission.rules) = Len(list)
  <2>1. DOMAIN Permission.rules = 1 .. Len(list)
    BY <1>3, <1>7, <1>8
  <2>2. Permission.rules = [i \in 1 .. Len(list) |-> Permission.rules[i]]
    <3>1. Permission.rules = [i \in DOMAIN list |-> compiled[i]]
      BY <1>5, <1>7
    <3> HIDE DEF compiled, list
    <3> QED BY <1>3, <3>1
  <2> HIDE DEF list
  <2> QED BY <1>3, <2>2
<1> HIDE DEF compiled, offsets, resolved, paths, added, fieldsOf, inputs
<1>13. ASSUME NEW i \in DOMAIN list
       PROVE  /\ list[i] \in RuleOn(name)
              /\ Permission.rules[i].offset = ResolveOffset(inputs, list[i].fieldName)
              /\ Permission.rules[i].offset # Unresolved
              /\ Permission.rules[i].op = list[i].op
  <2>1. Permission.rules[i] = [offset |-> offsets[i], op |-> list[i].op]
    BY <1>7, <1>8
  <2>2. offsets[i] = ResolveOffset(inputs, list[i].fieldName) /\ offsets[i] # Unresolved
    BY <1>10, <1>11
  <2> QED BY <1>3, <2>1, <2>2
<1>14. DOMAIN Permission.rules = DOMAIN list
  BY <1>7, <1>8
<1> QED BY <1>3, <1>12, <1>13, <1>14 DEF inputs

LEMMA RowFacts ==
    ASSUME NEW policy \in PolicyConfig, policy = activePolicy,
           NEW rule \in RuleOn(policy.functionName)
    PROVE  RowOffset(rule) = ResolveOffset(Shown(policy.functionName), rule.fieldName)
<1> DEFINE name == policy.functionName
           paths == FieldPaths(Shown(name))
           fields == GetFieldsForFunction(name)
           named == {n \in DOMAIN fields : fields[n].name = rule.fieldName}
           first == CHOOSE n \in named : \A m \in named : n <= m
<1> HIDE DEF name
<1>1. /\ DOMAIN fields = 1 .. Len(paths)
      /\ \A n \in 1 .. Len(paths) :
            /\ fields[n].name = paths[n]
            /\ fields[n].offset = ResolveOffset(Shown(name), paths[n])
  BY MapFacts DEF name
<1>2. rule.fieldName \in ToSet(paths)
  BY DEF RuleOn, name
<1>3. paths \in Seq(FieldName) /\ DOMAIN paths = 1 .. Len(paths)
  <2>1. paths \in Seq(FieldName)
    BY ShownFacts DEF name
  <2> HIDE DEF paths
  <2> QED BY <2>1
<1> HIDE DEF paths, fields
<1>4. named # {} /\ named \in SUBSET Nat
  <2>1. PICK n \in 1 .. Len(paths) : paths[n] = rule.fieldName
    BY <1>2, <1>3 DEF ToSet
  <2> QED BY <1>1, <1>3, <2>1
<1>5. first \in named
  <2> HIDE DEF named
  <2> QED BY <1>4, LeastFacts
<1>6. RowOffset(rule) = fields[first].offset
  BY <1>4 DEF RowOffset, fields, name
<1> HIDE DEF first
<1>7. first \in 1 .. Len(paths) /\ fields[first].name = rule.fieldName
  BY <1>1, <1>5
<1> QED BY <1>1, <1>6, <1>7 DEF name

LEMMA PageRows ==
    ASSUME TypeOKApp
    PROVE  RowsShowTheCompiledRules
<1>1. SUFFICES ASSUME Permission.compiled
      PROVE  /\ Len(Permission.rules) = Len(activePolicy.rules)
             /\ \A i \in DOMAIN activePolicy.rules :
                   /\ RowOffset(activePolicy.rules[i]) = Permission.rules[i].offset
                   /\ activePolicy.rules[i].op = Permission.rules[i].op
  BY DEF RowsShowTheCompiledRules
<1> DEFINE name == activePolicy.functionName
           list == activePolicy.rules
<1>2. /\ Len(Permission.rules) = Len(list)
      /\ \A i \in DOMAIN list :
            /\ list[i] \in RuleOn(name)
            /\ Permission.rules[i].offset = ResolveOffset(Shown(name), list[i].fieldName)
            /\ Permission.rules[i].op = list[i].op
  BY <1>1, PageCompiles
<1>3. activePolicy \in PolicyConfig
  BY DEF TypeOKApp
<1>4. \A i \in DOMAIN list : RowOffset(list[i]) = ResolveOffset(Shown(name), list[i].fieldName)
  BY <1>2, <1>3, RowFacts
<1> QED BY <1>2, <1>4

LEMMA PageMap ==
    ASSUME TypeOKApp
    PROVE  MapShowsTheConstrainedFields
<1> DEFINE name == activePolicy.functionName
           list == activePolicy.rules
           inputs == Shown(name)
           paths == FieldPaths(inputs)
           fields == GetFieldsForFunction(name)
<1>1. SUFFICES ASSUME Permission.compiled, NEW field \in ToSet(fields)
      PROVE  /\ IsHighlighted(field) <=> \E i \in DOMAIN list : list[i].fieldName = field.name
             /\ IsHighlighted(field) =>
                   list[GetRuleForOffset(field.offset)].fieldName = field.name
  BY DEF MapShowsTheConstrainedFields
<1>2. activePolicy \in PolicyConfig
  BY DEF TypeOKApp
<1>3. /\ inputs \in Seq(Param)
      /\ DOMAIN fields = 1 .. Len(paths)
      /\ \A n \in 1 .. Len(paths) :
            /\ fields[n].name = paths[n] /\ paths[n] \in FieldName
            /\ fields[n].offset = ResolveOffset(inputs, paths[n])
  BY <1>2, ShownFacts, MapFacts
<1>4. /\ DOMAIN Permission.rules = DOMAIN list /\ DOMAIN list = 1 .. Len(list)
      /\ \A i \in DOMAIN list :
            /\ list[i] \in RuleOn(name)
            /\ Permission.rules[i].offset = ResolveOffset(inputs, list[i].fieldName)
            /\ Permission.rules[i].offset # Unresolved
  BY <1>1, PageCompiles
<1>5. paths \in Seq(FieldName)
  BY <1>2, ShownFacts
<1>6. \A i \in DOMAIN list : list[i].fieldName \in FieldName
  <2>1. ASSUME NEW rule \in RuleOn(name) PROVE rule.fieldName \in FieldName
    <3>1. rule.fieldName \in ToSet(paths)
      BY DEF RuleOn
    <3> HIDE DEF paths
    <3> QED BY <1>5, <3>1 DEF ToSet
  <2> QED BY <1>4, <2>1
<1> HIDE DEF name, list, paths, fields, inputs
<1>7. field.name \in FieldName /\ field.offset = ResolveOffset(inputs, field.name)
  <2>1. PICK n \in 1 .. Len(paths) : field = fields[n]
    BY <1>1, <1>3 DEF ToSet
  <2> QED BY <1>3, <2>1
\* A rule has the offset of a field only if it names it.
<1>8. ASSUME NEW i \in DOMAIN list, Permission.rules[i].offset = field.offset
      PROVE  list[i].fieldName = field.name
  <2> DEFINE mine == list[i].fieldName
             other == field.name
  <2>1. /\ mine \in Seq(STRING) /\ Len(mine) \in {1, 2}
        /\ other \in Seq(STRING) /\ Len(other) \in {1, 2}
    BY <1>6, <1>7 DEF FieldName
  <2>2. /\ ResolveOffset(inputs, mine) # Unresolved
        /\ ResolveOffset(inputs, mine) = ResolveOffset(inputs, other)
    BY <1>4, <1>7, <1>8
  <2> HIDE DEF mine, other
  <2>3. mine = other
    BY <1>3, <2>1, <2>2, FieldsApart
  <2> QED BY <2>3 DEF mine, other
<1>9. \A i \in DOMAIN list : list[i].fieldName = field.name => Permission.rules[i].offset = field.offset
  BY <1>4, <1>7
<1>10. IsHighlighted(field) <=> \E i \in DOMAIN list : Permission.rules[i].offset = field.offset
  BY <1>4 DEF IsHighlighted
<1>11. ASSUME IsHighlighted(field) PROVE list[GetRuleForOffset(field.offset)].fieldName = field.name
  <2> DEFINE found == {i \in DOMAIN list : Permission.rules[i].offset = field.offset}
             First(i) == /\ Permission.rules[i].offset = field.offset
                         /\ \A j \in 1 .. i - 1 : Permission.rules[j].offset # field.offset
             least == CHOOSE n \in found : \A m \in found : n <= m
  <2>1. found # {} /\ found \in SUBSET Nat
    BY <1>4, <1>10, <1>11
  <2>2. least \in found /\ \A m \in found : least <= m
    <3> HIDE DEF found
    <3> QED BY <2>1, LeastFacts
  <2>3. \E i \in DOMAIN list : First(i)
    <3> HIDE DEF least
    <3>1. least \in 1 .. Len(list) /\ Permission.rules[least].offset = field.offset
      BY <1>4, <2>2
    <3>2. ASSUME NEW j \in 1 .. least - 1 PROVE Permission.rules[j].offset # field.offset
      <4>1. j \in 1 .. Len(list) /\ ~(least <= j)
        BY <3>1
      <4>2. j \notin found
        BY <2>2, <4>1
      <4> QED BY <1>4, <4>1, <4>2
    <3> QED BY <1>4, <3>1, <3>2
  <2> DEFINE shown == CHOOSE i \in DOMAIN Permission.rules : First(i)
  <2>4. shown \in DOMAIN list /\ First(shown)
    <3> HIDE DEF First
    <3> QED BY <1>4, <2>3
  <2>5. GetRuleForOffset(field.offset) = shown
    BY DEF GetRuleForOffset
  <2> HIDE DEF shown
  <2> QED BY <1>8, <2>4, <2>5
<1> QED BY <1>8, <1>9, <1>10, <1>11

LEMMA PageStarts == InitApp => TypeOKApp
<1> SUFFICES ASSUME InitApp PROVE TypeOKApp
  OBVIOUS
<1>1. Examples[1] \in PolicyConfig
  BY AppAssumption
<1>2. activePolicy = Examples[1] /\ tab = "visualizer" /\ ~copied /\ copied \in BOOLEAN
      /\ writes = 0 /\ timers = 0
  BY DEF InitApp
<1>3. writes \in Nat /\ timers \in Nat /\ writes + timers <= MaxPending
  BY <1>2, AppAssumption
<1> QED BY <1>1, <1>2, <1>3 DEF TypeOKApp, Tab

LEMMA PagePreserved ==
    ASSUME TypeOKApp, [NextApp]_appVars
    PROVE  TypeOKApp'
<1> DEFINE name == activePolicy.functionName
           list == activePolicy.rules
           paths == FieldPaths(Shown(name))
           Idle == UNCHANGED <<tab, pane>>
<1>1. /\ activePolicy \in PolicyConfig /\ tab \in Tab
      /\ copied \in BOOLEAN /\ writes \in Nat /\ timers \in Nat /\ writes + timers <= MaxPending
      /\ tab # "code" => ~copied /\ writes = 0 /\ timers = 0
  BY DEF TypeOKApp
<1>2. MaxPending \in Nat
  BY AppAssumption
<1>3. /\ list \in Seq(RuleOn(name)) /\ DOMAIN list = 1 .. Len(list)
      /\ \A i \in DOMAIN list : list[i] \in RuleOn(name)
  <2>1. list \in Seq(RuleOn(name))
    BY <1>1, PolicyFacts
  <2> HIDE DEF list, name
  <2> QED BY <2>1
<1>4. paths \in Seq(FieldName) /\ Len(paths) \in Nat \ {0} /\ DOMAIN paths = 1 .. Len(paths)
  <2>1. paths \in Seq(FieldName) /\ Len(paths) \in Nat \ {0}
    BY <1>1, ShownFacts
  <2> HIDE DEF paths
  <2> QED BY <2>1
<1>5. ASSUME NEW new \in Seq(RuleOn(name)), SetRules(new), Idle PROVE TypeOKApp'
  <2>1. activePolicy' \in PolicyConfig
    BY <1>1, <1>5, RulesReplaced DEF SetRules
  <2> QED BY <1>1, <1>5, <2>1 DEF TypeOKApp, pane
<1>6. ASSUME NEW i \in DOMAIN list, NEW rule \in RuleOn(name), UpdateRule(i, rule)
      PROVE  TypeOKApp'
  <2> DEFINE new == [list EXCEPT ![i] = rule]
  <2>1. new \in Seq(RuleOn(name))
    <3> HIDE DEF list, name
    <3> QED BY <1>3
  <2>2. SetRules(new) /\ Idle
    BY <1>6 DEF UpdateRule
  <2> HIDE DEF new
  <2> QED BY <1>5, <2>1, <2>2
<1>7. ASSUME NEW i \in DOMAIN list, RemoveRule(i) PROVE TypeOKApp'
  <2> DEFINE new == RemoveAt(list, i)
  <2>1. new \in Seq(RuleOn(name))
    <3> HIDE DEF list, name
    <3>1. i \in Nat /\ Len(list) \in Nat /\ i \in 1 .. Len(list)
      BY <1>3
    <3>2. SubSeq(list, 1, i - 1) \in Seq(RuleOn(name)) /\ SubSeq(list, i + 1, Len(list)) \in Seq(RuleOn(name))
      BY <1>3, <3>1
    <3> QED BY <3>2 DEF RemoveAt
  <2>2. SetRules(new) /\ Idle
    BY <1>7 DEF RemoveRule
  <2> HIDE DEF new
  <2> QED BY <1>5, <2>1, <2>2
<1>8. ASSUME AddRule PROVE TypeOKApp'
  <2> DEFINE fields == GetFieldsForFunction(name)
             rule == [fieldName |-> Head(fields).name, op |-> "EQ", rawValue |-> "hex"]
             new == Append(list, rule)
  <2>1. Head(fields).name = paths[1]
    <3>1. DOMAIN fields = 1 .. Len(paths) /\ \A n \in 1 .. Len(paths) : fields[n].name = paths[n]
      BY <1>1, MapFacts
    <3>2. 1 \in 1 .. Len(paths)
      BY <1>4
    <3>3. Head(fields) = fields[1]
      OBVIOUS
    <3> HIDE DEF fields, paths
    <3> QED BY <3>1, <3>2, <3>3
  <2>2. paths[1] \in Seq(STRING) /\ paths[1] \in ToSet(paths)
    <3> HIDE DEF paths
    <3> QED BY <1>4 DEF ToSet, FieldName
  <2>3. rule \in RuleOn(name)
    <3>1. "EQ" \in Op /\ "hex" \in RawValue
      BY AppAssumption DEF RawValue
    <3>2. ASSUME NEW field \in Seq(STRING), field \in ToSet(paths)
          PROVE  [fieldName |-> field, op |-> "EQ", rawValue |-> "hex"] \in RuleOn(name)
      <4> HIDE DEF name
      <4> QED BY <3>1, <3>2 DEF RuleOn
    <3> HIDE DEF fields, paths, name
    <3> QED BY <2>1, <2>2, <3>2
  <2>4. new \in Seq(RuleOn(name))
    <3> HIDE DEF list, name, rule
    <3> QED BY <1>3, <2>3
  <2>5. SetRules(new) /\ Idle
    BY <1>8 DEF AddRule
  <2> HIDE DEF new
  <2> QED BY <1>5, <2>4, <2>5
<1>9. ASSUME NEW t \in Tab, ShowTab(t), activePolicy' \in PolicyConfig PROVE TypeOKApp'
  <2>1. /\ tab' = t
        /\ t = "code" => copied' = copied /\ writes' = writes /\ timers' = timers
        /\ t # "code" => copied' = FALSE /\ writes' = 0 /\ timers' = 0
    BY <1>9 DEF ShowTab, pane
  <2>2. CASE t = "code"
    BY <1>1, <1>9, <2>1, <2>2 DEF TypeOKApp
  <2>3. CASE t # "code"
    <3>1. 0 + 0 <= MaxPending
      BY <1>2
    <3>2. copied' \in BOOLEAN /\ ~copied'
      BY <2>1, <2>3
    <3> QED BY <1>9, <2>1, <2>3, <3>1, <3>2 DEF TypeOKApp
  <2> QED BY <2>2, <2>3
<1>10. ASSUME NEW i \in DOMAIN list,
              \/ \E path \in ToSet(paths) : UpdateRule(i, [list[i] EXCEPT !.fieldName = path])
              \/ \E op \in Op : UpdateRule(i, [list[i] EXCEPT !.op = op])
              \/ \E raw \in RawValue : UpdateRule(i, [list[i] EXCEPT !.rawValue = raw])
              \/ RemoveRule(i)
       PROVE  TypeOKApp'
  <2>1. list[i] \in RuleOn(name)
    BY <1>3
  <2>2. ASSUME NEW path \in ToSet(paths) PROVE [list[i] EXCEPT !.fieldName = path] \in RuleOn(name)
    <3>1. path \in Seq(STRING)
      <4> HIDE DEF paths
      <4> QED BY <1>4 DEF ToSet, FieldName
    <3> HIDE DEF list, name
    <3> QED BY <2>1, <3>1 DEF RuleOn
  <2>3. \A op \in Op : [list[i] EXCEPT !.op = op] \in RuleOn(name)
    <3> HIDE DEF list, name
    <3> QED BY <2>1 DEF RuleOn
  <2>4. \A raw \in RawValue : [list[i] EXCEPT !.rawValue = raw] \in RuleOn(name)
    <3> HIDE DEF list, name
    <3> QED BY <2>1 DEF RuleOn
  <2> HIDE DEF list, name, paths
  <2> QED BY <1>6, <1>7, <1>10, <2>2, <2>3, <2>4
<1>11. CASE UNCHANGED appVars
  BY <1>1, <1>11 DEF appVars, TypeOKApp
<1>12. CASE \E i \in DOMAIN activePolicy.rules :
          \/ \E path \in ToSet(FieldPaths(GetFunctionEntry(activePolicy.functionName).inputs)) :
                UpdateRule(i, [activePolicy.rules[i] EXCEPT !.fieldName = path])
          \/ \E op \in Op : UpdateRule(i, [activePolicy.rules[i] EXCEPT !.op = op])
          \/ \E raw \in RawValue : UpdateRule(i, [activePolicy.rules[i] EXCEPT !.rawValue = raw])
          \/ RemoveRule(i)
  BY <1>10, <1>12 DEF Shown
<1>13. CASE \E t \in Tab : SetTab(t)
  BY <1>1, <1>9, <1>13 DEF SetTab
<1>14. CASE \E i \in DOMAIN Examples : ChoosePolicy(i)
  <2>1. PICK i \in DOMAIN Examples : ChoosePolicy(i)
    BY <1>14
  <2>2. Examples[i] \in PolicyConfig
    BY AppAssumption
  <2>3. "visualizer" \in Tab
    BY DEF Tab
  <2> QED BY <1>9, <2>1, <2>2, <2>3 DEF ChoosePolicy
<1>15. CASE Copy
  BY <1>1, <1>2, <1>15 DEF Copy, TypeOKApp
<1>16. CASE WriteResolves
  BY <1>1, <1>2, <1>16 DEF WriteResolves, TypeOKApp
<1>17. CASE WriteRejects
  BY <1>1, <1>2, <1>17 DEF WriteRejects, TypeOKApp
<1>18. CASE TimerFires
  <2>1. /\ timers > 0 /\ timers' = timers - 1 /\ copied' = FALSE
        /\ UNCHANGED <<activePolicy, tab, writes>>
    BY <1>18 DEF TimerFires
  <2>2. tab = "code" /\ timers' \in Nat /\ writes' + timers' <= MaxPending
    BY <1>1, <1>2, <2>1
  <2>3. copied' \in BOOLEAN
    BY <2>1
  <2> QED BY <1>1, <2>1, <2>2, <2>3 DEF TypeOKApp
<1> QED BY <1>8, <1>11, <1>12, <1>13, <1>14, <1>15, <1>16, <1>17, <1>18, Zenon DEF NextApp

\* The page keeps its types: every rule names a field of the function shown,
\* and nothing is under way for a code pane that is closed.
THEOREM PageTypeCorrect == SpecApp => []TypeOKApp
<1>1. InitApp => TypeOKApp
  BY PageStarts
<1>2. TypeOKApp /\ [NextApp]_appVars => TypeOKApp'
  BY PagePreserved
<1> QED BY <1>1, <1>2, PTL DEF SpecApp

\* For any function, however its tuples are nested, each row shows the offset
\* and the comparison of the compiled rule.
THEOREM RowsHold == SpecApp => []RowsShowTheCompiledRules
BY PageTypeCorrect, PageRows, PTL

\* The map highlights the constrained fields and no others.
THEOREM MapHolds == SpecApp => []MapShowsTheConstrainedFields
BY PageTypeCorrect, PageMap, PTL
=============================================================================
