------------------------ MODULE AbiConverter_proofs ------------------------
(***************************************************************************)
(* What the ABI converter parses, generates and verifies is right for every    *)
(* source.  Parameters are flattened field by field, and each field is counted *)
(* against the words of the head; the last lemmas go from the entries of a     *)
(* source to the function found by a selector.                                *)
(***************************************************************************)
EXTENDS AbiConverter, PolicyCompiler_proofs

---------------------------------------------------------------------------
(***************************************************************************)
(* Flattened parameters.                                                     *)
(***************************************************************************)
TypeName == STRING \cup {"tuple", "tuple[]"}

Flat == [path : Seq(STRING) \ {<<>>}, type : TypeName, dynamic : BOOLEAN, offset : Nat, size : Nat]

LEMMA FlatParamDef ==
    \A p \in Param :
        FlatParam[p] = IF p.type = "tuple" /\ p.components # <<>>
            THEN FlattenSeq([i \in DOMAIN p.components |->
                    Moved(FlatParam[p.components[i]], <<p.name>>, i - 1)])
            ELSE <<[path |-> <<p.name>>, type |-> p.type,
                    dynamic |-> AnalyzedDynamic(p.type), offset |-> 0,
                    size |-> IF p.type = "tuple" THEN 0 ELSE 1]>>
<1> DEFINE B(f, p) == IF p.type = "tuple" /\ p.components # <<>>
            THEN FlattenSeq([i \in DOMAIN p.components |->
                    Moved(f[p.components[i]], <<p.name>>, i - 1)])
            ELSE <<[path |-> <<p.name>>, type |-> p.type,
                    dynamic |-> AnalyzedDynamic(p.type), offset |-> 0,
                    size |-> IF p.type = "tuple" THEN 0 ELSE 1]>>
           F(f, m) == [p \in Below(m) |-> B(f, p)]
           T == {m \in 0 .. Nesting + 1 : \E f : f = F(f, m)}
<1>0. Nesting \in Nat /\ Nesting + 1 \in Nat
  BY NestingAssumption
<1>1. 0 \in T
  <2> DEFINE none == [p \in {} |-> {}]
  <2>1. none = F(none, 0)
    BY BelowStep
  <2> HIDE DEF F, none
  <2> QED BY <1>0, <2>1
<1>2. ASSUME NEW m \in 0 .. Nesting, m \in T PROVE m + 1 \in T
  <2>1. PICK f : f = F(f, m)
    BY <1>2
  <2> DEFINE more == [p \in Below(m + 1) |-> B(f, p)]
  <2>2. \A p \in Below(m) : more[p] = f[p]
    <3>1. Below(m) \subseteq Below(m + 1)
      BY BelowStep
    <3> HIDE DEF B
    <3> QED BY <2>1, <3>1
  <2>3. ASSUME NEW p \in Below(m + 1) PROVE B(more, p) = B(f, p)
    <3>1. \A i \in DOMAIN p.components : more[p.components[i]] = f[p.components[i]]
      BY <2>2, LevelFacts
    <3> HIDE DEF more, Below
    <3>2. [i \in DOMAIN p.components |-> Moved(more[p.components[i]], <<p.name>>, i - 1)]
            = [i \in DOMAIN p.components |-> Moved(f[p.components[i]], <<p.name>>, i - 1)]
      BY <3>1
    <3> QED BY <3>2, Zenon
  <2>4. more = F(more, m + 1)
    <3> HIDE DEF B
    <3> QED BY <2>3
  <2> HIDE DEF F, more
  <2> QED BY <1>0, <2>4
<1>3. 0 .. Nesting + 1 \subseteq T
  <2> HIDE DEF T
  <2> QED BY <1>0, <1>1, <1>2, UpToByStep
<1>4. \E f : f = F(f, Nesting + 1)
  <2> HIDE DEF F
  <2> QED BY <1>0, <1>3
<1>5. \E f : f = [p \in Param |-> B(f, p)]
  BY <1>4, BelowStep
<1>6. FlatParam = [p \in Param |-> B(FlatParam, p)]
  BY <1>5, Zenon DEF FlatParam
<1> QED BY <1>6

\* What Moved does to each field.
LEMMA MovedFacts ==
    ASSUME NEW fields \in Seq(Flat), NEW prefix \in Seq(STRING), NEW offset \in Nat
    PROVE  /\ Moved(fields, prefix, offset) \in Seq(Flat)
           /\ Len(Moved(fields, prefix, offset)) = Len(fields)
           /\ \A n \in 1 .. Len(fields) :
                 /\ Moved(fields, prefix, offset)[n].path = prefix \o fields[n].path
                 /\ Moved(fields, prefix, offset)[n].offset = offset + fields[n].offset
                 /\ Moved(fields, prefix, offset)[n].type = fields[n].type
                 /\ Moved(fields, prefix, offset)[n].dynamic = fields[n].dynamic
                 /\ Moved(fields, prefix, offset)[n].size = fields[n].size
<1>1. Len(fields) \in Nat /\ DOMAIN fields = 1 .. Len(fields)
  OBVIOUS
<1>2. ASSUME NEW n \in 1 .. Len(fields)
      PROVE  /\ Moved(fields, prefix, offset)[n] \in Flat
             /\ Moved(fields, prefix, offset)[n].path = prefix \o fields[n].path
             /\ Moved(fields, prefix, offset)[n].offset = offset + fields[n].offset
             /\ Moved(fields, prefix, offset)[n].type = fields[n].type
             /\ Moved(fields, prefix, offset)[n].dynamic = fields[n].dynamic
             /\ Moved(fields, prefix, offset)[n].size = fields[n].size
  <2> DEFINE field == fields[n]
             moved == [field EXCEPT !.path = prefix \o @, !.offset = offset + @]
  <2>1. Moved(fields, prefix, offset)[n] = moved
    BY <1>1 DEF Moved
  <2>2. field \in Flat
    OBVIOUS
  <2> HIDE DEF field
  <2>3. prefix \o field.path \in Seq(STRING) \ {<<>>}
    <3> DEFINE path == field.path
    <3>1. path \in Seq(STRING) /\ path # <<>>
      BY <2>2 DEF Flat
    <3> HIDE DEF path
    <3>2. prefix \o path \in Seq(STRING) /\ Len(prefix \o path) = Len(prefix) + Len(path)
          /\ Len(prefix) \in Nat /\ Len(path) \in Nat
      BY <3>1
    <3>3. Len(path) # 0
      BY <3>1
    <3>4. Len(prefix \o path) # 0
      BY <3>2, <3>3
    <3>5. prefix \o path # <<>>
      BY <3>4
    <3> QED BY <3>2, <3>5 DEF path
  <2> DEFINE path == prefix \o field.path
             start == offset + field.offset
  <2>4. start \in Nat
    BY <2>2 DEF Flat
  <2>5. path \in Seq(STRING) \ {<<>>}
    BY <2>3
  <2>6. moved = [field EXCEPT !.path = path, !.offset = start]
    BY <2>2 DEF Flat
  <2> HIDE DEF path, start, moved
  <2>7. /\ moved = [path |-> path, type |-> field.type, dynamic |-> field.dynamic,
                     offset |-> start, size |-> field.size]
        /\ field.type \in TypeName /\ field.dynamic \in BOOLEAN /\ field.size \in Nat
    BY <2>2, <2>6 DEF Flat
  <2>8. /\ moved \in Flat /\ moved.path = path /\ moved.offset = start
        /\ moved.type = field.type /\ moved.dynamic = field.dynamic /\ moved.size = field.size
    BY <2>4, <2>5, <2>7 DEF Flat
  <2> QED BY <2>1, <2>8, Zenon DEF field, path, start
<1>3. Moved(fields, prefix, offset) = [n \in 1 .. Len(fields) |-> Moved(fields, prefix, offset)[n]]
  BY <1>1 DEF Moved
<1>4. Moved(fields, prefix, offset) \in Seq(Flat) /\ Len(Moved(fields, prefix, offset)) = Len(fields)
  <2> DEFINE m == Moved(fields, prefix, offset)
             k == Len(fields)
  <2> HIDE DEF m, k
  <2>1. k \in Nat /\ m = [n \in 1 .. k |-> m[n]] /\ \A n \in 1 .. k : m[n] \in Flat
    BY <1>1, <1>2, <1>3 DEF m, k
  <2>2. m \in [1 .. k -> Flat]
    BY <2>1
  <2>3. m \in Seq(Flat) /\ Len(m) = k
    BY <2>1, <2>2
  <2> QED BY <2>3 DEF m, k
<1> QED BY <1>2, <1>4

\* How many fields each of these parameters has.
FieldsOf(params) == [i \in DOMAIN params |-> Len(FlatParam[params[i]])]

LEMMA FieldsOfFacts ==
    ASSUME NEW params \in Seq(Param),
           \A i \in DOMAIN params : FlatParam[params[i]] \in Seq(Flat) \ {<<>>}
    PROVE  /\ FieldsOf(params) \in Seq(Nat) /\ Len(FieldsOf(params)) = Len(params)
           /\ \A i \in 1 .. Len(params) : /\ FieldsOf(params)[i] = Len(FlatParam[params[i]])
                                          /\ FieldsOf(params)[i] >= 1
<1>1. Len(params) \in Nat /\ DOMAIN params = 1 .. Len(params)
  OBVIOUS
<1>2. ASSUME NEW i \in 1 .. Len(params)
      PROVE  /\ FieldsOf(params)[i] = Len(FlatParam[params[i]])
             /\ FieldsOf(params)[i] \in Nat /\ FieldsOf(params)[i] >= 1
  <2> DEFINE flat == FlatParam[params[i]]
  <2>1. flat \in Seq(Flat) /\ flat # <<>>
    BY <1>1
  <2>2. FieldsOf(params)[i] = Len(flat)
    BY <1>1 DEF FieldsOf
  <2> HIDE DEF flat
  <2>3. Len(flat) \in Nat /\ Len(flat) >= 1
    BY <2>1
  <2> QED BY <2>2, <2>3 DEF flat
<1> DEFINE s == FieldsOf(params)
           k == Len(params)
<1>3. s = [i \in 1 .. k |-> s[i]]
  BY <1>1 DEF FieldsOf
<1> HIDE DEF s, k
<1>4. k \in Nat /\ \A i \in 1 .. k : s[i] \in Nat
  BY <1>1, <1>2 DEF s, k
<1>5. s \in Seq(Nat) /\ Len(s) = k
  <2>1. s \in [1 .. k -> Nat]
    BY <1>3, <1>4
  <2> QED BY <1>4, <2>1
<1> QED BY <1>2, <1>5 DEF s, k

\* The fields of a tuple, one component after the other.
LEMMA TupleFields ==
    ASSUME NEW p \in Param, p.type = "tuple", p.components # <<>>,
           \A i \in DOMAIN p.components : FlatParam[p.components[i]] \in Seq(Flat) \ {<<>>}
    PROVE  LET sums == Sums(FieldsOf(p.components))
           IN  /\ FlatParam[p] \in Seq(Flat)
               /\ Len(p.components) \in Nat /\ Len(p.components) >= 1
               /\ Len(FlatParam[p]) = sums[Len(p.components)]
               /\ \A i \in 1 .. Len(p.components) : \A k \in 1 .. FieldsOf(p.components)[i] :
                     /\ sums[i - 1] + k \in 1 .. Len(FlatParam[p])
                     /\ FlatParam[p][sums[i - 1] + k] =
                           Moved(FlatParam[p.components[i]], <<p.name>>, i - 1)[k]
               /\ \A n \in 1 .. Len(FlatParam[p]) : \E i \in 1 .. Len(p.components) :
                     \E k \in 1 .. FieldsOf(p.components)[i] : n = sums[i - 1] + k
<1> DEFINE params == p.components
           size == Len(params)
           seqs == [i \in DOMAIN params |-> Moved(FlatParam[params[i]], <<p.name>>, i - 1)]
<1>1. params \in Seq(Param) /\ <<p.name>> \in Seq(STRING)
  BY ParamFacts
<1>2. FlatParam[p] = FlattenSeq(seqs)
  BY FlatParamDef
<1>3. size \in Nat /\ DOMAIN params = 1 .. size /\ size >= 1
  <2>1. params # <<>>
    OBVIOUS
  <2> HIDE DEF params
  <2> QED BY <1>1, <2>1
<1>4. ASSUME NEW i \in 1 .. size
      PROVE  seqs[i] \in Seq(Flat) /\ Len(seqs[i]) = Len(FlatParam[params[i]])
  <2>1. i - 1 \in Nat /\ FlatParam[params[i]] \in Seq(Flat)
    BY <1>3
  <2>2. seqs[i] = Moved(FlatParam[params[i]], <<p.name>>, i - 1)
    BY <1>3
  <2> DEFINE name == <<p.name>>
             of == FlatParam[params[i]]
  <2>3. name \in Seq(STRING) /\ of \in Seq(Flat)
    BY <1>1, <2>1
  <2> HIDE DEF seqs, params, name, of
  <2>4. Moved(of, name, i - 1) \in Seq(Flat) /\ Len(Moved(of, name, i - 1)) = Len(of)
    BY <2>1, <2>3, MovedFacts
  <2> QED BY <2>2, <2>4 DEF name, of
<1>5. seqs = [i \in 1 .. size |-> seqs[i]]
  BY <1>3
<1>6. \A i \in 1 .. size : seqs[i] = Moved(FlatParam[params[i]], <<p.name>>, i - 1)
  BY <1>3
<1>7. \A i \in DOMAIN params : FlatParam[params[i]] \in Seq(Flat) \ {<<>>}
  OBVIOUS
<1> HIDE DEF seqs, params
<1>8. seqs \in Seq(Seq(Flat)) /\ Len(seqs) = size
  <2> HIDE DEF size
  <2>1. seqs \in [1 .. size -> Seq(Flat)]
    BY <1>4, <1>5
  <2> QED BY <1>3, <2>1
<1>9. /\ FieldsOf(params) \in Seq(Nat) /\ Len(FieldsOf(params)) = size
      /\ \A i \in 1 .. size : FieldsOf(params)[i] = Len(FlatParam[params[i]])
  BY <1>1, <1>7, FieldsOfFacts
<1>10. \A i \in 1 .. Len(seqs) : FieldsOf(params)[i] = Len(seqs[i])
  BY <1>4, <1>8, <1>9
<1> DEFINE sizes == FieldsOf(params)
           all == FlattenSeq(seqs)
<1> HIDE DEF size, sizes
<1>11. Len(sizes) = Len(seqs) /\ Len(seqs) = size
  BY <1>8, <1>9 DEF sizes
<1>14. seqs \in Seq(Seq(Flat)) /\ sizes \in Seq(Nat)
  BY <1>8, <1>9 DEF sizes
<1>15. \A i \in 1 .. Len(seqs) : sizes[i] = Len(seqs[i])
  BY <1>10 DEF sizes
<1>12. /\ all \in Seq(Flat)
       /\ Len(all) = Sums(sizes)[size]
       /\ \A i \in 1 .. size : \A k \in 1 .. sizes[i] :
             /\ Sums(sizes)[i - 1] + k \in 1 .. Len(all)
             /\ all[Sums(sizes)[i - 1] + k] = seqs[i][k]
       /\ \A n \in 1 .. Len(all) :
             \E i \in 1 .. size : \E k \in 1 .. sizes[i] : n = Sums(sizes)[i - 1] + k
  <2>1. /\ FlattenSeq(seqs) \in Seq(Flat)
        /\ Len(FlattenSeq(seqs)) = Sums(sizes)[Len(seqs)]
        /\ \A i \in 1 .. Len(seqs) : \A k \in 1 .. sizes[i] :
              /\ Sums(sizes)[i - 1] + k \in 1 .. Len(FlattenSeq(seqs))
              /\ FlattenSeq(seqs)[Sums(sizes)[i - 1] + k] = seqs[i][k]
        /\ \A n \in 1 .. Len(FlattenSeq(seqs)) :
              \E i \in 1 .. Len(seqs) : \E k \in 1 .. sizes[i] : n = Sums(sizes)[i - 1] + k
    BY <1>11, <1>14, <1>15, FlattenPositions, SMTT(60)
  <2> QED BY <1>11, <2>1
<1> HIDE DEF all
<1>13. FlatParam[p] = all
  BY <1>2 DEF all
<1> QED BY <1>3, <1>6, <1>12, <1>13, Zenon DEF sizes, size, params

LEMMA SingleField ==
    ASSUME NEW p \in Param, p.type # "tuple" \/ p.components = <<>>
    PROVE  /\ FlatParam[p] \in Seq(Flat) /\ Len(FlatParam[p]) = 1
           /\ FlatParam[p][1].path = <<p.name>> /\ FlatParam[p][1].type = p.type
           /\ FlatParam[p][1].offset = 0
           /\ FlatParam[p][1].size = IF p.type = "tuple" THEN 0 ELSE 1
           /\ FlatParam[p][1].dynamic = AnalyzedDynamic(p.type)
<1> DEFINE size == IF p.type = "tuple" THEN 0 ELSE 1
           dynamic == AnalyzedDynamic(p.type)
           path == <<p.name>>
           field == [path |-> path, type |-> p.type, dynamic |-> dynamic, offset |-> 0, size |-> size]
<1>1. FlatParam[p] = <<field>>
  BY FlatParamDef, Zenon
<1>2. p.name \in STRING
  BY ParamFacts
<1>3. p.type \in TypeName
  <2>1. Nesting \in 0 .. Nesting
    BY NestingAssumption
  <2>2. p \in ParamOver(Below(Nesting))
    BY <2>1, BelowStep
  <2> DEFINE fields == Fields(Below(Nesting))
             names == STRING \ {"tuple", "tuple[]"}
  <2> HIDE DEF fields
  <2>3. \/ p \in [name : STRING, type : names, components : {<<>>}]
        \/ p \in [name : STRING, type : {"tuple", "tuple[]"}, components : fields]
    BY <2>2 DEF ParamOver, fields
  <2>4. p.type \in names \/ p.type \in {"tuple", "tuple[]"}
    BY <2>3
  <2> QED BY <2>4 DEF TypeName
<1>4. size \in Nat
  OBVIOUS
<1>5. dynamic \in BOOLEAN
  BY DEF AnalyzedDynamic
<1>6. path \in Seq(STRING) \ {<<>>}
  BY <1>2
<1> HIDE DEF size, dynamic, path
<1>7. field \in Flat
  BY <1>3, <1>4, <1>5, <1>6 DEF Flat
<1>8. /\ field.path = path /\ field.type = p.type /\ field.offset = 0 /\ field.size = size
      /\ field.dynamic = dynamic
  OBVIOUS
<1> HIDE DEF field
<1>9. FlatParam[p] \in Seq(Flat) /\ Len(FlatParam[p]) = 1 /\ FlatParam[p][1] = field
  BY <1>1, <1>7
<1> QED BY <1>8, <1>9 DEF size, dynamic, path

\* Every parameter has fields.
LEMMA FlatFacts ==
    ASSUME NEW p \in Param
    PROVE  FlatParam[p] \in Seq(Flat) \ {<<>>}
<1> DEFINE G == {q \in Param : FlatParam[q] \in Seq(Flat) \ {<<>>}}
<1>1. ASSUME NEW q \in Param, \A i \in DOMAIN q.components : q.components[i] \in G
      PROVE  q \in G
  <2>1. CASE q.type = "tuple" /\ q.components # <<>>
    <3> DEFINE comps == q.components
               flat == FlatParam[q]
               sums == Sums(FieldsOf(comps))
    <3>1. \A i \in DOMAIN comps : FlatParam[comps[i]] \in Seq(Flat) \ {<<>>}
      BY <1>1
    <3>2. /\ flat \in Seq(Flat) /\ Len(comps) \in Nat /\ Len(comps) >= 1
          /\ \A i \in 1 .. Len(comps) : \A k \in 1 .. FieldsOf(comps)[i] :
                sums[i - 1] + k \in 1 .. Len(flat)
      BY <2>1, <3>1, TupleFields
    <3>3. comps \in Seq(Param)
      BY ParamFacts
    <3>4. FieldsOf(comps)[1] >= 1 /\ FieldsOf(comps)[1] \in Nat
      <4> HIDE DEF comps
      <4>1. 1 \in 1 .. Len(comps)
        BY <3>2
      <4> QED BY <3>1, <3>3, <4>1, FieldsOfFacts
    <3> HIDE DEF comps, flat, sums
    <3>5. 1 \in 1 .. Len(comps) /\ 1 \in 1 .. FieldsOf(comps)[1]
      BY <3>2, <3>4
    <3>6. sums[1 - 1] + 1 \in 1 .. Len(flat)
      BY <3>2, <3>5
    <3>7. flat # <<>>
      <4>1. Len(flat) \in Nat /\ (flat = <<>> => Len(flat) = 0)
        BY <3>2
      <4>2. Len(flat) # 0
        BY <3>6, <4>1
      <4> QED BY <4>1, <4>2
    <3> QED BY <3>2, <3>7 DEF flat
  <2>2. CASE ~(q.type = "tuple" /\ q.components # <<>>)
    <3> DEFINE flat == FlatParam[q]
    <3>1. flat \in Seq(Flat) /\ Len(flat) = 1
      BY <2>2, SingleField
    <3> HIDE DEF flat
    <3>2. flat # <<>>
      <4>1. flat = <<>> => Len(flat) = 0
        OBVIOUS
      <4> QED BY <3>1, <4>1
    <3> QED BY <3>1, <3>2 DEF flat
  <2> QED BY <2>1, <2>2
<1>2. Param \subseteq G
  <2> HIDE DEF G
  <2> QED BY <1>1, ParamsByStep
<1> QED BY <1>2

\* The fields of a tuple have names of two parts or more.
LEMMA TuplePaths ==
    ASSUME NEW p \in Param, p.type = "tuple", p.components # <<>>
    PROVE  \A n \in 1 .. Len(FlatParam[p]) : Len(FlatParam[p][n].path) # 1
<1> DEFINE comps == p.components
           flat == FlatParam[p]
           sums == Sums(FieldsOf(comps))
<1>1. /\ comps \in Seq(Param) /\ \A i \in DOMAIN comps : comps[i] \in Param
      /\ p.name \in STRING
  BY ParamFacts
<1>2. \A i \in DOMAIN comps : FlatParam[comps[i]] \in Seq(Flat) \ {<<>>}
  BY <1>1, FlatFacts
<1>3. /\ flat \in Seq(Flat)
      /\ \A i \in 1 .. Len(comps) : \A k \in 1 .. FieldsOf(comps)[i] :
            flat[sums[i - 1] + k] = Moved(FlatParam[comps[i]], <<p.name>>, i - 1)[k]
      /\ \A n \in 1 .. Len(flat) : \E i \in 1 .. Len(comps) :
            \E k \in 1 .. FieldsOf(comps)[i] : n = sums[i - 1] + k
  BY <1>2, TupleFields
<1>4. \A i \in 1 .. Len(comps) : FieldsOf(comps)[i] = Len(FlatParam[comps[i]])
  BY <1>1, <1>2, FieldsOfFacts
<1> DEFINE name == <<p.name>>
<1>5. name \in Seq(STRING) /\ Len(name) = 1
  BY <1>1
<1> SUFFICES ASSUME NEW n \in 1 .. Len(flat) PROVE Len(flat[n].path) # 1
  OBVIOUS
<1>14. PICK i \in 1 .. Len(comps) : \E k \in 1 .. FieldsOf(comps)[i] : n = sums[i - 1] + k
  BY <1>3
<1>6. PICK k \in 1 .. FieldsOf(comps)[i] : n = sums[i - 1] + k
  BY <1>14
<1> DEFINE of == FlatParam[comps[i]]
<1>7. flat[n] = Moved(of, name, i - 1)[k]
  BY <1>3, <1>6
<1>8. of \in Seq(Flat) /\ i - 1 \in Nat /\ k \in 1 .. Len(of)
  BY <1>1, <1>2, <1>4
<1> HIDE DEF comps, flat, name, of
<1>9. flat[n].path = name \o of[k].path
  BY <1>5, <1>7, <1>8, MovedFacts
<1> DEFINE rest == of[k].path
<1>10. rest \in Seq(STRING) /\ rest # <<>>
  <2>1. of[k] \in Flat
    BY <1>8
  <2> QED BY <2>1 DEF Flat
<1> HIDE DEF rest
<1>11. Len(rest) \in Nat /\ Len(rest) # 0
  BY <1>10
<1>12. Len(name \o rest) = Len(name) + Len(rest)
  BY <1>5, <1>10, ConcatFacts
<1>13. Len(name \o rest) # 1
  BY <1>5, <1>11, <1>12
<1> QED BY <1>9, <1>13 DEF rest

---------------------------------------------------------------------------
(***************************************************************************)
(* The parameters of a function, one after the other.                        *)
(***************************************************************************)
\* The fields of the first n parameters, for every n.
Results(params) ==
    LET result[n \in 0 .. Len(params)] ==
            IF n = 0 THEN <<>>
            ELSE LET done == result[n - 1] IN done \o ParseParam(params[n], EndOf(done))
    IN  result

LEMMA ResultsDef ==
    ASSUME NEW params, Len(params) \in Nat
    PROVE  Results(params) = [n \in 0 .. Len(params) |->
               IF n = 0 THEN <<>>
               ELSE LET done == Results(params)[n - 1]
                    IN  done \o ParseParam(params[n], EndOf(done))]
<1> DEFINE size == Len(params)
           B(f, n) == IF n = 0 THEN <<>>
                      ELSE LET done == f[n - 1] IN done \o ParseParam(params[n], EndOf(done))
           F(f, m) == [n \in 0 .. m |-> B(f, n)]
           T == {m \in 0 .. size : \E f : f = F(f, m)}
<1>1. 0 \in T
  <2> DEFINE f == [n \in 0 .. 0 |-> <<>>]
  <2>1. f = F(f, 0)
    OBVIOUS
  <2> HIDE DEF F, f
  <2> QED BY <2>1
<1>2. ASSUME NEW m \in 0 .. size - 1, m \in T PROVE m + 1 \in T
  <2>1. PICK f : f = F(f, m)
    BY <1>2
  <2> DEFINE more == [n \in 0 .. m + 1 |-> IF n <= m THEN f[n] ELSE B(f, m + 1)]
  <2>2. \A n \in 0 .. m : more[n] = f[n]
    <3> HIDE DEF B
    <3> QED OBVIOUS
  <2>3. ASSUME NEW n \in 0 .. m + 1 PROVE B(more, n) = B(f, n)
    <3>1. n = 0 \/ more[n - 1] = f[n - 1]
      <4>1. n = 0 \/ n - 1 \in 0 .. m
        OBVIOUS
      <4> QED BY <2>2, <4>1
    <3> HIDE DEF more
    <3> QED BY <3>1, Zenon
  <2>4. \A n \in 0 .. m : f[n] = B(f, n)
    <3> HIDE DEF B
    <3> QED BY <2>1
  <2>5. \A n \in 0 .. m + 1 : more[n] = B(f, n)
    <3> HIDE DEF B
    <3>1. \A n \in 0 .. m + 1 : n \in 0 .. m \/ n = m + 1
      OBVIOUS
    <3>2. more[m + 1] = B(f, m + 1)
      OBVIOUS
    <3> QED BY <2>2, <2>4, <3>1, <3>2
  <2>6. more = [n \in 0 .. m + 1 |-> B(more, n)]
    <3>1. \A n \in 0 .. m + 1 : more[n] = B(more, n)
      BY <2>3, <2>5, Zenon
    <3>2. more = [n \in 0 .. m + 1 |-> more[n]]
      OBVIOUS
    <3> HIDE DEF B, more
    <3> QED BY <3>1, <3>2
  <2>7. more = F(more, m + 1)
    BY <2>6, Zenon
  <2> HIDE DEF F, more
  <2> QED BY <2>7
<1>3. 0 .. size \subseteq T
  <2> HIDE DEF T, size
  <2>1. size \in Nat
    BY DEF size
  <2> QED BY <1>1, <1>2, <2>1, UpToByStep
<1>4. \E f : f = F(f, size)
  <2> HIDE DEF F
  <2> QED BY <1>3
<1>5. Results(params) = F(Results(params), size)
  BY <1>4, Zenon DEF Results
<1> QED BY <1>5, Zenon

LEMMA EndFacts ==
    ASSUME NEW fields \in Seq(Flat)
    PROVE  /\ EndOf(fields) \in Nat
           /\ fields # <<>> => EndOf(fields) = fields[Len(fields)].offset + fields[Len(fields)].size
<1>1. CASE fields = <<>>
  BY <1>1 DEF EndOf
<1>2. CASE fields # <<>>
  <2>1. Len(fields) \in 1 .. Len(fields)
    BY <1>2
  <2>2. fields[Len(fields)] \in Flat
    BY <2>1
  <2> DEFINE last == fields[Len(fields)]
  <2>3. EndOf(fields) = last.offset + last.size
    BY <1>2 DEF EndOf, Last
  <2> HIDE DEF last
  <2>4. last.offset \in Nat /\ last.size \in Nat
    BY <2>2 DEF Flat, last
  <2>5. EndOf(fields) \in Nat
    BY <2>3, <2>4
  <2> QED BY <2>3, <2>5 DEF last
<1> QED BY <1>1, <1>2

\* What one parameter adds.
LEMMA ParseParamFacts ==
    ASSUME NEW p \in Param, NEW base \in Nat
    PROVE  /\ ParseParam(p, base) \in Seq(Flat)
           /\ Len(ParseParam(p, base)) = Len(FlatParam[p])
           /\ \A k \in 1 .. Len(FlatParam[p]) :
                 /\ ParseParam(p, base)[k].path = FlatParam[p][k].path
                 /\ ParseParam(p, base)[k].offset = base + FlatParam[p][k].offset
                 /\ ParseParam(p, base)[k].type = FlatParam[p][k].type
                 /\ ParseParam(p, base)[k].dynamic = FlatParam[p][k].dynamic
                 /\ ParseParam(p, base)[k].size = FlatParam[p][k].size
<1> DEFINE flat == FlatParam[p]
           moved == Moved(flat, <<>>, base)
<1>1. flat \in Seq(Flat) /\ <<>> \in Seq(STRING)
  BY FlatFacts
<1> HIDE DEF flat
<1>2. /\ moved \in Seq(Flat) /\ Len(moved) = Len(flat)
      /\ \A k \in 1 .. Len(flat) :
            /\ moved[k].path = <<>> \o flat[k].path
            /\ moved[k].offset = base + flat[k].offset
            /\ moved[k].type = flat[k].type
            /\ moved[k].dynamic = flat[k].dynamic
            /\ moved[k].size = flat[k].size
  BY <1>1, MovedFacts
<1>3. ASSUME NEW k \in 1 .. Len(flat) PROVE <<>> \o flat[k].path = flat[k].path
  <2> DEFINE path == flat[k].path
  <2>1. path \in Seq(STRING)
    <3>1. flat[k] \in Flat
      BY <1>1
    <3> QED BY <3>1 DEF Flat
  <2> HIDE DEF path
  <2>2. <<>> \o path = path
    BY <2>1
  <2> QED BY <2>2 DEF path
<1>4. ParseParam(p, base) = moved
  BY DEF ParseParam, flat
<1> HIDE DEF moved
<1>5. \A k \in 1 .. Len(flat) : moved[k].path = flat[k].path
  BY <1>2, <1>3
<1> QED BY <1>2, <1>4, <1>5 DEF flat

\* Every field of a parameter is one word, the next word.
Even(p) ==
    \A k \in 1 .. Len(FlatParam[p]) : FlatParam[p][k].offset = k - 1 /\ FlatParam[p][k].size = 1

LEMMA ResultsStep ==
    ASSUME NEW params \in Seq(Param)
    PROVE  /\ Results(params)[0] = <<>>
           /\ \A n \in 1 .. Len(params) :
                 Results(params)[n] = Results(params)[n - 1]
                     \o ParseParam(params[n], EndOf(Results(params)[n - 1]))
           /\ \A n \in 0 .. Len(params) : Results(params)[n] \in Seq(Flat)
<1> DEFINE size == Len(params)
           r == Results(params)
           B(n) == IF n = 0 THEN <<>> ELSE r[n - 1] \o ParseParam(params[n], EndOf(r[n - 1]))
<1>0. size \in Nat
  OBVIOUS
<1>1. r = [n \in 0 .. size |-> B(n)]
  BY <1>0, ResultsDef, Zenon
<1> HIDE DEF r, B
<1>2. \A n \in 0 .. size : r[n] = B(n)
  BY <1>1
<1>3. r[0] = <<>>
  <2>1. 0 \in 0 .. size
    BY <1>0
  <2> QED BY <1>2, <2>1 DEF B
<1>4. ASSUME NEW n \in 1 .. size
      PROVE  r[n] = r[n - 1] \o ParseParam(params[n], EndOf(r[n - 1]))
  <2>1. n \in 0 .. size /\ n # 0
    BY <1>0
  <2> QED BY <1>2, <2>1 DEF B
<1> DEFINE T == {n \in 0 .. size : r[n] \in Seq(Flat)}
<1>5. 0 \in T
  <2>1. <<>> \in Seq(Flat)
    OBVIOUS
  <2>2. r[0] \in Seq(Flat)
    BY <1>3, <2>1, Zenon
  <2>3. 0 \in 0 .. size
    BY <1>0
  <2> QED BY <2>2, <2>3
<1>6. ASSUME NEW n \in 0 .. size - 1, n \in T PROVE n + 1 \in T
  <2>1. n + 1 \in 1 .. size /\ n + 1 \in 0 .. size /\ (n + 1) - 1 = n
    BY <1>0
  <2>2. r[n] \in Seq(Flat) /\ params[n + 1] \in Param
    BY <1>6, <2>1
  <2>3. r[n + 1] = r[n] \o ParseParam(params[n + 1], EndOf(r[n]))
    BY <1>4, <2>1
  <2> DEFINE more == ParseParam(params[n + 1], EndOf(r[n]))
  <2>4. more \in Seq(Flat)
    BY <2>2, EndFacts, ParseParamFacts
  <2> HIDE DEF more
  <2>5. r[n] \o more \in Seq(Flat)
    BY <2>2, <2>4, ConcatFacts
  <2> QED BY <2>1, <2>3, <2>5 DEF more
<1>7. 0 .. size \subseteq T
  <2> HIDE DEF T, size
  <2> QED BY <1>0, <1>5, <1>6, UpToByStep
<1>8. \A n \in 0 .. size : r[n] \in Seq(Flat)
  BY <1>7
<1> QED BY <1>3, <1>4, <1>8 DEF r

\* Every field of every parameter is among the inputs, in order.
LEMMA OffsetsFacts ==
    ASSUME NEW params \in Seq(Param)
    PROVE  LET inputs == ComputeParamOffsets(params)
               sums == Sums(FieldsOf(params))
           IN  /\ inputs \in Seq(Flat)
               /\ Len(inputs) = sums[Len(params)]
               /\ \A i \in 1 .. Len(params) : \A k \in 1 .. Len(FlatParam[params[i]]) :
                     /\ sums[i - 1] + k \in 1 .. Len(inputs)
                     /\ inputs[sums[i - 1] + k].path = FlatParam[params[i]][k].path
                     /\ inputs[sums[i - 1] + k].type = FlatParam[params[i]][k].type
                     /\ inputs[sums[i - 1] + k].dynamic = FlatParam[params[i]][k].dynamic
               /\ \A n \in 1 .. Len(inputs) : \E i \in 1 .. Len(params) :
                     \E k \in 1 .. Len(FlatParam[params[i]]) : n = sums[i - 1] + k
<1> DEFINE size == Len(params)
           r == Results(params)
           sizes == FieldsOf(params)
           seqs == [i \in 1 .. size |-> ParseParam(params[i], EndOf(r[i - 1]))]
<1>0. size \in Nat
  OBVIOUS
<1>1. /\ r[0] = <<>>
      /\ \A n \in 1 .. size : r[n] = r[n - 1] \o ParseParam(params[n], EndOf(r[n - 1]))
      /\ \A n \in 0 .. size : r[n] \in Seq(Flat)
  BY ResultsStep
<1> HIDE DEF r
<1>2. ASSUME NEW i \in 1 .. size
      PROVE  LET p == params[i]
             IN  /\ seqs[i] \in Seq(Flat)
                 /\ Len(seqs[i]) = Len(FlatParam[p])
                 /\ \A k \in 1 .. Len(FlatParam[p]) :
                       /\ seqs[i][k].path = FlatParam[p][k].path
                       /\ seqs[i][k].type = FlatParam[p][k].type
                       /\ seqs[i][k].dynamic = FlatParam[p][k].dynamic
  <2>1. params[i] \in Param /\ i - 1 \in 0 .. size
    BY <1>0
  <2>2. EndOf(r[i - 1]) \in Nat
    BY <1>1, <2>1, EndFacts
  <2> DEFINE p == params[i]
             base == EndOf(r[i - 1])
  <2>3. seqs[i] = ParseParam(p, base)
    OBVIOUS
  <2>4. p \in Param /\ base \in Nat
    BY <2>1, <2>2
  <2> HIDE DEF seqs, base, p
  <2> QED BY <2>3, <2>4, ParseParamFacts DEF p
<1>3. \A i \in 1 .. size : seqs[i] = ParseParam(params[i], EndOf(r[i - 1]))
  OBVIOUS
<1>4. seqs \in Seq(Seq(Flat)) /\ Len(seqs) = size
  <2>1. seqs = [i \in 1 .. size |-> seqs[i]]
    OBVIOUS
  <2> HIDE DEF seqs
  <2>2. seqs \in [1 .. size -> Seq(Flat)]
    BY <1>2, <2>1
  <2> HIDE DEF size
  <2> QED BY <1>0, <2>2
<1> HIDE DEF seqs
<1> DEFINE T == {n \in 0 .. size : r[n] = Joins(seqs)[n]}
<1>5. 0 \in T
  <2>1. Joins(seqs)[0] = <<>>
    BY <1>4, JoinsFacts
  <2> QED BY <1>0, <1>1, <2>1
<1>6. ASSUME NEW n \in 0 .. size - 1, n \in T PROVE n + 1 \in T
  <2>1. n + 1 \in 1 .. size /\ n + 1 \in 0 .. size /\ (n + 1) - 1 = n
    BY <1>0
  <2>2. r[n + 1] = r[n] \o seqs[n + 1]
    BY <1>1, <1>3, <2>1
  <2>3. n + 1 \in 1 .. Len(seqs)
    BY <1>4, <2>1
  <2>4. Joins(seqs)[n + 1] = Joins(seqs)[(n + 1) - 1] \o seqs[n + 1]
    BY <1>4, <2>3, JoinsFacts
  <2>5. Joins(seqs)[n] = r[n]
    BY <1>6
  <2>6. Joins(seqs)[n + 1] = r[n] \o seqs[n + 1]
    BY <2>1, <2>4, <2>5, Zenon
  <2> QED BY <2>1, <2>2, <2>6
<1>7. 0 .. size \subseteq T
  <2> HIDE DEF T, size
  <2> QED BY <1>0, <1>5, <1>6, UpToByStep
<1>8. ComputeParamOffsets(params) = FlattenSeq(seqs)
  <2>1. ComputeParamOffsets(params) = r[size]
    BY DEF ComputeParamOffsets, Results, r
  <2>2. r[size] = Joins(seqs)[size]
    BY <1>0, <1>7
  <2>3. FlattenSeq(seqs) = Joins(seqs)[Len(seqs)]
    BY <1>4, FlattenIsJoins
  <2> QED BY <1>4, <2>1, <2>2, <2>3
<1>9. /\ sizes \in Seq(Nat) /\ Len(sizes) = size
      /\ \A i \in 1 .. size : sizes[i] = Len(FlatParam[params[i]])
  <2>1. \A i \in DOMAIN params : FlatParam[params[i]] \in Seq(Flat) \ {<<>>}
    BY FlatFacts
  <2> QED BY <2>1, FieldsOfFacts
<1> HIDE DEF sizes, size
<1>10. \A i \in 1 .. Len(seqs) : sizes[i] = Len(seqs[i])
  BY <1>2, <1>4, <1>9
<1>11. Len(sizes) = Len(seqs) /\ seqs \in Seq(Seq(Flat)) /\ sizes \in Seq(Nat)
  BY <1>4, <1>9
<1>12. /\ FlattenSeq(seqs) \in Seq(Flat)
       /\ Len(FlattenSeq(seqs)) = Sums(sizes)[Len(seqs)]
       /\ \A i \in 1 .. Len(seqs) : \A k \in 1 .. sizes[i] :
             /\ Sums(sizes)[i - 1] + k \in 1 .. Len(FlattenSeq(seqs))
             /\ FlattenSeq(seqs)[Sums(sizes)[i - 1] + k] = seqs[i][k]
       /\ \A n \in 1 .. Len(FlattenSeq(seqs)) :
             \E i \in 1 .. Len(seqs) : \E k \in 1 .. sizes[i] : n = Sums(sizes)[i - 1] + k
  BY <1>10, <1>11, FlattenPositions, ZenonT(60)
<1> DEFINE inputs == FlattenSeq(seqs)
           sums == Sums(sizes)
<1> HIDE DEF inputs, sums
<1>13. /\ inputs \in Seq(Flat)
       /\ Len(inputs) = sums[size]
       /\ \A i \in 1 .. size : \A k \in 1 .. sizes[i] :
             /\ sums[i - 1] + k \in 1 .. Len(inputs)
             /\ inputs[sums[i - 1] + k] = seqs[i][k]
       /\ \A n \in 1 .. Len(inputs) :
             \E i \in 1 .. size : \E k \in 1 .. sizes[i] : n = sums[i - 1] + k
  BY <1>4, <1>12, Zenon DEF inputs, sums
<1>14. ASSUME NEW i \in 1 .. size, NEW k \in 1 .. Len(FlatParam[params[i]])
       PROVE  /\ sums[i - 1] + k \in 1 .. Len(inputs)
              /\ inputs[sums[i - 1] + k].path = FlatParam[params[i]][k].path
              /\ inputs[sums[i - 1] + k].type = FlatParam[params[i]][k].type
              /\ inputs[sums[i - 1] + k].dynamic = FlatParam[params[i]][k].dynamic
  <2>1. k \in 1 .. sizes[i]
    BY <1>9
  <2>2. sums[i - 1] + k \in 1 .. Len(inputs) /\ inputs[sums[i - 1] + k] = seqs[i][k]
    BY <1>13, <2>1
  <2> QED BY <1>2, <2>2
<1>15. \A n \in 1 .. Len(inputs) : \E i \in 1 .. size :
           \E k \in 1 .. Len(FlatParam[params[i]]) : n = sums[i - 1] + k
  <2> SUFFICES ASSUME NEW n \in 1 .. Len(inputs)
               PROVE  \E i \in 1 .. size : \E k \in 1 .. Len(FlatParam[params[i]]) : n = sums[i - 1] + k
    OBVIOUS
  <2>1. PICK i \in 1 .. size : \E k \in 1 .. sizes[i] : n = sums[i - 1] + k
    BY <1>13
  <2>2. \E k \in 1 .. Len(FlatParam[params[i]]) : n = sums[i - 1] + k
    BY <1>9, <2>1
  <2> QED BY <2>2
<1>16. ComputeParamOffsets(params) = inputs /\ Sums(FieldsOf(params)) = sums
  BY <1>8 DEF inputs, sums, sizes
<1> QED BY <1>13, <1>14, <1>15, <1>16, Zenon DEF size

\* Where every parameter is even, an input has the offset of its place.
LEMMA EvenOffsets ==
    ASSUME NEW params \in Seq(Param), \A i \in 1 .. Len(params) : Even(params[i])
    PROVE  \A n \in 1 .. Len(ComputeParamOffsets(params)) :
               ComputeParamOffsets(params)[n].offset = n - 1
<1> DEFINE size == Len(params)
           r == Results(params)
           InPlace(fields) == \A m \in 1 .. Len(fields) : fields[m].offset = m - 1 /\ fields[m].size = 1
           T == {n \in 0 .. size : InPlace(r[n])}
<1>0. size \in Nat
  OBVIOUS
<1>1. /\ r[0] = <<>>
      /\ \A n \in 1 .. size : r[n] = r[n - 1] \o ParseParam(params[n], EndOf(r[n - 1]))
      /\ \A n \in 0 .. size : r[n] \in Seq(Flat)
  BY ResultsStep
<1>2. ComputeParamOffsets(params) = r[size]
  BY DEF ComputeParamOffsets, Results
<1> HIDE DEF r
<1>3. 0 \in T
  BY <1>0, <1>1
<1>4. ASSUME NEW n \in 0 .. size - 1, n \in T PROVE n + 1 \in T
  <2>1. n + 1 \in 1 .. size /\ n + 1 \in 0 .. size /\ (n + 1) - 1 = n /\ n \in 0 .. size
    BY <1>0
  <2> DEFINE done == r[n]
             p == params[n + 1]
             base == EndOf(done)
             more == ParseParam(p, base)
  <2>2. done \in Seq(Flat) /\ InPlace(done)
    BY <1>1, <1>4, <2>1
  <2>3. p \in Param /\ Even(p)
    BY <2>1
  <2>4. r[n + 1] = done \o more
    BY <1>1, <2>1
  <2> HIDE DEF done, p, more
  <2>5. base = Len(done) /\ Len(done) \in Nat
    <3>1. CASE done = <<>>
      BY <3>1 DEF EndOf
    <3>2. CASE done # <<>>
      <4>1. Len(done) \in 1 .. Len(done)
        BY <2>2, <3>2
      <4>2. done[Len(done)].offset = Len(done) - 1 /\ done[Len(done)].size = 1
        BY <2>2, <4>1
      <4>3. base = done[Len(done)].offset + done[Len(done)].size
        BY <2>2, <3>2, EndFacts
      <4> QED BY <4>1, <4>2, <4>3
    <3> QED BY <3>1, <3>2
  <2> HIDE DEF base
  <2>6. /\ more \in Seq(Flat) /\ Len(more) = Len(FlatParam[p])
        /\ \A k \in 1 .. Len(FlatParam[p]) :
              /\ more[k].offset = base + FlatParam[p][k].offset
              /\ more[k].size = FlatParam[p][k].size
    BY <2>3, <2>5, ParseParamFacts DEF more
  <2>7. \A k \in 1 .. Len(more) : more[k].offset = Len(done) + (k - 1) /\ more[k].size = 1
    BY <2>3, <2>5, <2>6 DEF Even
  <2>8. /\ Len(done \o more) = Len(done) + Len(more) /\ Len(more) \in Nat
        /\ \A k \in 1 .. Len(done) : (done \o more)[k] = done[k]
        /\ \A k \in 1 .. Len(more) : (done \o more)[Len(done) + k] = more[k]
    <3>1. done \in Seq(Flat) /\ more \in Seq(Flat)
      BY <2>2, <2>6
    <3> QED BY <3>1, ConcatFacts, SMTT(30)
  <2>9. ASSUME NEW m \in 1 .. Len(done \o more)
        PROVE  (done \o more)[m].offset = m - 1 /\ (done \o more)[m].size = 1
    <3>1. CASE m <= Len(done)
      <4>1. m \in 1 .. Len(done)
        BY <2>5, <2>8, <3>1
      <4> QED BY <2>2, <2>8, <4>1
    <3>2. CASE m > Len(done)
      <4> DEFINE k == m - Len(done)
      <4>1. k \in 1 .. Len(more) /\ Len(done) + k = m /\ Len(done) + (k - 1) = m - 1
        BY <2>5, <2>8, <3>2
      <4> HIDE DEF k
      <4>2. (done \o more)[m] = more[k]
        BY <2>8, <4>1
      <4> QED BY <2>7, <4>1, <4>2
    <3> QED BY <2>5, <2>8, <3>1, <3>2
  <2>10. InPlace(done \o more)
    BY <2>9
  <2> HIDE DEF InPlace
  <2> QED BY <2>1, <2>4, <2>10
<1>5. 0 .. size \subseteq T
  <2> HIDE DEF T, size
  <2> QED BY <1>0, <1>3, <1>4, UpToByStep
<1>6. InPlace(r[size])
  <2>1. size \in T
    BY <1>0, <1>5
  <2> QED BY <2>1
<1> QED BY <1>2, <1>6

---------------------------------------------------------------------------
(***************************************************************************)
(* From a source to its functions.                                           *)
(***************************************************************************)
\* A filter keeps what it is to keep, and nothing else.
LEMMA OfTypesFacts ==
    ASSUME NEW S, NEW entries \in Seq(S), NEW types
    PROVE  LET kept == OfTypes(entries, types)
           IN  /\ kept \in Seq(S)
               /\ \A n \in 1 .. Len(kept) : \E i \in 1 .. Len(entries) :
                     kept[n] = entries[i] /\ entries[i].type \in types
               /\ \A i \in 1 .. Len(entries) : entries[i].type \in types =>
                     \E n \in 1 .. Len(kept) : kept[n] = entries[i]
<1> DEFINE size == Len(entries)
           seqs == [i \in 1 .. size |-> IF entries[i].type \in types THEN <<entries[i]>> ELSE <<>>]
           sizes == [i \in 1 .. size |-> IF entries[i].type \in types THEN 1 ELSE 0]
           kept == FlattenSeq(seqs)
<1>0. size \in Nat /\ DOMAIN entries = 1 .. size
  OBVIOUS
<1>1. OfTypes(entries, types) = kept
  BY <1>0 DEF OfTypes
<1>2. ASSUME NEW i \in 1 .. size
      PROVE  /\ seqs[i] \in Seq(S) /\ sizes[i] \in Nat /\ sizes[i] = Len(seqs[i])
             /\ entries[i].type \in types => sizes[i] = 1 /\ seqs[i][1] = entries[i]
             /\ entries[i].type \notin types => sizes[i] = 0
  <2> DEFINE e == entries[i]
  <2>1. e \in S
    OBVIOUS
  <2>2. /\ seqs[i] = IF e.type \in types THEN <<e>> ELSE <<>>
        /\ sizes[i] = IF e.type \in types THEN 1 ELSE 0
    OBVIOUS
  <2> HIDE DEF e, seqs, sizes
  <2>3. CASE e.type \in types
    <3>1. <<e>> \in Seq(S) /\ Len(<<e>>) = 1 /\ <<e>>[1] = e
      BY <2>1
    <3> QED BY <2>2, <2>3, <3>1 DEF e
  <2>4. CASE e.type \notin types
    <3>1. <<>> \in Seq(S) /\ Len(<<>>) = 0
      OBVIOUS
    <3> QED BY <2>2, <2>4, <3>1 DEF e
  <2> QED BY <2>3, <2>4
<1>3. seqs \in Seq(Seq(S)) /\ Len(seqs) = size
  <2>1. seqs = [i \in 1 .. size |-> seqs[i]]
    OBVIOUS
  <2> HIDE DEF seqs, size
  <2>2. seqs \in [1 .. size -> Seq(S)]
    BY <1>2, <2>1
  <2> QED BY <1>0, <2>2
<1>4. sizes \in Seq(Nat) /\ Len(sizes) = size
  <2>1. sizes = [i \in 1 .. size |-> sizes[i]]
    OBVIOUS
  <2> HIDE DEF sizes, size
  <2>2. sizes \in [1 .. size -> Nat]
    BY <1>2, <2>1
  <2> QED BY <1>0, <2>2
<1> HIDE DEF seqs, sizes, size
<1>5. \A i \in 1 .. Len(seqs) : sizes[i] = Len(seqs[i])
  BY <1>2, <1>3
<1>6. Len(sizes) = Len(seqs)
  BY <1>3, <1>4
<1>7. /\ FlattenSeq(seqs) \in Seq(S)
      /\ Len(FlattenSeq(seqs)) = Sums(sizes)[Len(seqs)]
      /\ \A i \in 1 .. Len(seqs) : \A k \in 1 .. sizes[i] :
            /\ Sums(sizes)[i - 1] + k \in 1 .. Len(FlattenSeq(seqs))
            /\ FlattenSeq(seqs)[Sums(sizes)[i - 1] + k] = seqs[i][k]
      /\ \A n \in 1 .. Len(FlattenSeq(seqs)) :
            \E i \in 1 .. Len(seqs) : \E k \in 1 .. sizes[i] : n = Sums(sizes)[i - 1] + k
  BY <1>3, <1>4, <1>5, <1>6, FlattenPositions, ZenonT(60)
<1> DEFINE sums == Sums(sizes)
<1> HIDE DEF kept, sums
<1>8. /\ kept \in Seq(S)
      /\ \A i \in 1 .. size : \A k \in 1 .. sizes[i] :
            sums[i - 1] + k \in 1 .. Len(kept) /\ kept[sums[i - 1] + k] = seqs[i][k]
      /\ \A n \in 1 .. Len(kept) :
            \E i \in 1 .. size : \E k \in 1 .. sizes[i] : n = sums[i - 1] + k
  BY <1>3, <1>7, Zenon DEF kept, sums
<1>9. ASSUME NEW n \in 1 .. Len(kept)
      PROVE  \E i \in 1 .. size : kept[n] = entries[i] /\ entries[i].type \in types
  <2>1. PICK i \in 1 .. size : \E k \in 1 .. sizes[i] : n = sums[i - 1] + k
    BY <1>8
  <2>2. PICK k \in 1 .. sizes[i] : n = sums[i - 1] + k
    BY <2>1
  <2>3. kept[n] = seqs[i][k]
    BY <1>8, <2>2
  <2>4. entries[i].type \in types
    <3>1. sizes[i] # 0
      OBVIOUS
    <3> QED BY <1>2, <3>1
  <2>5. sizes[i] = 1 /\ seqs[i][1] = entries[i]
    BY <1>2, <2>4
  <2>6. k = 1
    BY <2>5
  <2> QED BY <2>3, <2>4, <2>5, <2>6
<1>10. ASSUME NEW i \in 1 .. size, entries[i].type \in types
       PROVE  \E n \in 1 .. Len(kept) : kept[n] = entries[i]
  <2>1. sizes[i] = 1 /\ seqs[i][1] = entries[i]
    BY <1>2, <1>10
  <2>2. 1 \in 1 .. sizes[i]
    BY <2>1
  <2>3. sums[i - 1] + 1 \in 1 .. Len(kept) /\ kept[sums[i - 1] + 1] = entries[i]
    BY <1>8, <2>1, <2>2
  <2> QED BY <2>3
<1> QED BY <1>1, <1>8, <1>9, <1>10, Zenon DEF size

ProperStructs(structs) == structs \in Seq(Struct) /\ DistinctNames(structs)

LEMMA StructFacts ==
    ASSUME NEW structs, ProperStructs(structs)
    PROVE  /\ \A i \in DOMAIN structs :
                 /\ StructType(structs[i]) \in Param
                 /\ structs[i].name \notin BuiltIn \cup DOMAIN Alias
                 /\ structs[i].fields # <<>>
           /\ \A i, j \in DOMAIN structs : structs[i].name = structs[j].name => i = j
           /\ Len(structs) \in Nat /\ DOMAIN structs = 1 .. Len(structs)
<1>1. ASSUME NEW i \in DOMAIN structs
      PROVE  /\ StructType(structs[i]) \in Param
             /\ structs[i].name \notin BuiltIn \cup DOMAIN Alias
             /\ structs[i].fields # <<>>
  <2> DEFINE struct == structs[i]
  <2>1. struct \in Struct
    BY DEF ProperStructs
  <2> HIDE DEF struct
  <2>2. /\ StructType(struct) \in Param
        /\ struct \in [name : STRING \ (BuiltIn \cup DOMAIN Alias), fields : Seq(Param) \ {<<>>}]
    BY <2>1 DEF Struct
  <2> QED BY <2>2 DEF struct
<1> QED BY <1>1 DEF ProperStructs, DistinctNames

\* The structs of a source, and what else is known of it.
LEMMA SourceFacts ==
    ASSUME NEW source \in Source \cup {NoSource}
    PROVE  /\ source.form \in Form
           /\ source.entries \in Seq(Entry)
           /\ source.form # "solidity" => source.structs = <<>>
           /\ source.form = "solidity" =>
                 /\ \A i \in DOMAIN source.entries : NoTuples(source.entries[i].inputs)
                 /\ \A i \in DOMAIN source.structs : NoTuples(source.structs[i].fields)
           /\ ProperStructs(source.structs)
           /\ \A i \in DOMAIN source.entries : \A n \in DOMAIN source.entries[i].inputs :
                 source.entries[i].inputs[n].type = "tuple"
                     => source.entries[i].inputs[n].components # <<>>
           /\ \A i, j \in Functions(source.entries) :
                 FunctionSelector(Declared(source.entries[i], source.structs)) =
                     FunctionSelector(Declared(source.entries[j], source.structs)) => i = j
<1>1. CASE source \in Source
  BY <1>1, ConverterAssumption, SelectorAssumption DEF ProperStructs
<1>2. CASE source = NoSource
  <2>1. source.form = "json" /\ source.entries = <<>> /\ source.structs = <<>>
    BY <1>2 DEF NoSource
  <2>2. <<>> \in Seq(Entry) /\ DOMAIN <<>> = {}
    OBVIOUS
  <2>3. ProperStructs(source.structs)
    <3>1. <<>> \in Seq(Struct)
      OBVIOUS
    <3> QED BY <2>1, <2>2, <3>1 DEF ProperStructs, DistinctNames
  <2>4. Functions(source.entries) = {}
    BY <2>1, <2>2 DEF Functions
  <2>5. source.form \in Form
    BY <2>1 DEF Form
  <2> QED BY <2>1, <2>2, <2>3, <2>4, <2>5
<1> QED BY <1>1, <1>2

LEMMA ParamShape ==
    /\ Param = ParamOver(Below(Nesting))
    /\ \A p \in Param : p = [name |-> p.name, type |-> p.type, components |-> p.components]
    /\ \A p \in Param : p.name \in STRING /\ p.type \in TypeName
    /\ \A p \in Param : p.type = "tuple" => p.components \in Fields(Below(Nesting))
    /\ \A name \in STRING, fields \in Fields(Below(Nesting)) :
          [name |-> name, type |-> "tuple", components |-> fields] \in Param
    /\ \A name \in STRING, type \in TypeName :
          [name |-> name, type |-> type, components |-> <<>>] \in Param
    /\ <<>> \in Fields(Below(Nesting))
<1> DEFINE F == Fields(Below(Nesting))
           names == STRING \ {"tuple", "tuple[]"}
           A == [name : STRING, type : names, components : {<<>>}]
           B == [name : STRING, type : {"tuple", "tuple[]"}, components : F]
<1>1. Param = A \cup B
  <2>1. Nesting \in 0 .. Nesting
    BY NestingAssumption
  <2>2. Param = ParamOver(Below(Nesting))
    BY <2>1, BelowStep
  <2> QED BY <2>2 DEF ParamOver
<1>2. Param = ParamOver(Below(Nesting))
  BY <1>1 DEF ParamOver
<1>3. <<>> \in F
  <2>1. <<>> \in Seq(Below(Nesting)) /\ DOMAIN <<>> = {}
    OBVIOUS
  <2> QED BY <2>1 DEF Fields, DistinctNames
<1> HIDE DEF F
<1>4. ASSUME NEW p \in Param
      PROVE  /\ p = [name |-> p.name, type |-> p.type, components |-> p.components]
             /\ p.name \in STRING /\ p.type \in names \cup {"tuple", "tuple[]"}
             /\ p.type = "tuple" => p.components \in F
  <2>1. CASE p \in A
    BY <2>1
  <2>2. CASE p \in B
    BY <2>2
  <2> QED BY <1>1, <2>1, <2>2
<1>5. ASSUME NEW name \in STRING, NEW fields \in F
      PROVE  [name |-> name, type |-> "tuple", components |-> fields] \in Param
  <2>1. [name |-> name, type |-> "tuple", components |-> fields] \in B
    OBVIOUS
  <2> QED BY <1>1, <2>1
<1>6. ASSUME NEW name \in STRING, NEW type \in TypeName
      PROVE  [name |-> name, type |-> type, components |-> <<>>] \in Param
  <2>1. CASE type \in {"tuple", "tuple[]"}
    <3>1. [name |-> name, type |-> type, components |-> <<>>] \in B
      BY <1>3, <2>1
    <3> QED BY <1>1, <3>1
  <2>2. CASE type \notin {"tuple", "tuple[]"}
    <3>1. type \in names
      BY <2>2 DEF TypeName
    <3> HIDE DEF names
    <3>2. [name |-> name, type |-> type, components |-> <<>>] \in A
      BY <3>1
    <3> QED BY <1>1, <3>2
  <2> QED BY <2>1, <2>2
<1>7. \A p \in Param : p.type \in TypeName
  BY <1>4 DEF TypeName
<1> HIDE DEF names, A, B
<1> QED BY <1>2, <1>3, <1>4, <1>5, <1>6, <1>7 DEF F

LEMMA RetypedParam ==
    ASSUME NEW p \in Param, NEW fields
    PROVE  /\ [p EXCEPT !.type = "tuple", !.components = fields]
                 = [name |-> p.name, type |-> "tuple", components |-> fields]
           /\ [p EXCEPT !.type = "tuple"]
                 = [name |-> p.name, type |-> "tuple", components |-> p.components]
<1> DEFINE q == [p EXCEPT !.type = "tuple"]
           B == {p.type}
           C == {p.components}
           A == {p.name}
<1>0. p \in [name : A, type : B, components : C]
  <2>1. p = [name |-> p.name, type |-> p.type, components |-> p.components]
    BY ParamShape
  <2> QED BY <2>1
<1> HIDE DEF A, B, C
<1>1. q = [name |-> p.name, type |-> "tuple", components |-> p.components]
  BY <1>0
<1>2. [p EXCEPT !.type = "tuple", !.components = fields] = [q EXCEPT !.components = fields]
  BY Zenon
<1> HIDE DEF q
<1>3. q \in [name : A, type : {"tuple"}, components : C]
  BY <1>0, <1>1
<1>4. [q EXCEPT !.components = fields] = [name |-> q.name, type |-> q.type, components |-> fields]
  BY <1>3
<1>5. q.name = p.name /\ q.type = "tuple"
  BY <1>1
<1> DEFINE other == [q EXCEPT !.components = fields]
<1>6. other = [name |-> p.name, type |-> "tuple", components |-> fields]
  BY <1>4, <1>5, Zenon
<1> HIDE DEF other
<1>7. [p EXCEPT !.type = "tuple", !.components = fields] = other
  BY <1>2, Zenon DEF other
<1> QED BY <1>1, <1>6, <1>7, Zenon DEF q

\* A parameter of the Solidity parser is one.
LEMMA ParsedParam ==
    ASSUME NEW p \in Param, NEW structs, ProperStructs(structs)
    PROVE  ParseSolidityParam(p, structs) \in Param
<1>1. p = [name |-> p.name, type |-> p.type, components |-> p.components] /\ p.name \in STRING
  BY ParamShape
<1>2. ASSUME NEW fields \in Fields(Below(Nesting))
      PROVE  [p EXCEPT !.type = "tuple", !.components = fields] \in Param
  <2> DEFINE q == [name |-> p.name, type |-> "tuple", components |-> fields]
  <2>1. [p EXCEPT !.type = "tuple", !.components = fields] = q
    BY RetypedParam, Zenon
  <2>2. q \in Param
    BY <1>1, ParamShape
  <2> QED BY <2>1, <2>2
<1>3. CASE \E s \in DOMAIN structs : structs[s].name = p.type
  <2> DEFINE s == CHOOSE s \in DOMAIN structs :
                     /\ structs[s].name = p.type
                     /\ \A t \in 1 .. s - 1 : structs[t].name # p.type
             named == {t \in DOMAIN structs : structs[t].name = p.type}
  <2>1. ParseSolidityParam(p, structs) = [p EXCEPT !.type = "tuple", !.components = structs[s].fields]
    BY <1>3, Zenon DEF ParseSolidityParam
  <2>2. \E t \in DOMAIN structs : /\ structs[t].name = p.type
                                  /\ \A u \in 1 .. t - 1 : structs[u].name # p.type
    <3>1. PICK t \in DOMAIN structs : structs[t].name = p.type
      BY <1>3
    <3>2. ASSUME NEW u \in 1 .. t - 1 PROVE structs[u].name # p.type
      <4>1. u \in DOMAIN structs /\ u # t
        BY StructFacts
      <4> QED BY <3>1, <4>1, StructFacts
    <3> QED BY <3>1, <3>2
  <2>3. s \in DOMAIN structs
    <3> HIDE DEF s
    <3> QED BY <2>2 DEF s
  <2> HIDE DEF s
  <2> DEFINE struct == StructType(structs[s])
  <2>4. struct \in Param /\ struct.type = "tuple" /\ struct.components = structs[s].fields
    BY <2>3, StructFacts DEF StructType
  <2>5. structs[s].fields \in Fields(Below(Nesting))
    <3> HIDE DEF struct
    <3> QED BY <2>4, ParamShape
  <2> QED BY <1>2, <2>1, <2>5
<1>4. CASE ~\E s \in DOMAIN structs : structs[s].name = p.type
  <2>1. CASE p.type \in Qualified
    <3>1. p.components = <<>>
      <4>1. p.type \notin {"tuple", "tuple[]"}
        BY <2>1, ConverterAssumption DEF BuiltIn
      <4> QED BY <4>1, ParamFacts
    <3>2. [p EXCEPT !.type = "tuple"] = [p EXCEPT !.type = "tuple", !.components = <<>>]
      BY <3>1, RetypedParam, Zenon
    <3>3. ParseSolidityParam(p, structs) = [p EXCEPT !.type = "tuple"]
      BY <1>4, <2>1, Zenon DEF ParseSolidityParam
    <3>4. <<>> \in Fields(Below(Nesting))
      BY ParamShape
    <3> QED BY <1>2, <3>2, <3>3, <3>4, Zenon
  <2>2. CASE p.type \notin Qualified
    BY <1>4, <2>2 DEF ParseSolidityParam
  <2> QED BY <2>1, <2>2
<1> QED BY <1>3, <1>4

\* The same for the sets of what is in the sequences.
LEMMA OfTypesSet ==
    ASSUME NEW S, NEW entries \in Seq(S), NEW types
    PROVE  /\ OfTypes(entries, types) \in Seq(S)
           /\ ToSet(OfTypes(entries, types)) = {e \in ToSet(entries) : e.type \in types}
<1> DEFINE kept == OfTypes(entries, types)
<1> HIDE DEF kept
<1>1. /\ kept \in Seq(S)
      /\ \A n \in 1 .. Len(kept) : \E i \in 1 .. Len(entries) :
            kept[n] = entries[i] /\ entries[i].type \in types
      /\ \A i \in 1 .. Len(entries) : entries[i].type \in types =>
            \E n \in 1 .. Len(kept) : kept[n] = entries[i]
  BY OfTypesFacts, SMTT(30) DEF kept
<1>2. DOMAIN kept = 1 .. Len(kept) /\ DOMAIN entries = 1 .. Len(entries)
  BY <1>1
<1>3. \A e \in ToSet(kept) : e \in ToSet(entries) /\ e.type \in types
  BY <1>1, <1>2 DEF ToSet
<1>4. ASSUME NEW e \in ToSet(entries), e.type \in types PROVE e \in ToSet(kept)
  <2>1. PICK i \in 1 .. Len(entries) : e = entries[i]
    BY <1>2 DEF ToSet
  <2>2. PICK n \in 1 .. Len(kept) : kept[n] = entries[i]
    BY <1>1, <1>4, <2>1
  <2> QED BY <1>2, <2>1, <2>2 DEF ToSet
<1>5. ToSet(kept) = {e \in ToSet(entries) : e.type \in types}
  BY <1>3, <1>4
<1> QED BY <1>1, <1>5 DEF kept

LEMMA EntryShape ==
    ASSUME NEW e \in Entry
    PROVE  /\ e = [type |-> e.type, name |-> e.name, inputs |-> e.inputs]
           /\ e.type \in EntryType /\ e.name \in STRING /\ e.inputs \in Seq(Param)
           /\ \A inputs : [e EXCEPT !.inputs = inputs]
                             = [type |-> e.type, name |-> e.name, inputs |-> inputs]
<1> DEFINE kinds == EntryType
           lists == Seq(Param)
<1> HIDE DEF kinds, lists
<1>1. e \in [type : kinds, name : STRING, inputs : lists]
  BY DEF Entry, kinds, lists
<1>2. /\ e = [type |-> e.type, name |-> e.name, inputs |-> e.inputs]
      /\ e.type \in kinds /\ e.name \in STRING /\ e.inputs \in lists
  BY <1>1
<1>3. ASSUME NEW inputs
      PROVE  [e EXCEPT !.inputs = inputs] = [type |-> e.type, name |-> e.name, inputs |-> inputs]
  BY <1>1
<1> QED BY <1>2, <1>3, Zenon DEF kinds, lists

\* An entry of the Solidity parser is one.
LEMMA ParsedEntry ==
    ASSUME NEW e \in Entry, NEW structs, ProperStructs(structs)
    PROVE  LET parsedEntry == ParseEntry(e, structs)
           IN  /\ parsedEntry \in Entry
               /\ parsedEntry.type = e.type /\ parsedEntry.name = e.name
               /\ e.type = "function" =>
                     parsedEntry.inputs =
                        [i \in DOMAIN e.inputs |-> ParseSolidityParam(e.inputs[i], structs)]
<1> DEFINE seen == IF e.type = "function" THEN structs ELSE <<>>
           inputs == [i \in DOMAIN e.inputs |-> ParseSolidityParam(e.inputs[i], seen)]
           size == Len(e.inputs)
<1>1. ProperStructs(seen)
  <2>1. <<>> \in Seq(Struct) /\ DistinctNames(<<>>)
    BY DEF DistinctNames
  <2> QED BY <2>1 DEF ProperStructs
<1> HIDE DEF seen
<1>2. e.inputs \in Seq(Param) /\ size \in Nat /\ DOMAIN e.inputs = 1 .. size
  BY EntryShape
<1>3. \A i \in 1 .. size : inputs[i] \in Param
  <2> SUFFICES ASSUME NEW i \in 1 .. size PROVE inputs[i] \in Param
    OBVIOUS
  <2>1. e.inputs[i] \in Param /\ inputs[i] = ParseSolidityParam(e.inputs[i], seen)
    BY <1>2
  <2> HIDE DEF inputs
  <2> QED BY <1>1, <2>1, ParsedParam
<1>4. inputs \in Seq(Param)
  <2>1. inputs = [i \in 1 .. size |-> inputs[i]]
    BY <1>2
  <2> HIDE DEF inputs, size
  <2>2. inputs \in [1 .. size -> Param]
    BY <1>3, <2>1
  <2> QED BY <1>2, <2>2
<1>5. e.type = "function" => inputs =
          [i \in DOMAIN e.inputs |-> ParseSolidityParam(e.inputs[i], structs)]
  BY DEF seen
<1>6. ParseEntry(e, structs) = [e EXCEPT !.inputs = inputs]
  BY DEF ParseEntry, seen
<1> HIDE DEF inputs
<1> DEFINE new == [type |-> e.type, name |-> e.name, inputs |-> inputs]
<1>7. ParseEntry(e, structs) = new
  BY <1>6, EntryShape, Zenon
<1>8. new \in Entry
  BY <1>4, EntryShape DEF Entry
<1>9. new.type = e.type /\ new.name = e.name /\ new.inputs = inputs
  OBVIOUS
<1> HIDE DEF new
<1> QED BY <1>5, <1>7, <1>8, <1>9

\* A parser that takes one entry after the other.
LEMMA ParsedEach ==
    ASSUME NEW entries \in Seq(Entry), NEW structs, ProperStructs(structs)
    PROVE  LET each == [i \in DOMAIN entries |-> ParseEntry(entries[i], structs)]
           IN  /\ each \in Seq(Entry)
               /\ ToSet(each) = {ParseEntry(e, structs) : e \in ToSet(entries)}
<1> DEFINE each == [i \in DOMAIN entries |-> ParseEntry(entries[i], structs)]
           size == Len(entries)
<1>1. size \in Nat /\ DOMAIN entries = 1 .. size
  OBVIOUS
<1>2. \A i \in 1 .. size : each[i] = ParseEntry(entries[i], structs) /\ each[i] \in Entry
  <2> SUFFICES ASSUME NEW i \in 1 .. size
               PROVE  each[i] = ParseEntry(entries[i], structs) /\ each[i] \in Entry
    OBVIOUS
  <2>1. entries[i] \in Entry /\ each[i] = ParseEntry(entries[i], structs)
    BY <1>1
  <2>2. ParseEntry(entries[i], structs) \in Entry
    BY <2>1, ParsedEntry
  <2> QED BY <2>1, <2>2, Zenon
<1>3. each = [i \in 1 .. size |-> each[i]] /\ DOMAIN each = 1 .. size
  BY <1>1
<1> HIDE DEF each, size
<1>4. each \in Seq(Entry)
  <2>1. each \in [1 .. size -> Entry]
    BY <1>2, <1>3
  <2> QED BY <1>1, <2>1
<1>5. ToSet(each) = {ParseEntry(e, structs) : e \in ToSet(entries)}
  BY <1>1, <1>2, <1>3 DEF ToSet
<1> QED BY <1>4, <1>5 DEF each

LEMMA ConcatSet ==
    ASSUME NEW S, NEW s \in Seq(S), NEW t \in Seq(S)
    PROVE  s \o t \in Seq(S) /\ ToSet(s \o t) = ToSet(s) \cup ToSet(t)
<1>1. /\ s \o t \in Seq(S)
      /\ Len(s \o t) = Len(s) + Len(t) /\ Len(s) \in Nat /\ Len(t) \in Nat
      /\ \A k \in 1 .. Len(s) : (s \o t)[k] = s[k]
      /\ \A k \in 1 .. Len(t) : (s \o t)[Len(s) + k] = t[k]
  BY ConcatFacts
<1>2. /\ DOMAIN s = 1 .. Len(s) /\ DOMAIN t = 1 .. Len(t) /\ DOMAIN (s \o t) = 1 .. Len(s \o t)
  BY <1>1
<1> DEFINE u == s \o t
           m == Len(s)
           n == Len(t)
<1>3. /\ u \in Seq(S) /\ DOMAIN u = 1 .. m + n /\ m \in Nat /\ n \in Nat
      /\ \A k \in 1 .. m : u[k] = s[k]
      /\ \A k \in 1 .. n : u[m + k] = t[k]
      /\ DOMAIN s = 1 .. m /\ DOMAIN t = 1 .. n
  BY <1>1, <1>2
<1> HIDE DEF u, m, n
<1>4. ASSUME NEW x \in ToSet(u) PROVE x \in ToSet(s) \cup ToSet(t)
  <2>1. PICK k \in 1 .. m + n : x = u[k]
    BY <1>3 DEF ToSet
  <2>2. CASE k <= m
    <3>1. k \in 1 .. m
      BY <1>3, <2>2
    <3> QED BY <1>3, <2>1, <3>1 DEF ToSet
  <2>3. CASE k > m
    <3>1. k - m \in 1 .. n /\ m + (k - m) = k
      BY <1>3, <2>3
    <3>2. x = t[k - m]
      BY <1>3, <2>1, <3>1
    <3> QED BY <1>3, <3>1, <3>2 DEF ToSet
  <2> QED BY <1>3, <2>2, <2>3
<1>5. ASSUME NEW x \in ToSet(s) PROVE x \in ToSet(u)
  <2>1. PICK k \in 1 .. m : x = s[k]
    BY <1>3 DEF ToSet
  <2>2. k \in 1 .. m + n
    BY <1>3
  <2> QED BY <1>3, <2>1, <2>2 DEF ToSet
<1>6. ASSUME NEW x \in ToSet(t) PROVE x \in ToSet(u)
  <2>1. PICK k \in 1 .. n : x = t[k]
    BY <1>3 DEF ToSet
  <2>2. m + k \in 1 .. m + n /\ u[m + k] = x
    BY <1>3, <2>1
  <2> QED BY <1>3, <2>2 DEF ToSet
<1> QED BY <1>3, <1>4, <1>5, <1>6 DEF u

\* How an entry of a source is parsed.
AsParsed(e, source) == IF source.form = "json" THEN e ELSE ParseEntry(e, source.structs)

FunctionsOf(entries) == {e \in ToSet(entries) : e.type = "function"}

\* Whatever the form of a source, its functions are parsed, and nothing else is
\* a function.
LEMMA EntriesOfFacts ==
    ASSUME NEW source \in Source \cup {NoSource}
    PROVE  /\ EntriesOf(source) \in Seq(Entry)
           /\ FunctionsOf(EntriesOf(source)) =
                 {AsParsed(e, source) : e \in FunctionsOf(source.entries)}
<1> DEFINE entries == source.entries
           structs == source.structs
<1>1. /\ source.form \in {"json", "lines", "solidity"} /\ entries \in Seq(Entry)
      /\ source.form # "solidity" => structs = <<>>
      /\ ProperStructs(structs)
  BY SourceFacts DEF Form
<1>2. \A e \in ToSet(entries) : e \in Entry
  BY <1>1 DEF ToSet
<1> HIDE DEF entries, structs
<1>3. ASSUME NEW e \in ToSet(entries)
      PROVE  ParseEntry(e, structs) \in Entry /\ ParseEntry(e, structs).type = e.type
  BY <1>1, <1>2, ParsedEntry
<1>4. \A types : /\ OfTypes(entries, types) \in Seq(Entry)
                 /\ ToSet(OfTypes(entries, types)) = {e \in ToSet(entries) : e.type \in types}
  BY <1>1, OfTypesSet
<1>5. CASE source.form = "json"
  <2>1. EntriesOf(source) = OfTypes(entries, Kinds)
    BY <1>5 DEF EntriesOf, NormalizeABI, entries
  <2>2. FunctionsOf(OfTypes(entries, Kinds)) = FunctionsOf(entries)
    BY <1>4 DEF FunctionsOf, Kinds
  <2>3. {AsParsed(e, source) : e \in FunctionsOf(entries)} = FunctionsOf(entries)
    BY <1>5 DEF AsParsed
  <2> QED BY <1>4, <2>1, <2>2, <2>3 DEF entries
<1>6. CASE source.form = "lines"
  <2> DEFINE lines == OfTypes(entries, Kinds \ {"constructor"})
             each == [i \in DOMAIN lines |-> ParseEntry(lines[i], structs)]
  <2>1. EntriesOf(source) = each
    <3>1. structs = <<>>
      BY <1>1, <1>6
    <3>2. EntriesOf(source) = ParseHumanReadableABI(source)
      BY <1>6 DEF EntriesOf
    <3> QED BY <3>1, <3>2 DEF ParseHumanReadableABI, entries
  <2>2. lines \in Seq(Entry) /\ ToSet(lines) = {e \in ToSet(entries) : e.type \in Kinds \ {"constructor"}}
    BY <1>4
  <2> HIDE DEF lines
  <2>3. each \in Seq(Entry) /\ ToSet(each) = {ParseEntry(e, structs) : e \in ToSet(lines)}
    BY <1>1, <2>2, ParsedEach
  <2> HIDE DEF each
  <2>4. FunctionsOf(each) = {ParseEntry(e, structs) : e \in FunctionsOf(entries)}
    <3>1. ASSUME NEW f \in FunctionsOf(each)
          PROVE  \E e \in FunctionsOf(entries) : f = ParseEntry(e, structs)
      <4>1. PICK e \in ToSet(lines) : f = ParseEntry(e, structs)
        BY <2>3 DEF FunctionsOf
      <4>2. e \in ToSet(entries)
        BY <2>2
      <4>3. f.type = "function" /\ f.type = e.type
        BY <1>3, <4>1, <4>2 DEF FunctionsOf
      <4> QED BY <4>1, <4>2, <4>3 DEF FunctionsOf
    <3>2. ASSUME NEW e \in FunctionsOf(entries) PROVE ParseEntry(e, structs) \in FunctionsOf(each)
      <4>1. e \in ToSet(entries) /\ e.type = "function"
        BY DEF FunctionsOf
      <4>2. e \in ToSet(lines)
        BY <2>2, <4>1 DEF Kinds
      <4>3. ParseEntry(e, structs).type = "function"
        BY <1>3, <4>1
      <4> QED BY <2>3, <4>2, <4>3 DEF FunctionsOf
    <3> QED BY <3>1, <3>2
  <2>5. \A e : AsParsed(e, source) = ParseEntry(e, structs)
    BY <1>6 DEF AsParsed, structs
  <2> QED BY <2>1, <2>3, <2>4, <2>5 DEF entries
<1>7. CASE source.form = "solidity"
  <2> DEFINE those(type) == OfTypes(entries, {type})
             Of(type) == [i \in DOMAIN those(type) |-> ParseEntry(those(type)[i], structs)]
             all == Of("function") \o Of("event") \o Of("error")
  <2>1. EntriesOf(source) = all
    BY <1>7 DEF EntriesOf, ExtractABI, OfType, entries, structs
  <2>2. ASSUME NEW type
        PROVE  /\ Of(type) \in Seq(Entry)
               /\ ToSet(Of(type)) = {ParseEntry(e, structs) : e \in {x \in ToSet(entries) : x.type = type}}
    <3>1. those(type) \in Seq(Entry) /\ ToSet(those(type)) = {e \in ToSet(entries) : e.type = type}
      <4>1. \A e : e.type \in {type} <=> e.type = type
        OBVIOUS
      <4> QED BY <1>4, <4>1
    <3> HIDE DEF those
    <3>2. Of(type) \in Seq(Entry) /\ ToSet(Of(type)) = {ParseEntry(e, structs) : e \in ToSet(those(type))}
      BY <1>1, <3>1, ParsedEach
    <3> HIDE DEF Of
    <3> QED BY <3>1, <3>2, Zenon
  <2> HIDE DEF Of
  <2>3. all \in Seq(Entry)
        /\ ToSet(all) = ToSet(Of("function")) \cup ToSet(Of("event")) \cup ToSet(Of("error"))
    <3>1. /\ Of("function") \o Of("event") \in Seq(Entry)
          /\ ToSet(Of("function") \o Of("event")) = ToSet(Of("function")) \cup ToSet(Of("event"))
      BY <2>2, ConcatSet
    <3> DEFINE two == Of("function") \o Of("event")
               last == Of("error")
    <3>2. two \in Seq(Entry) /\ last \in Seq(Entry)
      BY <2>2, <3>1
    <3> HIDE DEF two, last
    <3>3. two \o last \in Seq(Entry) /\ ToSet(two \o last) = ToSet(two) \cup ToSet(last)
      BY <3>2, ConcatSet
    <3> QED BY <3>1, <3>3 DEF two, last
  <2> HIDE DEF all
  <2>4. FunctionsOf(all) = {ParseEntry(e, structs) : e \in FunctionsOf(entries)}
    <3>1. ASSUME NEW f \in FunctionsOf(all)
          PROVE  \E e \in FunctionsOf(entries) : f = ParseEntry(e, structs)
      <4>1. f \in ToSet(all) /\ f.type = "function"
        BY DEF FunctionsOf
      <4>2. PICK type : f \in ToSet(Of(type))
        BY <2>3, <4>1
      <4>3. PICK e \in ToSet(entries) : f = ParseEntry(e, structs)
        BY <2>2, <4>2
      <4>4. f.type = e.type
        BY <1>3, <4>3
      <4> QED BY <4>1, <4>3, <4>4 DEF FunctionsOf
    <3>2. ASSUME NEW e \in FunctionsOf(entries) PROVE ParseEntry(e, structs) \in FunctionsOf(all)
      <4>1. e \in ToSet(entries) /\ e.type = "function"
        BY DEF FunctionsOf
      <4>2. ParseEntry(e, structs) \in ToSet(Of("function"))
        BY <2>2, <4>1
      <4>3. ParseEntry(e, structs).type = "function"
        BY <1>3, <4>1
      <4> QED BY <2>3, <4>2, <4>3 DEF FunctionsOf
    <3> QED BY <3>1, <3>2
  <2>5. \A e : AsParsed(e, source) = ParseEntry(e, structs)
    BY <1>7 DEF AsParsed, structs
  <2> QED BY <2>1, <2>3, <2>4, <2>5 DEF entries
<1> QED BY <1>1, <1>5, <1>6, <1>7

\* The functions of an ABI are parsed, each on its own.
LEMMA ParsedFunctions ==
    ASSUME NEW entries \in Seq(Entry), NEW source
    PROVE  LET abiParsed == ParseABI(source, entries)
           IN  /\ abiParsed.source = source
               /\ Len(abiParsed.functions) \in Nat
               /\ DOMAIN abiParsed.functions = 1 .. Len(abiParsed.functions)
               /\ ToSet(abiParsed.functions) = {ParseFunction(f) : f \in FunctionsOf(entries)}
<1> DEFINE kept == OfType(entries, "function")
           size == Len(kept)
           functions == [i \in DOMAIN kept |-> ParseFunction(kept[i])]
<1>1. ParseABI(source, entries) = [source |-> source, functions |-> functions]
  BY DEF ParseABI
<1>2. kept \in Seq(Entry) /\ ToSet(kept) = FunctionsOf(entries)
  <2>1. /\ OfTypes(entries, {"function"}) \in Seq(Entry)
        /\ ToSet(OfTypes(entries, {"function"})) = {e \in ToSet(entries) : e.type \in {"function"}}
    BY OfTypesSet
  <2>2. {e \in ToSet(entries) : e.type \in {"function"}} = FunctionsOf(entries)
    BY DEF FunctionsOf
  <2> QED BY <2>1, <2>2 DEF OfType
<1> HIDE DEF kept
<1>3. size \in Nat /\ DOMAIN kept = 1 .. size
  BY <1>2
<1>4. DOMAIN functions = 1 .. size /\ \A i \in 1 .. size : functions[i] = ParseFunction(kept[i])
  BY <1>3
<1>5. functions = [i \in 1 .. size |-> functions[i]]
  BY <1>3
<1> HIDE DEF functions, size
<1>6. Len(functions) = size
  <2>1. functions \in Seq({functions[i] : i \in 1 .. size})
    <3> DEFINE S == {functions[i] : i \in 1 .. size}
    <3>1. \A i \in 1 .. size : functions[i] \in S
      OBVIOUS
    <3> HIDE DEF S
    <3>2. functions \in [1 .. size -> S]
      BY <1>5, <3>1
    <3>3. functions \in Seq(S)
      BY <1>3, <3>2
    <3> QED BY <3>3 DEF S
  <2>2. DOMAIN functions = 1 .. Len(functions) /\ Len(functions) \in Nat
    BY <2>1
  <2>3. \A a, b \in Nat : 1 .. a = 1 .. b => a = b
    <3> SUFFICES ASSUME NEW a \in Nat, NEW b \in Nat, 1 .. a = 1 .. b PROVE a = b
      OBVIOUS
    <3>1. (a >= 1 => a \in 1 .. b) /\ (b >= 1 => b \in 1 .. a)
      OBVIOUS
    <3> QED BY <3>1
  <2> QED BY <1>3, <1>4, <2>2, <2>3
<1>7. ToSet(functions) = {ParseFunction(f) : f \in FunctionsOf(entries)}
  BY <1>2, <1>3, <1>4 DEF ToSet
<1> DEFINE abiParsed == [source |-> source, functions |-> functions]
<1>8. abiParsed.source = source /\ abiParsed.functions = functions
  OBVIOUS
<1> HIDE DEF abiParsed
<1>9. ParseABI(source, entries) = abiParsed
  BY <1>1 DEF abiParsed
<1> QED BY <1>3, <1>4, <1>6, <1>7, <1>8, <1>9

LEMMA FunctionFacts ==
    ASSUME NEW entries \in Seq(Entry), NEW f \in FunctionsOf(entries)
    PROVE  /\ f \in Entry /\ f.name \in STRING /\ f.inputs \in Seq(Param) /\ f.type = "function"
           /\ ParseFunction(f).name = f.name
           /\ ParseFunction(f).selector = ComputeSelector(f.name, f.inputs)
           /\ ParseFunction(f).inputs = ComputeParamOffsets(f.inputs)
           /\ ParseFunction(f).inputs \in Seq(Flat)
<1>1. f \in Entry /\ f.type = "function"
  <2>1. f \in ToSet(entries) /\ f.type = "function"
    BY DEF FunctionsOf
  <2>2. \A e \in ToSet(entries) : e \in Entry
    BY DEF ToSet
  <2> QED BY <2>1, <2>2
<1>2. f.name \in STRING /\ f.inputs \in Seq(Param)
  BY <1>1, EntryShape
<1>3. ComputeParamOffsets(f.inputs) \in Seq(Flat)
  BY <1>2, OffsetsFacts
<1> DEFINE selector == ComputeSelector(f.name, f.inputs)
           inputs == ComputeParamOffsets(f.inputs)
<1> HIDE DEF selector, inputs
<1>4. ParseFunction(f) = [name |-> f.name, selector |-> selector, inputs |-> inputs]
  BY DEF ParseFunction, selector, inputs
<1>5. ParseFunction(f).name = f.name /\ ParseFunction(f).selector = selector
      /\ ParseFunction(f).inputs = inputs
  BY <1>4
<1> QED BY <1>1, <1>2, <1>3, <1>5, Zenon DEF selector, inputs

\* A flattened input under its last name, as in a generated ABI.
AsInput(field) == [name |-> Last(field.path), type |-> field.type, components |-> <<>>]

LEMMA AsInputFacts ==
    ASSUME NEW field \in Flat
    PROVE  AsInput(field) \in Param
<1>1. field.path \in Seq(STRING) /\ field.path # <<>> /\ field.type \in TypeName
  BY DEF Flat
<1> DEFINE path == field.path
<1> HIDE DEF path
<1>2. path \in Seq(STRING) /\ path # <<>>
  BY <1>1 DEF path
<1>3. Len(path) \in 1 .. Len(path)
  BY <1>2
<1>4. path[Len(path)] \in STRING
  BY <1>2, <1>3
<1>5. Last(path) \in STRING
  BY <1>4 DEF Last
<1> QED BY <1>1, <1>5, ParamShape DEF AsInput, path

LEMMA AsInputsFacts ==
    ASSUME NEW fields \in Seq(Flat)
    PROVE  /\ [n \in DOMAIN fields |-> AsInput(fields[n])] \in Seq(Param)
           /\ Len([n \in DOMAIN fields |-> AsInput(fields[n])]) = Len(fields)
<1> DEFINE inputs == [n \in DOMAIN fields |-> AsInput(fields[n])]
           size == Len(fields)
<1>1. size \in Nat /\ DOMAIN fields = 1 .. size
  OBVIOUS
<1>2. \A n \in 1 .. size : inputs[n] \in Param
  <2> SUFFICES ASSUME NEW n \in 1 .. size PROVE inputs[n] \in Param
    OBVIOUS
  <2>1. fields[n] \in Flat /\ inputs[n] = AsInput(fields[n])
    BY <1>1
  <2> HIDE DEF inputs
  <2> QED BY <2>1, AsInputFacts
<1>3. inputs = [n \in 1 .. size |-> inputs[n]]
  BY <1>1
<1> HIDE DEF inputs, size
<1>4. inputs \in [1 .. size -> Param]
  BY <1>2, <1>3
<1>5. inputs \in Seq(Param) /\ Len(inputs) = size
  BY <1>1, <1>4
<1> QED BY <1>5 DEF inputs, size

\* The entries of a generated ABI.
LEMMA GeneratedEntries ==
    ASSUME NEW entries \in Seq(Entry), NEW source
    PROVE  LET functions == ParseABI(source, entries).functions
               generated == ToABIEntries(functions)
           IN  /\ generated \in Seq(Entry)
               /\ Len(generated) = Len(functions)
               /\ \A i \in 1 .. Len(functions) :
                     /\ generated[i].type = "function" /\ generated[i].name = functions[i].name
                     /\ generated[i].inputs =
                           [n \in DOMAIN functions[i].inputs |-> AsInput(functions[i].inputs[n])]
<1> DEFINE functions == ParseABI(source, entries).functions
           generated == ToABIEntries(functions)
           size == Len(functions)
           Ins(f) == [n \in DOMAIN f.inputs |-> AsInput(f.inputs[n])]
           Gen(f) == [type |-> "function", name |-> f.name, inputs |-> Ins(f)]
<1> HIDE DEF functions
<1>1. /\ size \in Nat /\ DOMAIN functions = 1 .. size
      /\ \A i \in 1 .. size : \E f \in FunctionsOf(entries) : functions[i] = ParseFunction(f)
  <2>1. /\ size \in Nat /\ DOMAIN functions = 1 .. size
        /\ ToSet(functions) = {ParseFunction(f) : f \in FunctionsOf(entries)}
    BY ParsedFunctions DEF functions
  <2> QED BY <2>1 DEF ToSet
<1>2. generated = [i \in 1 .. size |-> Gen(functions[i])]
  BY <1>1 DEF ToABIEntries, AsInput
<1>3. ASSUME NEW i \in 1 .. size
      PROVE  /\ Gen(functions[i]) \in Entry
             /\ Gen(functions[i]).type = "function" /\ Gen(functions[i]).name = functions[i].name
             /\ Gen(functions[i]).inputs = Ins(functions[i])
  <2>1. PICK f \in FunctionsOf(entries) : functions[i] = ParseFunction(f)
    BY <1>1
  <2> DEFINE g == functions[i]
  <2>2. g.name \in STRING /\ g.inputs \in Seq(Flat)
    BY <2>1, FunctionFacts
  <2>3. Ins(g) \in Seq(Param)
    BY <2>2, AsInputsFacts
  <2> HIDE DEF Ins, g
  <2>4. [type |-> "function", name |-> g.name, inputs |-> Ins(g)] \in Entry
    BY <2>2, <2>3 DEF Entry, EntryType
  <2> QED BY <2>4 DEF g
<1> HIDE DEF generated, size, Gen
<1>4. \A i \in 1 .. size : generated[i] = Gen(functions[i]) /\ generated[i] \in Entry
  BY <1>2, <1>3
<1>5. generated \in Seq(Entry) /\ Len(generated) = size
  <2>1. generated = [i \in 1 .. size |-> generated[i]]
    BY <1>2
  <2>2. generated \in [1 .. size -> Entry]
    BY <1>4, <2>1
  <2> QED BY <1>1, <2>2
<1> HIDE DEF Ins
<1>6. \A i \in 1 .. size : /\ generated[i].type = "function" /\ generated[i].name = functions[i].name
                           /\ generated[i].inputs = Ins(functions[i])
  BY <1>3, <1>4
<1> QED BY <1>5, <1>6 DEF functions, generated, size, Ins

\* What the offset of a path is.
LEMMA ResolveParamFacts ==
    ASSUME NEW func, func.inputs \in Seq(Flat), NEW path
    PROVE  /\ (\A n \in DOMAIN func.inputs : func.inputs[n].path # path) =>
                 ResolveParamOffset(func, path) = Unresolved
           /\ (\E n \in DOMAIN func.inputs : func.inputs[n].path = path) =>
                 \E n \in DOMAIN func.inputs :
                    /\ func.inputs[n].path = path
                    /\ \A m \in DOMAIN func.inputs : func.inputs[m].path = path => n <= m
                    /\ ResolveParamOffset(func, path) = func.inputs[n].offset
                    /\ ResolveParamOffset(func, path) \in Nat
           /\ ResolveParamOffset(func, path) \in Nat \cup {Unresolved}
<1> DEFINE inputs == func.inputs
           found == {n \in DOMAIN inputs : inputs[n].path = path}
           least == CHOOSE n \in found : \A m \in found : n <= m
<1>1. DOMAIN inputs = 1 .. Len(inputs) /\ Len(inputs) \in Nat
  OBVIOUS
<1>2. found \subseteq Nat
  BY <1>1
<1>3. ASSUME found # {} PROVE least \in found /\ \A m \in found : least <= m
  <2> HIDE DEF found
  <2> QED BY <1>2, <1>3, LeastFacts
<1>4. ResolveParamOffset(func, path) = IF found = {} THEN Unresolved ELSE inputs[least].offset
  BY DEF ResolveParamOffset
<1> HIDE DEF least
<1>5. CASE found = {}
  BY <1>4, <1>5
<1>6. CASE found # {}
  <2>1. least \in DOMAIN inputs /\ inputs[least].path = path
    BY <1>3, <1>6
  <2>2. \A m \in DOMAIN inputs : inputs[m].path = path => least <= m
    BY <1>3, <1>6
  <2>3. inputs[least] \in Flat
    BY <2>1
  <2>4. inputs[least].offset \in Nat
    BY <2>3 DEF Flat
  <2> QED BY <1>4, <1>6, <2>1, <2>2, <2>4
<1> QED BY <1>5, <1>6

---------------------------------------------------------------------------
(***************************************************************************)
(* The converter.                                                            *)
(***************************************************************************)
Verified == {VerifyFile(Files[i]) : i \in DOMAIN Files}

\* What is parsed is the ABI of a source, registered ABIs are ABIs, the report
\* is that of the first files, and a permission was built for the only function
\* of its name.
ConverterInv ==
    /\ BuilderInv
    /\ built # NoPermission =>
         \A i, j \in Functions(abi) :
             abi[i].name = built.of.name /\ abi[j].name = built.of.name => i = j
    /\ parsed.source \in Source \cup {NoSource}
    /\ parsed = ParseABI(parsed.source, EntriesOf(parsed.source))
    /\ DOMAIN registry \subseteq AbiName
    /\ \A name \in DOMAIN registry : registry[name] \in Seq(Entry)
    /\ report \in Seq(Verified) /\ Len(report) <= Len(Files)
    /\ \A i \in DOMAIN report : report[i] = VerifyFile(Files[i])

LEMMA SourceIsKept ==
    ASSUME NEW source \in Source \cup {NoSource}
    PROVE  ParseABI(source, EntriesOf(source)).source = source
BY EntriesOfFacts, ParsedFunctions

LEMMA ConverterStarts == ConverterInit => ConverterInv
<1> SUFFICES ASSUME ConverterInit PROVE ConverterInv
  OBVIOUS
<1>1. abi \in Seq(Entry) /\ Fresh
  BY CompilerAssumption DEF ConverterInit, Init, Fresh
<1>2. BuilderInv /\ built = NoPermission
  BY <1>1, BuilderStarts DEF Fresh
<1>3. EntriesOf(NoSource) = <<>>
  <2> DEFINE entries == OfTypes(<<>>, Kinds)
  <2>1. NoSource.form = "json" /\ NoSource.entries = <<>>
    BY DEF NoSource
  <2>2. EntriesOf(NoSource) = entries
    BY <2>1 DEF EntriesOf, NormalizeABI
  <2>3. <<>> \in Seq(Entry) /\ Len(<<>>) = 0
    OBVIOUS
  <2> HIDE DEF entries
  <2>4. entries \in Seq(Entry) /\ ToSet(entries) = {e \in ToSet(<<>>) : e.type \in Kinds}
    BY <2>3, OfTypesSet DEF entries
  <2>5. Len(entries) = 0
    <3>1. ToSet(<<>>) = {}
      BY DEF ToSet
    <3>2. DOMAIN entries = 1 .. Len(entries) /\ Len(entries) \in Nat
      BY <2>4
    <3>3. DOMAIN entries = {}
      BY <2>4, <3>1 DEF ToSet
    <3> QED BY <3>2, <3>3
  <2>6. entries = <<>>
    BY <2>4, <2>5
  <2> QED BY <2>2, <2>6
<1>4. parsed.source = NoSource /\ parsed = ParseABI(NoSource, EntriesOf(NoSource))
  <2>1. parsed = ParseABI(NoSource, EntriesOf(NoSource))
    BY <1>3 DEF ConverterInit
  <2> QED BY <2>1, SourceIsKept
<1>5. DOMAIN registry \subseteq AbiName /\ \A name \in DOMAIN registry : registry[name] \in Seq(Entry)
  <2>1. PICK name \in AbiName : registry \in [{name} -> {abi}]
    BY DEF ConverterInit
  <2>2. DOMAIN registry = {name} /\ registry[name] = abi
    BY <2>1
  <2> QED BY <1>1, <2>2
<1>6. /\ report \in Seq(Verified) /\ Len(report) <= Len(Files)
      /\ \A i \in DOMAIN report : report[i] = VerifyFile(Files[i])
  <2>1. report = <<>>
    BY DEF ConverterInit
  <2>2. Len(Files) \in Nat
    BY ConverterAssumption
  <2> QED BY <2>1, <2>2
<1> QED BY <1>2, <1>4, <1>5, <1>6 DEF ConverterInv

LEMMA BuilderRestarts == Fresh' => BuilderInv'
BY BuilderStarts, PTL

\* Of an ABI with one function of a name.
LEMMA OnlyOne ==
    ASSUME NEW entries \in Seq(Entry), NEW name, Cardinality(Matching(entries, name)) = 1
    PROVE  \A i, j \in Functions(entries) :
               entries[i].name = name /\ entries[j].name = name => i = j
<1>1. IsFiniteSet(Matching(entries, name))
  <2>1. DOMAIN entries = 1 .. Len(entries) /\ Len(entries) \in Int /\ 1 \in Int
    OBVIOUS
  <2>2. IsFiniteSet(DOMAIN entries)
    BY <2>1, FS_Interval
  <2>3. Matching(entries, name) \subseteq DOMAIN entries
    BY DEF Matching, Functions
  <2> QED BY <2>2, <2>3, FS_Subset
<1>2. PICK x : Matching(entries, name) = {x}
  BY <1>1, FS_Singleton
<1>3. \A i \in Functions(entries) : entries[i].name = name => i = x
  BY <1>2 DEF Matching
<1> QED BY <1>3

LEMMA ConverterKept ==
    ASSUME ConverterInv, UNCHANGED <<vars, converterVars>>
    PROVE  ConverterInv'
<1>1. UNCHANGED vars /\ abi' = abi /\ built' = built /\ parsed' = parsed /\ registry' = registry /\ report' = report
  BY DEF vars, converterVars
<1>2. BuilderInv'
  BY <1>1, BuilderKept DEF ConverterInv
<1> QED BY <1>1, <1>2 DEF ConverterInv, Functions

LEMMA ConverterPreserved ==
    ASSUME ConverterInv, ConverterNext
    PROVE  ConverterInv'
<1> DEFINE Only(entries, permission) ==
        permission # NoPermission =>
            \A i, j \in Functions(entries) :
                entries[i].name = permission.of.name /\ entries[j].name = permission.of.name => i = j
    SourceInv == /\ parsed.source \in Source \cup {NoSource}
                 /\ parsed = ParseABI(parsed.source, EntriesOf(parsed.source))
    RegistryInv == /\ DOMAIN registry \subseteq AbiName
                   /\ \A name \in DOMAIN registry : registry[name] \in Seq(Entry)
    ReportInv == /\ report \in Seq(Verified) /\ Len(report) <= Len(Files)
                 /\ \A i \in DOMAIN report : report[i] = VerifyFile(Files[i])
<1>0. BuilderInv /\ Only(abi, built) /\ SourceInv /\ RegistryInv /\ ReportInv
  BY DEF ConverterInv
<1>10. ASSUME BuilderInv', Only(abi', built'), SourceInv', RegistryInv', ReportInv' PROVE ConverterInv'
  BY <1>10 DEF ConverterInv
<1>11. UNCHANGED <<abi, built>> => Only(abi', built')
  BY <1>0
<1>12. (UNCHANGED parsed => SourceInv') /\ (UNCHANGED registry => RegistryInv') /\ (UNCHANGED report => ReportInv')
  BY <1>0
<1>13. UNCHANGED vars => BuilderInv' /\ UNCHANGED <<abi, built>>
  BY <1>0, BuilderKept DEF vars
<1> HIDE DEF SourceInv, RegistryInv, ReportInv
<1>1. CASE Next /\ UNCHANGED converterVars
  <2>1. BuilderInv' /\ SourceInv' /\ RegistryInv' /\ ReportInv'
    BY <1>0, <1>1, <1>12, BuilderPreserved DEF converterVars
  <2>2. Only(abi', built')
    <3> DEFINE N == Only(abi', built')
    <3>1. ASSUME NEW address \in Target, To(address) PROVE N
      BY <1>11, <3>1 DEF To
    <3>2. ASSUME NEW i \in Functions(abi), Fn(abi[i].name) PROVE N
      BY <1>11, <3>2 DEF Fn
    <3>3. ASSUME NEW path \in Path, Where(path) PROVE N
      BY <1>11, <3>3 DEF Where
    <3>4. CASE Build
      <4>1. /\ abi' = abi /\ Compiles(abi, functionName, rules)
            /\ built' = CompilePolicy(abi, target, functionName, rules)
        BY <3>4 DEF Build
      <4>2. abi \in Seq(Entry)
        BY <1>0 DEF BuilderInv
      <4>3. built'.of.name = functionName
        <5> DEFINE compiled == CompilePolicy(abi, target, functionName, rules)
        <5>1. compiled.of.name = functionName
          <6> HIDE DEF Only, N
          <6> QED BY <4>1, <4>2, CompiledFacts
        <5> HIDE DEF compiled
        <5>2. built' = compiled
          BY <4>1 DEF compiled
        <5> QED BY <5>1, <5>2
      <4>4. Cardinality(Matching(abi, functionName)) = 1
        BY <4>1 DEF Compiles
      <4>5. \A i, j \in Functions(abi) :
                abi[i].name = functionName /\ abi[j].name = functionName => i = j
        BY <4>2, <4>4, OnlyOne
      <4> QED BY <4>1, <4>3, <4>5
    <3> QED BY <1>1, <3>1, <3>2, <3>3, <3>4 DEF Next
  <2> QED BY <1>10, <2>1, <2>2
<1>2. ASSUME NEW source \in Source, Parse(source) PROVE ConverterInv'
  <2>1. /\ parsed' = ParseABI(source, EntriesOf(source))
        /\ UNCHANGED vars /\ UNCHANGED registry /\ UNCHANGED report
    BY <1>2 DEF Parse
  <2>2. parsed'.source = source
    BY <2>1, SourceIsKept
  <2>3. SourceInv'
    BY <2>1, <2>2 DEF SourceInv
  <2> QED BY <1>10, <1>11, <1>12, <1>13, <2>1, <2>3
<1>3. ASSUME NEW name \in AbiName, NEW entries \in Seq(Entry), Register(name, entries)
      PROVE  ConverterInv'
  <2>1. /\ registry' = [n \in DOMAIN registry \cup {name} |->
                           IF n = name THEN entries ELSE registry[n]]
        /\ UNCHANGED vars /\ UNCHANGED parsed /\ UNCHANGED report
    BY <1>3 DEF Register
  <2>2. RegistryInv'
    BY <1>0, <2>1 DEF RegistryInv
  <2> QED BY <1>10, <1>11, <1>12, <1>13, <2>1, <2>2
<1>4. ASSUME NEW name \in AbiName, Policy(name) PROVE ConverterInv'
  <2>1. /\ name \in DOMAIN registry /\ abi' = registry[name]
        /\ target' = "" /\ functionName' = "" /\ rules' = <<>> /\ built' = NoPermission
        /\ UNCHANGED parsed /\ UNCHANGED registry /\ UNCHANGED report
    BY <1>4 DEF Policy, converterVars
  <2>2. abi' \in Seq(Entry)
    BY <1>0, <2>1 DEF RegistryInv
  <2>3. Fresh'
    BY <2>1, <2>2 DEF Fresh
  <2>4. Only(abi', built')
    BY <2>1
  <2> QED BY <1>10, <1>12, <2>1, <2>3, <2>4, BuilderRestarts
<1>5. CASE VerifyNextFile
  <2> DEFINE next == Len(report) + 1
  <2>1. /\ Len(report) < Len(Files) /\ report' = Append(report, VerifyFile(Files[next]))
        /\ UNCHANGED vars /\ UNCHANGED parsed /\ UNCHANGED registry
    BY <1>5 DEF VerifyNextFile
  <2>2. report \in Seq(Verified) /\ \A i \in DOMAIN report : report[i] = VerifyFile(Files[i])
    BY <1>0 DEF ReportInv
  <2>3. DOMAIN Files = 1 .. Len(Files) /\ Len(Files) \in Nat
    BY ConverterAssumption
  <2>4. next \in DOMAIN Files /\ next \in Nat /\ DOMAIN report = 1 .. Len(report) /\ Len(report) \in Nat
    BY <2>1, <2>2, <2>3
  <2>5. VerifyFile(Files[next]) \in Verified
    BY <2>4 DEF Verified
  <2> DEFINE new == VerifyFile(Files[next])
  <2> HIDE DEF new
  <2>6. /\ report' \in Seq(Verified) /\ Len(report') = next /\ DOMAIN report' = 1 .. next
        /\ \A i \in 1 .. Len(report) : report'[i] = report[i]
        /\ report'[next] = new
    BY <2>1, <2>2, <2>5 DEF new
  <2>7. \A i \in 1 .. next : i \in 1 .. Len(report) \/ i = next
    BY <2>4
  <2>8. Len(report') <= Len(Files)
    BY <2>1, <2>3, <2>4, <2>6
  <2>9. \A i \in DOMAIN report' : report'[i] = VerifyFile(Files[i])
    <3> SUFFICES ASSUME NEW i \in 1 .. next PROVE report'[i] = VerifyFile(Files[i])
      BY <2>6
    <3>1. CASE i \in 1 .. Len(report)
      BY <2>2, <2>4, <2>6, <3>1
    <3>2. CASE i = next
      <4> HIDE DEF next
      <4> QED BY <2>6, <3>2 DEF new
    <3> QED BY <2>7, <3>1, <3>2
  <2>10. ReportInv'
    BY <2>6, <2>8, <2>9 DEF ReportInv
  <2> QED BY <1>10, <1>11, <1>12, <1>13, <2>1, <2>10
<1>6. ToABIEntries(parsed.functions) \in Seq(Entry)
  <2>1. parsed.source \in Source \cup {NoSource} /\ parsed = ParseABI(parsed.source, EntriesOf(parsed.source))
    BY <1>0 DEF SourceInv
  <2> DEFINE source == parsed.source
  <2> HIDE DEF source
  <2>2. EntriesOf(source) \in Seq(Entry)
    BY <2>1, EntriesOfFacts DEF source
  <2>3. ToABIEntries(ParseABI(source, EntriesOf(source)).functions) \in Seq(Entry)
    BY <2>2, GeneratedEntries
  <2>4. parsed = ParseABI(source, EntriesOf(source))
    BY <2>1 DEF source
  <2> QED BY <2>3, <2>4, Zenon
<1>7. \A source \in Source : EntriesOf(source) \in Seq(Entry)
  BY EntriesOfFacts
<1> QED BY <1>1, <1>2, <1>3, <1>4, <1>5, <1>6, <1>7 DEF ConverterNext

LEMMA ConverterInvariant == ConverterSpec => []ConverterInv
<1>1. ConverterInv /\ [ConverterNext]_<<vars, converterVars>> => ConverterInv'
  BY ConverterKept, ConverterPreserved
<1> QED BY <1>1, ConverterStarts, PTL DEF ConverterSpec

\* The functions parsed, in a state of the converter.
LEMMA ParsedInState ==
    ASSUME ConverterInv
    PROVE  LET entries == EntriesOf(parsed.source)
           IN  /\ parsed.source \in Source \cup {NoSource}
               /\ entries \in Seq(Entry)
               /\ parsed = ParseABI(parsed.source, entries)
               /\ DOMAIN parsed.functions = 1 .. Len(parsed.functions)
               /\ Len(parsed.functions) \in Nat
               /\ ToSet(parsed.functions) = {ParseFunction(f) : f \in FunctionsOf(entries)}
<1> DEFINE source == parsed.source
           entries == EntriesOf(source)
<1>1. source \in Source \cup {NoSource} /\ parsed = ParseABI(source, entries)
  BY DEF ConverterInv
<1>2. entries \in Seq(Entry)
  BY <1>1, EntriesOfFacts
<1> HIDE DEF entries
<1> HIDE DEF source
<1> DEFINE abiParsed == ParseABI(source, entries)
<1>3. /\ Len(abiParsed.functions) \in Nat
      /\ DOMAIN abiParsed.functions = 1 .. Len(abiParsed.functions)
      /\ ToSet(abiParsed.functions) = {ParseFunction(f) : f \in FunctionsOf(entries)}
  BY <1>2, ParsedFunctions
<1> HIDE DEF abiParsed
<1>4. parsed = abiParsed
  BY <1>1 DEF abiParsed
<1>5. /\ Len(parsed.functions) \in Nat
      /\ DOMAIN parsed.functions = 1 .. Len(parsed.functions)
      /\ ToSet(parsed.functions) = {ParseFunction(f) : f \in FunctionsOf(entries)}
  BY <1>3, <1>4, Zenon
<1> QED BY <1>1, <1>2, <1>5 DEF entries, source

LEMMA ConverterTypes ==
    ASSUME ConverterInv
    PROVE  TypeOKConverter
<1>1. ASSUME NEW i \in DOMAIN parsed.functions, NEW path \in Path
      PROVE  ResolveParamOffset(parsed.functions[i], path) \in Nat \cup {Unresolved}
  <2> DEFINE func == parsed.functions[i]
             entries == EntriesOf(parsed.source)
  <2>1. func \in ToSet(parsed.functions)
    BY DEF ToSet
  <2>2. PICK f \in FunctionsOf(entries) : func = ParseFunction(f)
    BY <2>1, ParsedInState
  <2>3. entries \in Seq(Entry)
    BY ParsedInState
  <2> HIDE DEF func, entries
  <2>4. func.inputs \in Seq(Flat)
    BY <2>2, <2>3, FunctionFacts
  <2>5. ResolveParamOffset(func, path) \in Nat \cup {Unresolved}
    BY <2>4, ResolveParamFacts
  <2> QED BY <2>5 DEF func
<1> QED BY <1>1 DEF TypeOKConverter, ConverterInv, BuilderInv

\* A function verifies only if it has no parameters: the search starts eight
\* digits before the first word.
LEMMA VerifiedHasNone ==
    ASSUME NEW func, func.inputs \in Seq(Flat), VerifyFunction(func)
    PROVE  func.inputs = <<>>
<1> DEFINE inputs == func.inputs
           words == {i \in DOMAIN inputs : inputs[i].type = "word"}
           least == CHOOSE i \in words : \A j \in words : i <= j
           index == 8 + 64 * (least - 1)
           param == inputs[1]
<1> SUFFICES ASSUME inputs # <<>> PROVE FALSE
  OBVIOUS
<1>1. DOMAIN inputs = 1 .. Len(inputs) /\ Len(inputs) \in Nat /\ 1 \in DOMAIN inputs
  OBVIOUS
<1>2. FindActualOffset(func, param) = 32 * param.offset + 4
  BY <1>1 DEF VerifyFunction
<1>3. param.offset \in Nat
  <2>1. param \in Flat
    BY <1>1
  <2> QED BY <2>1 DEF Flat
<1>4. FindActualOffset(func, param) =
          IF param.type = "word" /\ index % 64 = 0 THEN index \div 2 ELSE NotFound
  BY DEF FindActualOffset
<1>5. CASE param.type = "word"
  <2>1. words \in SUBSET Nat /\ words # {}
    BY <1>1, <1>5
  <2> HIDE DEF words
  <2>2. least \in words
    BY <2>1, LeastFacts
  <2> HIDE DEF least
  <2>3. least \in Nat
    BY <2>1, <2>2
  <2>4. index % 64 = 8
    BY <2>3
  <2>5. index % 64 # 0
    BY <2>4
  <2> HIDE DEF index
  <2>6. FindActualOffset(func, param) = NotFound
    BY <1>4, <2>5
  <2> QED BY <1>2, <1>3, <2>6 DEF NotFound
<1>6. CASE param.type # "word"
  <2>1. FindActualOffset(func, param) = NotFound
    BY <1>4, <1>6
  <2> HIDE DEF param
  <2> QED BY <1>2, <1>3, <2>1 DEF NotFound
<1> QED BY <1>5, <1>6

LEMMA NoInputsCovered ==
    ASSUME NEW params \in Seq(Param), ComputeParamOffsets(params) = <<>>
    PROVE  Covers(ComputeParamOffsets(params), params)
<1>1. Len(params) \in Nat
  OBVIOUS
<1> DEFINE sums == Sums(FieldsOf(params))
<1> HIDE DEF sums
<1>2. Len(params) = 0
  <2> SUFFICES ASSUME Len(params) >= 1 PROVE FALSE
    BY <1>1
  <2> DEFINE flat == FlatParam[params[1]]
  <2>1. \A i \in 1 .. Len(params) : \A k \in 1 .. Len(FlatParam[params[i]]) :
            sums[i - 1] + k \in 1 .. Len(ComputeParamOffsets(params))
    BY OffsetsFacts DEF sums
  <2>2. 1 \in 1 .. Len(params) /\ params[1] \in Param
    BY <1>1
  <2>3. flat \in Seq(Flat) /\ flat # <<>>
    BY <2>2, FlatFacts
  <2> HIDE DEF flat
  <2>4. 1 \in 1 .. Len(flat)
    BY <2>3
  <2>5. sums[1 - 1] + 1 \in 1 .. Len(<<>>)
    BY <2>1, <2>2, <2>4 DEF flat
  <2> QED BY <2>5
<1>3. Heads(params) \in Seq(Word) /\ \A n \in 1 .. Len(Heads(params)) : \E i \in 1 .. Len(params) : TRUE
  BY HeadsFacts
<1>4. Len(Heads(params)) = 0
  <2>1. 1 .. Len(Heads(params)) = {}
    BY <1>2, <1>3
  <2>2. Len(Heads(params)) \in Nat
    BY <1>3
  <2> DEFINE size == Len(Heads(params))
  <2>3. \A n \in Nat : 1 .. n = {} => n = 0
    <3> SUFFICES ASSUME NEW n \in Nat, n >= 1 PROVE 1 .. n # {}
      OBVIOUS
    <3>1. 1 \in 1 .. n
      OBVIOUS
    <3> QED BY <3>1
  <2> QED BY <2>1, <2>2, <2>3
<1> QED BY <1>4 DEF Covers

LEMMA ConverterPasses ==
    ASSUME ConverterInv
    PROVE  PassMeansRight
<1> SUFFICES ASSUME NEW i \in DOMAIN report, report[i].success
             PROVE  /\ Files[i].loads
                    /\ \A e \in ToSet(OfType(Files[i].entries, "function")) :
                          Covers(ComputeParamOffsets(e.inputs), e.inputs)
  BY DEF PassMeansRight
<1> DEFINE file == Files[i]
           entries == file.entries
           kept == NormalizeABI(entries)
           functions == ParseABI(file, kept).functions
           verified == [n \in DOMAIN functions |->
                          [name |-> functions[n].name, success |-> VerifyFunction(functions[n])]]
<1>1. report[i] = VerifyFile(file) /\ i \in DOMAIN Files
  <2>1. DOMAIN report = 1 .. Len(report) /\ Len(report) \in Nat /\ Len(report) <= Len(Files)
    BY DEF ConverterInv
  <2>2. DOMAIN Files = 1 .. Len(Files) /\ Len(Files) \in Nat
    BY ConverterAssumption
  <2>3. i \in DOMAIN Files
    BY <2>1, <2>2
  <2> QED BY <2>3 DEF ConverterInv
<1>2. file \in [loads : BOOLEAN, entries : Seq(Entry)]
  <2> DEFINE FileType == [loads : BOOLEAN, entries : Seq(Entry)]
  <2>1. Files \in Seq(FileType)
    BY ConverterAssumption
  <2> HIDE DEF FileType
  <2>2. file \in FileType
    BY <1>1, <2>1
  <2> QED BY <2>2 DEF FileType
<1> HIDE DEF file
<1>3. entries \in Seq(Entry)
  BY <1>2
<1> HIDE DEF entries
<1>4. VerifyFile(file) = IF ~file.loads THEN [success |-> FALSE, functions |-> <<>>]
                         ELSE [success |-> \A n \in DOMAIN verified : verified[n].success,
                               functions |-> verified]
  BY Zenon DEF VerifyFile, entries
<1>5. file.loads
  <2> SUFFICES ASSUME ~file.loads PROVE FALSE
    OBVIOUS
  <2>1. VerifyFile(file) = [success |-> FALSE, functions |-> <<>>]
    BY <1>4
  <2> QED BY <1>1, <2>1
<1>6. \A n \in DOMAIN verified : verified[n].success
  <2> DEFINE all == \A n \in DOMAIN verified : verified[n].success
  <2> HIDE DEF all, verified
  <2>1. VerifyFile(file) = [success |-> all, functions |-> verified]
    BY <1>4, <1>5 DEF all
  <2>2. VerifyFile(file).success
    BY <1>1
  <2>3. VerifyFile(file).success = all
    BY <2>1
  <2> QED BY <2>2, <2>3 DEF all
<1>7. \A n \in DOMAIN functions : VerifyFunction(functions[n])
  <2> HIDE DEF functions
  <2>1. \A n \in DOMAIN functions : n \in DOMAIN verified /\ verified[n].success = VerifyFunction(functions[n])
    OBVIOUS
  <2> HIDE DEF verified
  <2> QED BY <1>6, <2>1
<1>8. kept \in Seq(Entry) /\ ToSet(kept) = {e \in ToSet(entries) : e.type \in Kinds}
  BY <1>3, OfTypesSet DEF NormalizeABI
<1> HIDE DEF kept
<1>9. ToSet(functions) = {ParseFunction(f) : f \in FunctionsOf(kept)}
  BY <1>8, ParsedFunctions
<1> HIDE DEF functions
<1>10. ASSUME NEW e \in ToSet(OfType(entries, "function"))
       PROVE  Covers(ComputeParamOffsets(e.inputs), e.inputs)
  <2>1. e \in ToSet(entries) /\ e.type = "function"
    <3>1. ToSet(OfTypes(entries, {"function"})) = {x \in ToSet(entries) : x.type \in {"function"}}
      BY <1>3, OfTypesSet
    <3> QED BY <3>1 DEF OfType
  <2>2. e \in FunctionsOf(kept)
    BY <1>8, <2>1 DEF FunctionsOf, Kinds
  <2>3. ParseFunction(e) \in ToSet(functions)
    BY <1>9, <2>2
  <2>4. PICK n \in DOMAIN functions : functions[n] = ParseFunction(e)
    BY <2>3 DEF ToSet
  <2>5. /\ e.inputs \in Seq(Param)
        /\ ParseFunction(e).inputs = ComputeParamOffsets(e.inputs)
        /\ ParseFunction(e).inputs \in Seq(Flat)
    BY <1>8, <2>2, FunctionFacts
  <2>6. VerifyFunction(ParseFunction(e))
    BY <1>7, <2>4
  <2>7. ParseFunction(e).inputs = <<>>
    BY <2>5, <2>6, VerifiedHasNone
  <2> QED BY <2>5, <2>7, NoInputsCovered
<1> QED BY <1>5, <1>10 DEF entries, file

---------------------------------------------------------------------------
(***************************************************************************)
(* A generated ABI and what is generated next to it.                         *)
(***************************************************************************)
\* Inputs none of which is part of a tuple are the parameters.
LEMMA PlainInputs ==
    ASSUME NEW params \in Seq(Param),
           \A n \in DOMAIN ComputeParamOffsets(params) :
               /\ Len(ComputeParamOffsets(params)[n].path) = 1
               /\ ComputeParamOffsets(params)[n].type # "tuple"
    PROVE  LET inputs == ComputeParamOffsets(params)
           IN  /\ Len(inputs) = Len(params)
               /\ \A i \in 1 .. Len(params) :
                     /\ params[i].type # "tuple"
                     /\ inputs[i].path = <<params[i].name>>
                     /\ inputs[i].type = params[i].type
                     /\ inputs[i].offset = i - 1
<1> DEFINE inputs == ComputeParamOffsets(params)
           sizes == FieldsOf(params)
           sums == Sums(sizes)
           size == Len(params)
<1>0. size \in Nat
  OBVIOUS
<1>1. /\ inputs \in Seq(Flat)
      /\ Len(inputs) = sums[size]
      /\ \A i \in 1 .. size : \A k \in 1 .. Len(FlatParam[params[i]]) :
            /\ sums[i - 1] + k \in 1 .. Len(inputs)
            /\ inputs[sums[i - 1] + k].path = FlatParam[params[i]][k].path
            /\ inputs[sums[i - 1] + k].type = FlatParam[params[i]][k].type
  BY OffsetsFacts
<1>2. \A n \in 1 .. Len(inputs) : Len(inputs[n].path) = 1 /\ inputs[n].type # "tuple"
  BY <1>1
<1> HIDE DEF inputs, sums
<1>3. ASSUME NEW i \in 1 .. size
      PROVE  LET flat == FlatParam[params[i]]
             IN  /\ params[i].type # "tuple" /\ Len(flat) = 1
                 /\ flat[1].path = <<params[i].name>> /\ flat[1].type = params[i].type
                 /\ Even(params[i])
  <2> DEFINE p == params[i]
             flat == FlatParam[p]
  <2>1. p \in Param
    OBVIOUS
  <2>2. flat \in Seq(Flat) /\ flat # <<>>
    BY <2>1, FlatFacts
  <2>3. 1 \in 1 .. Len(flat)
    <3> HIDE DEF flat
    <3> QED BY <2>2
  <2>4. Len(flat[1].path) = 1 /\ flat[1].type # "tuple"
    <3>1. /\ sums[i - 1] + 1 \in 1 .. Len(inputs)
          /\ inputs[sums[i - 1] + 1].path = flat[1].path
          /\ inputs[sums[i - 1] + 1].type = flat[1].type
      BY <1>1, <2>3
    <3> QED BY <1>2, <3>1
  <2> HIDE DEF p
  <2>5. ~(p.type = "tuple" /\ p.components # <<>>)
    BY <2>1, <2>3, <2>4, TuplePaths
  <2>6. /\ Len(flat) = 1 /\ flat[1].path = <<p.name>> /\ flat[1].type = p.type
        /\ flat[1].offset = 0 /\ flat[1].size = IF p.type = "tuple" THEN 0 ELSE 1
    BY <2>1, <2>5, SingleField
  <2>7. p.type # "tuple"
    BY <2>4, <2>6
  <2>8. Even(p)
    BY <2>6, <2>7 DEF Even
  <2> QED BY <2>6, <2>7, <2>8 DEF p
<1>4. /\ sizes \in Seq(Nat) /\ Len(sizes) = size
      /\ \A i \in 1 .. size : sizes[i] = Len(FlatParam[params[i]])
  <2>1. \A i \in DOMAIN params : FlatParam[params[i]] \in Seq(Flat) \ {<<>>}
    BY FlatFacts
  <2> QED BY <2>1, FieldsOfFacts
<1> HIDE DEF sizes
<1>5. \A n \in 0 .. size : sums[n] = n
  <2>1. \A i \in 1 .. Len(sizes) : sizes[i] = 1
    BY <1>3, <1>4
  <2> QED BY <1>4, <2>1, OnesFacts DEF sums
<1>6. Len(inputs) = size
  BY <1>0, <1>1, <1>5
<1>7. \A n \in 1 .. Len(inputs) : inputs[n].offset = n - 1
  BY <1>3, EvenOffsets DEF inputs
<1>8. ASSUME NEW i \in 1 .. size
      PROVE  /\ inputs[i].path = <<params[i].name>> /\ inputs[i].type = params[i].type
             /\ inputs[i].offset = i - 1
  <2>1. 1 \in 1 .. Len(FlatParam[params[i]])
    BY <1>3
  <2>2. i - 1 \in 0 .. size /\ sums[i - 1] + 1 = i
    BY <1>0, <1>5
  <2>3. inputs[i].path = FlatParam[params[i]][1].path /\ inputs[i].type = FlatParam[params[i]][1].type
    BY <1>1, <2>1, <2>2
  <2>4. inputs[i].offset = i - 1
    BY <1>6, <1>7
  <2> QED BY <1>3, <2>3, <2>4
<1> QED BY <1>3, <1>6, <1>8 DEF inputs

\* The first parameter of a name.
LEMMA FirstFound ==
    ASSUME NEW params \in Seq(Param), NEW name \in Names(params)
    PROVE  /\ Find(params, name) \in 1 .. Len(params)
           /\ params[Find(params, name)].name = name
           /\ \A j \in 1 .. Find(params, name) - 1 : params[j].name # name
<1> DEFINE named == {i \in DOMAIN params : params[i].name = name}
           least == CHOOSE n \in named : \A m \in named : n <= m
<1>1. DOMAIN params = 1 .. Len(params) /\ Len(params) \in Nat
  OBVIOUS
<1>2. named \in SUBSET Nat /\ named # {}
  BY <1>1 DEF Names
<1>3. least \in named /\ \A m \in named : least <= m
  <2> HIDE DEF named
  <2> QED BY <1>2, LeastFacts
<1> HIDE DEF least
<1>4. /\ least \in DOMAIN params /\ params[least].name = name
      /\ \A j \in 1 .. least - 1 : params[j].name # name
  <2>1. least \in 1 .. Len(params) /\ params[least].name = name
    BY <1>1, <1>3
  <2>2. ASSUME NEW j \in 1 .. least - 1 PROVE params[j].name # name
    <3>1. j \in DOMAIN params /\ j < least /\ j \in Nat
      BY <1>1, <2>1
    <3>2. j \notin named
      BY <1>3, <2>1, <3>1
    <3> QED BY <3>1, <3>2
  <2> QED BY <1>1, <2>1, <2>2
<1>5. /\ Find(params, name) \in DOMAIN params /\ params[Find(params, name)].name = name
      /\ \A j \in 1 .. Find(params, name) - 1 : params[j].name # name
  BY <1>4 DEF Find
<1> QED BY <1>1, <1>5

\* Among parameters that are no tuples, a name alone resolves, and to its place.
LEMMA PlainOffset ==
    ASSUME NEW inputs \in Seq(Param), \A i \in 1 .. Len(inputs) : inputs[i].type # "tuple",
           NEW path \in Seq(STRING) \ {<<>>}, ResolveOffset(inputs, path) # Unresolved
    PROVE  /\ Len(path) = 1 /\ path[1] \in Names(inputs)
           /\ ResolveOffset(inputs, path) = Find(inputs, path[1]) - 1
<1> DEFINE place == PlaceOf(inputs, path)
           size == Len(path)
           at == Find(inputs, path[1])
           start == [params |-> inputs, offset |-> 0]
<1> HIDE DEF place, size
<1>0. size \in Nat /\ size >= 1 /\ path \in Seq(STRING) /\ Len(path) = size
  BY DEF size
<1>1. /\ place[0] = start
      /\ \A n \in 1 .. size :
            LET above == place[n - 1]
                i == Find(above.params, path[n])
            IN  IF path[n] \in Names(above.params) /\ MayConstrain(above.params[i], n = size)
                THEN /\ place[n].params = above.params[i].components
                     /\ place[n].offset = above.offset + OffsetOf(above.params, i - 1)
                ELSE place[n] = Nowhere
  BY <1>0, PlaceFacts DEF place, size
<1>2. start.params = inputs /\ start.offset = 0
  OBVIOUS
<1> HIDE DEF start, at
<1>3. 1 \in 1 .. size /\ 1 - 1 = 0
  BY <1>0
<1>4. IF path[1] \in Names(inputs) /\ MayConstrain(inputs[at], 1 = size)
      THEN place[1].offset = 0 + OffsetOf(inputs, at - 1)
      ELSE place[1] = Nowhere
  BY <1>1, <1>2, <1>3 DEF at
<1>5. ResolveOffset(inputs, path) = place[size].offset
  BY DEF ResolveOffset, place, size
<1>6. place[1] # Nowhere
  <2> SUFFICES ASSUME place[1] = Nowhere PROVE FALSE
    OBVIOUS
  <2> DEFINE T == {n \in 0 .. size - 1 : place[n + 1] = Nowhere}
  <2>1. 0 \in T
    BY <1>0
  <2>2. ASSUME NEW n \in 0 .. size - 1 - 1, n \in T PROVE n + 1 \in T
    <3>1. n + 1 \in 0 .. size - 1 /\ n + 2 \in 1 .. size /\ (n + 2) - 1 = n + 1 /\ (n + 1) + 1 = n + 2
      BY <1>0
    <3>2. place[n + 1] = Nowhere
      BY <2>2
    <3>3. Nowhere.params = <<>>
      BY DEF Nowhere
    <3>4. Names(<<>>) = {}
      BY DEF Names
    <3>5. place[n + 2] = Nowhere
      BY <1>1, <3>1, <3>2, <3>3, <3>4
    <3> QED BY <3>1, <3>5
  <2>3. 0 .. size - 1 \subseteq T
    <3> HIDE DEF T
    <3>1. size - 1 \in Nat
      BY <1>0
    <3> QED BY <2>1, <2>2, <3>1, UpToByStep
  <2>4. size - 1 \in T
    BY <1>0, <2>3
  <2>5. place[size] = Nowhere
    BY <1>0, <2>4
  <2> QED BY <1>5, <2>5 DEF Nowhere
<1>7. path[1] \in Names(inputs) /\ MayConstrain(inputs[at], 1 = size)
  BY <1>4, <1>6
<1>8. at \in 1 .. Len(inputs) /\ Len(inputs) \in Nat
  BY <1>7, FindFacts DEF at
<1>9. size = 1
  BY <1>7, <1>8 DEF MayConstrain
<1>10. OffsetOf(inputs, at - 1) = at - 1
  <2> DEFINE sizes == [j \in DOMAIN inputs |-> HeadSize[inputs[j]]]
             count == Len(inputs)
  <2>1. \A j \in 1 .. count : HeadSize[inputs[j]] = 1
    <3> SUFFICES ASSUME NEW j \in 1 .. count PROVE HeadSize[inputs[j]] = 1
      OBVIOUS
    <3> DEFINE p == inputs[j]
    <3>1. p \in Param /\ p.type # "tuple"
      OBVIOUS
    <3> HIDE DEF p
    <3>2. HeadSize[p] = 1
      BY <3>1, HeadSizeDef
    <3> QED BY <3>2 DEF p
  <2>2. sizes \in Seq(Nat) /\ Len(sizes) = count /\ \A j \in 1 .. count : sizes[j] = 1
    <3>1. DOMAIN inputs = 1 .. count /\ count \in Nat
      OBVIOUS
    <3>2. \A j \in 1 .. count : sizes[j] = 1
      BY <2>1, <3>1
    <3>3. sizes = [j \in 1 .. count |-> sizes[j]]
      BY <3>1
    <3> HIDE DEF sizes, count
    <3>4. sizes \in [1 .. count -> Nat]
      BY <3>2, <3>3
    <3> QED BY <3>1, <3>2, <3>4
  <2>3. OffsetOf(inputs, at - 1) = Sums(sizes)[at - 1]
    BY DEF OffsetOf
  <2>4. at - 1 \in 0 .. count
    BY <1>8
  <2> HIDE DEF sizes, count
  <2>5. Sums(sizes)[at - 1] = at - 1
    BY <2>2, <2>4, OnesFacts
  <2> QED BY <2>3, <2>5
<1> QED BY <1>0, <1>4, <1>5, <1>7, <1>8, <1>9, <1>10 DEF at

\* What the generated ABI of a function resolves to is published next to it.
LEMMA PublishedOffset ==
    ASSUME NEW func, func.inputs \in Seq(Flat), NEW params \in Seq(Param),
           func.inputs = ComputeParamOffsets(params),
           \A n \in DOMAIN func.inputs :
               Len(func.inputs[n].path) = 1 /\ func.inputs[n].type # "tuple",
           NEW path \in Seq(STRING) \ {<<>>},
           ResolveOffset([n \in DOMAIN func.inputs |-> AsInput(func.inputs[n])], path) # Unresolved
    PROVE  ResolveOffset([n \in DOMAIN func.inputs |-> AsInput(func.inputs[n])], path)
               = ResolveParamOffset(func, path)
<1> DEFINE generated == [n \in DOMAIN func.inputs |-> AsInput(func.inputs[n])]
           at == Find(generated, path[1])
           size == Len(params)
<1>0. size \in Nat
  OBVIOUS
<1>1. /\ Len(func.inputs) = size
      /\ \A i \in 1 .. size :
            /\ func.inputs[i].path = <<params[i].name>>
            /\ func.inputs[i].type # "tuple"
            /\ func.inputs[i].offset = i - 1
  <2> DEFINE inputs == ComputeParamOffsets(params)
  <2>1. \A n \in DOMAIN inputs : Len(inputs[n].path) = 1 /\ inputs[n].type # "tuple"
    OBVIOUS
  <2>2. /\ Len(inputs) = Len(params)
        /\ \A i \in 1 .. Len(params) :
              /\ params[i].type # "tuple"
              /\ inputs[i].path = <<params[i].name>>
              /\ inputs[i].type = params[i].type
              /\ inputs[i].offset = i - 1
    BY <2>1, PlainInputs
  <2>3. func.inputs = inputs
    OBVIOUS
  <2> HIDE DEF inputs
  <2> QED BY <2>2, <2>3
<1>2. DOMAIN func.inputs = 1 .. size
  BY <1>1
<1>3. generated \in Seq(Param) /\ Len(generated) = size
  BY <1>1, AsInputsFacts
<1>4. \A i \in 1 .. size : /\ generated[i].name = params[i].name
                           /\ generated[i].type # "tuple"
  <2> SUFFICES ASSUME NEW i \in 1 .. size
               PROVE  generated[i].name = params[i].name /\ generated[i].type # "tuple"
    OBVIOUS
  <2> DEFINE field == func.inputs[i]
  <2>1. generated[i] = AsInput(field)
    BY <1>2
  <2>2. Last(<<params[i].name>>) = params[i].name
    BY DEF Last
  <2>3. field.path = <<params[i].name>> /\ field.type # "tuple"
    BY <1>1
  <2> HIDE DEF generated, field
  <2> QED BY <2>1, <2>2, <2>3 DEF AsInput
<1> HIDE DEF generated, at, size
<1>5. /\ Len(path) = 1 /\ path[1] \in Names(generated)
      /\ ResolveOffset(generated, path) = at - 1
  <2>1. ResolveOffset(generated, path) # Unresolved
    BY DEF generated
  <2> QED BY <1>3, <1>4, <2>1, PlainOffset DEF at
<1>6. /\ at \in 1 .. size /\ generated[at].name = path[1]
      /\ \A j \in 1 .. at - 1 : generated[j].name # path[1]
  BY <1>3, <1>5, FirstFound DEF at
<1>7. \A i \in 1 .. size : func.inputs[i].path = path <=> generated[i].name = path[1]
  <2>1. path = <<path[1]>>
    BY <1>5
  <2> SUFFICES ASSUME NEW i \in 1 .. size
               PROVE  func.inputs[i].path = path <=> generated[i].name = path[1]
    OBVIOUS
  <2>2. func.inputs[i].path = <<generated[i].name>>
    BY <1>1, <1>4
  <2>3. <<generated[i].name>> = <<path[1]>> <=> generated[i].name = path[1]
    OBVIOUS
  <2> QED BY <2>1, <2>2, <2>3, Zenon
<1>8. \E n \in DOMAIN func.inputs :
          /\ func.inputs[n].path = path
          /\ \A m \in DOMAIN func.inputs : func.inputs[m].path = path => n <= m
          /\ ResolveParamOffset(func, path) = func.inputs[n].offset
  <2>1. \E n \in DOMAIN func.inputs : func.inputs[n].path = path
    BY <1>2, <1>6, <1>7
  <2> QED BY <2>1, ResolveParamFacts
<1>9. PICK n \in 1 .. size :
          /\ func.inputs[n].path = path
          /\ \A m \in 1 .. size : func.inputs[m].path = path => n <= m
          /\ ResolveParamOffset(func, path) = func.inputs[n].offset
  BY <1>2, <1>8
<1>10. n = at
  <2>1. n <= at
    BY <1>6, <1>7, <1>9
  <2>2. ~(n \in 1 .. at - 1)
    BY <1>6, <1>7, <1>9
  <2> QED BY <1>0, <1>6, <2>1, <2>2
<1> QED BY <1>1, <1>5, <1>9, <1>10 DEF generated

\* And so is its selector.
LEMMA PublishedSelector ==
    ASSUME NEW params \in Seq(Param), NEW name,
           \A n \in DOMAIN ComputeParamOffsets(params) :
               /\ Len(ComputeParamOffsets(params)[n].path) = 1
               /\ ComputeParamOffsets(params)[n].type # "tuple"
    PROVE  LET fields == ComputeParamOffsets(params)
           IN  ComputeSelector(name, [n \in DOMAIN fields |-> AsInput(fields[n])])
                   = ComputeSelector(name, params)
<1> DEFINE fields == ComputeParamOffsets(params)
           generated == [n \in DOMAIN fields |-> AsInput(fields[n])]
           size == Len(params)
<1>1. /\ Len(fields) = size
      /\ \A i \in 1 .. size : params[i].type # "tuple" /\ fields[i].type = params[i].type
  BY PlainInputs
<1>2. fields \in Seq(Flat)
  BY OffsetsFacts
<1> HIDE DEF fields
<1>3. generated \in Seq(Param) /\ Len(generated) = size
  BY <1>1, <1>2, AsInputsFacts
<1>4. DOMAIN params = 1 .. size /\ DOMAIN generated = 1 .. size
  BY <1>3
<1>5. \A i \in 1 .. size : GetCanonicalType(generated[i]) = GetCanonicalType(params[i])
  <2> SUFFICES ASSUME NEW i \in 1 .. size
               PROVE  GetCanonicalType(generated[i]) = GetCanonicalType(params[i])
    OBVIOUS
  <2> DEFINE p == params[i]
             g == generated[i]
  <2>1. g.type = p.type /\ p.type # "tuple"
    <3>1. g = AsInput(fields[i])
      BY <1>4
    <3> QED BY <1>1, <3>1 DEF AsInput
  <2>2. p \in Param /\ g \in Param
    BY <1>3, <1>4
  <2> HIDE DEF p, g
  <2>3. CanonicalType[g] = CanonicalType[p]
    BY <2>1, <2>2, CanonicalTypeDef
  <2> QED BY <2>3 DEF GetCanonicalType, p, g
<1> HIDE DEF generated
<1>6. ComputeSelector(name, generated) = ComputeSelector(name, params)
  BY <1>4, <1>5 DEF ComputeSelector
<1> QED BY <1>6 DEF generated, fields

LEMMA ConverterPublishes ==
    ASSUME ConverterInv
    PROVE  PublishedAgree
<1> DEFINE entries == EntriesOf(parsed.source)
           functions == parsed.functions
           published == GeneratedEntry(functions, built.of.name)
<1> SUFFICES ASSUME built # NoPermission, abi = ToABIEntries(functions),
                    \A i \in DOMAIN published.inputs :
                        Len(published.inputs[i].path) = 1 /\ published.inputs[i].type # "tuple"
             PROVE  /\ built.selector = published.selector
                    /\ \A i \in DOMAIN built.offsets :
                          built.offsets[i] = ResolveParamOffset(published, rules[i])
  BY DEF PublishedAgree
<1>1. /\ entries \in Seq(Entry)
      /\ DOMAIN functions = 1 .. Len(functions) /\ Len(functions) \in Nat
      /\ ToSet(functions) = {ParseFunction(f) : f \in FunctionsOf(entries)}
      /\ parsed = ParseABI(parsed.source, entries)
  BY ParsedInState
<1>2. /\ abi \in Seq(Entry) /\ Len(abi) = Len(functions)
      /\ \A i \in 1 .. Len(functions) :
            /\ abi[i].type = "function" /\ abi[i].name = functions[i].name
            /\ abi[i].inputs = [n \in DOMAIN functions[i].inputs |-> AsInput(functions[i].inputs[n])]
  <2> DEFINE source == parsed.source
             those == ParseABI(source, entries).functions
  <2>1. those = functions
    BY <1>1, Zenon
  <2> HIDE DEF source, entries, functions
  <2>2. /\ ToABIEntries(those) \in Seq(Entry)
        /\ Len(ToABIEntries(those)) = Len(those)
        /\ \A i \in 1 .. Len(those) :
              /\ ToABIEntries(those)[i].type = "function" /\ ToABIEntries(those)[i].name = those[i].name
              /\ ToABIEntries(those)[i].inputs =
                    [n \in DOMAIN those[i].inputs |-> AsInput(those[i].inputs[n])]
    BY <1>1, GeneratedEntries
  <2> HIDE DEF those
  <2> QED BY <2>1, <2>2, Zenon
<1> HIDE DEF entries, functions, published
<1>3. PICK k \in Functions(abi) : built.of = abi[k]
  <2>1. TypeOK
    BY DEF ConverterInv, BuilderInv
  <2>2. built.of \in {abi[i] : i \in Functions(abi)}
    BY <2>1, Zenon DEF TypeOK
  <2> QED BY <2>2
<1>4. DOMAIN abi = 1 .. Len(functions) /\ Functions(abi) = 1 .. Len(functions)
  <2>1. DOMAIN abi = 1 .. Len(functions)
    BY <1>2
  <2> QED BY <1>2, <2>1 DEF Functions
<1> DEFINE f == functions[k]
<1>5. \A i \in 1 .. Len(functions) : functions[i].name = built.of.name => i = k
  <2>1. \A i, j \in Functions(abi) :
            abi[i].name = built.of.name /\ abi[j].name = built.of.name => i = j
    BY DEF ConverterInv
  <2>2. \A i \in 1 .. Len(functions) : abi[i].name = functions[i].name
    BY <1>2
  <2> QED BY <1>3, <1>4, <2>1, <2>2
<1>6. k \in 1 .. Len(functions) /\ f.name = built.of.name
      /\ built.of.inputs = [n \in DOMAIN f.inputs |-> AsInput(f.inputs[n])]
  <2>1. k \in 1 .. Len(functions)
    BY <1>3, <1>4
  <2> QED BY <1>2, <1>3, <2>1
<1>7. published = f
  <2> DEFINE at == CHOOSE i \in DOMAIN functions :
                      /\ functions[i].name = built.of.name
                      /\ \A j \in i + 1 .. Len(functions) : functions[j].name # built.of.name
  <2>1. \A j \in k + 1 .. Len(functions) : functions[j].name # built.of.name
    <3> SUFFICES ASSUME NEW j \in k + 1 .. Len(functions), functions[j].name = built.of.name
                 PROVE  FALSE
      OBVIOUS
    <3>1. j \in 1 .. Len(functions) /\ j # k
      BY <1>1, <1>6
    <3> QED BY <1>5, <3>1
  <2>2. at \in DOMAIN functions /\ functions[at].name = built.of.name
    BY <1>1, <1>6, <2>1
  <2>3. published = functions[at]
    BY DEF published, GeneratedEntry
  <2> HIDE DEF at
  <2>4. at = k
    BY <1>1, <1>5, <2>2
  <2> QED BY <2>3, <2>4
<1>8. PICK e \in FunctionsOf(entries) : f = ParseFunction(e)
  <2>1. f \in ToSet(functions)
    BY <1>1, <1>6 DEF ToSet
  <2> QED BY <1>1, <2>1
<1>9. /\ e.inputs \in Seq(Param)
      /\ f.name = e.name /\ f.selector = ComputeSelector(e.name, e.inputs)
      /\ f.inputs = ComputeParamOffsets(e.inputs) /\ f.inputs \in Seq(Flat)
  BY <1>1, <1>8, FunctionFacts
<1> HIDE DEF f
<1>10. \A n \in DOMAIN f.inputs : Len(f.inputs[n].path) = 1 /\ f.inputs[n].type # "tuple"
  BY <1>7
<1>11. built.selector = ComputeSelector(built.of.name, built.of.inputs)
  BY DEF ConverterInv, BuilderInv, BuiltInv
<1>12. built.selector = published.selector
  <2> DEFINE fields == ComputeParamOffsets(e.inputs)
             params == e.inputs
  <2>1. \A n \in DOMAIN fields : Len(fields[n].path) = 1 /\ fields[n].type # "tuple"
    BY <1>9, <1>10
  <2>2. ComputeSelector(e.name, [n \in DOMAIN fields |-> AsInput(fields[n])])
            = ComputeSelector(e.name, params)
    BY <1>9, <2>1, PublishedSelector
  <2>3. built.of.inputs = [n \in DOMAIN fields |-> AsInput(fields[n])] /\ built.of.name = e.name
    BY <1>6, <1>9
  <2> HIDE DEF fields, params
  <2> QED BY <1>7, <1>9, <1>11, <2>2, <2>3 DEF params
<1>13. ASSUME NEW i \in DOMAIN built.offsets
       PROVE  built.offsets[i] = ResolveParamOffset(published, rules[i])
  <2> DEFINE path == rules[i]
  <2>1. /\ built.offsets[i] = ResolveOffset(built.of.inputs, path)
        /\ built.offsets[i] # Unresolved
        /\ i \in DOMAIN rules /\ rules \in Seq(Path)
    BY DEF ConverterInv, BuilderInv, BuiltInv, TypeOK
  <2>2. path \in Seq(STRING) \ {<<>>}
    <3>1. path \in Path
      BY <2>1
    <3> QED BY <3>1, CompilerAssumption
  <2> HIDE DEF path
  <2> DEFINE generated == [n \in DOMAIN f.inputs |-> AsInput(f.inputs[n])]
             params == e.inputs
  <2>3. params \in Seq(Param) /\ f.inputs = ComputeParamOffsets(params)
    BY <1>9
  <2>4. built.of.inputs = generated
    BY <1>6
  <2>5. ResolveOffset(generated, path) # Unresolved
    BY <2>1, <2>4, Zenon
  <2> HIDE DEF params
  <2>6. ResolveOffset(generated, path) = ResolveParamOffset(f, path)
    BY <1>9, <1>10, <2>2, <2>3, <2>5, PublishedOffset
  <2> QED BY <1>7, <2>1, <2>4, <2>6, Zenon DEF path
<1> QED BY <1>12, <1>13

---------------------------------------------------------------------------
(***************************************************************************)
(* What is declared.                                                         *)
(***************************************************************************)
\* The structs of the type of a parameter, one or none, and its fields.
Meant(p, structs) == {i \in DOMAIN structs : structs[i].name = p.type}

FieldsMeant(p, structs) ==
    IF Meant(p, structs) = {} THEN p.components
    ELSE structs[CHOOSE i \in Meant(p, structs) : TRUE].fields

\* One more level of structs spelt out.
OneLevel(p, structs, below) ==
    [name |-> p.name, type |-> IF Meant(p, structs) = {} THEN p.type ELSE "tuple",
     components |-> [i \in DOMAIN FieldsMeant(p, structs) |-> below[FieldsMeant(p, structs)[i]]]]

\* Parameters with the structs spelt out to a depth, for every depth.
Stages(structs) ==
    LET expanded[depth \in 0 .. Nesting] ==
            [p \in Param |->
                LET s == {i \in DOMAIN structs : structs[i].name = p.type}
                    fields == IF s = {} THEN p.components ELSE structs[CHOOSE i \in s : TRUE].fields
                IN  IF depth = 0 THEN p
                    ELSE [name |-> p.name, type |-> IF s = {} THEN p.type ELSE "tuple",
                          components |-> [i \in DOMAIN fields |-> expanded[depth - 1][fields[i]]]]]
    IN  expanded

LEMMA StagesDef ==
    ASSUME NEW structs
    PROVE  Stages(structs) = [depth \in 0 .. Nesting |-> [p \in Param |->
               IF depth = 0 THEN p ELSE OneLevel(p, structs, Stages(structs)[depth - 1])]]
<1> DEFINE size == Nesting
           B(f, n) == [p \in Param |-> IF n = 0 THEN p ELSE OneLevel(p, structs, f[n - 1])]
           F(f, m) == [n \in 0 .. m |-> B(f, n)]
           T == {m \in 0 .. size : \E f : f = F(f, m)}
<1>0. size \in Nat
  BY NestingAssumption
<1>1. 0 \in T
  <2> DEFINE f == [n \in 0 .. 0 |-> [p \in Param |-> p]]
  <2>1. \A n \in 0 .. 0 : B(f, n) = [p \in Param |-> p]
    OBVIOUS
  <2> HIDE DEF B
  <2>2. f = F(f, 0)
    BY <2>1
  <2> HIDE DEF F, f
  <2> QED BY <1>0, <2>2
<1>2. ASSUME NEW m \in 0 .. size - 1, m \in T PROVE m + 1 \in T
  <2>1. PICK f : f = F(f, m)
    BY <1>2
  <2> DEFINE more == [n \in 0 .. m + 1 |-> IF n <= m THEN f[n] ELSE B(f, m + 1)]
  <2>2. \A n \in 0 .. m : more[n] = f[n]
    <3> HIDE DEF B
    <3> QED OBVIOUS
  <2>3. ASSUME NEW n \in 0 .. m + 1 PROVE B(more, n) = B(f, n)
    <3>1. n = 0 \/ more[n - 1] = f[n - 1]
      <4>1. n = 0 \/ n - 1 \in 0 .. m
        OBVIOUS
      <4> QED BY <2>2, <4>1
    <3> HIDE DEF more
    <3> QED BY <3>1, Zenon
  <2>4. \A n \in 0 .. m : f[n] = B(f, n)
    <3> HIDE DEF B
    <3> QED BY <2>1
  <2>5. \A n \in 0 .. m + 1 : more[n] = B(f, n)
    <3> HIDE DEF B
    <3>1. \A n \in 0 .. m + 1 : n \in 0 .. m \/ n = m + 1
      OBVIOUS
    <3>2. more[m + 1] = B(f, m + 1)
      OBVIOUS
    <3> QED BY <2>2, <2>4, <3>1, <3>2
  <2>6. more = [n \in 0 .. m + 1 |-> B(more, n)]
    <3>1. \A n \in 0 .. m + 1 : more[n] = B(more, n)
      BY <2>3, <2>5, Zenon
    <3>2. more = [n \in 0 .. m + 1 |-> more[n]]
      OBVIOUS
    <3> HIDE DEF B, more
    <3> QED BY <3>1, <3>2
  <2>7. more = F(more, m + 1)
    BY <2>6, Zenon
  <2> HIDE DEF F, more
  <2> QED BY <1>0, <2>7
<1>3. 0 .. size \subseteq T
  <2> HIDE DEF T, size
  <2> QED BY <1>0, <1>1, <1>2, UpToByStep
<1>4. \E f : f = F(f, size)
  <2> HIDE DEF F
  <2> QED BY <1>0, <1>3
<1>5. Stages(structs) = F(Stages(structs), size)
  BY <1>4, Zenon DEF Stages, OneLevel, FieldsMeant, Meant
<1> QED BY <1>5, Zenon

LEMMA StageFacts ==
    ASSUME NEW structs
    PROVE  /\ Stages(structs)[0] = [p \in Param |-> p]
           /\ \A depth \in 1 .. Nesting :
                 Stages(structs)[depth] =
                     [p \in Param |-> OneLevel(p, structs, Stages(structs)[depth - 1])]
<1> DEFINE f == Stages(structs)
           B(n) == [p \in Param |-> IF n = 0 THEN p ELSE OneLevel(p, structs, f[n - 1])]
<1>0. Nesting \in Nat
  BY NestingAssumption
<1>1. f = [n \in 0 .. Nesting |-> B(n)]
  BY StagesDef, Zenon
<1> HIDE DEF f, B
<1>2. \A n \in 0 .. Nesting : f[n] = B(n)
  BY <1>1
<1>3. f[0] = B(0)
  BY <1>0, <1>2
<1>4. B(0) = [p \in Param |-> p]
  BY DEF B
<1>5. ASSUME NEW n \in 1 .. Nesting
      PROVE  f[n] = [p \in Param |-> OneLevel(p, structs, f[n - 1])]
  <2>1. f[n] = B(n) /\ n # 0
    BY <1>0, <1>2
  <2>2. B(n) = [p \in Param |-> OneLevel(p, structs, f[n - 1])]
    BY <2>1, Zenon DEF B
  <2> QED BY <2>1, <2>2
<1> QED BY <1>3, <1>4, <1>5 DEF f

\* A type without fields: neither a tuple nor the name of a struct.
Plain(p, structs) == p.components = <<>> /\ Meant(p, structs) = {}

\* No alias is the name of a struct.
LEMMA KindIsPlain ==
    ASSUME NEW structs, ProperStructs(structs), NEW q \in Param,
           q.type \in (BuiltIn \ {"tuple", "tuple[]"}) \cup DOMAIN Alias
    PROVE  Plain(q, structs)
<1>1. q.type \notin {"tuple", "tuple[]"}
  BY AliasAssumption DEF BuiltIn
<1>2. q.components = <<>>
  BY <1>1, ParamFacts
<1>3. Meant(q, structs) = {}
  BY StructFacts DEF Meant
<1> QED BY <1>2, <1>3 DEF Plain

LEMMA WordIsPlain ==
    ASSUME NEW structs, ProperStructs(structs), NEW q \in Param, Kind(q.type) = "word"
    PROVE  Plain(q, structs)
<1>1. q.type \in (BuiltIn \ {"tuple", "tuple[]"}) \cup DOMAIN Alias
  BY DEF Kind, BuiltIn
<1> QED BY <1>1, KindIsPlain

\* What has no fields stays what it is, and nothing else becomes a word.
LEMMA StagePlain ==
    ASSUME NEW structs, ProperStructs(structs), NEW depth \in 0 .. Nesting, NEW q \in Param
    PROVE  /\ Plain(q, structs) => Stages(structs)[depth][q] = q
           /\ Kind(Stages(structs)[depth][q].type) = "word" => Plain(q, structs)
<1>0. Nesting \in Nat
  BY NestingAssumption
<1>1. CASE depth = 0
  <2>1. Stages(structs)[depth] = [p \in Param |-> p]
    BY <1>1, StageFacts, Zenon
  <2>2. Stages(structs)[depth][q] = q
    BY <2>1
  <2> QED BY <2>2, WordIsPlain
<1>2. CASE depth # 0
  <2> DEFINE below == Stages(structs)[depth - 1]
             fields == FieldsMeant(q, structs)
             components == [i \in DOMAIN fields |-> below[fields[i]]]
             type == IF Meant(q, structs) = {} THEN q.type ELSE "tuple"
             new == [name |-> q.name, type |-> type, components |-> components]
  <2>1. Stages(structs)[depth] = [p \in Param |-> OneLevel(p, structs, below)]
    <3>1. depth \in 1 .. Nesting
      BY <1>0, <1>2
    <3> QED BY <3>1, StageFacts
  <2> HIDE DEF below
  <2>2. Stages(structs)[depth][q] = OneLevel(q, structs, below)
    BY <2>1
  <2>3. OneLevel(q, structs, below) = new
    BY DEF OneLevel
  <2>4. Kind(type) = "word" => Plain(q, structs)
    <3>1. Kind("tuple") # "word"
      BY KindFacts DEF BuiltIn
    <3> QED BY <3>1, WordIsPlain
  <2>5. new.type = type
    OBVIOUS
  <2>6. ASSUME Plain(q, structs) PROVE new = q
    <3>1. q.components = <<>> /\ Meant(q, structs) = {}
      BY <2>6 DEF Plain
    <3>2. fields = <<>>
      BY <3>1 DEF FieldsMeant
    <3>3. components = <<>>
      BY <3>2
    <3>4. type = q.type
      BY <3>1
    <3>5. q = [name |-> q.name, type |-> q.type, components |-> q.components]
      BY ParamShape
    <3> HIDE DEF components, type
    <3> QED BY <3>1, <3>3, <3>4, <3>5
  <2> HIDE DEF new, type
  <2> QED BY <2>2, <2>3, <2>4, <2>5, <2>6, Zenon
<1> QED BY <1>1, <1>2

LEMMA NoStructsAtNone ==
    ASSUME NEW structs, ProperStructs(structs), Nesting = 0
    PROVE  structs = <<>>
<1> SUFFICES ASSUME structs # <<>> PROVE FALSE
  OBVIOUS
<1>1. structs \in Seq(Struct) /\ 1 \in DOMAIN structs
  BY DEF ProperStructs
<1> DEFINE struct == structs[1]
           q == StructType(struct)
<1>2. struct.fields # <<>> /\ q \in Param
  BY <1>1, StructFacts
<1> HIDE DEF struct
<1>3. q.components = struct.fields
  BY DEF StructType
<1> HIDE DEF q
<1>4. q \in Below(0 + 1)
  BY <1>2, BelowStep, Zenon
<1>5. q.components \in Seq(Below(0))
  BY <1>4, LevelFacts
<1>6. Below(0) = {}
  BY BelowStep
<1> DEFINE comps == q.components
<1> HIDE DEF comps
<1>7. comps \in Seq({}) /\ comps # <<>>
  BY <1>2, <1>3, <1>5, <1>6 DEF comps
<1>8. 1 \in DOMAIN comps
  BY <1>7
<1>9. comps[1] \in {}
  BY <1>7, <1>8
<1> QED BY <1>9


\* A parameter with its structs spelt out.
LEMMA ExpandedFacts ==
    ASSUME NEW p \in Param, NEW structs, ProperStructs(structs)
    PROVE  LET whole == Expanded(p, structs)
               fields == FieldsMeant(p, structs)
           IN  /\ fields \in Seq(Param)
               /\ whole = [name |-> p.name, type |-> whole.type, components |-> whole.components]
               /\ whole.type = IF Meant(p, structs) = {} THEN p.type ELSE "tuple"
               /\ whole.components = [i \in DOMAIN fields |-> whole.components[i]]
               /\ \A i \in DOMAIN fields :
                     (Kind(whole.components[i].type) = "word" \/ Plain(fields[i], structs))
                         => whole.components[i] = fields[i]
<1> DEFINE whole == Expanded(p, structs)
           fields == FieldsMeant(p, structs)
           type == IF Meant(p, structs) = {} THEN p.type ELSE "tuple"
<1>0. Nesting \in Nat
  BY NestingAssumption
<1>1. whole = Stages(structs)[Nesting][p]
  BY DEF Expanded, Stages
<1>2. fields \in Seq(Param)
  <2>1. CASE Meant(p, structs) = {}
    <3>1. fields = p.components
      BY <2>1 DEF FieldsMeant
    <3> QED BY <3>1, ParamFacts
  <2>2. CASE Meant(p, structs) # {}
    <3> DEFINE i == CHOOSE i \in Meant(p, structs) : TRUE
               q == StructType(structs[i])
    <3>1. i \in Meant(p, structs)
      <4> HIDE DEF Meant
      <4> QED BY <2>2
    <3>2. fields = structs[i].fields
      BY <2>2, Zenon DEF FieldsMeant
    <3>3. i \in DOMAIN structs
      BY <3>1 DEF Meant
    <3> HIDE DEF i
    <3>4. q \in Param
      BY <3>3, StructFacts
    <3>5. q.components = structs[i].fields
      BY DEF StructType
    <3> HIDE DEF q
    <3>6. q.components \in Seq(Param)
      BY <3>4, ParamFacts
    <3> QED BY <3>2, <3>5, <3>6, Zenon
  <2> QED BY <2>1, <2>2
<1>3. CASE Nesting = 0
  <2>1. structs = <<>>
    BY <1>3, NoStructsAtNone
  <2>2. Meant(p, structs) = {}
    BY <2>1 DEF Meant
  <2>3. fields = p.components
    BY <2>2 DEF FieldsMeant
  <2>4. Stages(structs)[0] = [q \in Param |-> q]
    BY StageFacts
  <2>5. whole = p
    BY <1>1, <1>3, <2>4
  <2>6. p = [name |-> p.name, type |-> p.type, components |-> p.components]
    BY ParamShape
  <2> DEFINE comps == p.components
  <2>7. comps \in Seq(Param)
    BY <1>2, <2>3
  <2> HIDE DEF comps
  <2>8. comps = [i \in DOMAIN comps |-> comps[i]]
    BY <2>7
  <2> HIDE DEF whole
  <2> QED BY <1>2, <2>2, <2>3, <2>5, <2>6, <2>8 DEF comps, whole
<1>4. CASE Nesting # 0
  <2> DEFINE below == Stages(structs)[Nesting - 1]
             comps == [i \in DOMAIN fields |-> below[fields[i]]]
             new == [name |-> p.name, type |-> type, components |-> comps]
  <2>1. Stages(structs)[Nesting] = [q \in Param |-> OneLevel(q, structs, below)]
    <3>1. Nesting \in 1 .. Nesting
      BY <1>0, <1>4
    <3> QED BY <3>1, StageFacts
  <2>2. Nesting - 1 \in 0 .. Nesting
    BY <1>0, <1>4
  <2>3. \A q \in Param : /\ Plain(q, structs) => below[q] = q
                         /\ Kind(below[q].type) = "word" => Plain(q, structs)
    BY <2>2, StagePlain
  <2> HIDE DEF below
  <2>4. whole = new
    <3>1. whole = OneLevel(p, structs, below)
      BY <1>1, <2>1
    <3> QED BY <3>1 DEF OneLevel
  <2> HIDE DEF fields, type
  <2>5. \A i \in DOMAIN fields : (Kind(comps[i].type) = "word" \/ Plain(fields[i], structs))
                                     => comps[i] = fields[i]
    <3> SUFFICES ASSUME NEW i \in DOMAIN fields,
                        Kind(comps[i].type) = "word" \/ Plain(fields[i], structs)
                 PROVE  comps[i] = fields[i]
      OBVIOUS
    <3> DEFINE q == fields[i]
    <3>1. q \in Param /\ comps[i] = below[q]
      BY <1>2
    <3> HIDE DEF comps, q
    <3>2. Kind(below[q].type) = "word" \/ Plain(q, structs)
      BY <3>1 DEF q
    <3> QED BY <2>3, <3>1, <3>2 DEF q
  <2>6. comps = [i \in DOMAIN fields |-> comps[i]]
    OBVIOUS
  <2> HIDE DEF comps
  <2>7. new.type = type /\ new.components = comps
    OBVIOUS
  <2> HIDE DEF new, whole
  <2>8. whole.type = type /\ whole.components = comps
    BY <2>4, <2>7
  <2>9. whole = [name |-> p.name, type |-> type, components |-> comps]
    BY <2>4 DEF new
  <2> QED BY <1>2, <2>5, <2>6, <2>8, <2>9, Zenon DEF fields, type, whole
<1> QED BY <1>3, <1>4

\* A word, a pointer, or a tuple of words.
ShallowOne(p) ==
    \/ Kind(p.type) \in {"word", "dynamic"} /\ p.type \notin Qualified
    \/ p.type = "tuple" /\ Words(p.components)

Spelt(p, structs) ==
    [name |-> p.name, type |-> IF Meant(p, structs) = {} THEN p.type ELSE "tuple",
     components |-> FieldsMeant(p, structs)]

LEMMA SpeltFacts ==
    ASSUME NEW p \in Param, NEW structs, ProperStructs(structs)
    PROVE  /\ Meant(p, structs) = {} => Spelt(p, structs) = p
           /\ Meant(p, structs) # {} => Spelt(p, structs) = ParseSolidityParam(p, structs)
           /\ Meant(p, structs) = {} /\ p.type \notin Qualified => ParseSolidityParam(p, structs) = p
           /\ Meant(p, structs) = {} /\ p.type \in Qualified =>
                 /\ ParseSolidityParam(p, structs).type = "tuple"
                 /\ ParseSolidityParam(p, structs).components = <<>>
<1> DEFINE meant == Meant(p, structs)
           P == ParseSolidityParam(p, structs)
           first == CHOOSE s \in DOMAIN structs :
                        /\ structs[s].name = p.type
                        /\ \A t \in 1 .. s - 1 : structs[t].name # p.type
<1>0. p = [name |-> p.name, type |-> p.type, components |-> p.components]
  BY ParamShape
<1>1. P = IF \E s \in DOMAIN structs : structs[s].name = p.type
          THEN [p EXCEPT !.type = "tuple", !.components = structs[first].fields]
          ELSE IF p.type \in Qualified THEN [p EXCEPT !.type = "tuple"]
          ELSE p
  BY Zenon DEF ParseSolidityParam
<1>2. (\E s \in DOMAIN structs : structs[s].name = p.type) <=> meant # {}
  BY DEF Meant
<1>3. CASE meant = {}
  <2>1. Spelt(p, structs) = p
    <3>1. FieldsMeant(p, structs) = p.components
      BY <1>3, Zenon DEF FieldsMeant
    <3> QED BY <1>0, <1>3, <3>1, Zenon DEF Spelt
  <2>2. P = IF p.type \in Qualified THEN [p EXCEPT !.type = "tuple"] ELSE p
    BY <1>1, <1>2, <1>3, Zenon
  <2>3. ASSUME p.type \in Qualified PROVE P.type = "tuple" /\ P.components = <<>>
    <3>1. p.type \notin BuiltIn
      BY <2>3, ConverterAssumption
    <3>2. p.components = <<>>
      BY <3>1, ParamFacts DEF BuiltIn
    <3> DEFINE new == [name |-> p.name, type |-> "tuple", components |-> p.components]
    <3>3. P = new
      BY <2>2, <2>3, RetypedParam, Zenon
    <3>4. new.type = "tuple" /\ new.components = p.components
      OBVIOUS
    <3> HIDE DEF new, P
    <3> QED BY <3>2, <3>3, <3>4
  <2> HIDE DEF P
  <2>4. p.type \notin Qualified => P = p
    BY <2>2
  <2> QED BY <1>3, <2>1, <2>3, <2>4 DEF P
<1>4. CASE meant # {}
  <2> DEFINE any == CHOOSE i \in meant : TRUE
  <2>1. any \in meant
    <3> HIDE DEF meant
    <3> QED BY <1>4
  <2>2. FieldsMeant(p, structs) = structs[any].fields
    BY <1>4, Zenon DEF FieldsMeant
  <2> HIDE DEF any
  <2>3. any \in DOMAIN structs /\ structs[any].name = p.type
    BY <2>1 DEF Meant
  <2>4. /\ \A i, j \in DOMAIN structs : structs[i].name = structs[j].name => i = j
        /\ Len(structs) \in Nat /\ DOMAIN structs = 1 .. Len(structs)
    BY StructFacts
  <2>5. \A t \in 1 .. any - 1 : structs[t].name # p.type
    <3> SUFFICES ASSUME NEW t \in 1 .. any - 1 PROVE structs[t].name # p.type
      OBVIOUS
    <3>1. t \in DOMAIN structs /\ t # any
      BY <2>3, <2>4
    <3> QED BY <2>3, <2>4, <3>1
  <2>6. first \in DOMAIN structs /\ structs[first].name = p.type
    BY <2>3, <2>5
  <2> HIDE DEF first
  <2>7. first = any
    BY <2>3, <2>4, <2>6
  <2>8. P = [p EXCEPT !.type = "tuple", !.components = structs[any].fields]
    BY <1>1, <1>2, <1>4, <2>7, Zenon
  <2>9. P = [name |-> p.name, type |-> "tuple", components |-> structs[any].fields]
    BY <2>8, RetypedParam, Zenon
  <2>10. Spelt(p, structs) = [name |-> p.name, type |-> "tuple", components |-> structs[any].fields]
    BY <1>4, <2>2, Zenon DEF Spelt
  <2> HIDE DEF P
  <2>11. Spelt(p, structs) = P
    BY <2>9, <2>10
  <2> QED BY <1>4, <2>11 DEF P
<1> QED BY <1>3, <1>4

\* A parameter that is shallow once its structs are spelt out is what the
\* parser makes of it, and one it makes shallow is what is declared.
LEMMA ShallowIsParsed ==
    ASSUME NEW p \in Param, NEW structs, ProperStructs(structs)
    PROVE  LET whole == Expanded(p, structs)
               seen  == ParseSolidityParam(p, structs)
           IN  /\ ShallowOne(whole) => seen = whole
               /\ ShallowOne(seen) /\ ~(seen.type = "tuple" /\ seen.components = <<>>) => seen = whole
               /\ structs = <<>> /\ (ShallowOne(whole) \/ ShallowOne(p)) => p = whole
               /\ (p.type = "tuple" => p.components # <<>>) /\ ShallowOne(whole) =>
                     ~(whole.type = "tuple" /\ whole.components = <<>>)
<1> DEFINE whole == Expanded(p, structs)
           seen == ParseSolidityParam(p, structs)
           fields == FieldsMeant(p, structs)
           spelt == Spelt(p, structs)
           meant == Meant(p, structs)
           type == IF meant = {} THEN p.type ELSE "tuple"
<1>1. /\ fields \in Seq(Param)
      /\ whole = [name |-> p.name, type |-> whole.type, components |-> whole.components]
      /\ whole.type = type
      /\ whole.components = [i \in DOMAIN fields |-> whole.components[i]]
      /\ \A i \in DOMAIN fields :
            (Kind(whole.components[i].type) = "word" \/ Plain(fields[i], structs))
                => whole.components[i] = fields[i]
  BY ExpandedFacts
<1>2. /\ meant = {} => spelt = p
      /\ meant # {} => spelt = seen
      /\ meant = {} /\ p.type \notin Qualified => seen = p
      /\ meant = {} /\ p.type \in Qualified => seen.type = "tuple" /\ seen.components = <<>>
  BY SpeltFacts
<1>3. spelt.type = type /\ spelt.components = fields
      /\ spelt = [name |-> p.name, type |-> type, components |-> fields]
  BY DEF Spelt
<1>4. meant # {} => type = "tuple"
  OBVIOUS
<1>5. meant = {} => type = p.type /\ fields = p.components
  BY DEF FieldsMeant
<1>6. meant # {} => fields # <<>>
  <2> SUFFICES ASSUME meant # {} PROVE fields # <<>>
    OBVIOUS
  <2> DEFINE any == CHOOSE i \in meant : TRUE
  <2>1. any \in meant
    <3> HIDE DEF meant
    <3> QED OBVIOUS
  <2>2. fields = structs[any].fields
    BY Zenon DEF FieldsMeant
  <2> HIDE DEF any
  <2>3. any \in DOMAIN structs
    BY <2>1 DEF Meant
  <2> QED BY <2>2, <2>3, StructFacts
<1> HIDE DEF whole, seen, fields, spelt, meant, type
<1>7. ASSUME ShallowOne(whole) \/ ShallowOne(spelt) PROVE whole = spelt
  <2>1. CASE type = "tuple"
    <3>1. \A i \in DOMAIN fields : whole.components[i] = fields[i]
      <4>1. DOMAIN whole.components = DOMAIN fields
        BY <1>1
      <4>2. Kind(type) = "tuple"
        BY <2>1, KindFacts DEF BuiltIn
      <4>3. Words(whole.components) \/ Words(fields)
        BY <1>1, <1>3, <1>7, <4>2 DEF ShallowOne
      <4>4. Words(fields) => \A i \in DOMAIN fields : Plain(fields[i], structs)
        BY <1>1, WordIsPlain DEF Words
      <4> QED BY <1>1, <4>1, <4>3, <4>4 DEF Words
    <3>2. fields = [i \in DOMAIN fields |-> fields[i]]
      BY <1>1
    <3>3. whole.components = fields
      BY <1>1, <3>1, <3>2
    <3> QED BY <1>1, <1>3, <3>3, Zenon
  <2>2. CASE type # "tuple"
    <3>1. Kind(type) \in {"word", "dynamic"} /\ meant = {}
      BY <1>1, <1>3, <1>4, <1>7, <2>2 DEF ShallowOne
    <3>2. p.components = <<>> /\ fields = <<>>
      <4>1. type \notin {"tuple", "tuple[]"}
        BY <3>1, KindFacts
      <4> QED BY <1>5, <3>1, <4>1, ParamFacts
    <3>3. DOMAIN fields = {}
      BY <3>2
    <3>4. whole.components = <<>>
      BY <1>1, <3>3
    <3>5. whole.components = fields
      BY <3>2, <3>4
    <3> QED BY <1>1, <1>3, <3>5, Zenon
  <2> QED BY <2>1, <2>2
<1>8. ASSUME ShallowOne(whole) PROVE seen = whole
  <2>1. spelt = whole
    BY <1>7, <1>8
  <2>2. CASE meant # {}
    BY <1>2, <2>1, <2>2
  <2>3. CASE meant = {}
    <3>1. p.type = "tuple" \/ p.type \notin Qualified
      BY <1>1, <1>5, <1>8, <2>3 DEF ShallowOne
    <3>2. p.type \notin Qualified
      BY <3>1, ConverterAssumption DEF BuiltIn
    <3> QED BY <1>2, <2>1, <2>3, <3>2
  <2> QED BY <2>2, <2>3
<1>9. ASSUME ShallowOne(seen), ~(seen.type = "tuple" /\ seen.components = <<>>) PROVE seen = whole
  <2>1. seen = spelt
    BY <1>2, <1>9
  <2> QED BY <1>7, <1>9, <2>1
<1>10. ASSUME structs = <<>>, ShallowOne(whole) \/ ShallowOne(p) PROVE p = whole
  <2>1. meant = {}
    BY <1>10 DEF meant, Meant
  <2> QED BY <1>2, <1>7, <1>10, <2>1
<1>11. ASSUME p.type = "tuple" => p.components # <<>>, ShallowOne(whole),
              whole.type = "tuple", whole.components = <<>>
       PROVE  FALSE
  <2>1. fields = <<>> /\ type = "tuple"
    BY <1>1, <1>3, <1>7, <1>11
  <2>2. meant = {}
    BY <1>6, <2>1
  <2> QED BY <1>5, <1>11, <2>1, <2>2
<1> QED BY <1>8, <1>9, <1>10, <1>11 DEF whole, seen

LEMMA WordKinds ==
    ASSUME NEW p \in Param, Kind(p.type) = "word"
    PROVE  ~AbiDynamic(p) /\ p.type # "tuple"
<1>1. p.type # "tuple"
  BY KindFacts
<1> QED BY <1>1, KindsFacts DEF AbiDynamic

LEMMA ShallowKinds ==
    ASSUME NEW p \in Param, ShallowOne(p)
    PROVE  AbiDynamic(p) <=> Kind(p.type) = "dynamic"
<1>1. CASE p.type = "tuple"
  <2>1. \A i \in DOMAIN p.components : Kind(p.components[i].type) = "word" /\ p.components[i] \in Param
    <3>1. Kind(p.type) = "tuple"
      BY <1>1, KindFacts
    <3> QED BY <1>1, <3>1, ParamFacts DEF ShallowOne, Words
  <2>2. \A i \in DOMAIN p.components : KindsIn(p.components[i]) = {"word"}
    <3> SUFFICES ASSUME NEW i \in DOMAIN p.components PROVE KindsIn(p.components[i]) = {"word"}
      OBVIOUS
    <3> DEFINE q == p.components[i]
    <3>1. q \in Param /\ Kind(q.type) = "word"
      BY <2>1
    <3> HIDE DEF q
    <3>2. KindsIn(q) = {"word"}
      BY <3>1, WordKinds, KindsFacts
    <3> QED BY <3>2 DEF q
  <2>3. \A t \in KindsIn(p) : t = "tuple" \/ t = "word"
    BY <1>1, <2>2, KindsFacts
  <2>4. Kind(p.type) = "tuple"
    BY <1>1, KindFacts
  <2> QED BY <2>3, <2>4 DEF AbiDynamic
<1>2. CASE p.type # "tuple"
  <2>1. KindsIn(p) = {Kind(p.type)} /\ Kind(p.type) \in {"word", "dynamic"}
    BY <1>2, KindsFacts DEF ShallowOne
  <2> QED BY <2>1 DEF AbiDynamic
<1> QED BY <1>1, <1>2

\* Parameters that are all words have a word each.
LEMMA WordsHeads ==
    ASSUME NEW params \in Seq(Param), Words(params)
    PROVE  /\ Len(Heads(params)) = Len(params)
           /\ \A i \in 1 .. Len(params) : Heads(params)[i] = HeadWord(<<params[i].name>>, "value")
<1> DEFINE sizes == WordsOf(params)
           size == Len(params)
<1>0. size \in Nat /\ DOMAIN params = 1 .. size
  OBVIOUS
<1>1. \A i \in 1 .. size : params[i] \in Param /\ Kind(params[i].type) = "word"
  BY <1>0 DEF Words
<1>2. ASSUME NEW i \in 1 .. size
      PROVE  ~AbiDynamic(params[i]) /\ HeadOf[params[i]] = <<HeadWord(<<params[i].name>>, "value")>>
  <2> DEFINE p == params[i]
  <2>1. p \in Param /\ Kind(p.type) = "word"
    BY <1>1
  <2> HIDE DEF p
  <2>2. ~AbiDynamic(p) /\ p.type # "tuple"
    BY <2>1, WordKinds
  <2>3. HeadOf[p] = <<HeadWord(<<p.name>>, "value")>>
    BY <2>1, <2>2, HeadShape
  <2> QED BY <2>2, <2>3 DEF p
<1>3. \A i \in DOMAIN params : HeadOf[params[i]] \in Seq(Word)
  BY <1>0, <1>1, HeadShape
<1>4. /\ sizes \in Seq(Nat) /\ Len(sizes) = size
      /\ Len(Heads(params)) = Sums(sizes)[size]
  BY <1>3, HeadsAre
<1>5. \A i \in 1 .. size : sizes[i] = 1
  <2>1. \A i \in 1 .. size : sizes[i] = Len(HeadOf[params[i]])
    BY <1>0 DEF WordsOf
  <2>2. \A word : Len(<<word>>) = 1
    OBVIOUS
  <2> HIDE DEF sizes
  <2> QED BY <1>2, <2>1, <2>2
<1> HIDE DEF sizes
<1>6. \A n \in 0 .. size : Sums(sizes)[n] = n
  BY <1>4, <1>5, OnesFacts
<1>7. Len(Heads(params)) = size
  BY <1>0, <1>4, <1>6
<1>8. ASSUME NEW i \in 1 .. size PROVE Heads(params)[i] = HeadWord(<<params[i].name>>, "value")
  <2>1. ~AbiDynamic(params[i]) /\ params[i].type # "tuple" /\ Kind(params[i].type) # "fixed"
    BY <1>1, <1>2, WordKinds
  <2>2. Heads(params)[Sums(sizes)[i - 1] + 1] = HeadWord(<<params[i].name>>, "value")
    BY <2>1, ValueWord DEF sizes
  <2>3. Sums(sizes)[i - 1] = i - 1
    BY <1>0, <1>6
  <2>4. Sums(sizes)[i - 1] + 1 = i
    BY <1>0, <2>3
  <2> QED BY <2>2, <2>4
<1> QED BY <1>7, <1>8

\* A word, a pointer or a tuple of words has the fields of its head.
LEMMA ShallowHead ==
    ASSUME NEW p \in Param, ShallowOne(p), ~(p.type = "tuple" /\ p.components = <<>>)
    PROVE  LET flat == FlatParam[p]
           IN  /\ Len(HeadOf[p]) = Len(flat) /\ Even(p)
               /\ \A k \in 1 .. Len(flat) :
                     HeadOf[p][k] = HeadWord(flat[k].path, IF flat[k].dynamic THEN "pointer" ELSE "value")
<1> DEFINE flat == FlatParam[p]
           head == HeadOf[p]
<1>1. CASE p.type # "tuple"
  <2>1. /\ Len(flat) = 1 /\ flat[1].path = <<p.name>>
        /\ flat[1].offset = 0 /\ flat[1].size = 1
        /\ flat[1].dynamic = AnalyzedDynamic(p.type)
    BY <1>1, SingleField
  <2>2. Kind(p.type) \in {"word", "dynamic"}
    BY <1>1 DEF ShallowOne
  <2>3. Even(p)
    <3> SUFFICES ASSUME NEW k \in 1 .. Len(flat) PROVE flat[k].offset = k - 1 /\ flat[k].size = 1
      BY DEF Even
    <3> HIDE DEF flat
    <3>1. k = 1
      BY <2>1
    <3> QED BY <2>1, <3>1
  <2> DEFINE word == HeadWord(<<p.name>>, IF flat[1].dynamic THEN "pointer" ELSE "value")
  <2>4. head = <<word>>
    <3>1. CASE Kind(p.type) = "dynamic"
      <4>1. AbiDynamic(p)
        BY <3>1, ShallowKinds
      <4>2. head = <<HeadWord(<<p.name>>, "pointer")>>
        BY <4>1, HeadShape
      <4>3. flat[1].dynamic
        BY <2>1, <3>1 DEF AnalyzedDynamic
      <4> QED BY <4>2, <4>3
    <3>2. CASE Kind(p.type) = "word"
      <4>1. ~AbiDynamic(p)
        BY <3>2, ShallowKinds
      <4>2. head = <<HeadWord(<<p.name>>, "value")>>
        BY <1>1, <3>2, <4>1, HeadShape
      <4>3. ~flat[1].dynamic
        BY <2>1, <3>2 DEF AnalyzedDynamic
      <4> QED BY <4>2, <4>3
    <3> QED BY <2>2, <3>1, <3>2
  <2> HIDE DEF word, head, flat
  <2>5. Len(head) = 1 /\ head[1] = word
    BY <2>4
  <2>6. \A k \in 1 .. Len(flat) :
            head[k] = HeadWord(flat[k].path, IF flat[k].dynamic THEN "pointer" ELSE "value")
    <3> SUFFICES ASSUME NEW k \in 1 .. Len(flat)
                 PROVE  head[k] = HeadWord(flat[k].path, IF flat[k].dynamic THEN "pointer" ELSE "value")
      OBVIOUS
    <3>1. k = 1
      BY <2>1
    <3>2. head[1] = HeadWord(flat[1].path, IF flat[1].dynamic THEN "pointer" ELSE "value")
      BY <2>1, <2>5 DEF word
    <3> QED BY <3>1, <3>2
  <2> QED BY <2>1, <2>3, <2>5, <2>6 DEF flat, head
<1>2. CASE p.type = "tuple"
  <2> DEFINE comps == p.components
             size == Len(comps)
             sizes == FieldsOf(comps)
             name == <<p.name>>
  <2>0. Kind(p.type) = "tuple"
    BY <1>2, KindFacts
  <2>1. comps \in Seq(Param) /\ comps # <<>> /\ Words(comps) /\ name \in Seq(STRING)
    BY <1>2, <2>0, ParamFacts DEF ShallowOne
  <2>2. size \in Nat /\ DOMAIN comps = 1 .. size
    BY <2>1
  <2>3. \A i \in 1 .. size : comps[i] \in Param /\ Kind(comps[i].type) = "word"
    BY <2>1, <2>2 DEF Words
  <2>4. ASSUME NEW i \in 1 .. size
        PROVE  LET of == FlatParam[comps[i]]
               IN  /\ of \in Seq(Flat) /\ Len(of) = 1
                   /\ of[1].path = <<comps[i].name>> /\ of[1].offset = 0
                   /\ of[1].size = 1 /\ of[1].dynamic = FALSE
    <3> DEFINE q == comps[i]
    <3>1. q \in Param /\ Kind(q.type) = "word"
      BY <2>3
    <3> HIDE DEF q
    <3>2. AnalyzedDynamic(q.type) = FALSE /\ q.type # "tuple"
      BY <3>1, WordKinds DEF AnalyzedDynamic
    <3>3. /\ FlatParam[q] \in Seq(Flat) /\ Len(FlatParam[q]) = 1
          /\ FlatParam[q][1].path = <<q.name>> /\ FlatParam[q][1].offset = 0
          /\ FlatParam[q][1].size = 1 /\ FlatParam[q][1].dynamic = AnalyzedDynamic(q.type)
      BY <3>1, <3>2, SingleField
    <3> QED BY <3>2, <3>3 DEF q
  <2>5. \A i \in DOMAIN comps : FlatParam[comps[i]] \in Seq(Flat) \ {<<>>}
    BY <2>2, <2>3, FlatFacts
  <2>6. /\ flat \in Seq(Flat)
        /\ Len(flat) = Sums(sizes)[size]
        /\ \A i \in 1 .. size : \A k \in 1 .. sizes[i] :
              flat[Sums(sizes)[i - 1] + k] = Moved(FlatParam[comps[i]], name, i - 1)[k]
    BY <1>2, <2>1, <2>5, TupleFields
  <2>7. sizes \in Seq(Nat) /\ Len(sizes) = size /\ \A i \in 1 .. size : sizes[i] = 1
    BY <2>1, <2>4, <2>5, FieldsOfFacts
  <2> HIDE DEF flat, sizes, size, name
  <2>8. \A n \in 0 .. size : Sums(sizes)[n] = n
    BY <2>7, OnesFacts
  <2>9. Len(flat) = size
    BY <2>2, <2>6, <2>8
  <2>10. ASSUME NEW k \in 1 .. size
         PROVE  /\ flat[k].path = name \o <<comps[k].name>> /\ flat[k].offset = k - 1
                /\ flat[k].size = 1 /\ flat[k].dynamic = FALSE
    <3> DEFINE of == FlatParam[comps[k]]
    <3>1. /\ of \in Seq(Flat) /\ Len(of) = 1
          /\ of[1].path = <<comps[k].name>> /\ of[1].offset = 0
          /\ of[1].size = 1 /\ of[1].dynamic = FALSE
      BY <2>4
    <3> HIDE DEF of
    <3>2. k - 1 \in Nat /\ k - 1 \in 0 .. size /\ 1 \in 1 .. 1
      BY <2>2
    <3>3. Sums(sizes)[k - 1] + 1 = k
      <4>1. Sums(sizes)[k - 1] = k - 1
        BY <2>8, <3>2
      <4> QED BY <2>2, <4>1
    <3>4. 1 \in 1 .. sizes[k]
      BY <2>7
    <3>5. flat[Sums(sizes)[k - 1] + 1] = Moved(of, name, k - 1)[1]
      BY <2>6, <3>4 DEF of
    <3>6. /\ Moved(of, name, k - 1)[1].path = name \o of[1].path
          /\ Moved(of, name, k - 1)[1].offset = (k - 1) + of[1].offset
          /\ Moved(of, name, k - 1)[1].dynamic = of[1].dynamic
          /\ Moved(of, name, k - 1)[1].size = of[1].size
      <4>1. name \in Seq(STRING)
        BY <2>1
      <4> DEFINE base == k - 1
      <4>2. base \in Nat
        BY <3>2
      <4> HIDE DEF base
      <4>3. \A n \in 1 .. Len(of) :
                /\ Moved(of, name, base)[n].path = name \o of[n].path
                /\ Moved(of, name, base)[n].offset = base + of[n].offset
                /\ Moved(of, name, base)[n].dynamic = of[n].dynamic
                /\ Moved(of, name, base)[n].size = of[n].size
        BY <3>1, <4>1, <4>2, MovedFacts
      <4>4. 1 \in 1 .. Len(of)
        BY <3>1
      <4> QED BY <4>3, <4>4 DEF base
    <3>7. flat[k] = Moved(of, name, k - 1)[1]
      BY <3>3, <3>5
    <3>8. (k - 1) + 0 = k - 1
      BY <3>2
    <3> QED BY <3>1, <3>6, <3>7, <3>8
  <2>11. Even(p)
    BY <2>9, <2>10 DEF Even, flat
  <2>12. ~AbiDynamic(p)
    BY <2>0, ShallowKinds
  <2>13. /\ head \in Seq(Word)
         /\ Len(head) = Len(Heads(comps))
         /\ \A n \in 1 .. Len(head) :
               /\ head[n].holds = Heads(comps)[n].holds
               /\ head[n].of = name \o Heads(comps)[n].of
    BY <1>2, <2>12, HeadShape DEF name
  <2>14. /\ Len(Heads(comps)) = size
         /\ \A i \in 1 .. size : Heads(comps)[i] = HeadWord(<<comps[i].name>>, "value")
    BY <2>1, WordsHeads DEF size
  <2> HIDE DEF head, comps
  <2>15. ASSUME NEW k \in 1 .. size
         PROVE  head[k] = HeadWord(flat[k].path, IF flat[k].dynamic THEN "pointer" ELSE "value")
    <3>1. head[k] \in Word /\ k \in 1 .. Len(head)
      BY <2>13, <2>14
    <3> DEFINE word == HeadWord(<<comps[k].name>>, "value")
    <3>2. Heads(comps)[k] = word
      BY <2>14
    <3>3. word.holds = "value" /\ word.of = <<comps[k].name>>
      BY DEF HeadWord
    <3>4. head[k].holds = "value" /\ head[k].of = name \o <<comps[k].name>>
      BY <2>13, <3>1, <3>2, <3>3, Zenon
    <3>5. head[k] = [of |-> head[k].of, holds |-> head[k].holds]
      BY <3>1 DEF Word
    <3>6. head[k] = HeadWord(flat[k].path, "value")
      BY <2>10, <3>4, <3>5, Zenon DEF HeadWord
    <3> QED BY <2>10, <3>6
  <2> QED BY <2>9, <2>11, <2>13, <2>14, <2>15 DEF flat, head
<1> QED BY <1>1, <1>2

LEMMA ShallowCovered ==
    ASSUME NEW params \in Seq(Param),
           \A i \in DOMAIN params :
               ShallowOne(params[i]) /\ ~(params[i].type = "tuple" /\ params[i].components = <<>>)
    PROVE  Covers(ComputeParamOffsets(params), params)
<1> DEFINE inputs == ComputeParamOffsets(params)
           heads == Heads(params)
           size == Len(params)
           sums == Sums(FieldsOf(params))
<1>0. size \in Nat /\ DOMAIN params = 1 .. size
  OBVIOUS
<1>1. ASSUME NEW i \in 1 .. size
      PROVE  LET flat == FlatParam[params[i]]
             IN  /\ Len(HeadOf[params[i]]) = Len(flat) /\ Even(params[i])
                 /\ \A k \in 1 .. Len(flat) : HeadOf[params[i]][k] =
                       HeadWord(flat[k].path, IF flat[k].dynamic THEN "pointer" ELSE "value")
  <2> DEFINE p == params[i]
  <2>1. p \in Param /\ ShallowOne(p) /\ ~(p.type = "tuple" /\ p.components = <<>>)
    BY <1>0
  <2> HIDE DEF p
  <2>2. /\ Len(HeadOf[p]) = Len(FlatParam[p]) /\ Even(p)
        /\ \A k \in 1 .. Len(FlatParam[p]) : HeadOf[p][k] =
              HeadWord(FlatParam[p][k].path, IF FlatParam[p][k].dynamic THEN "pointer" ELSE "value")
    BY <2>1, ShallowHead
  <2> QED BY <2>2 DEF p
<1>2. FieldsOf(params) = WordsOf(params)
  BY <1>0, <1>1 DEF FieldsOf, WordsOf
<1>3. /\ inputs \in Seq(Flat)
      /\ Len(inputs) = sums[size]
      /\ \A i \in 1 .. size : \A k \in 1 .. Len(FlatParam[params[i]]) :
            /\ sums[i - 1] + k \in 1 .. Len(inputs)
            /\ inputs[sums[i - 1] + k].path = FlatParam[params[i]][k].path
            /\ inputs[sums[i - 1] + k].dynamic = FlatParam[params[i]][k].dynamic
      /\ \A n \in 1 .. Len(inputs) : \E i \in 1 .. size :
            \E k \in 1 .. Len(FlatParam[params[i]]) : n = sums[i - 1] + k
  BY OffsetsFacts
<1>4. \A n \in 1 .. Len(inputs) : inputs[n].offset = n - 1
  BY <1>1, EvenOffsets
<1>5. /\ Len(heads) = sums[size]
      /\ \A i \in 1 .. size : \A k \in 1 .. Len(HeadOf[params[i]]) :
            heads[sums[i - 1] + k] = HeadOf[params[i]][k]
  <2>1. \A i \in DOMAIN params : HeadOf[params[i]] \in Seq(Word)
    <3>1. \A i \in DOMAIN params : params[i] \in Param
      OBVIOUS
    <3> QED BY <3>1, HeadShape
  <2>2. /\ Len(heads) = Sums(WordsOf(params))[size]
        /\ \A i \in 1 .. size : \A k \in 1 .. Len(HeadOf[params[i]]) :
              heads[Sums(WordsOf(params))[i - 1] + k] = HeadOf[params[i]][k]
    BY <2>1, HeadsAre
  <2> QED BY <1>2, <2>2
<1> HIDE DEF inputs, heads, sums, size
<1>6. ASSUME NEW n \in DOMAIN inputs
      PROVE  /\ inputs[n].offset < Len(heads)
             /\ heads[inputs[n].offset + 1] =
                   HeadWord(inputs[n].path, IF inputs[n].dynamic THEN "pointer" ELSE "value")
  <2>1. n \in 1 .. Len(inputs) /\ Len(inputs) \in Nat /\ Len(heads) = Len(inputs)
    BY <1>3, <1>5
  <2>2. inputs[n].offset = n - 1
    BY <1>4, <2>1
  <2>3. inputs[n].offset < Len(heads) /\ inputs[n].offset + 1 = n
    BY <2>1, <2>2
  <2>4. PICK i \in 1 .. size : \E k \in 1 .. Len(FlatParam[params[i]]) : n = sums[i - 1] + k
    BY <1>3, <2>1
  <2>5. PICK k \in 1 .. Len(FlatParam[params[i]]) : n = sums[i - 1] + k
    BY <2>4
  <2>6. k \in 1 .. Len(HeadOf[params[i]])
    BY <1>1
  <2>7. heads[n] = HeadOf[params[i]][k]
    BY <1>5, <2>5, <2>6
  <2>8. /\ inputs[n].path = FlatParam[params[i]][k].path
        /\ inputs[n].dynamic = FlatParam[params[i]][k].dynamic
    BY <1>3, <2>5
  <2>9. HeadOf[params[i]][k] = HeadWord(FlatParam[params[i]][k].path,
                                        IF FlatParam[params[i]][k].dynamic THEN "pointer" ELSE "value")
    BY <1>1
  <2>10. heads[n] = HeadWord(inputs[n].path, IF inputs[n].dynamic THEN "pointer" ELSE "value")
    BY <2>7, <2>8, <2>9, Zenon
  <2> QED BY <2>3, <2>10
<1>7. Len(inputs) = Len(heads)
  BY <1>3, <1>5
<1> QED BY <1>6, <1>7 DEF Covers, inputs, heads

LEMMA AbiTuple ==
    ASSUME NEW p \in Param, p.type = "tuple"
    PROVE  AbiType[p] = <<"()", [i \in DOMAIN p.components |-> AbiType[p.components[i]]]>>
<1>1. p.type # "tuple[]" /\ Kind(p.type) = p.type
  BY KindFacts DEF BuiltIn
<1> QED BY <1>1, AbiTypeDef

\* A type spelt as that of a word, a pointer or a tuple of words is one.
LEMMA ShallowTypeIs ==
    ASSUME NEW p \in Param, NEW q \in Param, ShallowOne(p),
           ~(p.type = "tuple" /\ p.components = <<>>), CanonicalType[q] = CanonicalType[p]
    PROVE  /\ ShallowOne(q) /\ ~(q.type = "tuple" /\ q.components = <<>>)
           /\ AbiType[q] = AbiType[p]
<1>1. CanonicalType[q] = IF q.type = "tuple"
          THEN <<"()", [i \in DOMAIN q.components |-> CanonicalType[q.components[i]]]>>
          ELSE <<q.type>>
  BY CanonicalTypeDef, Zenon
<1>2. /\ p.type # "tuple" => p.type # "tuple[]" /\ Kind(p.type) \in {"word", "dynamic"}
      /\ p.type = "tuple" => Words(p.components)
  <2>1. Kind("tuple") = "tuple" /\ Kind("tuple[]") = "tuple[]"
    BY KindFacts
  <2> QED BY <2>1 DEF ShallowOne
<1>3. CanonicalType[p] = IF p.type = "tuple"
          THEN <<"()", [i \in DOMAIN p.components |-> CanonicalType[p.components[i]]]>>
          ELSE <<p.type>>
  BY CanonicalTypeDef, Zenon
<1>4. p.components \in Seq(Param) /\ q.components \in Seq(Param)
  BY ParamFacts
<1>5. CASE p.type # "tuple"
  <2>1. CanonicalType[q] = <<p.type>>
    BY <1>3, <1>5
  <2>2. q.type # "tuple"
    <3> SUFFICES ASSUME q.type = "tuple" PROVE FALSE
      OBVIOUS
    <3> DEFINE more == [i \in DOMAIN q.components |-> CanonicalType[q.components[i]]]
    <3>1. CanonicalType[q] = <<"()", more>>
      BY <1>1
    <3> HIDE DEF more
    <3>2. Len(<<"()", more>>) = 2 /\ Len(<<p.type>>) = 1
      OBVIOUS
    <3>3. <<"()", more>> = <<p.type>>
      BY <2>1, <3>1, Zenon
    <3> QED BY <3>2, <3>3
  <2>3. <<q.type>> = <<p.type>>
    BY <1>1, <2>1, <2>2
  <2>4. q.type = p.type
    BY <2>3
  <2>5. /\ AbiType[p] = <<Kind(p.type)>> /\ AbiType[q] = <<Kind(q.type)>>
    BY <1>2, <1>5, <2>4, AbiTypeDef DEF BuiltIn
  <2> QED BY <1>5, <2>4, <2>5 DEF ShallowOne
<1>6. CASE p.type = "tuple"
  <2> DEFINE those(r) == [i \in DOMAIN r.components |-> CanonicalType[r.components[i]]]
  <2>1. CanonicalType[q] = <<"()", those(p)>>
    BY <1>3, <1>6
  <2>2. q.type = "tuple"
    <3> SUFFICES ASSUME q.type # "tuple" PROVE FALSE
      OBVIOUS
    <3>1. CanonicalType[q] = <<q.type>>
      BY <1>1
    <3> DEFINE more == those(p)
    <3> HIDE DEF more
    <3>2. Len(<<"()", more>>) = 2 /\ Len(<<q.type>>) = 1
      OBVIOUS
    <3>3. <<"()", more>> = <<q.type>>
      BY <2>1, <3>1, Zenon DEF more
    <3> QED BY <3>2, <3>3
  <2>3. <<"()", those(q)>> = <<"()", those(p)>>
    BY <1>1, <2>1, <2>2
  <2>4. those(q) = those(p)
    <3> DEFINE a == those(q)
               b == those(p)
    <3> HIDE DEF a, b
    <3>1. <<"()", a>> = <<"()", b>>
      BY <2>3 DEF a, b
    <3>2. a = b
      BY <3>1
    <3> QED BY <3>2 DEF a, b
  <2>5. DOMAIN q.components = DOMAIN p.components
    BY <2>4
  <2>6. \A i \in DOMAIN p.components : CanonicalType[q.components[i]] = CanonicalType[p.components[i]]
    BY <2>4, <2>5
  <2>7. ASSUME NEW i \in DOMAIN q.components
        PROVE  /\ Kind(q.components[i].type) = "word"
               /\ AbiType[q.components[i]] = AbiType[p.components[i]]
    <3> DEFINE field == p.components[i]
               other == q.components[i]
    <3>1. field \in Param /\ Kind(field.type) = "word" /\ other \in Param
      BY <1>2, <1>4, <1>6, <2>5 DEF Words
    <3>2. CanonicalType[other] = CanonicalType[field]
      BY <2>5, <2>6
    <3> HIDE DEF field, other
    <3>3. CanonicalType[other] = <<field.type>> /\ field.type # "tuple" /\ field.type # "tuple[]"
      BY <3>1, <3>2, KindFacts, CanonicalTypeDef
    <3>4. other.type # "tuple"
      <4> SUFFICES ASSUME other.type = "tuple" PROVE FALSE
        OBVIOUS
      <4> DEFINE more == those(other)
      <4>1. CanonicalType[other] = <<"()", more>>
        BY <3>1, CanonicalTypeDef
      <4> HIDE DEF more
      <4>2. Len(<<"()", more>>) = 2 /\ Len(<<field.type>>) = 1
        OBVIOUS
      <4>3. <<"()", more>> = <<field.type>>
        BY <3>3, <4>1, Zenon
      <4> QED BY <4>2, <4>3
    <3>5. CanonicalType[other] = <<other.type>>
      BY <3>1, <3>4, CanonicalTypeDef
    <3>6. <<other.type>> = <<field.type>>
      BY <3>3, <3>5, Zenon
    <3>7. other.type = field.type
      BY <3>6
    <3>8. AbiType[field] = <<Kind(field.type)>> /\ AbiType[other] = <<Kind(other.type)>>
      BY <3>1, <3>3, <3>7, AbiTypeDef DEF BuiltIn
    <3> QED BY <3>1, <3>7, <3>8 DEF other, field
  <2>8. q.components # <<>>
    <3> DEFINE a == q.components
               b == p.components
    <3>1. a \in Seq(Param) /\ b \in Seq(Param) /\ b # <<>> /\ DOMAIN a = DOMAIN b
      BY <1>4, <1>6, <2>5
    <3> HIDE DEF a, b
    <3>2. a # <<>>
      BY <3>1
    <3> QED BY <3>2 DEF a
  <2>9. AbiType[q] = AbiType[p]
    <3> DEFINE abi1 == [i \in DOMAIN q.components |-> AbiType[q.components[i]]]
               abi2 == [i \in DOMAIN p.components |-> AbiType[p.components[i]]]
    <3>1. abi1 = abi2
      BY <2>5, <2>7
    <3>2. AbiType[q] = <<"()", abi1>>
      BY <2>2, AbiTuple
    <3>3. AbiType[p] = <<"()", abi2>>
      BY <1>6, AbiTuple
    <3> HIDE DEF abi1, abi2
    <3> QED BY <3>1, <3>2, <3>3
  <2>10. ShallowOne(q)
    BY <2>2, <2>7 DEF ShallowOne, Words
  <2> QED BY <2>2, <2>8, <2>9, <2>10
<1> QED BY <1>5, <1>6

LEMMA DeclaredFacts ==
    ASSUME NEW e \in Entry, NEW structs
    PROVE  /\ Declared(e, structs).name = e.name
           /\ Declared(e, structs).inputs =
                 [i \in DOMAIN e.inputs |-> Expanded(e.inputs[i], structs)]
<1> DEFINE inputs == [i \in DOMAIN e.inputs |-> Expanded(e.inputs[i], structs)]
           new == [type |-> e.type, name |-> e.name, inputs |-> inputs]
<1>1. Declared(e, structs) = [e EXCEPT !.inputs = inputs]
  BY DEF Declared
<1> HIDE DEF inputs
<1>2. Declared(e, structs) = new
  BY <1>1, EntryShape, Zenon
<1>3. new.name = e.name /\ new.inputs = inputs
  OBVIOUS
<1> HIDE DEF new
<1> QED BY <1>2, <1>3 DEF inputs

Empty(p) == p.type = "tuple" /\ p.components = <<>>

\* What the parser sees of a function, and what is declared.
LEMMA SeenAndDeclared ==
    ASSUME NEW source \in Source \cup {NoSource}, NEW e \in FunctionsOf(source.entries)
    PROVE  LET seen  == AsParsed(e, source)
               whole == Declared(e, source.structs)
           IN  /\ e \in Entry /\ seen.name = e.name /\ whole.name = e.name
               /\ seen.inputs \in Seq(Param)
               /\ DOMAIN seen.inputs = DOMAIN whole.inputs
               /\ seen.inputs = [i \in DOMAIN whole.inputs |-> seen.inputs[i]]
               /\ whole.inputs = [i \in DOMAIN whole.inputs |-> whole.inputs[i]]
               /\ \A i \in DOMAIN whole.inputs :
                     /\ ShallowOne(whole.inputs[i]) =>
                           seen.inputs[i] = whole.inputs[i] /\ ~Empty(whole.inputs[i])
                     /\ ShallowOne(seen.inputs[i]) /\ ~Empty(seen.inputs[i]) =>
                           seen.inputs[i] = whole.inputs[i]
<1> DEFINE seen == AsParsed(e, source)
           structs == source.structs
           whole == Declared(e, structs)
           size == Len(e.inputs)
<1>0. /\ source.form \in {"json", "lines", "solidity"} /\ source.entries \in Seq(Entry)
      /\ source.form # "solidity" => structs = <<>>
      /\ ProperStructs(structs)
      /\ \A i \in DOMAIN source.entries : \A n \in DOMAIN source.entries[i].inputs :
            source.entries[i].inputs[n].type = "tuple"
                => source.entries[i].inputs[n].components # <<>>
  BY SourceFacts DEF Form
<1>1. PICK at \in DOMAIN source.entries : e = source.entries[at]
  BY DEF FunctionsOf, ToSet
<1>2. e \in Entry /\ e.type = "function"
  BY <1>0, <1>1 DEF FunctionsOf
<1>3. e.inputs \in Seq(Param) /\ size \in Nat /\ DOMAIN e.inputs = 1 .. size
  BY <1>2, EntryShape
<1>4. \A n \in DOMAIN e.inputs : e.inputs[n].type = "tuple" => e.inputs[n].components # <<>>
  BY <1>0, <1>1
<1> HIDE DEF structs
<1>5. whole.name = e.name /\ whole.inputs = [i \in DOMAIN e.inputs |-> Expanded(e.inputs[i], structs)]
  BY <1>2, DeclaredFacts
<1>6. seen.name = e.name /\ seen.inputs \in Seq(Param) /\ DOMAIN seen.inputs = 1 .. size
      /\ \/ structs = <<>> /\ \A i \in 1 .. size : seen.inputs[i] = e.inputs[i]
         \/ \A i \in 1 .. size : seen.inputs[i] = ParseSolidityParam(e.inputs[i], structs)
  <2>1. CASE source.form = "json"
    <3>1. seen = e
      BY <2>1 DEF AsParsed
    <3>2. structs = <<>>
      BY <1>0, <2>1
    <3> QED BY <1>3, <3>1, <3>2
  <2>2. CASE source.form # "json"
    <3>1. seen = ParseEntry(e, structs)
      BY <2>2 DEF AsParsed, structs
    <3>2. /\ ParseEntry(e, structs) \in Entry
          /\ ParseEntry(e, structs).name = e.name
          /\ ParseEntry(e, structs).inputs =
                [i \in DOMAIN e.inputs |-> ParseSolidityParam(e.inputs[i], structs)]
      BY <1>0, <1>2, ParsedEntry
    <3> HIDE DEF seen
    <3>3. seen \in Entry /\ seen.name = e.name
          /\ seen.inputs = [i \in DOMAIN e.inputs |-> ParseSolidityParam(e.inputs[i], structs)]
      BY <3>1, <3>2, Zenon
    <3>4. seen.inputs \in Seq(Param)
      BY <3>3, EntryShape
    <3> QED BY <1>3, <3>3, <3>4
  <2> QED BY <2>1, <2>2
<1>7. DOMAIN whole.inputs = 1 .. size
      /\ \A i \in 1 .. size : whole.inputs[i] = Expanded(e.inputs[i], structs)
  BY <1>3, <1>5
<1> HIDE DEF seen, whole, size
<1>8. ASSUME NEW i \in 1 .. size
      PROVE  /\ ShallowOne(whole.inputs[i]) => seen.inputs[i] = whole.inputs[i] /\ ~Empty(whole.inputs[i])
             /\ ShallowOne(seen.inputs[i]) /\ ~Empty(seen.inputs[i]) => seen.inputs[i] = whole.inputs[i]
  <2> DEFINE p == e.inputs[i]
             w == Expanded(p, structs)
             s == ParseSolidityParam(p, structs)
  <2>1. p \in Param /\ (p.type = "tuple" => p.components # <<>>)
    BY <1>3, <1>4
  <2> HIDE DEF p
  <2>2. /\ ShallowOne(w) => s = w
        /\ ShallowOne(s) /\ ~Empty(s) => s = w
        /\ structs = <<>> /\ (ShallowOne(w) \/ ShallowOne(p)) => p = w
        /\ ShallowOne(w) => ~Empty(w)
    BY <1>0, <2>1, ShallowIsParsed DEF Empty
  <2>3. whole.inputs[i] = w /\ ((structs = <<>> /\ seen.inputs[i] = p) \/ seen.inputs[i] = s)
    BY <1>6, <1>7 DEF p
  <2> HIDE DEF w, s
  <2> QED BY <2>2, <2>3
<1>9. /\ seen.inputs = [i \in 1 .. size |-> seen.inputs[i]]
      /\ whole.inputs = [i \in 1 .. size |-> whole.inputs[i]]
  <2>1. seen.inputs = [i \in 1 .. size |-> seen.inputs[i]]
    <3> DEFINE ins == seen.inputs
    <3>1. ins \in Seq(Param) /\ DOMAIN ins = 1 .. size
      BY <1>6
    <3> HIDE DEF ins
    <3>2. ins = [i \in DOMAIN ins |-> ins[i]]
      BY <3>1
    <3>3. ins = [i \in 1 .. size |-> ins[i]]
      BY <3>1, <3>2
    <3> QED BY <3>3 DEF ins
  <2>2. whole.inputs = [i \in 1 .. size |-> whole.inputs[i]]
    BY <1>3, <1>5
  <2> QED BY <2>1, <2>2
<1> QED BY <1>2, <1>5, <1>6, <1>7, <1>8, <1>9, Zenon DEF seen, whole, structs

\* Two functions of a source, one parsed under the selector of the other, are one.
LEMMA SameSelectorSameFunction ==
    ASSUME NEW source \in Source \cup {NoSource},
           NEW e \in FunctionsOf(source.entries), NEW other \in FunctionsOf(source.entries),
           Shallow(Declared(e, source.structs).inputs),
           ParseFunction(AsParsed(other, source)).selector
               = AsSpelt(Declared(e, source.structs))
    PROVE  other = e
<1> DEFINE structs == source.structs
           whole == Declared(e, structs)
           ofOther == Declared(other, structs)
           seen == AsParsed(other, source)
<1>1. /\ e \in Entry /\ whole.name = e.name
      /\ AsParsed(e, source).inputs \in Seq(Param)
      /\ DOMAIN AsParsed(e, source).inputs = DOMAIN whole.inputs
      /\ \A i \in DOMAIN whole.inputs : ShallowOne(whole.inputs[i]) =>
            AsParsed(e, source).inputs[i] = whole.inputs[i] /\ ~Empty(whole.inputs[i])
  BY SeenAndDeclared
<1>2. /\ other \in Entry /\ seen.name = other.name /\ ofOther.name = other.name
      /\ seen.inputs \in Seq(Param)
      /\ DOMAIN seen.inputs = DOMAIN ofOther.inputs
      /\ \A i \in DOMAIN ofOther.inputs :
            ShallowOne(seen.inputs[i]) /\ ~Empty(seen.inputs[i]) => seen.inputs[i] = ofOther.inputs[i]
  BY SeenAndDeclared
<1>3. \A i \in DOMAIN whole.inputs :
          whole.inputs[i] \in Param /\ ShallowOne(whole.inputs[i]) /\ ~Empty(whole.inputs[i])
  <2> SUFFICES ASSUME NEW i \in DOMAIN whole.inputs
               PROVE  /\ whole.inputs[i] \in Param
                      /\ ShallowOne(whole.inputs[i]) /\ ~Empty(whole.inputs[i])
    OBVIOUS
  <2>1. ShallowOne(whole.inputs[i])
    BY DEF Shallow, ShallowOne
  <2>2. AsParsed(e, source).inputs[i] \in Param
    BY <1>1
  <2> QED BY <1>1, <2>1, <2>2
<1>4. ParseFunction(seen).selector = ComputeSelector(seen.name, seen.inputs)
  <2> DEFINE sel == ComputeSelector(seen.name, seen.inputs)
             ins == ComputeParamOffsets(seen.inputs)
  <2> HIDE DEF sel, ins
  <2>1. ParseFunction(seen) = [name |-> seen.name, selector |-> sel, inputs |-> ins]
    BY DEF ParseFunction, sel, ins
  <2> HIDE DEF seen
  <2> QED BY <2>1 DEF sel
<1>5. ComputeSelector(seen.name, seen.inputs) = AsSpelt(whole)
  BY <1>4, Zenon
<1> HIDE DEF whole, ofOther, seen
<1> DEFINE types == [i \in DOMAIN seen.inputs |-> CanonicalType[seen.inputs[i]]]
           meant == [i \in DOMAIN whole.inputs |-> CanonicalType[whole.inputs[i]]]
           signed == [i \in DOMAIN whole.inputs |-> AbiType[whole.inputs[i]]]
           given == [i \in DOMAIN ofOther.inputs |-> AbiType[ofOther.inputs[i]]]
<1>6. seen.name = whole.name /\ types = meant
  <2>1. /\ ComputeSelector(seen.name, seen.inputs) = [name |-> seen.name, types |-> types]
        /\ AsSpelt(whole) = [name |-> whole.name, types |-> meant]
    BY DEF ComputeSelector, AsSpelt, GetCanonicalType
  <2> HIDE DEF types, meant
  <2>2. [name |-> seen.name, types |-> types] = [name |-> whole.name, types |-> meant]
    BY <1>5, <2>1, Zenon
  <2> DEFINE a == [name |-> seen.name, types |-> types]
             b == [name |-> whole.name, types |-> meant]
  <2>3. a.name = seen.name /\ a.types = types /\ b.name = whole.name /\ b.types = meant
    OBVIOUS
  <2>4. a = b
    BY <2>2
  <2> HIDE DEF a, b
  <2> QED BY <2>3, <2>4
<1>7. /\ DOMAIN seen.inputs = DOMAIN whole.inputs
      /\ \A i \in DOMAIN whole.inputs : CanonicalType[seen.inputs[i]] = CanonicalType[whole.inputs[i]]
  <2>1. DOMAIN types = DOMAIN seen.inputs /\ \A i \in DOMAIN seen.inputs : types[i] = CanonicalType[seen.inputs[i]]
    OBVIOUS
  <2>2. DOMAIN meant = DOMAIN whole.inputs /\ \A i \in DOMAIN whole.inputs : meant[i] = CanonicalType[whole.inputs[i]]
    OBVIOUS
  <2> HIDE DEF types, meant
  <2>3. DOMAIN seen.inputs = DOMAIN whole.inputs
    BY <1>6, <2>1, <2>2
  <2> QED BY <1>6, <2>1, <2>2, <2>3
<1>8. ASSUME NEW i \in DOMAIN whole.inputs
      PROVE  AbiType[ofOther.inputs[i]] = AbiType[whole.inputs[i]]
  <2> DEFINE p == whole.inputs[i]
             q == seen.inputs[i]
  <2>1. p \in Param /\ ShallowOne(p) /\ ~Empty(p)
    BY <1>3
  <2>2. q \in Param /\ CanonicalType[q] = CanonicalType[p]
    BY <1>2, <1>7
  <2> HIDE DEF p, q
  <2>3. ShallowOne(q) /\ ~Empty(q) /\ AbiType[q] = AbiType[p]
    BY <2>1, <2>2, ShallowTypeIs DEF Empty
  <2>4. ofOther.inputs[i] = q
    BY <1>2, <1>7, <2>3 DEF q
  <2> QED BY <2>3, <2>4 DEF p
<1>9. given = signed
  BY <1>2, <1>7, <1>8
<1>10. FunctionSelector(ofOther) = FunctionSelector(whole)
  <2>1. /\ FunctionSelector(ofOther) = [name |-> ofOther.name, types |-> given]
        /\ FunctionSelector(whole) = [name |-> whole.name, types |-> signed]
    BY DEF FunctionSelector
  <2>2. ofOther.name = whole.name
    BY <1>2, <1>6
  <2> HIDE DEF given, signed
  <2> QED BY <1>9, <2>1, <2>2
<1>11. PICK m \in DOMAIN source.entries : e = source.entries[m]
  BY DEF FunctionsOf, ToSet
<1>12. PICK n \in DOMAIN source.entries : other = source.entries[n]
  BY DEF FunctionsOf, ToSet
<1>13. m \in Functions(source.entries) /\ n \in Functions(source.entries)
  BY <1>11, <1>12 DEF Functions, FunctionsOf
<1>14. n = m
  <2>1. \A i, j \in Functions(source.entries) :
            FunctionSelector(Declared(source.entries[i], structs)) =
                FunctionSelector(Declared(source.entries[j], structs)) => i = j
    BY SourceFacts
  <2>2. FunctionSelector(Declared(source.entries[n], structs)) =
            FunctionSelector(Declared(source.entries[m], structs))
    BY <1>10, <1>11, <1>12, Zenon DEF whole, ofOther
  <2> QED BY <1>13, <2>1, <2>2
<1> QED BY <1>11, <1>12, <1>14

\* What a function is found as, among functions one of which has its selector.
LEMMA LookedUp ==
    ASSUME NEW functions, Len(functions) \in Nat, DOMAIN functions = 1 .. Len(functions),
           NEW f \in ToSet(functions)
    PROVE  /\ f.selector \in DOMAIN FunctionLookup(functions)
           /\ FunctionLookup(functions)[f.selector] \in ToSet(functions)
           /\ FunctionLookup(functions)[f.selector].selector = f.selector
<1> DEFINE selector == f.selector
           size == Len(functions)
           selectors == {functions[i].selector : i \in DOMAIN functions}
           last == CHOOSE i \in DOMAIN functions :
                      /\ functions[i].selector = selector
                      /\ \A j \in i + 1 .. size : functions[j].selector # selector
           behind == {d \in 0 .. size - 1 : functions[size - d].selector = selector}
           least == CHOOSE n \in behind : \A m \in behind : n <= m
<1>1. PICK k \in DOMAIN functions : f = functions[k]
  BY DEF ToSet
<1>2. selector \in selectors
  BY <1>1
<1>3. behind \in SUBSET Nat /\ behind # {}
  <2>1. size - k \in 0 .. size - 1 /\ size - (size - k) = k
    BY <1>1
  <2>2. size - k \in behind
    BY <1>1, <2>1
  <2> QED BY <2>2
<1>4. least \in behind /\ \A m \in behind : least <= m
  <2> HIDE DEF behind
  <2> QED BY <1>3, LeastFacts
<1> HIDE DEF least
<1>5. \E i \in DOMAIN functions :
          /\ functions[i].selector = selector
          /\ \A j \in i + 1 .. size : functions[j].selector # selector
  <2> DEFINE at == size - least
  <2>1. least \in 0 .. size - 1 /\ functions[at].selector = selector
    BY <1>4
  <2>2. at \in 1 .. size
    BY <2>1
  <2>3. ASSUME NEW j \in at + 1 .. size, functions[j].selector = selector PROVE FALSE
    <3>1. size - j \in 0 .. size - 1 /\ size - (size - j) = j /\ size - j < least
      BY <2>1
    <3>2. size - j \in behind
      BY <2>3, <3>1
    <3> QED BY <1>4, <2>1, <3>1, <3>2
  <2> QED BY <2>1, <2>2, <2>3
<1>6. last \in DOMAIN functions /\ functions[last].selector = selector
  <2> HIDE DEF selector, size
  <2> QED BY <1>5
<1>7. FunctionLookup(functions)[selector] = functions[last]
  <2>1. FunctionLookup(functions) = [s \in selectors |->
            functions[CHOOSE i \in DOMAIN functions :
                        /\ functions[i].selector = s
                        /\ \A j \in i + 1 .. size : functions[j].selector # s]]
    BY DEF FunctionLookup
  <2> HIDE DEF selectors, selector
  <2>2. selector \in selectors
    BY <1>2
  <2> QED BY <2>1, <2>2 DEF selector
<1>8. selector \in DOMAIN FunctionLookup(functions)
  BY <1>2 DEF FunctionLookup
<1> HIDE DEF last
<1> QED BY <1>6, <1>7, <1>8 DEF ToSet

LEMMA ConverterParses ==
    ASSUME ConverterInv
    PROVE  ParsedAsDeclared
<1> DEFINE source == parsed.source
           structs == source.structs
           functions == parsed.functions
           lookup == FunctionLookup(functions)
           entries == EntriesOf(source)
<1> SUFFICES ASSUME NEW e \in ToSet(OfType(source.entries, "function")),
                    Shallow(Declared(e, structs).inputs)
             PROVE  /\ AsSpelt(Declared(e, structs)) \in DOMAIN lookup
                    /\ Covers(lookup[AsSpelt(Declared(e, structs))].inputs,
                              Declared(e, structs).inputs)
                    /\ SpeltInFull(Declared(e, structs).inputs) =>
                          AsSpelt(Declared(e, structs)) = FunctionSelector(Declared(e, structs))
  BY DEF ParsedAsDeclared
<1> DEFINE whole == Declared(e, structs)
           seen == AsParsed(e, source)
           selector == AsSpelt(whole)
<1>1. /\ source \in Source \cup {NoSource}
      /\ entries \in Seq(Entry)
      /\ DOMAIN functions = 1 .. Len(functions) /\ Len(functions) \in Nat
      /\ ToSet(functions) = {ParseFunction(f) : f \in FunctionsOf(entries)}
  BY ParsedInState
<1> HIDE DEF source, functions, entries
<1>2. FunctionsOf(entries) = {AsParsed(f, source) : f \in FunctionsOf(source.entries)}
  BY <1>1, EntriesOfFacts DEF entries
<1>3. e \in FunctionsOf(source.entries)
  <2> DEFINE written == source.entries
  <2>1. written \in Seq(Entry)
    BY <1>1, SourceFacts
  <2> HIDE DEF written
  <2>2. ToSet(OfTypes(written, {"function"})) = {x \in ToSet(written) : x.type \in {"function"}}
    BY <2>1, OfTypesSet
  <2>3. e \in ToSet(OfTypes(written, {"function"}))
    BY DEF OfType, written
  <2> QED BY <2>2, <2>3 DEF FunctionsOf, written
<1>4. /\ seen.name = e.name /\ whole.name = e.name
      /\ seen.inputs \in Seq(Param)
      /\ DOMAIN seen.inputs = DOMAIN whole.inputs
      /\ seen.inputs = [i \in DOMAIN whole.inputs |-> seen.inputs[i]]
      /\ whole.inputs = [i \in DOMAIN whole.inputs |-> whole.inputs[i]]
      /\ \A i \in DOMAIN whole.inputs : ShallowOne(whole.inputs[i]) =>
            seen.inputs[i] = whole.inputs[i] /\ ~Empty(whole.inputs[i])
  BY <1>1, <1>3, SeenAndDeclared
<1>5. \A i \in DOMAIN whole.inputs : ShallowOne(whole.inputs[i])
  BY DEF Shallow, ShallowOne
<1>6. seen \in FunctionsOf(entries)
  BY <1>2, <1>3
<1> HIDE DEF seen, whole, structs
<1>7. whole.inputs = seen.inputs
  <2>1. \A i \in DOMAIN whole.inputs : seen.inputs[i] = whole.inputs[i]
    BY <1>4, <1>5
  <2> DEFINE a == seen.inputs
             b == whole.inputs
  <2>2. DOMAIN a = DOMAIN b /\ a = [i \in DOMAIN b |-> a[i]] /\ b = [i \in DOMAIN b |-> b[i]]
        /\ \A i \in DOMAIN b : a[i] = b[i]
    BY <1>4, <2>1
  <2> HIDE DEF a, b
  <2>3. b = a
    BY <2>2
  <2> QED BY <2>3 DEF a, b
<1> DEFINE params == whole.inputs
<1>8. /\ params \in Seq(Param)
      /\ \A i \in DOMAIN params : ShallowOne(params[i]) /\ ~Empty(params[i])
  <2>1. params \in Seq(Param)
    BY <1>4, <1>7
  <2> QED BY <1>4, <1>5, <2>1
<1> HIDE DEF params
<1>9. selector = ComputeSelector(seen.name, seen.inputs)
  BY <1>4, <1>7, Zenon DEF AsSpelt
<1>18. SpeltInFull(whole.inputs) => selector = FunctionSelector(whole)
  BY <1>8, SelectorsAgree DEF params, AsSpelt
<1>10. /\ ParseFunction(seen).selector = selector
       /\ ParseFunction(seen).inputs = ComputeParamOffsets(params)
  <2>1. /\ ParseFunction(seen).selector = ComputeSelector(seen.name, seen.inputs)
        /\ ParseFunction(seen).inputs = ComputeParamOffsets(seen.inputs)
    BY <1>1, <1>6, FunctionFacts
  <2> QED BY <1>7, <1>9, <2>1, Zenon DEF params
<1>11. ParseFunction(seen) \in ToSet(functions)
  BY <1>1, <1>6
<1> HIDE DEF selector
<1>12. /\ selector \in DOMAIN lookup
       /\ lookup[selector] \in ToSet(functions) /\ lookup[selector].selector = selector
  <2> DEFINE f == ParseFunction(seen)
  <2>1. f \in ToSet(functions) /\ f.selector = selector
    BY <1>10, <1>11
  <2> HIDE DEF f
  <2>2. /\ f.selector \in DOMAIN lookup
        /\ lookup[f.selector] \in ToSet(functions) /\ lookup[f.selector].selector = f.selector
    BY <1>1, <2>1, LookedUp
  <2> QED BY <2>1, <2>2, Zenon
<1>13. PICK other \in FunctionsOf(source.entries) : lookup[selector] = ParseFunction(AsParsed(other, source))
  BY <1>1, <1>2, <1>12
<1>14. other = e
  <2>1. ParseFunction(AsParsed(other, source)).selector
            = AsSpelt(Declared(e, source.structs))
    BY <1>12, <1>13, Zenon DEF selector, whole, structs
  <2>2. Shallow(Declared(e, source.structs).inputs)
    BY DEF structs
  <2> HIDE DEF lookup
  <2> QED BY <1>1, <1>3, <2>1, <2>2, SameSelectorSameFunction
<1>15. lookup[selector].inputs = ComputeParamOffsets(params)
  BY <1>10, <1>13, <1>14, Zenon DEF seen
<1>16. Covers(ComputeParamOffsets(params), params)
  BY <1>8, ShallowCovered DEF Empty
<1>17. Covers(lookup[selector].inputs, params)
  BY <1>15, <1>16, Zenon
<1> QED BY <1>12, <1>17, <1>18, Zenon DEF selector, params, whole

---------------------------------------------------------------------------
(***************************************************************************)
(* What is built from a parsed ABI.                                          *)
(***************************************************************************)
\* Without structs every parameter is declared as it is written.
LEMMA NothingExpanded ==
    ASSUME NEW q \in Param
    PROVE  Expanded(q, <<>>) = q
<1> DEFINE stages == Stages(<<>>)
           G == {p \in Param : \A depth \in 0 .. Nesting : stages[depth][p] = p}
<1>0. Nesting \in Nat
  BY NestingAssumption
<1>1. ASSUME NEW p \in Param, \A i \in DOMAIN p.components : p.components[i] \in G,
             NEW depth \in 0 .. Nesting
      PROVE  stages[depth][p] = p
  <2>1. CASE depth = 0
    <3>1. stages[0] = [r \in Param |-> r]
      BY StageFacts
    <3> QED BY <2>1, <3>1
  <2>2. CASE depth # 0
    <3> DEFINE below == stages[depth - 1]
               comps == p.components
               moved == [i \in DOMAIN comps |-> below[comps[i]]]
    <3>1. depth \in 1 .. Nesting /\ depth - 1 \in 0 .. Nesting
      BY <1>0, <2>2
    <3>2. \A i \in DOMAIN comps : below[comps[i]] = comps[i]
      BY <1>1, <3>1
    <3>3. comps = [i \in DOMAIN comps |-> comps[i]]
      <4> DEFINE these == comps
      <4>1. these \in Seq(Param)
        BY ParamFacts
      <4> HIDE DEF these
      <4>2. these = [i \in DOMAIN these |-> these[i]]
        BY <4>1
      <4> QED BY <4>2 DEF these
    <3>4. stages[depth] = [r \in Param |-> OneLevel(r, <<>>, below)]
      BY <3>1, StageFacts
    <3> HIDE DEF below
    <3>5. moved = comps
      BY <3>2, <3>3
    <3>6. Meant(p, <<>>) = {}
      BY DEF Meant
    <3>7. FieldsMeant(p, <<>>) = comps
      BY <3>6, Zenon DEF FieldsMeant
    <3>8. OneLevel(p, <<>>, below) = [name |-> p.name, type |-> p.type, components |-> moved]
      BY <3>6, <3>7 DEF OneLevel
    <3>9. p = [name |-> p.name, type |-> p.type, components |-> p.components]
      BY ParamShape
    <3> HIDE DEF stages, moved
    <3> QED BY <3>4, <3>5, <3>8, <3>9
  <2> QED BY <2>1, <2>2
<1>2. Param \subseteq G
  <2>1. \A p \in Param : (\A i \in DOMAIN p.components : p.components[i] \in G) => p \in G
    BY <1>1
  <2> HIDE DEF G
  <2> QED BY <2>1, ParamsByStep
<1>3. stages[Nesting][q] = q
  BY <1>0, <1>2
<1> QED BY <1>3 DEF Expanded, Stages

\* A Solidity parameter that the parser understands is parsed as declared.
LEMMA UnderstoodParam ==
    ASSUME NEW p \in Param, NEW structs, ProperStructs(structs),
           p.type \notin {"tuple", "tuple[]"} \cup Qualified,
           \A i \in DOMAIN structs : NoTuples(structs[i].fields),
           KindsIn(ParseSolidityParam(p, structs)) \subseteq BuiltIn
    PROVE  ParseSolidityParam(p, structs) = Expanded(p, structs)
<1> DEFINE whole == Expanded(p, structs)
           seen == ParseSolidityParam(p, structs)
           fields == FieldsMeant(p, structs)
           meant == Meant(p, structs)
           type == IF meant = {} THEN p.type ELSE "tuple"
           spelt == [name |-> p.name, type |-> type, components |-> fields]
<1>1. /\ fields \in Seq(Param)
      /\ whole = [name |-> p.name, type |-> whole.type, components |-> whole.components]
      /\ whole.type = type
      /\ whole.components = [i \in DOMAIN fields |-> whole.components[i]]
      /\ \A i \in DOMAIN fields :
            Plain(fields[i], structs) => whole.components[i] = fields[i]
  BY ExpandedFacts
<1>2. seen = spelt
  <2>1. Spelt(p, structs) = spelt
    BY DEF Spelt
  <2> HIDE DEF meant, seen, spelt
  <2>2. /\ meant = {} => Spelt(p, structs) = p /\ seen = p
        /\ meant # {} => Spelt(p, structs) = seen
    BY SpeltFacts DEF meant, seen
  <2> QED BY <2>1, <2>2
<1>3. seen \in Param
  BY ParsedParam
<1>4. spelt.type = type /\ spelt.components = fields
  OBVIOUS
<1> HIDE DEF seen, whole, fields, spelt
<1>5. \A i \in DOMAIN fields : Plain(fields[i], structs)
  <2>1. CASE meant = {}
    <3>1. fields = p.components
      BY <2>1, Zenon DEF fields, FieldsMeant
    <3>2. fields = <<>>
      BY <3>1, ParamFacts
    <3> QED BY <3>2
  <2>2. CASE meant # {}
    <3> DEFINE any == CHOOSE i \in meant : TRUE
    <3>1. any \in meant
      <4> HIDE DEF meant
      <4> QED BY <2>2
    <3>2. fields = structs[any].fields
      BY <2>2, Zenon DEF fields, FieldsMeant
    <3> HIDE DEF any
    <3>3. any \in DOMAIN structs
      BY <3>1 DEF Meant
    <3>4. NoTuples(fields)
      BY <3>2, <3>3
    <3>5. seen.type = "tuple" /\ seen.components = fields
      BY <1>2, <1>4, <2>2
    <3> SUFFICES ASSUME NEW i \in DOMAIN fields PROVE Plain(fields[i], structs)
      OBVIOUS
    <3> DEFINE q == fields[i]
    <3>6. q \in Param /\ q.type \notin {"tuple", "tuple[]"}
      BY <1>1, <3>4 DEF NoTuples
    <3>7. KindsIn(q) \subseteq BuiltIn
      <4>1. KindsIn(seen.components[i]) \subseteq KindsIn(seen)
        BY <1>3, <3>5, KindsFacts
      <4> QED BY <3>5, <4>1 DEF seen
    <3> HIDE DEF q
    <3>8. Kind(q.type) \in BuiltIn
      BY <3>6, <3>7, KindsFacts
    <3>9. q.type \in (BuiltIn \ {"tuple", "tuple[]"}) \cup DOMAIN Alias
      BY <3>6, <3>8 DEF Kind
    <3>10. Plain(q, structs)
      BY <3>6, <3>9, KindIsPlain
    <3> QED BY <3>10 DEF q
  <2> QED BY <2>1, <2>2
<1>6. whole.components = fields
  <2>1. \A i \in DOMAIN fields : whole.components[i] = fields[i]
    BY <1>1, <1>5
  <2>2. fields = [i \in DOMAIN fields |-> fields[i]]
    BY <1>1
  <2> QED BY <1>1, <2>1, <2>2
<1> HIDE DEF type
<1>7. whole = spelt
  BY <1>1, <1>6 DEF spelt
<1> QED BY <1>2, <1>7 DEF seen, whole

\* A function that the parser understands is parsed as declared.
LEMMA UnderstoodFunction ==
    ASSUME NEW source \in Source \cup {NoSource}, NEW e \in FunctionsOf(source.entries),
           Understood(e, source.structs)
    PROVE  /\ AsParsed(e, source).name = Declared(e, source.structs).name
           /\ AsParsed(e, source).inputs = Declared(e, source.structs).inputs
<1> DEFINE seen == AsParsed(e, source)
           structs == source.structs
           whole == Declared(e, structs)
<1>1. /\ source.form # "solidity" => structs = <<>>
      /\ source.form = "solidity" =>
            /\ \A i \in DOMAIN source.entries : NoTuples(source.entries[i].inputs)
            /\ \A i \in DOMAIN structs : NoTuples(structs[i].fields)
      /\ ProperStructs(structs) /\ source.entries \in Seq(Entry)
  BY SourceFacts
<1>2. PICK at \in DOMAIN source.entries : e = source.entries[at]
  BY DEF FunctionsOf, ToSet
<1>3. e \in Entry /\ e.type = "function" /\ e.inputs \in Seq(Param)
      /\ (source.form = "solidity" => NoTuples(e.inputs))
  <2>1. e \in Entry /\ e.type = "function"
    BY <1>1, <1>2 DEF FunctionsOf
  <2> QED BY <1>1, <1>2, <2>1, EntryShape
<1>4. \A i \in DOMAIN e.inputs : /\ e.inputs[i].type \notin Qualified
                                 /\ KindsIn(ParseSolidityParam(e.inputs[i], structs)) \subseteq BuiltIn
  BY DEF Understood
<1> HIDE DEF structs
<1>5. whole.name = e.name /\ whole.inputs = [i \in DOMAIN e.inputs |-> Expanded(e.inputs[i], structs)]
  BY <1>3, DeclaredFacts
<1>6. ASSUME structs = <<>> PROVE whole.inputs = e.inputs
  <2>1. \A i \in DOMAIN e.inputs : Expanded(e.inputs[i], structs) = e.inputs[i]
    BY <1>3, <1>6, NothingExpanded
  <2>2. e.inputs = [i \in DOMAIN e.inputs |-> e.inputs[i]]
    BY <1>3
  <2> QED BY <1>5, <2>1, <2>2
<1>7. CASE source.form = "json"
  <2>1. seen = e /\ structs = <<>>
    BY <1>1, <1>7 DEF AsParsed
  <2> QED BY <1>5, <1>6, <2>1 DEF structs
<1>8. CASE source.form # "json"
  <2>1. seen = ParseEntry(e, structs)
    BY <1>8 DEF AsParsed, structs
  <2>2. /\ ParseEntry(e, structs).name = e.name
        /\ ParseEntry(e, structs).inputs =
              [i \in DOMAIN e.inputs |-> ParseSolidityParam(e.inputs[i], structs)]
    BY <1>1, <1>3, ParsedEntry
  <2> HIDE DEF seen, whole
  <2>3. /\ seen.name = e.name
        /\ seen.inputs = [i \in DOMAIN e.inputs |-> ParseSolidityParam(e.inputs[i], structs)]
    BY <2>1, <2>2, Zenon
  <2>4. \A i \in DOMAIN e.inputs :
            ParseSolidityParam(e.inputs[i], structs) = Expanded(e.inputs[i], structs)
    <3> SUFFICES ASSUME NEW i \in DOMAIN e.inputs
                 PROVE  ParseSolidityParam(e.inputs[i], structs) = Expanded(e.inputs[i], structs)
      OBVIOUS
    <3> DEFINE p == e.inputs[i]
    <3>1. p \in Param /\ p.type \notin Qualified
          /\ KindsIn(ParseSolidityParam(p, structs)) \subseteq BuiltIn
      BY <1>3, <1>4
    <3>2. source.form = "solidity" => p.type \notin {"tuple", "tuple[]"}
      BY <1>3 DEF NoTuples
    <3> HIDE DEF p
    <3>3. CASE source.form = "solidity"
      <4>1. ParseSolidityParam(p, structs) = Expanded(p, structs)
        BY <1>1, <3>1, <3>2, <3>3, UnderstoodParam
      <4> QED BY <4>1 DEF p
    <3>4. CASE source.form # "solidity"
      <4>1. structs = <<>>
        BY <1>1, <3>4
      <4>2. Meant(p, structs) = {}
        BY <4>1 DEF Meant
      <4>3. ParseSolidityParam(p, structs) = p
        BY <1>1, <3>1, <4>2, SpeltFacts
      <4>4. Expanded(p, structs) = p
        BY <3>1, <4>1, NothingExpanded
      <4> QED BY <4>3, <4>4 DEF p
    <3> QED BY <3>3, <3>4
  <2>5. seen.inputs = whole.inputs
    BY <1>5, <2>3, <2>4
  <2> QED BY <1>5, <2>3, <2>5 DEF seen, whole, structs
<1> QED BY <1>7, <1>8

LEMMA ConverterBuilds ==
    ASSUME ConverterInv
    PROVE  BuiltAsDeclared
<1> SUFFICES ASSUME NEW source \in Source, built # NoPermission, abi = EntriesOf(source),
                    NEW e \in ToSet(OfType(source.entries, "function")),
                    e.name = built.of.name, Understood(e, source.structs)
             PROVE  LET declared == Declared(e, source.structs)
                    IN  /\ \A i \in DOMAIN built.offsets :
                              NoFixedBefore(declared.inputs, rules[i][1]) =>
                                  SeesItsParameter(declared.inputs, built.offsets[i], rules[i])
                        /\ SpeltInFull(declared.inputs) => built.selector = FunctionSelector(declared)
  BY DEF BuiltAsDeclared
<1> DEFINE declared == Declared(e, source.structs)
           seen == AsParsed(e, source)
           entries == EntriesOf(source)
<1>1. /\ entries \in Seq(Entry)
      /\ FunctionsOf(entries) = {AsParsed(f, source) : f \in FunctionsOf(source.entries)}
  BY EntriesOfFacts
<1>2. e \in FunctionsOf(source.entries)
  <2> DEFINE written == source.entries
  <2>1. written \in Seq(Entry)
    BY SourceFacts
  <2> HIDE DEF written
  <2>2. ToSet(OfTypes(written, {"function"})) = {x \in ToSet(written) : x.type \in {"function"}}
    BY <2>1, OfTypesSet
  <2>3. e \in ToSet(OfTypes(written, {"function"}))
    BY DEF OfType, written
  <2> QED BY <2>2, <2>3 DEF FunctionsOf, written
<1>3. seen.name = e.name /\ seen.name = declared.name /\ seen.inputs = declared.inputs
  BY <1>2, SeenAndDeclared, UnderstoodFunction
<1>4. seen \in FunctionsOf(entries)
  BY <1>1, <1>2
<1> HIDE DEF seen, entries
<1>5. built.of = seen
  <2>1. PICK m \in DOMAIN entries : seen = entries[m] /\ entries[m].type = "function"
    BY <1>4 DEF FunctionsOf, ToSet
  <2>2. abi = entries
    BY DEF entries
  <2>3. m \in Functions(abi) /\ abi[m].name = built.of.name
    BY <1>3, <2>1, <2>2 DEF Functions
  <2>4. PICK n \in Functions(abi) : built.of = abi[n]
    BY DEF ConverterInv, BuilderInv, TypeOK
  <2>5. m = n
    BY <2>3, <2>4 DEF ConverterInv
  <2> QED BY <2>1, <2>2, <2>4, <2>5
<1>6. /\ built.of.inputs = declared.inputs /\ built.of.name = declared.name
      /\ declared.inputs \in Seq(Param)
      /\ built.selector = ComputeSelector(declared.name, declared.inputs)
  BY <1>3, <1>5 DEF ConverterInv, BuilderInv, BuiltInv
<1> HIDE DEF declared
<1>7. \A i \in DOMAIN built.offsets :
          NoFixedBefore(declared.inputs, rules[i][1]) =>
              SeesItsParameter(declared.inputs, built.offsets[i], rules[i])
  <2>1. RuleSeesItsParameter
    BY BuilderSees DEF ConverterInv
  <2> QED BY <1>6, <2>1 DEF RuleSeesItsParameter
<1>8. SpeltInFull(declared.inputs) => built.selector = FunctionSelector(declared)
  BY <1>6, SelectorsAgree
<1> QED BY <1>7, <1>8 DEF declared

---------------------------------------------------------------------------
\* The converter keeps its types: every offset it hands out is a word of the
\* head or says that there is none.
THEOREM ConverterTypeCorrect == ConverterSpec => []TypeOKConverter
BY ConverterInvariant, ConverterTypes, PTL

\* A function of words, pointers and tuples of words is found among those parsed,
\* whatever the source, with the offsets of its calldata: by the selector of its
\* calldata if no type is an alias, and by the one hashed from the aliases if not.
THEOREM ParsingHolds == ConverterSpec => []ParsedAsDeclared
BY ConverterInvariant, ConverterParses, PTL

\* A permission built from what a source was parsed into is one for the function
\* that the source declares, but for the selector of one with aliases.
THEOREM BuildingHolds == ConverterSpec => []BuiltAsDeclared
BY ConverterInvariant, ConverterBuilds, PTL

\* A permission built from a generated ABI has the selector and the offsets
\* published next to that ABI.
THEOREM PublishingHolds == ConverterSpec => []PublishedAgree
BY ConverterInvariant, ConverterPublishes, PTL

\* What is reported as verified is right.
THEOREM VerifyingHolds == ConverterSpec => []PassMeansRight
BY ConverterInvariant, ConverterPasses, PTL

\* Whatever ABI a builder is made for, parsed, generated or replaced later, its
\* permissions fit the function as that ABI has it: rules look at their parameters,
\* what can be constrained is, and the selector is that of types spelt in full.
\* Whether the ABI says what its source declares is for BuildingHolds.
THEOREM BuildersHold ==
    ConverterSpec => [](RuleSeesItsParameter /\ StaticParametersResolve /\ SelectorIsTheFunctions)
<1>1. ConverterInv => RuleSeesItsParameter /\ StaticParametersResolve /\ SelectorIsTheFunctions
  BY BuilderSees, BuilderResolves, BuilderSelects DEF ConverterInv
<1> QED BY <1>1, ConverterInvariant, PTL
=============================================================================
