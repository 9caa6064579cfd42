-------------------------- MODULE OffsetCalculator --------------------------
(***************************************************************************)
(* How the SDK compiles a policy (sdk/src/policy-compiler): a dotted name is   *)
(* resolved to a fixed offset into calldata, in words, and a function to its  *)
(* selector.  The end of the module has the Solidity ABI as the reference.     *)
(*                                                                         *)
(* An ABI is a sequence of entries with a type, a name and inputs.  A parameter  *)
(* is a record with its name, its type and its components: "word" is any type  *)
(* of one word as signatures spell it, "dynamic" is bytes, string or T[],       *)
(* "fixed" is T[2] of one-word elements, "tuple" has components, and so has     *)
(* "tuple[]", an array of tuples of any length.  An alias is a type signatures   *)
(* spell otherwise: uint, an enum, a contract, an array of these or of structs.  *)
(* Any other type is the name of a struct, and a word to the compiler.           *)
(***************************************************************************)
EXTENDS Integers, Sequences, FiniteSets, SequencesExt

CONSTANTS
    Nesting,    \* bound on the depth of tuples in tuples
    Alias       \* the types spelt otherwise in signatures, and what they are there

BuiltIn == {"word", "dynamic", "fixed", "tuple", "tuple[]"}

ASSUME NestingAssumption == Nesting \in Nat

ASSUME AliasAssumption ==
    /\ DOMAIN Alias \cap BuiltIn = {}
    /\ \A type \in DOMAIN Alias : Alias[type] \in {"word", "dynamic", "fixed"}

DistinctNames(params) ==
    \A i, j \in DOMAIN params : params[i].name = params[j].name => i = j

\* The fields of a struct all have names of their own.
Fields(params) == {fields \in Seq(params) : DistinctNames(fields)}

\* ABIParam, with tuples up to a depth.
ParamUpTo[depth \in 0 .. Nesting] ==
    [name : STRING, type : STRING \ {"tuple", "tuple[]"}, components : {<<>>}]
        \cup [name : STRING, type : {"tuple", "tuple[]"},
              components : Fields(IF depth = 0 THEN {} ELSE ParamUpTo[depth - 1])]

Param == ParamUpTo[Nesting]

\* The types a parameter is made of.
TypesIn[param \in Param] ==
    {param.type} \cup
        (IF param.type = "tuple"
         THEN UNION {TypesIn[param.components[i]] : i \in DOMAIN param.components}
         ELSE {})

\* What a type is; how it is spelt shows it, too, since arrays end in brackets.
Kind(type) == IF type \in DOMAIN Alias THEN Alias[type] ELSE type

KindsIn(param) == {Kind(type) : type \in TypesIn[param]}

---------------------------------------------------------------------------
Unresolved == -1

IsDynamicType(param) == KindsIn(param) \cap {"dynamic", "fixed", "tuple[]"} # {}

\* The sum of the first n sizes, for every n.
Sums(sizes) ==
    LET sum[n \in 0 .. Len(sizes)] == IF n = 0 THEN 0 ELSE sum[n - 1] + sizes[n]
    IN  sum

\* getParameterHeadSize: a dynamic parameter takes one word, a static tuple the
\* sum of its components.
HeadSize[param \in Param] ==
    IF param.type = "tuple" /\ ~IsDynamicType(param)
    THEN Sums([i \in DOMAIN param.components |-> HeadSize[param.components[i]]])
             [Len(param.components)]
    ELSE 1

\* Mutated form: a tuple takes one word whether or not it is static.
OffsetOfFlat(params, n) == n

\* The head size of the first n parameters.
OffsetOf(params, n) == Sums([i \in DOMAIN params |-> HeadSize[params[i]]])[n]

Names(params) == {params[i].name : i \in DOMAIN params}

\* find: the first parameter of that name.
Find(params, name) ==
    CHOOSE i \in DOMAIN params :
        params[i].name = name /\ \A j \in 1 .. i - 1 : params[j].name # name

\* Mutated form: every tuple is taken to be dynamic.
MayConstrainNoField(param, last) == param.type = "word" /\ last

\* A parameter is passed through on the way to a field, or constrained itself.
MayConstrain(param, last) == ~IsDynamicType(param) /\ (param.type = "tuple") # last

\* Where resolveOffset and resolveTupleOffset throw, and stay.
Nowhere == [params |-> <<>>, offset |-> Unresolved]

\* Where the first n names of a path lead, for every n: to an offset, and to the
\* parameters among which the next name is looked up.
PlaceOf(params, path) ==
    LET place[n \in 0 .. Len(path)] ==
            IF n = 0 THEN [params |-> params, offset |-> 0]
            ELSE LET above == place[n - 1]
                     i == Find(above.params, path[n])
                 IN  IF path[n] \in Names(above.params)
                          /\ MayConstrain(above.params[i], n = Len(path))
                     THEN [params |-> above.params[i].components,
                           offset |-> above.offset + OffsetOf(above.params, i - 1)]
                     ELSE Nowhere
    IN  place

ResolveOffset(params, path) == PlaceOf(params, path)[Len(path)].offset

\* Mutated form: the fields of a tuple inside a tuple are not spelt out.
GetCanonicalTypeFlat(param) ==
    IF param.type = "tuple"
    THEN <<"()", [i \in DOMAIN param.components |-> <<param.components[i].type>>]>>
    ELSE <<param.type>>

\* A tuple is spelt out as its components in parentheses, any other type stays
\* as it is written.
CanonicalType[param \in Param] ==
    IF param.type = "tuple"
    THEN <<"()", [i \in DOMAIN param.components |-> CanonicalType[param.components[i]]]>>
    ELSE <<param.type>>

GetCanonicalType(param) == CanonicalType[param]

\* keccak256 is injective: a selector is the signature it is cut from.
ComputeSelector(name, inputs) ==
    [name |-> name, types |-> [i \in DOMAIN inputs |-> GetCanonicalType(inputs[i])]]

Functions(entries) == {i \in DOMAIN entries : entries[i].type = "function"}

Matching(entries, name) == {i \in Functions(entries) : entries[i].name = name}

\* compilePolicy; "of" is kept to say what the permission was built from.
CompilePolicy(entries, to, name, paths) ==
    LET func == entries[CHOOSE i \in Matching(entries, name) : TRUE]
    IN  [target |-> to, of |-> func, selector |-> ComputeSelector(name, func.inputs),
         offsets |-> [i \in DOMAIN paths |-> ResolveOffset(func.inputs, paths[i])]]

\* Mutated form: paths that do not resolve are let through.
CompilesUnresolved(entries, name, paths) == Cardinality(Matching(entries, name)) = 1

\* It throws for an unknown or overloaded function and for a path that does not resolve.
Compiles(entries, name, paths) ==
    /\ Cardinality(Matching(entries, name)) = 1
    /\ \A i \in DOMAIN paths : CompilePolicy(entries, "", name, paths).offsets[i] # Unresolved

---------------------------------------------------------------------------
(* The Solidity ABI encoding of arguments, as the reference: the head of a    *)
(* static parameter is the parameter, that of a dynamic one a pointer.  A word *)
(* is written as the path of what it belongs to and what it holds of it.      *)

HeadWord(path, holds) == [of |-> path, holds |-> holds]

AbiDynamic(param) == KindsIn(param) \cap {"dynamic", "tuple[]"} # {}

HeadOf[param \in Param] ==
    LET name   == <<param.name>>
        fields == FlattenSeq([i \in DOMAIN param.components |-> HeadOf[param.components[i]]])
    IN  IF AbiDynamic(param) THEN <<HeadWord(name, "pointer")>>
        ELSE IF param.type = "tuple"
        THEN [n \in DOMAIN fields |-> [fields[n] EXCEPT !.of = name \o @]]
        ELSE IF Kind(param.type) = "fixed"
        THEN <<HeadWord(name, "first"), HeadWord(name, "second")>>
        ELSE <<HeadWord(name, "value")>>

Heads(params) == FlattenSeq([i \in DOMAIN params |-> HeadOf[params[i]]])

\* The types of these parameters are spelt as signatures spell them.
SpeltInFull(params) ==
    \A i \in DOMAIN params : TypesIn[params[i]] \subseteq BuiltIn \ {"tuple[]"}

\* The type in a signature: an array of tuples is spelt out too, an alias is
\* what it stands for, and a struct whose fields are not at hand is none of these.
AbiType[param \in Param] ==
    LET fields == [i \in DOMAIN param.components |-> AbiType[param.components[i]]]
    IN  CASE param.type = "tuple"                -> <<"()", fields>>
          [] param.type = "tuple[]"              -> <<"()[]", fields>>
          [] Kind(param.type) \in BuiltIn \ {"tuple", "tuple[]"} -> <<Kind(param.type)>>
          [] OTHER                               -> <<"struct", param.type>>

FunctionSelector(f) ==
    [name |-> f.name, types |-> [i \in DOMAIN f.inputs |-> AbiType[f.inputs[i]]]]
=============================================================================
