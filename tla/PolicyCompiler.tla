--------------------------- MODULE PolicyCompiler ---------------------------
(***************************************************************************)
(* The policy builder of the SDK (sdk/src/policy-compiler/index.ts): a fluent  *)
(* builder collects a target, a function and rules on named parameters, and   *)
(* build() compiles them into a permission.                                  *)
(***************************************************************************)
EXTENDS OffsetCalculator

CONSTANTS
    Abis,       \* the ABIs: sequences of entries with a type, a name and inputs
    Path,       \* the dotted names tried, as sequences of names
    Target,     \* the target addresses
    MaxRules    \* bound on the rules given to a builder

EntryType == {"function", "event", "error", "constructor", "fallback", "receive"}

Entry == [type : EntryType, name : STRING, inputs : Seq(Param)]

\* A dotted name has at least one part, and no address is empty.
ASSUME CompilerAssumption ==
    /\ Abis \subseteq Seq(Entry)
    /\ Path \subseteq Seq(STRING) \ {<<>>}
    /\ "" \notin Target
    /\ MaxRules \in Nat

VARIABLES
    abi,            \* the ABI the builder was made for
    target,         \* the target, or "" when not set
    functionName,   \* the function, or "" when not set
    rules,          \* the paths constrained so far
    built           \* the last permission built, or NoPermission

vars == <<abi, target, functionName, rules, built>>

NoPermission == [target |-> "", of |-> [type |-> "", name |-> "", inputs |-> <<>>],
                 selector |-> ComputeSelector("", <<>>), offsets |-> <<>>]

\* createPolicyBuilder: everything is empty but the ABI it closes over.
Init ==
    /\ abi \in Abis
    /\ target = ""
    /\ functionName = ""
    /\ rules = <<>>
    /\ built = NoPermission

To(address) ==
    /\ target' = address
    /\ UNCHANGED <<abi, functionName, rules, built>>

\* The rules given so far are kept and resolved anew for the new function.
Fn(name) ==
    /\ functionName' = name
    /\ UNCHANGED <<abi, target, rules, built>>

Where(path) ==
    /\ Len(rules) < MaxRules
    /\ rules' = Append(rules, path)
    /\ UNCHANGED <<abi, target, functionName, built>>

Build ==
    /\ target # "" /\ functionName # ""
    /\ Compiles(abi, functionName, rules)
    /\ built' = CompilePolicy(abi, target, functionName, rules)
    /\ UNCHANGED <<abi, target, functionName, rules>>

Next ==
    \/ \E address \in Target : To(address)
    \/ \E i \in Functions(abi) : Fn(abi[i].name)
    \/ \E path \in Path : Where(path)
    \/ Build

Spec == Init /\ [][Next]_vars

---------------------------------------------------------------------------
TypeOK ==
    /\ target \in Target \cup {""}
    /\ functionName \in {abi[i].name : i \in Functions(abi)} \cup {""}
    /\ rules \in Seq(Path) /\ Len(rules) <= MaxRules
    /\ built # NoPermission =>
         /\ built.target \in Target
         /\ built.of \in {abi[i] : i \in Functions(abi)}
         /\ \A i \in DOMAIN built.offsets : built.offsets[i] \in Nat

\* Offsets are computed from head sizes that count a fixed-size array as one word.
NoFixedBefore(params, name) ==
    \A i \in 1 .. Find(params, name) - 1 : "fixed" \notin KindsIn(params[i])

\* A tuple with a fixed-size array in it is taken to be dynamic.
NoFixedIn(params, name) ==
    \A i \in DOMAIN params : params[i].name = name => "fixed" \notin KindsIn(params[i])

SeesItsParameter(inputs, offset, path) ==
    /\ offset < Len(Heads(inputs))
    /\ Heads(inputs)[offset + 1] = HeadWord(path, "value")

\* Every rule of a built permission looks at the word that holds the parameter
\* it was written for, in any calldata of the function as the builder's ABI has
\* it, whatever the order in which target, function and rules were given and
\* however often built, unless a fixed-size array stands before that parameter.
RuleSeesItsParameter ==
    \A i \in DOMAIN built.offsets :
        NoFixedBefore(built.of.inputs, rules[i][1]) =>
            SeesItsParameter(built.of.inputs, built.offsets[i], rules[i])

\* The same without an exception: offset-calculator.ts:47 says "Resolves a
\* parameter path to its byte offset in calldata."
EveryRuleSeesItsParameter ==
    \A i \in DOMAIN built.offsets :
        SeesItsParameter(built.of.inputs, built.offsets[i], rules[i])

\* Nothing that can be constrained is refused: a rule given for the chosen
\* function resolves if some word of the head always holds its parameter, unless
\* two parameters of the function have one name or it is in a tuple with a
\* fixed-size array.
StaticParametersResolve ==
    \A f \in Matching(abi, functionName), i \in DOMAIN rules :
        LET inputs   == abi[f].inputs
            head     == Heads(inputs)
            isInHead == \E n \in DOMAIN head : head[n] = HeadWord(rules[i], "value")
        IN  isInHead /\ DistinctNames(inputs) /\ NoFixedIn(inputs, rules[i][1])
                => ResolveOffset(inputs, rules[i]) # Unresolved

\* A built permission carries the selector that calldata of the function starts
\* with, as the builder's ABI has it; with another one the gates would refuse
\* every call.  An alias is hashed as it is written, and the compiler does not
\* spell out the tuples of an array of tuples.
SelectorIsTheFunctions ==
    SpeltInFull(built.of.inputs) => built.selector = FunctionSelector(built.of)
=============================================================================
