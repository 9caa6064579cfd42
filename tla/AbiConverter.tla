---------------------------- MODULE AbiConverter ----------------------------
(***************************************************************************)
(* The ABI converter of the SDK (sdk/src/abi-converter) and the registry       *)
(* (sdk/src/abi-registry) that hands its ABIs to the policy builder.  A source *)
(* (a JSON ABI, human-readable lines or a Solidity interface) is parsed into   *)
(* functions with flattened parameters, offsets and selectors; a module is     *)
(* generated from them with an ABI and, next to it, their selectors and         *)
(* offsets; ABIs are registered under names; files of ABIs are verified.         *)
(*                                                                         *)
(* A source has its form, the entries as written and the structs next to them. *)
(* The type of a parameter as written may be an alias (uint), or the name of a   *)
(* struct of the same file or not; a name in Qualified has a dot (Library.Type).  *)
(***************************************************************************)
EXTENDS PolicyCompiler

CONSTANTS
    Source,         \* the sources: [form, entries, structs]
    Qualified,      \* the type names with a dot
    AbiName,        \* the names ABIs are registered under
    Files           \* the files to verify: a sequence of [loads, entries]

Form == {"json", "lines", "solidity"}

StructType(struct) == [name |-> struct.name, type |-> "tuple", components |-> struct.fields]

Struct == {struct \in [name : STRING \ (BuiltIn \cup DOMAIN Alias), fields : Seq(Param) \ {<<>>}] :
              StructType(struct) \in Param}

NoTuples(params) == \A i \in DOMAIN params : params[i].type \notin {"tuple", "tuple[]"}

\* Only Solidity has structs, and no other tuples.  Structs and tuples have
\* fields, and the structs of a file names of their own.
ASSUME ConverterAssumption ==
    /\ Qualified \cap BuiltIn = {}
    /\ \A source \in Source :
          /\ source.form \in Form
          /\ source.entries \in Seq(Entry)
          /\ source.form # "solidity" => source.structs = <<>>
          /\ source.form = "solidity" =>
                /\ \A i \in DOMAIN source.entries : NoTuples(source.entries[i].inputs)
                /\ \A i \in DOMAIN source.structs : NoTuples(source.structs[i].fields)
          /\ source.structs \in Seq(Struct) /\ DistinctNames(source.structs)
          /\ \A i \in DOMAIN source.entries : \A n \in DOMAIN source.entries[i].inputs :
                source.entries[i].inputs[n].type = "tuple"
                    => source.entries[i].inputs[n].components # <<>>
    /\ Files \in Seq([loads : BOOLEAN, entries : Seq(Entry)])

VARIABLES
    parsed,         \* the ParsedABI at hand: its source and its functions
    registry,       \* the ABIs registered
    report          \* the results of verifyABIDirectory so far

converterVars == <<parsed, registry, report>>

---------------------------------------------------------------------------
(* From a source to entries *)

Kinds == {"function", "event", "error", "constructor"}

\* filter: the entries of these types, in their order.
OfTypes(entries, types) ==
    FlattenSeq([i \in DOMAIN entries |->
        IF entries[i].type \in types THEN <<entries[i]>> ELSE <<>>])

\* normalizeABI drops entries of any other type.
NormalizeABI(entries) == OfTypes(entries, Kinds)

\* parseParam of the Solidity parser: a struct of the same file becomes a tuple
\* of its fields as written, a qualified name a tuple without components, and
\* any other type stays as it is spelt, which may not be how signatures do.
ParseSolidityParam(param, structs) ==
    IF \E s \in DOMAIN structs : structs[s].name = param.type
    THEN LET s == CHOOSE s \in DOMAIN structs :
                     /\ structs[s].name = param.type
                     /\ \A t \in 1 .. s - 1 : structs[t].name # param.type
         IN  [param EXCEPT !.type = "tuple", !.components = structs[s].fields]
    ELSE IF param.type \in Qualified THEN [param EXCEPT !.type = "tuple"]
    ELSE param

\* Only functions see the structs; events and errors are parsed without.
ParseEntry(entry, structs) ==
    [entry EXCEPT !.inputs = [i \in DOMAIN entry.inputs |->
        ParseSolidityParam(entry.inputs[i], IF entry.type = "function" THEN structs ELSE <<>>)]]

OfType(entries, type) == OfTypes(entries, {type})

\* parseSolidityInterface: functions first, then events, then errors.
ExtractABI(source) ==
    LET Of(type) == [i \in DOMAIN OfType(source.entries, type) |->
                        ParseEntry(OfType(source.entries, type)[i], source.structs)]
    IN  Of("function") \o Of("event") \o Of("error")

\* parseHumanReadableABI: line by line, and without structs.
ParseHumanReadableABI(source) ==
    LET lines == OfTypes(source.entries, Kinds \ {"constructor"})
    IN  [i \in DOMAIN lines |-> ParseEntry(lines[i], <<>>)]

---------------------------------------------------------------------------
(* parseABI *)

AnalyzedDynamic(type) == Kind(type) \in {"dynamic", "fixed", "tuple[]"}

Moved(fields, prefix, offset) ==
    [n \in DOMAIN fields |-> [fields[n] EXCEPT !.path = prefix \o @, !.offset = offset + @]]

\* parseParam and flattenParams: the fields of a tuple, each one word after
\* the other whatever its size.  A tuple without components stands for itself
\* and takes no word.
FlatParam[param \in Param] ==
    IF param.type = "tuple" /\ param.components # <<>>
    THEN FlattenSeq([i \in DOMAIN param.components |->
            Moved(FlatParam[param.components[i]], <<param.name>>, i - 1)])
    ELSE <<[path |-> <<param.name>>, type |-> param.type,
            dynamic |-> AnalyzedDynamic(param.type), offset |-> 0,
            size |-> IF param.type = "tuple" THEN 0 ELSE 1]>>

ParseParam(param, baseOffset) == Moved(FlatParam[param], <<>>, baseOffset)

\* Mutated form: a parameter takes one word however many fields it has.
ComputeParamOffsetsByIndex(params) ==
    FlattenSeq([i \in DOMAIN params |-> ParseParam(params[i], i - 1)])

\* Where the last of these fields ends.
EndOf(fields) == IF fields = <<>> THEN 0 ELSE Last(fields).offset + Last(fields).size

\* A parameter starts where the last field of the one before it ends.
ComputeParamOffsets(params) ==
    LET result[n \in 0 .. Len(params)] ==
            IF n = 0 THEN <<>>
            ELSE LET done == result[n - 1] IN done \o ParseParam(params[n], EndOf(done))
    IN  result[Len(params)]

ParseFunction(entry) ==
    [name |-> entry.name, selector |-> ComputeSelector(entry.name, entry.inputs),
     inputs |-> ComputeParamOffsets(entry.inputs)]

ParseABI(source, entries) ==
    LET functions == OfType(entries, "function")
    IN  [source |-> source, functions |-> [i \in DOMAIN functions |-> ParseFunction(functions[i])]]

\* createFunctionLookup: of two functions with one selector the last stays.
FunctionLookup(functions) ==
    [selector \in {functions[i].selector : i \in DOMAIN functions} |->
        functions[CHOOSE i \in DOMAIN functions :
                    /\ functions[i].selector = selector
                    /\ \A j \in i + 1 .. Len(functions) : functions[j].selector # selector]]

\* findParamByPath and resolveParamOffset.
ResolveParamOffset(func, path) ==
    LET found == {n \in DOMAIN func.inputs : func.inputs[n].path = path}
    IN  IF found = {} THEN Unresolved
        ELSE func.inputs[CHOOSE n \in found : \A m \in found : n <= m].offset

---------------------------------------------------------------------------
(* generateTypes *)

\* Mutated form: the types of the parameters are lost.
ToABIEntriesUntyped(functions) ==
    [i \in DOMAIN functions |->
        [type |-> "function", name |-> functions[i].name,
         inputs |-> [n \in DOMAIN functions[i].inputs |->
            [name |-> Last(functions[i].inputs[n].path), type |-> "word", components |-> <<>>]]]]

\* toABIEntries: the flattened parameters under their last names.
ToABIEntries(functions) ==
    [i \in DOMAIN functions |->
        [type |-> "function", name |-> functions[i].name,
         inputs |-> [n \in DOMAIN functions[i].inputs |->
            [name |-> Last(functions[i].inputs[n].path),
             type |-> functions[i].inputs[n].type, components |-> <<>>]]]]

\* The entry of a function in the generated registry: an object literal, where
\* of two functions of one name the last stays.
GeneratedEntry(functions, name) ==
    functions[CHOOSE i \in DOMAIN functions :
                /\ functions[i].name = name
                /\ \A j \in i + 1 .. Len(functions) : functions[j].name # name]

---------------------------------------------------------------------------
(* verifyABIOffsets *)

NotFound == -1

\* encodeFunctionData throws: the fields of a tuple are one argument for
\* several inputs, and the default value of an array is no array.  An alias,
\* which no JSON file has, is taken to throw too; it would not be confirmed.
Encodes(func) ==
    \A i \in DOMAIN func.inputs :
        Len(func.inputs[i].path) = 1 /\ func.inputs[i].type \in {"word", "dynamic"}

\* findActualOffset: the hex digit at which the value is first found, taken for
\* an offset only when a multiple of 64.  All words hold the same test value,
\* and the selector takes the first eight digits.
FindActualOffset(func, param) ==
    LET words == {i \in DOMAIN func.inputs : func.inputs[i].type = "word"}
        index == 8 + 64 * ((CHOOSE i \in words : \A j \in words : i <= j) - 1)
    IN  IF param.type = "word" /\ index % 64 = 0 THEN index \div 2 ELSE NotFound

\* verifyFunction: whether it succeeds.
VerifyFunction(func) ==
    \/ func.inputs = <<>>
    \/ /\ Encodes(func)
       /\ \A i \in DOMAIN func.inputs :
             FindActualOffset(func, func.inputs[i]) = 32 * func.inputs[i].offset + 4

\* Mutated form: "some" for "every".
VerifyFileSome(file) ==
    LET functions == ParseABI(file, NormalizeABI(file.entries)).functions
        verified  == [i \in DOMAIN functions |->
                        [name |-> functions[i].name, success |-> VerifyFunction(functions[i])]]
    IN  [success |-> \E i \in DOMAIN verified : verified[i].success, functions |-> verified]

\* One file: one that cannot be imported fails on its own.
VerifyFile(file) ==
    IF ~file.loads THEN [success |-> FALSE, functions |-> <<>>]
    ELSE LET functions == ParseABI(file, NormalizeABI(file.entries)).functions
             verified  == [i \in DOMAIN functions |->
                             [name |-> functions[i].name, success |-> VerifyFunction(functions[i])]]
         IN  [success |-> \A i \in DOMAIN verified : verified[i].success, functions |-> verified]

---------------------------------------------------------------------------
NoSource == [form |-> "json", entries |-> <<>>, structs |-> <<>>]

\* The default registry holds one ABI, and a builder is made for it.
ConverterInit ==
    /\ Init
    /\ parsed = ParseABI(NoSource, <<>>)
    /\ registry \in UNION {[{name} -> {abi}] : name \in AbiName}
    /\ report = <<>>

\* The entries a source of each form yields.
EntriesOf(source) ==
    CASE source.form = "json"     -> NormalizeABI(source.entries)
      [] source.form = "lines"    -> ParseHumanReadableABI(source)
      [] source.form = "solidity" -> ExtractABI(source)

\* parseABIFromJSON, parseSolidityInterface, parseHumanReadableABI with parseABI.
Parse(source) ==
    /\ parsed' = ParseABI(source, EntriesOf(source))
    /\ UNCHANGED <<vars, registry, report>>

\* register: an ABI of the same name is replaced, builders made for it keep it.
Register(name, entries) ==
    /\ registry' = [n \in DOMAIN registry \cup {name} |->
                       IF n = name THEN entries ELSE registry[n]]
    /\ UNCHANGED <<vars, parsed, report>>

\* policy(registry.get(name)): a new builder.
Policy(name) ==
    /\ name \in DOMAIN registry
    /\ abi' = registry[name]
    /\ target' = "" /\ functionName' = "" /\ rules' = <<>> /\ built' = NoPermission
    /\ UNCHANGED converterVars

\* verifyABIDirectory takes one file after the other.
VerifyNextFile ==
    /\ Len(report) < Len(Files)
    /\ report' = Append(report, VerifyFile(Files[Len(report) + 1]))
    /\ UNCHANGED <<vars, parsed, registry>>

ConverterNext ==
    \/ Next /\ UNCHANGED converterVars
    \/ \E source \in Source : Parse(source)
    \/ \E name \in AbiName :
          \/ Register(name, ToABIEntries(parsed.functions))
          \/ \E source \in Source : Register(name, EntriesOf(source))
          \/ Policy(name)
    \/ VerifyNextFile

ConverterSpec == ConverterInit /\ [][ConverterNext]_<<vars, converterVars>>

---------------------------------------------------------------------------
(* What the sources mean: the functions as the Solidity compiler sees them,    *)
(* with every struct of the file spelt out.  FunctionSelector spells out the    *)
(* aliases.                                                                   *)

Expanded(param, structs) ==
    LET expanded[depth \in 0 .. Nesting] ==
            [p \in Param |->
                LET s == {i \in DOMAIN structs : structs[i].name = p.type}
                    fields == IF s = {} THEN p.components ELSE structs[CHOOSE i \in s : TRUE].fields
                IN  IF depth = 0 THEN p
                    ELSE [name |-> p.name, type |-> IF s = {} THEN p.type ELSE "tuple",
                          components |-> [i \in DOMAIN fields |-> expanded[depth - 1][fields[i]]]]]
    IN  expanded[Nesting][param]

Declared(entry, structs) ==
    [entry EXCEPT !.inputs = [i \in DOMAIN entry.inputs |-> Expanded(entry.inputs[i], structs)]]

\* No two functions of a contract have one selector.
ASSUME SelectorAssumption ==
    \A source \in Source : \A i, j \in Functions(source.entries) :
        FunctionSelector(Declared(source.entries[i], source.structs)) =
            FunctionSelector(Declared(source.entries[j], source.structs)) => i = j

\* Every word of the head is a parameter or field of its own.
Covers(inputs, params) ==
    LET head == Heads(params)
    IN  /\ Len(inputs) = Len(head)
        /\ \A n \in DOMAIN inputs :
              /\ inputs[n].offset < Len(head)
              /\ head[inputs[n].offset + 1] =
                    HeadWord(inputs[n].path, IF inputs[n].dynamic THEN "pointer" ELSE "value")

Words(params) == \A i \in DOMAIN params : Kind(params[i].type) = "word"

\* One word, a pointer, or a tuple of words, and no name with a dot.
Shallow(params) ==
    \A i \in DOMAIN params :
        \/ Kind(params[i].type) \in {"word", "dynamic"} /\ params[i].type \notin Qualified
        \/ params[i].type = "tuple" /\ Words(params[i].components)

\* The parameters as the parsers leave them, when no type is the name of a
\* struct whose fields they do not know.
Understood(entry, structs) ==
    \A i \in DOMAIN entry.inputs :
        /\ KindsIn(ParseSolidityParam(entry.inputs[i], structs)) \subseteq BuiltIn
        /\ entry.inputs[i].type \notin Qualified

TypeOKConverter ==
    /\ TypeOK
    /\ DOMAIN registry \subseteq AbiName
    /\ parsed.source \in Source \cup {NoSource}
    /\ \A i \in DOMAIN parsed.functions, path \in Path :
          ResolveParamOffset(parsed.functions[i], path) \in Nat \cup {Unresolved}
    /\ Len(report) <= Len(Files)

\* The signature a function is hashed from when its aliases are left in it.
AsSpelt(declared) == ComputeSelector(declared.name, declared.inputs)

\* What is parsed is what is declared, whatever the form of the source: a
\* function whose parameters are words, pointers, and tuples or structs of words
\* is found, and each of its flattened parameters has the offset at which
\* calldata holds it.  It is found by the selector its calldata starts with if
\* no type is an alias, and otherwise by that of the types as they are spelt.
ParsedAsDeclared ==
    \A e \in ToSet(OfType(parsed.source.entries, "function")) :
        LET declared == Declared(e, parsed.source.structs)
            lookup   == FunctionLookup(parsed.functions)
        IN  Shallow(declared.inputs) =>
              /\ AsSpelt(declared) \in DOMAIN lookup
              /\ Covers(lookup[AsSpelt(declared)].inputs, declared.inputs)
              /\ SpeltInFull(declared.inputs) => AsSpelt(declared) = FunctionSelector(declared)

\* A permission built from the ABI that a source was parsed into is one for the
\* function the source declares: its rules look at the words of calldata that
\* hold the parameters they were written for, and its selector is that of the
\* calldata.  Fixed-size arrays before a parameter are excepted as in
\* RuleSeesItsParameter; so are structs in structs and of other files, and from
\* the selector aliases and arrays of tuples.
BuiltAsDeclared ==
    \A source \in Source : (built # NoPermission /\ abi = EntriesOf(source)) =>
        \A e \in ToSet(OfType(source.entries, "function")) :
            LET declared == Declared(e, source.structs)
            IN  e.name = built.of.name /\ Understood(e, source.structs) =>
                  /\ \A i \in DOMAIN built.offsets :
                        NoFixedBefore(declared.inputs, rules[i][1]) =>
                            SeesItsParameter(declared.inputs, built.offsets[i], rules[i])
                  /\ SpeltInFull(declared.inputs) => built.selector = FunctionSelector(declared)

\* A permission built from a generated ABI carries the selector and the offsets
\* generated next to that ABI, for a function without tuples.
PublishedAgree ==
    (built # NoPermission /\ abi = ToABIEntries(parsed.functions)) =>
        LET published == GeneratedEntry(parsed.functions, built.of.name)
        IN  (\A i \in DOMAIN published.inputs :
                Len(published.inputs[i].path) = 1 /\ published.inputs[i].type # "tuple") =>
              /\ built.selector = published.selector
              /\ \A i \in DOMAIN built.offsets :
                    built.offsets[i] = ResolveParamOffset(published, rules[i])

\* A file is reported as verified only if it was loaded and every offset
\* computed for its functions is the one calldata has.
PassMeansRight ==
    \A i \in DOMAIN report : report[i].success =>
        /\ Files[i].loads
        /\ \A e \in ToSet(OfType(Files[i].entries, "function")) :
              Covers(ComputeParamOffsets(e.inputs), e.inputs)

\* Every selector is right, aliases included, of the functions whose offsets
\* are: abi-parser.ts:267 says "Gets the canonical type for ABI encoding."
SourceSelectorsAreRight ==
    \A e \in ToSet(OfType(parsed.source.entries, "function")) :
        LET declared == Declared(e, parsed.source.structs)
        IN  Shallow(declared.inputs) =>
              FunctionSelector(declared) \in DOMAIN FunctionLookup(parsed.functions)
=============================================================================
