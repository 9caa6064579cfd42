-------------------------- MODULE PolicyBuilderApp --------------------------
(***************************************************************************)
(* The policy builder page (apps/policy-builder/src/app/page.tsx): the rules   *)
(* of a policy are edited, every render compiles them anew with the SDK, and   *)
(* three panes show the outcome.  The copy button of the code pane waits for    *)
(* the clipboard and then says "copied!" for a while.                        *)
(*                                                                         *)
(* A typed value counts as hex, as a decimal (BigInt also takes the empty text) *)
(* or as garbage, for which BigInt throws.  What a promise or a timer of a code *)
(* pane that was closed does to that pane has no effect and is left out.        *)
(***************************************************************************)
EXTENDS OffsetCalculator

CONSTANTS
    Abi,            \* UNISWAP_V3_ROUTER_ABI
    Examples,       \* EXAMPLE_POLICIES: [target, functionName, rules]
    Op,             \* the comparisons of the menu tried
    MaxAppRules,    \* bound on the rules of a policy
    MaxPending      \* bound on clipboard writes and timers under way

VARIABLES
    activePolicy,
    tab,
    copied,         \* the code pane says "copied!"
    writes,         \* clipboard writes of the open code pane under way
    timers          \* timers of the open code pane under way

pane == <<copied, writes, timers>>
appVars == <<activePolicy, tab, copied, writes, timers>>

OpLabels == {"EQ", "GT", "LT", "GTE", "LTE"}
RawValue == {"hex", "decimal", "garbage"}
Tab == {"visualizer", "code", "solidity"}

---------------------------------------------------------------------------
GetFunctionEntry(name) == Abi[CHOOSE i \in Matching(Abi, name) : TRUE]

NoOffset == -1

\* The fields of a function, tuples opened one level deep.
FieldPaths(inputs) ==
    FlattenSeq([i \in DOMAIN inputs |->
        IF inputs[i].type = "tuple"
        THEN [n \in DOMAIN inputs[i].components |->
                 <<inputs[i].name, inputs[i].components[n].name>>]
        ELSE <<<<inputs[i].name>>>>])

\* A policy for a function that the page shows, with rules on its fields.
PolicyConfig ==
    {policy \in [target : STRING, functionName : STRING,
                 rules : Seq([fieldName : Seq(STRING), op : Op, rawValue : RawValue])] :
        /\ Cardinality(Matching(Abi, policy.functionName)) = 1
        /\ LET fields == FieldPaths(GetFunctionEntry(policy.functionName).inputs)
           IN  /\ fields # <<>>
               /\ \A i \in DOMAIN policy.rules : policy.rules[i].fieldName \in ToSet(fields)}

\* What holds of the page's constants.
ASSUME AppAssumption ==
    /\ \A i \in DOMAIN Abi : Abi[i].inputs \in Seq(Param)
    /\ "EQ" \in Op /\ Op \subseteq OpLabels
    /\ Examples \in Seq(PolicyConfig) \ {<<>>}
    /\ MaxAppRules \in Nat /\ MaxPending \in Nat

\* getFieldsForFunction: NoOffset where resolveOffset throws.
GetFieldsForFunction(name) ==
    LET inputs == GetFunctionEntry(name).inputs
        paths  == FieldPaths(inputs)
        Offset(path) == IF ResolveOffset(inputs, path) = Unresolved THEN NoOffset
                        ELSE ResolveOffset(inputs, path)
    IN  [i \in DOMAIN paths |-> [name |-> paths[i], offset |-> Offset(paths[i])]]

\* Mutated form: one comparison is forgotten.
AddsRuleNotLte(rule) == rule.op \in {"EQ", "GT", "LT", "GTE"}

\* The switch over the comparisons: any other one adds no rule.
AddsRule(rule) == rule.op \in OpLabels

\* buildPermission and tryBuildPermission: the rules of the permission, or a
\* failure to compile.
TryBuildPermission(policy) ==
    LET added == FlattenSeq([i \in DOMAIN policy.rules |->
                    IF AddsRule(policy.rules[i]) THEN <<policy.rules[i]>> ELSE <<>>])
        paths == [i \in DOMAIN added |-> added[i].fieldName]
    IN  IF (\E i \in DOMAIN policy.rules : policy.rules[i].rawValue = "garbage")
              \/ ~Compiles(Abi, policy.functionName, paths)
        THEN [compiled |-> FALSE, rules |-> <<>>]
        ELSE [compiled |-> TRUE,
              rules |-> [i \in DOMAIN added |->
                 [offset |-> CompilePolicy(Abi, policy.target, policy.functionName, paths).offsets[i],
                  op |-> added[i].op]]]

Permission == TryBuildPermission(activePolicy)

\* The offset RuleRow shows next to a rule: the first field of that name.
RowOffset(rule) ==
    LET fields == GetFieldsForFunction(activePolicy.functionName)
        named  == {n \in DOMAIN fields : fields[n].name = rule.fieldName}
    IN  IF named = {} THEN NoOffset
        ELSE fields[CHOOSE n \in named : \A m \in named : n <= m].offset

\* CalldataVisualizer: a field is highlighted when its offset is a rule's, and
\* shows the first such rule.
IsHighlighted(field) ==
    field.offset \in {Permission.rules[i].offset : i \in DOMAIN Permission.rules}

\* Mutated form: the last rule is shown everywhere.
GetLastRule(offset) == Len(Permission.rules)

GetRuleForOffset(offset) ==
    CHOOSE i \in DOMAIN Permission.rules :
        /\ Permission.rules[i].offset = offset
        /\ \A j \in 1 .. i - 1 : Permission.rules[j].offset # offset

---------------------------------------------------------------------------
InitApp ==
    /\ activePolicy = Examples[1]
    /\ tab = "visualizer"
    /\ copied = FALSE /\ writes = 0 /\ timers = 0

SetRules(rules) == activePolicy' = [activePolicy EXCEPT !.rules = rules]

\* onChange of the field, the comparison or the value of a rule.
UpdateRule(i, rule) ==
    /\ SetRules([activePolicy.rules EXCEPT ![i] = rule])
    /\ UNCHANGED <<tab, pane>>

RemoveRule(i) ==
    /\ SetRules(RemoveAt(activePolicy.rules, i))
    /\ UNCHANGED <<tab, pane>>

\* The first field of the function, EQ and zero.
AddRule ==
    /\ Len(activePolicy.rules) < MaxAppRules
    /\ SetRules(Append(activePolicy.rules,
                       [fieldName |-> Head(GetFieldsForFunction(activePolicy.functionName)).name,
                        op |-> "EQ", rawValue |-> "hex"]))
    /\ UNCHANGED <<tab, pane>>

\* The code pane is mounted while its tab is open and starts anew with it.
ShowTab(t) ==
    /\ tab' = t
    /\ IF t = "code" THEN UNCHANGED pane
       ELSE copied' = FALSE /\ writes' = 0 /\ timers' = 0

SetTab(t) == ShowTab(t) /\ UNCHANGED activePolicy

ChoosePolicy(i) == activePolicy' = Examples[i] /\ ShowTab("visualizer")

\* The copy button is there only for a policy that compiles.
Copy ==
    /\ tab = "code" /\ Permission.compiled
    /\ writes + timers < MaxPending
    /\ writes' = writes + 1
    /\ UNCHANGED <<activePolicy, tab, copied, timers>>

\* Mutated form: no timer is set.
WriteResolvesUntimed ==
    /\ writes > 0
    /\ writes' = writes - 1
    /\ copied' = TRUE
    /\ UNCHANGED <<activePolicy, tab, timers>>

WriteResolves ==
    /\ writes > 0
    /\ writes' = writes - 1
    /\ copied' = TRUE
    /\ timers' = timers + 1
    /\ UNCHANGED <<activePolicy, tab>>

\* The browser denies the clipboard: nobody handles the rejection.
WriteRejects ==
    /\ writes > 0
    /\ writes' = writes - 1
    /\ UNCHANGED <<activePolicy, tab, copied, timers>>

TimerFires ==
    /\ timers > 0
    /\ timers' = timers - 1
    /\ copied' = FALSE
    /\ UNCHANGED <<activePolicy, tab, writes>>

NextApp ==
    \/ \E i \in DOMAIN activePolicy.rules :
          \/ \E path \in ToSet(FieldPaths(GetFunctionEntry(activePolicy.functionName).inputs)) :
                UpdateRule(i, [activePolicy.rules[i] EXCEPT !.fieldName = path])
          \/ \E op \in Op : UpdateRule(i, [activePolicy.rules[i] EXCEPT !.op = op])
          \/ \E raw \in RawValue : UpdateRule(i, [activePolicy.rules[i] EXCEPT !.rawValue = raw])
          \/ RemoveRule(i)
    \/ AddRule
    \/ \E t \in Tab : SetTab(t)
    \/ \E i \in DOMAIN Examples : ChoosePolicy(i)
    \/ Copy \/ WriteResolves \/ WriteRejects \/ TimerFires

\* The browser runs a timer that is due, sooner or later.
SpecApp == InitApp /\ [][NextApp]_appVars /\ WF_appVars(TimerFires)

---------------------------------------------------------------------------
\* Every rule names a field of the function shown, and nothing is under way for
\* a code pane that is closed.
TypeOKApp ==
    /\ activePolicy \in PolicyConfig
    /\ tab \in Tab
    /\ copied \in BOOLEAN /\ writes \in Nat /\ timers \in Nat
    /\ writes + timers <= MaxPending
    /\ tab # "code" => ~copied /\ writes = 0 /\ timers = 0

\* The list of rules and the permission agree: every rule of the list is in the
\* compiled permission, with its comparison, at the offset shown in its row, and
\* the permission has no other rule.
RowsShowTheCompiledRules ==
    Permission.compiled =>
        /\ Len(Permission.rules) = Len(activePolicy.rules)
        /\ \A i \in DOMAIN activePolicy.rules :
              /\ RowOffset(activePolicy.rules[i]) = Permission.rules[i].offset
              /\ activePolicy.rules[i].op = Permission.rules[i].op

\* The calldata map highlights a field exactly when a rule of the list names it,
\* and the rule it shows there is one that does.
MapShowsTheConstrainedFields ==
    Permission.compiled =>
        \A field \in ToSet(GetFieldsForFunction(activePolicy.functionName)) :
            /\ IsHighlighted(field) <=>
                 \E i \in DOMAIN activePolicy.rules : activePolicy.rules[i].fieldName = field.name
            /\ IsHighlighted(field) =>
                 activePolicy.rules[GetRuleForOffset(field.offset)].fieldName = field.name

\* "copied!" never stays: however often the button was pressed, whatever the
\* clipboard did and whenever the pane was closed, the label goes back, since the
\* code sets a timer of its own for every write that was confirmed.
CopiedEnds == copied ~> ~copied
=============================================================================
