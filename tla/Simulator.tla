------------------------------ MODULE Simulator ------------------------------
(***************************************************************************)
(* The off-chain simulator (sdk/src/simulator) beside the contract's checks    *)
(* it repeats.  The contract compares numbers; the simulator compares the hex   *)
(* strings of calldata and of the rules character by character.  Characters     *)
(* are numbers in ASCII order with the digit they stand for as last decimal:    *)
(* the letter digits 2 and 3 are 12 and 13 in upper and 22 and 23 in lower      *)
(* case.  A word has two characters in base 4.                                 *)
(***************************************************************************)
EXTENDS ClankerGateValidatorBase

CONSTANTS
    Calldata,       \* the calls looked at, with their words as lower-case strings
    SdkPermission   \* the permissions tried, with the words of their rules as strings

\* The digits in lower case and in either case, and the words written with them.
LowerDigit == {0, 1, 22, 23}
LowerWord  == LowerDigit \X LowerDigit
HexDigit   == LowerDigit \cup {12, 13}
HexWord    == HexDigit \X HexDigit

SdkRule == [offset : Nat, op : OP_EQ .. OP_IN, value : HexWord, values : Seq(HexWord)]

\* Calldata comes in lower case; toHex32 pads what it is given and keeps its
\* letters, those of a checksummed address too.  OP of the SDK ends with OP_IN.
ASSUME SimulatorAssumption ==
    /\ \A call \in Calldata :
         {"selector", "args"} \subseteq DOMAIN call /\ call.args \in Seq(LowerWord)
    /\ \A p \in SdkPermission :
         {"selector", "rules"} \subseteq DOMAIN p /\ p.rules \in Seq(SdkRule)
    /\ MAX_RULES \in Nat /\ MAX_IN_VALUES \in Nat

VARIABLES
    calldata,   \* the call being validated
    permission, \* the permission it is validated against
    report      \* what validateCalldata returned, or NoReport before it ran

vars == <<calldata, permission, report>>

\* What the string stands for on chain, however its letters are written.
Value(word) == 4 * (word[1] % 10) + (word[2] % 10)

\* toOnChainStruct: the rule tuples hold the bytes, not the letters.
OnChainRule(rule) ==
    [offset |-> rule.offset, op |-> rule.op, value |-> Value(rule.value),
     values |-> [i \in DOMAIN rule.values |-> Value(rule.values[i])]]

ToOnChainStruct(p) ==
    [p EXCEPT !.rules = [i \in DOMAIN p.rules |-> OnChainRule(p.rules[i])]]

OnChainCall(call) ==
    [selector |-> call.selector, args |-> [i \in DOMAIN call.args |-> Value(call.args[i])]]

\* Order of strings of the same length.
StringLess(a, b) == a[1] < b[1] \/ (a[1] = b[1] /\ a[2] < b[2])

\* Mutated form: "greater or equal" taken for "greater".
CompareHexStrict(op, actual, expected, values) ==
    \/ op = OP_EQ  /\ actual = expected
    \/ op \in {OP_GT, OP_GTE} /\ StringLess(expected, actual)
    \/ op \in {OP_LT, OP_LTE} /\ StringLess(actual, expected)
    \/ op = OP_IN  /\ InArray(actual, values)

\* compareRule of the simulator; signed comparisons are not in its OP.
CompareHex(op, actual, expected, values) ==
    \/ op = OP_EQ  /\ actual = expected
    \/ op = OP_GT  /\ StringLess(expected, actual)
    \/ op = OP_LT  /\ StringLess(actual, expected)
    \/ op = OP_GTE /\ ~StringLess(actual, expected)
    \/ op = OP_LTE /\ ~StringLess(expected, actual)
    \/ op = OP_IN  /\ InArray(actual, values)

\* Mutated form: the last word of the calldata is out of range.
InRangeStrict(call, rule) == rule.offset + 1 < Len(call.args)

InRange(call, rule) == rule.offset + 1 <= Len(call.args)

Passes(call, rule) ==
    /\ InRange(call, rule)
    /\ CompareHex(rule.op, call.args[rule.offset + 1], rule.value, rule.values)

\* The first rule that does not pass, or one past the last.
StopsAt(call, p) ==
    CHOOSE i \in 1 .. Len(p.rules) + 1 :
        /\ i <= Len(p.rules) => ~Passes(call, p.rules[i])
        /\ \A j \in 1 .. i - 1 : Passes(call, p.rules[j])

Report(valid, code, rule) == [valid |-> valid, code |-> code, rule |-> rule]
NoReport == Report(FALSE, "none", 0)

ValidateCalldata(call, p) ==
    LET i == StopsAt(call, p)
    IN  IF call.selector = NoSelector THEN Report(FALSE, "CALLDATA_OUT_OF_RANGE", 0)
        ELSE IF call.selector # p.selector THEN Report(FALSE, "SELECTOR_MISMATCH", 0)
        ELSE IF i > Len(p.rules) THEN Report(TRUE, "none", 0)
        ELSE IF InRange(call, p.rules[i]) THEN Report(FALSE, "RULE_VIOLATION", i)
        ELSE Report(FALSE, "CALLDATA_OUT_OF_RANGE", i)

\* Full validation, with the leaf the caller supplies.
Validate(call, p, root, leaf) ==
    /\ root # NoRoot
    /\ leaf \in root
    /\ ValidateCalldata(call, p).valid

---------------------------------------------------------------------------
Init ==
    /\ calldata \in Calldata
    /\ permission \in SdkPermission
    /\ report = NoReport

RunSimulator ==
    /\ report = NoReport
    /\ report' = ValidateCalldata(calldata, permission)
    /\ UNCHANGED <<calldata, permission>>

Spec == Init /\ [][RunSimulator]_vars

---------------------------------------------------------------------------
Done == report # NoReport

AcceptedOnChain == ValidateCallData(OnChainCall(calldata), ToOnChainStruct(permission))

\* The words a rule compares the calldata with.
Compared(rule) ==
    IF rule.op = OP_IN THEN {rule.values[i] : i \in DOMAIN rule.values} ELSE {rule.value}

LowerCase(rule) == Compared(rule) \subseteq LowerWord

\* A mixed-case word in a rule that asks for equality matches no calldata; in
\* one that asks for order it is a different bound off chain.
OrderedInLower(p) ==
    \A i \in DOMAIN p.rules : p.rules[i].op \notin {OP_EQ, OP_IN} => LowerCase(p.rules[i])

AllLower(p) == \A i \in DOMAIN p.rules : LowerCase(p.rules[i])

\* For the permissions the contract can hash at all: what the simulator accepts
\* the contract accepts, provided the words compared by order are in lower case;
\* and what it rejects the contract rejects, provided every word is, those of
\* EQ and IN rules too.
SimulatorMatchesContract ==
    (Done /\ ShapeWithinLimits(permission)) =>
        /\ OrderedInLower(permission) => (report.valid => AcceptedOnChain)
        /\ AllLower(permission) => (AcceptedOnChain => report.valid)

\* The rule the simulator blames is the rule the contract reverts on: the rules
\* before it pass on chain, provided words compared by order are in lower case,
\* and it does not, provided its own words are.
SameRuleBlamed ==
    (Done /\ report.rule > 0 /\ ShapeWithinLimits(permission)) =>
        LET call  == OnChainCall(calldata)
            rules == ToOnChainStruct(permission).rules
        IN  /\ LowerCase(permission.rules[report.rule]) =>
                 ~ValidateCallData(call, [ToOnChainStruct(permission) EXCEPT
                                            !.rules = SubSeq(rules, 1, report.rule)])
            /\ OrderedInLower(permission) =>
                 ValidateCallData(call, [ToOnChainStruct(permission) EXCEPT
                                           !.rules = SubSeq(rules, 1, report.rule - 1)])

Wrapped(to, call) ==
    [selector |-> ExecuteSelector, args |-> <<0, 0>>, wellEncoded |-> TRUE,
     target |-> to, value |-> 0, inner |-> call]

\* A gate judges a wrapper with nothing inside by the wrapper's own calldata,
\* which only a permission for execute itself can allow; the simulator rejects
\* the empty call it was given.
JudgedByItself == calldata.selector = NoSelector => permission.selector # ExecuteSelector

\* What the simulator rejects, the gates reject, provided every word of the rules
\* is in lower case: an operation that carries the call and passes the gate's
\* checks passes validate with the permission's leaf.  A checksummed address in
\* an EQ or IN rule is rejected off chain and may be accepted on chain.  The
\* converse fails by design: the simulator looks at neither the window, the
\* chain, the target nor the value.
RejectedOffChainIsRejectedOnChain ==
    JudgedByItself /\ AllLower(permission) =>
    \A account \in Address, to \in Address \cup {ZeroAddress}, deployed \in BOOLEAN :
        LET onChain == ToOnChainStruct(permission)
            leaf == HashPermissionWithAccount(account, onChain, 1)
            root == IF deployed THEN {leaf} ELSE NoRoot
            op   == [sender |-> account, perm |-> onChain, signer |-> account,
                     callData |-> Wrapped(to, OnChainCall(calldata))]
        IN  PolicyAllows(root, 1, account, op, 1) => Validate(calldata, permission, root, leaf)
=============================================================================
