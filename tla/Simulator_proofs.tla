-------------------------- MODULE Simulator_proofs --------------------------
(* Theorems about Simulator, for every calldata and every permission. *)
EXTENDS Simulator, FiniteSetTheorems, WellFoundedInduction, TLAPS

(***************************************************************************)
(* Words in lower case are ordered as strings as they are as numbers.         *)
(***************************************************************************)
LEMMA DigitOrder ==
    /\ \A c \in LowerDigit : c % 10 \in 0 .. 3
    /\ \A c, d \in LowerDigit :
         /\ c < d <=> c % 10 < d % 10
         /\ c = d <=> c % 10 = d % 10
<1>1. 0 % 10 = 0 /\ 1 % 10 = 1 /\ 22 % 10 = 2 /\ 23 % 10 = 3
  OBVIOUS
<1> QED BY <1>1 DEF LowerDigit

LEMMA WordOrder ==
    ASSUME NEW a \in LowerWord, NEW b \in LowerWord
    PROVE  /\ Value(a) \in Nat
           /\ StringLess(a, b) <=> Value(a) < Value(b)
           /\ a = b <=> Value(a) = Value(b)
<1>1. /\ a[1] \in LowerDigit /\ a[2] \in LowerDigit /\ b[1] \in LowerDigit /\ b[2] \in LowerDigit
      /\ a = b <=> a[1] = b[1] /\ a[2] = b[2]
  BY DEF LowerWord
<1> DEFINE a1 == a[1] % 10
           a2 == a[2] % 10
           b1 == b[1] % 10
           b2 == b[2] % 10
<1>2. a1 \in 0 .. 3 /\ a2 \in 0 .. 3 /\ b1 \in 0 .. 3 /\ b2 \in 0 .. 3
  BY <1>1, DigitOrder
<1>3. /\ a[1] < b[1] <=> a1 < b1
      /\ a[1] = b[1] <=> a1 = b1
      /\ a[2] < b[2] <=> a2 < b2
      /\ a[2] = b[2] <=> a2 = b2
  BY <1>1, DigitOrder
<1>4. Value(a) = 4 * a1 + a2 /\ Value(b) = 4 * b1 + b2
  BY DEF Value
<1>5. StringLess(a, b) <=> a1 < b1 \/ (a1 = b1 /\ a2 < b2)
  BY <1>3 DEF StringLess
<1>6. a = b <=> a1 = b1 /\ a2 = b2
  BY <1>1, <1>3
<1> HIDE DEF a1, a2, b1, b2
<1> QED BY <1>2, <1>4, <1>5, <1>6

(***************************************************************************)
(* A rule compares the strings as the contract compares what they stand for    *)
(* when its words are in lower case.  When they are not, strings that are equal *)
(* still stand for the same number.                                           *)
(***************************************************************************)
LEMMA CompareAgrees ==
    ASSUME NEW rule \in SdkRule, Len(rule.values) <= MAX_IN_VALUES, NEW word \in LowerWord
    PROVE  LET chain    == OnChainRule(rule)
               offChain == CompareHex(rule.op, word, rule.value, rule.values)
               onChain  == CompareRule(chain.op, Value(word), chain.value, chain.values)
           IN  /\ LowerCase(rule) => (offChain <=> onChain)
               /\ rule.op \in {OP_EQ, OP_IN} => (offChain => onChain)
<1> DEFINE chain == OnChainRule(rule)
<1>1. /\ rule.value \in HexWord /\ rule.values \in Seq(HexWord) /\ rule.op \in 0 .. 5
      /\ chain.op = rule.op /\ chain.value = Value(rule.value)
      /\ chain.values = [i \in DOMAIN rule.values |-> Value(rule.values[i])]
  BY DEF SdkRule, OnChainRule, OP_EQ, OP_IN
<1>2. Len(chain.values) = Len(rule.values) /\ DOMAIN chain.values = DOMAIN rule.values
  BY <1>1
<1>3. InArray(word, rule.values) => InArray(Value(word), chain.values)
  BY <1>1, <1>2 DEF InArray
<1>4. CASE rule.op # OP_IN
  <2>1. LowerCase(rule) => /\ Value(word) \in Nat /\ Value(rule.value) \in Nat
                           /\ StringLess(word, rule.value) <=> Value(word) < Value(rule.value)
                           /\ StringLess(rule.value, word) <=> Value(rule.value) < Value(word)
                           /\ word = rule.value <=> Value(word) = Value(rule.value)
    BY <1>4, WordOrder DEF LowerCase, Compared
  <2> QED BY <1>1, <1>4, <2>1
          DEF CompareHex, CompareRule, OP_EQ, OP_GT, OP_LT, OP_GTE, OP_LTE, OP_IN, OP_SGT, OP_SLT
<1>5. CASE rule.op = OP_IN
  <2>1. ASSUME LowerCase(rule), InArray(Value(word), chain.values) PROVE InArray(word, rule.values)
    <3>1. PICK i \in DOMAIN rule.values : chain.values[i] = Value(word)
      BY <1>2, <2>1 DEF InArray
    <3>2. rule.values[i] \in LowerWord /\ Value(rule.values[i]) = Value(word)
      BY <1>1, <1>5, <2>1, <3>1 DEF LowerCase, Compared
    <3>3. rule.values[i] = word
      BY <3>2, WordOrder
    <3> QED BY <1>2, <2>1, <3>1, <3>3 DEF InArray
  <2> QED BY <1>1, <1>2, <1>3, <1>5, <2>1
          DEF CompareHex, CompareRule, OP_EQ, OP_GT, OP_LT, OP_GTE, OP_LTE, OP_IN, OP_SGT, OP_SLT
<1> QED BY <1>4, <1>5

\* What the contract asks of one rule.
PassesOnChain(call, rule) ==
    /\ rule.offset + 1 <= Len(call.args)
    /\ CompareRule(rule.op, call.args[rule.offset + 1], rule.value, rule.values)

LEMMA PassesAgrees ==
    ASSUME NEW call \in Calldata, NEW rule \in SdkRule, Len(rule.values) <= MAX_IN_VALUES
    PROVE  /\ LowerCase(rule) =>
                (Passes(call, rule) <=> PassesOnChain(OnChainCall(call), OnChainRule(rule)))
           /\ rule.op \in {OP_EQ, OP_IN} =>
                (Passes(call, rule) => PassesOnChain(OnChainCall(call), OnChainRule(rule)))
<1> DEFINE chain == OnChainCall(call)
<1>1. call.args \in Seq(LowerWord)
  BY SimulatorAssumption
<1>2. chain.args = [i \in DOMAIN call.args |-> Value(call.args[i])]
  BY DEF OnChainCall
<1>3. Len(chain.args) = Len(call.args)
  BY <1>1, <1>2
<1>4. OnChainRule(rule).offset = rule.offset /\ rule.offset \in Nat
  BY DEF OnChainRule, SdkRule
<1>5. CASE rule.offset + 1 <= Len(call.args)
  <2>1. rule.offset + 1 \in DOMAIN call.args
    BY <1>1, <1>4, <1>5
  <2>2. /\ call.args[rule.offset + 1] \in LowerWord
        /\ chain.args[rule.offset + 1] = Value(call.args[rule.offset + 1])
    BY <1>1, <1>2, <2>1
  <2> DEFINE offChain == CompareHex(rule.op, call.args[rule.offset + 1], rule.value, rule.values)
             onChain  == CompareRule(OnChainRule(rule).op, Value(call.args[rule.offset + 1]),
                                     OnChainRule(rule).value, OnChainRule(rule).values)
  <2>3. /\ LowerCase(rule) => (offChain <=> onChain)
        /\ rule.op \in {OP_EQ, OP_IN} => (offChain => onChain)
    BY <2>2, CompareAgrees
  <2>4. Passes(call, rule) <=> offChain
    BY <1>5 DEF Passes, InRange
  <2>5. PassesOnChain(chain, OnChainRule(rule)) <=> onChain
    BY <1>3, <1>4, <1>5, <2>2 DEF PassesOnChain
  <2> HIDE DEF offChain, onChain
  <2> QED BY <2>3, <2>4, <2>5
<1>6. CASE ~(rule.offset + 1 <= Len(call.args))
  BY <1>3, <1>4, <1>6 DEF Passes, PassesOnChain, InRange
<1> QED BY <1>5, <1>6

---------------------------------------------------------------------------
(***************************************************************************)
(* The simulator stops at the first rule that does not pass.                  *)
(***************************************************************************)
LEMMA StopsAtFirst ==
    ASSUME NEW call, NEW p, p.rules \in Seq(SdkRule)
    PROVE  LET i == StopsAt(call, p)
           IN  /\ i \in 1 .. Len(p.rules) + 1
               /\ i <= Len(p.rules) => ~Passes(call, p.rules[i])
               /\ \A j \in 1 .. i - 1 : Passes(call, p.rules[j])
<1> DEFINE n == Len(p.rules)
           stops == {i \in 1 .. n + 1 : i <= n => ~Passes(call, p.rules[i])}
<1>1. n \in Nat /\ n + 1 \in stops /\ stops \subseteq Nat
  OBVIOUS
<1>2. PICK i \in stops : \A j \in stops : ~(<<j, i>> \in OpToRel(<, Nat))
  <2> HIDE DEF stops
  <2> QED BY <1>1, NatLessThanWellFounded, WFMin
<1>3. \A j \in stops : ~(j < i)
  BY <1>1, <1>2 DEF OpToRel
<1>4. \A j \in 1 .. i - 1 : Passes(call, p.rules[j])
  BY <1>1, <1>3
<1>5. \E k \in 1 .. Len(p.rules) + 1 :
        /\ k <= Len(p.rules) => ~Passes(call, p.rules[k])
        /\ \A j \in 1 .. k - 1 : Passes(call, p.rules[j])
  BY <1>4
<1> QED BY <1>5 DEF StopsAt

\* What the contract is given of the first k rules of a permission of the SDK.
FirstRules(p, k) ==
    [ToOnChainStruct(p) EXCEPT !.rules = SubSeq(ToOnChainStruct(p).rules, 1, k)]

\* The checks of the contract rule by rule.
LEMMA OnChainRuleByRule ==
    ASSUME NEW call \in Calldata, NEW p \in SdkPermission, NEW k \in 0 .. Len(p.rules),
           ShapeWithinLimits(p)
    PROVE  ValidateCallData(OnChainCall(call), FirstRules(p, k))
             <=> /\ call.selector # NoSelector
                 /\ call.selector = p.selector
                 /\ \A i \in 1 .. k : PassesOnChain(OnChainCall(call), OnChainRule(p.rules[i]))
<1> DEFINE chain == ToOnChainStruct(p)
           first == FirstRules(p, k)
<1>1. p.rules \in Seq(SdkRule) /\ {"selector", "rules"} \subseteq DOMAIN p /\ MAX_RULES \in Nat
  BY SimulatorAssumption
<1>2. /\ chain.rules = [i \in DOMAIN p.rules |-> OnChainRule(p.rules[i])]
      /\ chain.selector = p.selector /\ {"selector", "rules"} \subseteq DOMAIN chain
  BY <1>1 DEF ToOnChainStruct
<1>3. Len(chain.rules) = Len(p.rules)
      /\ \A i \in 1 .. Len(p.rules) : chain.rules[i] = OnChainRule(p.rules[i])
  BY <1>1, <1>2
<1>4. /\ DOMAIN first.rules = 1 .. k /\ Len(first.rules) = k
      /\ \A i \in 1 .. k : first.rules[i] = OnChainRule(p.rules[i])
      /\ first.selector = p.selector
  <2>1. first.rules = SubSeq(chain.rules, 1, k) /\ first.selector = p.selector
    BY <1>2 DEF FirstRules
  <2>2. SubSeq(chain.rules, 1, k) = [i \in 1 .. k |-> chain.rules[i]]
    BY <1>1, <1>2, <1>3
  <2> HIDE DEF chain, first
  <2>3. k \in Nat /\ k <= Len(p.rules) /\ Len(p.rules) \in Nat
    BY <1>1
  <2>4. first.rules = [i \in 1 .. k |-> chain.rules[i]]
    BY <2>1, <2>2
  <2>5. DOMAIN first.rules = 1 .. k /\ Len(first.rules) = k
    BY <2>3, <2>4
  <2>6. \A i \in 1 .. k : first.rules[i] = OnChainRule(p.rules[i])
    BY <1>3, <2>3, <2>4
  <2> QED BY <2>1, <2>5, <2>6
<1>5. OnChainCall(call).selector = call.selector /\ k <= MAX_RULES
  BY <1>1 DEF OnChainCall, ShapeWithinLimits
<1> QED BY <1>4, <1>5 DEF ValidateCallData, PassesOnChain

\* The rules that pass off chain pass on chain, and back, as far as their letters allow.
LEMMA RulesAgree ==
    ASSUME NEW call \in Calldata, NEW p \in SdkPermission, NEW i \in DOMAIN p.rules,
           ShapeWithinLimits(p)
    PROVE  /\ LowerCase(p.rules[i]) =>
                (Passes(call, p.rules[i])
                    <=> PassesOnChain(OnChainCall(call), OnChainRule(p.rules[i])))
           /\ OrderedInLower(p) =>
                (Passes(call, p.rules[i])
                    => PassesOnChain(OnChainCall(call), OnChainRule(p.rules[i])))
<1>1. p.rules[i] \in SdkRule /\ Len(p.rules[i].values) <= MAX_IN_VALUES
  BY SimulatorAssumption DEF ShapeWithinLimits
<1>2. OrderedInLower(p) => LowerCase(p.rules[i]) \/ p.rules[i].op \in {OP_EQ, OP_IN}
  BY DEF OrderedInLower
<1> QED BY <1>1, <1>2, PassesAgrees

(***************************************************************************)
(* What the simulator says of a call and a permission.                        *)
(***************************************************************************)
SimulatorInv ==
    /\ calldata \in Calldata
    /\ permission \in SdkPermission
    /\ report \in {NoReport, ValidateCalldata(calldata, permission)}

LEMMA SimulatorInvariant == Spec => []SimulatorInv
<1>1. Init => SimulatorInv
  BY DEF Init, SimulatorInv
<1>2. SimulatorInv /\ [RunSimulator]_vars => SimulatorInv'
  BY DEF SimulatorInv, RunSimulator, vars
<1> QED BY <1>1, <1>2, PTL DEF Spec

(***************************************************************************)
(* The simulator accepts what the contract accepts, for every call and every    *)
(* permission within the contract's limits: nothing else when the words         *)
(* compared by order are in lower case, and all of it when all words are.       *)
(***************************************************************************)
LEMMA AcceptsAlike ==
    ASSUME NEW call \in Calldata, NEW p \in SdkPermission, ShapeWithinLimits(p)
    PROVE  LET offChain == ValidateCalldata(call, p).valid
               onChain  == ValidateCallData(OnChainCall(call), ToOnChainStruct(p))
           IN  /\ OrderedInLower(p) => (offChain => onChain)
               /\ AllLower(p) => (onChain => offChain)
<1> DEFINE rules == p.rules
           chain == ToOnChainStruct(p)
           stop == StopsAt(call, p)
<1>1. rules \in Seq(SdkRule) /\ Len(rules) \in 0 .. Len(rules)
  BY SimulatorAssumption
<1>2. /\ stop \in 1 .. Len(rules) + 1
      /\ stop <= Len(rules) => ~Passes(call, rules[stop])
      /\ \A j \in 1 .. stop - 1 : Passes(call, rules[j])
  BY <1>1, StopsAtFirst
<1>3. stop > Len(rules) <=> \A i \in 1 .. Len(rules) : Passes(call, rules[i])
  <2> HIDE DEF stop
  <2> QED BY <1>1, <1>2
<1>4. ValidateCalldata(call, p).valid <=> /\ call.selector # NoSelector
                                          /\ call.selector = p.selector
                                          /\ stop > Len(rules)
  BY DEF ValidateCalldata, Report
<1>5. FirstRules(p, Len(rules)) = chain
  <2>1. chain.rules = [i \in 1 .. Len(rules) |-> OnChainRule(rules[i])]
        /\ "rules" \in DOMAIN chain /\ chain = [p EXCEPT !.rules = chain.rules]
    BY <1>1, SimulatorAssumption DEF ToOnChainStruct
  <2>2. SubSeq(chain.rules, 1, Len(rules)) = chain.rules
    BY <1>1, <2>1
  <2> QED BY <2>1, <2>2 DEF FirstRules
<1>6. ValidateCallData(OnChainCall(call), FirstRules(p, Len(rules)))
        <=> /\ call.selector # NoSelector
            /\ call.selector = p.selector
            /\ \A i \in 1 .. Len(rules) : PassesOnChain(OnChainCall(call), OnChainRule(rules[i]))
  BY <1>1, OnChainRuleByRule
<1>7. DOMAIN rules = 1 .. Len(rules)
  BY <1>1
<1>8. OrderedInLower(p) => \A i \in 1 .. Len(rules) :
        Passes(call, rules[i]) => PassesOnChain(OnChainCall(call), OnChainRule(rules[i]))
  BY <1>7, RulesAgree
<1>9. AllLower(p) => \A i \in 1 .. Len(rules) :
        PassesOnChain(OnChainCall(call), OnChainRule(rules[i])) => Passes(call, rules[i])
  BY <1>7, RulesAgree DEF AllLower
<1> HIDE DEF stop, chain
<1> QED BY <1>3, <1>4, <1>5, <1>6, <1>8, <1>9 DEF chain

THEOREM AgreementHolds == Spec => []SimulatorMatchesContract
<1>1. SimulatorInv => SimulatorMatchesContract
  BY AcceptsAlike DEF SimulatorInv, SimulatorMatchesContract, AcceptedOnChain, Done
<1> QED BY <1>1, SimulatorInvariant, PTL

(***************************************************************************)
(* The rule it blames is the first that makes the contract refuse, as far as     *)
(* the letters of the rules allow.                                            *)
(***************************************************************************)
THEOREM BlameHolds == Spec => []SameRuleBlamed
<1>1. ASSUME SimulatorInv, Done, report.rule > 0, ShapeWithinLimits(permission)
      PROVE  LET call  == OnChainCall(calldata)
                 rules == ToOnChainStruct(permission).rules
             IN  /\ LowerCase(permission.rules[report.rule]) =>
                      ~ValidateCallData(call, [ToOnChainStruct(permission) EXCEPT
                                                 !.rules = SubSeq(rules, 1, report.rule)])
                 /\ OrderedInLower(permission) =>
                      ValidateCallData(call, [ToOnChainStruct(permission) EXCEPT
                                                !.rules = SubSeq(rules, 1, report.rule - 1)])
  <2> DEFINE rules == permission.rules
             stop == StopsAt(calldata, permission)
  <2>1. /\ calldata \in Calldata /\ permission \in SdkPermission /\ rules \in Seq(SdkRule)
        /\ report = ValidateCalldata(calldata, permission)
    BY <1>1, SimulatorAssumption DEF SimulatorInv, Done
  <2>2. /\ stop \in 1 .. Len(rules) + 1
        /\ stop <= Len(rules) => ~Passes(calldata, rules[stop])
        /\ \A j \in 1 .. stop - 1 : Passes(calldata, rules[j])
    BY <2>1, StopsAtFirst
  <2>3. /\ calldata.selector # NoSelector /\ calldata.selector = permission.selector
        /\ report.rule = stop /\ ~(stop > Len(rules))
    BY <1>1, <2>1 DEF ValidateCalldata, Report
  <2> HIDE DEF stop
  <2>4. stop \in 0 .. Len(rules) /\ stop - 1 \in 0 .. Len(rules) /\ stop \in 1 .. stop
    BY <2>1, <2>2, <2>3
  <2> DEFINE onChain(i) == PassesOnChain(OnChainCall(calldata), OnChainRule(rules[i]))
  <2>5. LowerCase(rules[stop]) => ~onChain(stop)
    BY <1>1, <2>1, <2>2, <2>3, <2>4, RulesAgree
  <2>6. OrderedInLower(permission) => \A i \in 1 .. stop - 1 : onChain(i)
    BY <1>1, <2>1, <2>2, <2>4, RulesAgree
  <2>7. LowerCase(rules[stop]) =>
          ~ValidateCallData(OnChainCall(calldata), FirstRules(permission, stop))
    BY <1>1, <2>1, <2>4, <2>5, OnChainRuleByRule
  <2>8. OrderedInLower(permission) =>
          ValidateCallData(OnChainCall(calldata), FirstRules(permission, stop - 1))
    BY <1>1, <2>1, <2>3, <2>4, <2>6, OnChainRuleByRule
  <2> QED BY <2>3, <2>7, <2>8 DEF FirstRules
<1>2. SimulatorInv => SameRuleBlamed
  BY <1>1 DEF SameRuleBlamed
<1> QED BY <1>2, SimulatorInvariant, PTL
---------------------------------------------------------------------------
(***************************************************************************)
(* What the simulator rejects, an operation that carries the call cannot pass  *)
(* the gates' checks with, unless the call is empty and the permission allows   *)
(* the wrapper itself, or a word of the rules is not in lower case.             *)
(***************************************************************************)
LEMMA SelectorsDiffer == ExecuteSelector # NoSelector /\ ExecuteSelector # Exec7579Selector
<1> DEFINE three == {NoSelector, ExecuteSelector, Exec7579Selector}
<1>1. Cardinality({NoSelector, Exec7579Selector}) \in {1, 2}
  <2>1. Cardinality({Exec7579Selector}) = 1 /\ IsFiniteSet({Exec7579Selector})
    BY FS_Singleton
  <2> QED BY <2>1, FS_AddElement
<1>2. Cardinality(three) = 3
  BY CoreAssumption
<1>3. three # {NoSelector, Exec7579Selector}
  <2> HIDE DEF three
  <2>1. Cardinality(three) # Cardinality({NoSelector, Exec7579Selector})
    BY <1>1, <1>2
  <2> QED BY <2>1
<1> QED BY <1>3

LEMMA ShapeOnChain ==
    ASSUME NEW p \in SdkPermission, ShapeWithinLimits(ToOnChainStruct(p))
    PROVE  ShapeWithinLimits(p)
<1> DEFINE chain == ToOnChainStruct(p)
<1>1. p.rules \in Seq(SdkRule) /\ {"selector", "rules"} \subseteq DOMAIN p
  BY SimulatorAssumption
<1>2. chain.rules = [i \in DOMAIN p.rules |-> OnChainRule(p.rules[i])]
  BY <1>1 DEF ToOnChainStruct
<1>3. Len(chain.rules) = Len(p.rules) /\ DOMAIN chain.rules = DOMAIN p.rules
  BY <1>1, <1>2
<1>4. ASSUME NEW i \in DOMAIN p.rules
      PROVE  Len(chain.rules[i].values) = Len(p.rules[i].values)
  <2>1. p.rules[i].values \in Seq(HexWord)
    <3>1. p.rules[i] \in SdkRule
      BY <1>1
    <3> QED BY <3>1 DEF SdkRule
  <2>2. chain.rules[i].values = [j \in DOMAIN p.rules[i].values |-> Value(p.rules[i].values[j])]
    BY <1>2 DEF OnChainRule
  <2> QED BY <2>1, <2>2
<1> QED BY <1>3, <1>4 DEF ShapeWithinLimits

THEOREM RejectionHolds == Spec => []RejectedOffChainIsRejectedOnChain
<1>1. ASSUME SimulatorInv, JudgedByItself, AllLower(permission), NEW account \in Address,
             NEW to \in Address \cup {ZeroAddress}, NEW root, NEW leaf,
             leaf = HashPermissionWithAccount(account, ToOnChainStruct(permission), 1),
             NEW op,
             op = [sender |-> account, perm |-> ToOnChainStruct(permission), signer |-> account,
                   callData |-> Wrapped(to, OnChainCall(calldata))],
             PolicyAllows(root, 1, account, op, 1)
      PROVE  Validate(calldata, permission, root, leaf)
  <2> DEFINE call == OnChainCall(calldata)
             chain == ToOnChainStruct(permission)
             data == Wrapped(to, call)
  <2>1. calldata \in Calldata /\ permission \in SdkPermission
        /\ "selector" \in DOMAIN permission
    BY <1>1, SimulatorAssumption DEF SimulatorInv
  <2>2. call.selector = calldata.selector /\ chain.selector = permission.selector
    BY <2>1, SimulatorAssumption DEF OnChainCall, ToOnChainStruct
  <2>3. /\ root # NoRoot
        /\ leaf \in root
        /\ ShapeWithinLimits(chain)
        /\ ValidateCallData(InnerCallData(data), chain)
    BY <1>1 DEF PolicyAllows, VerifyMerkleProof
  <2>4. ShapeWithinLimits(permission)
    BY <2>1, <2>3, ShapeOnChain
  <2>5. ExecKind(data) = "Execute4337" /\ data.inner = call /\ data.selector = ExecuteSelector
    BY SelectorsDiffer DEF ExecKind, Wrapped
  <2>6. ValidateCallData(call, chain)
    <3>1. CASE call = NoInner
      <4>1. InnerCallData(data).selector = ExecuteSelector
        BY <2>5, <3>1 DEF InnerCallData
      <4>2. permission.selector = ExecuteSelector
        BY <2>2, <2>3, <4>1 DEF ValidateCallData
      <4>3. calldata.selector = NoSelector
        BY <2>2, <3>1 DEF NoInner
      <4> QED BY <1>1, <4>2, <4>3 DEF JudgedByItself
    <3>2. CASE call # NoInner
      BY <2>3, <2>5, <3>2 DEF InnerCallData
    <3> QED BY <3>1, <3>2
  <2>7. ValidateCalldata(calldata, permission).valid
    BY <1>1, <2>1, <2>4, <2>6, AcceptsAlike
  <2> QED BY <2>3, <2>7 DEF Validate
<1>2. SimulatorInv => RejectedOffChainIsRejectedOnChain
  BY <1>1 DEF RejectedOffChainIsRejectedOnChain
<1> QED BY <1>2, SimulatorInvariant, PTL
=============================================================================
