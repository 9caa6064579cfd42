-------------------------- MODULE ClankerGateCore --------------------------
(***************************************************************************)
(* The validation library shared by the three gates                        *)
(* (src/ClankerGateCore.sol): the rules over calldata words, the time and   *)
(* chain constraints of a permission, the decoding of the two execute       *)
(* wrappers, and the Merkle leaf a permission hashes to.                     *)
(*                                                                         *)
(* Data is abstracted to what the gates tell apart.  A call is a selector    *)
(* and its argument words, and a rule's offset counts words.  Hashing is     *)
(* injective: a leaf is the record of what is hashed, a Merkle root is the   *)
(* set of the leaves of its tree, the zero root is the empty set, and some   *)
(* proof verifies exactly for the members.                                   *)
(***************************************************************************)
EXTENDS Integers, Sequences, FiniteSets

CONSTANTS
    Address,            \* every address but address(0)
    ZeroAddress,        \* address(0)
    NoSelector,         \* the "selector" of calldata shorter than 4 bytes
    ExecuteSelector,    \* execute(address,uint256,bytes)
    Exec7579Selector,   \* execute(bytes32,bytes)
    Permission,         \* the permissions in play
    WordModulus,        \* 2^256: words are 0 .. WordModulus - 1
    MAX_RULES,
    MAX_IN_VALUES,
    ChainId             \* block.chainid

ASSUME CoreAssumption ==
    /\ ZeroAddress \notin Address
    /\ Cardinality({NoSelector, ExecuteSelector, Exec7579Selector}) = 3
    /\ WordModulus \in Nat \ {0}
    /\ ChainId \in Nat \ {0}
    /\ \A p \in Permission : p.singleUse \in BOOLEAN

---------------------------------------------------------------------------
(* Rules over argument words. *)

OP_EQ  == 0
OP_GT  == 1
OP_LT  == 2
OP_GTE == 3
OP_LTE == 4
OP_IN  == 5
OP_SGT == 6
OP_SLT == 7

Word == 0 .. WordModulus - 1

\* bytes32 reread as int256, in two's complement.
Signed(w) == IF 2 * w >= WordModulus THEN w - WordModulus ELSE w

InArray(value, array) == \E i \in DOMAIN array : array[i] = value

\* An unknown operator and a value list that is too long revert; FALSE makes
\* every caller revert, so the two are one outcome here.
CompareRule(op, actual, expected, values) ==
    \/ op = OP_EQ  /\ actual = expected
    \/ op = OP_GT  /\ actual > expected
    \/ op = OP_LT  /\ actual < expected
    \/ op = OP_GTE /\ actual >= expected
    \/ op = OP_LTE /\ actual <= expected
    \/ op = OP_IN  /\ Len(values) <= MAX_IN_VALUES /\ InArray(actual, values)
    \/ op = OP_SGT /\ Signed(actual) > Signed(expected)
    \/ op = OP_SLT /\ Signed(actual) < Signed(expected)

\* TRUE where validateCallData*Extended returns (true, 0, 0).  Its two FALSE
\* codes and its reverts all make the calling gate revert.
ValidateCallData(call, permission) ==
    /\ call.selector # NoSelector
    /\ call.selector = permission.selector
    /\ Len(permission.rules) <= MAX_RULES
    /\ \A i \in DOMAIN permission.rules :
         LET rule == permission.rules[i]
         IN  /\ rule.offset + 1 <= Len(call.args)
             /\ CompareRule(rule.op, call.args[rule.offset + 1], rule.value, rule.values)

---------------------------------------------------------------------------
(* The window and the chain of a permission. *)

VALID             == 0
ERR_NOT_YET_VALID == 7
ERR_EXPIRED       == 8
ERR_CHAIN         == 9

\* The first failing check names the error: a window failure hides a chain mismatch.
ValidatePermission(permission, now) ==
    IF permission.validAfter > 0 /\ now < permission.validAfter THEN ERR_NOT_YET_VALID
    ELSE IF permission.validUntil > 0 /\ now > permission.validUntil THEN ERR_EXPIRED
    ELSE IF permission.chainId \notin {0, ChainId} THEN ERR_CHAIN
    ELSE VALID

---------------------------------------------------------------------------
(* Merkle leaves and roots. *)

ShapeWithinLimits(permission) ==
    /\ Len(permission.rules) <= MAX_RULES
    /\ \A i \in DOMAIN permission.rules : Len(permission.rules[i].values) <= MAX_IN_VALUES

NoRoot == {}

\* Every gate hashes its own address and chain into the leaf as well; they are
\* the same for all leaves of a module and are left out.
HashPermissionWithAccount(account, permission, nonce) ==
    [account |-> account, perm |-> permission, nonce |-> nonce]

\* Mutated form: the leaf does not bind the nonce.
VerifyMerkleProofAnyEpoch(root, permission, account, nonce) ==
    /\ ShapeWithinLimits(permission)
    /\ \E leaf \in root : leaf.account = account /\ leaf.perm = permission

\* hashPermission reverts on a shape over the limits before MerkleProof.verify runs.
VerifyMerkleProof(root, permission, account, nonce) ==
    /\ ShapeWithinLimits(permission)
    /\ HashPermissionWithAccount(account, permission, nonce) \in root

---------------------------------------------------------------------------
(* The callData of a UserOperation.  It is a call of its own (selector and   *)
(* args) and, when the selector is that of an execute wrapper, carries what   *)
(* the wrapper encodes: wellEncoded says that the bounds and padding checks   *)
(* pass, mode is the ERC-7579 mode word, and target, value and inner are the  *)
(* wrapped call, inner being NoInner for a plain transfer of ETH.             *)

CALLTYPE_SINGLE  == "single"
EXECTYPE_DEFAULT == "default"

BasicMode == [callType |-> CALLTYPE_SINGLE, execType |-> EXECTYPE_DEFAULT, rest |-> 0]

NoInner == [selector |-> NoSelector, args |-> <<>>]

ExecKind(callData) ==
    CASE callData.selector = ExecuteSelector  -> "Execute4337"
      [] callData.selector = Exec7579Selector -> "Execute7579Single"
      [] OTHER                                -> "Direct"

\* decodeAnyExecuteMemory gives a result instead of reverting.
Decodes(callData) ==
    CASE ExecKind(callData) = "Execute4337" -> callData.wellEncoded
      [] ExecKind(callData) = "Execute7579Single" ->
           /\ callData.mode.execType = EXECTYPE_DEFAULT
           /\ callData.mode.callType = CALLTYPE_SINGLE
           /\ callData.mode.rest = 0
           /\ callData.wellEncoded
      [] OTHER -> TRUE

ActualTarget(callData) ==
    IF ExecKind(callData) = "Direct" THEN ZeroAddress ELSE callData.target

CallValue(callData) ==
    IF ExecKind(callData) = "Direct" THEN 0 ELSE callData.value

\* Mutated form: the rules look at the wrapper instead of the call inside.
InnerCallDataOuter(callData) == [selector |-> callData.selector, args |-> callData.args]

\* With no inner data the rules look at the whole callData.
InnerCallData(callData) ==
    IF ExecKind(callData) # "Direct" /\ callData.inner # NoInner
    THEN callData.inner
    ELSE [selector |-> callData.selector, args |-> callData.args]
=============================================================================
