# clanker-gate: models, checks and proofs

This directory holds TLA+ models of clanker-gate, the TLC configurations that
check them, and TLAPS proofs about the three gates, the EntryPoint flow, the
clients, the Merkle trees, the SDK's compiler, converter and simulator, and the
page. The models are translated from the Solidity contracts in `src/`, the
TypeScript SDK in `sdk/src/` and the page in `apps/policy-builder` (paths in this
file are relative to the repository root; `PROJECT.json` maps each definition to
its lines).

A *policy* is a Merkle tree of *permissions*. A smart account stores the root;
a session key proves that an operation falls under one of the permissions. A
permission names a target, a selector, rules on fixed words of the arguments, a
time window, a chain, a value limit, an authorized caller, and whether it may
be used only once. Three contracts enforce policies: a validator for ERC-4337
accounts, a validator module for ERC-7579 accounts and a module for Safes. An
SDK compiles policies from ABIs, builds the trees and submits them.

## 1. Inventory

| Part | State | Operations | What makes it correct |
|---|---|---|---|
| `ClankerGateCore` | none | rules, window and chain, leaf, proof, decoding of execute wrappers | what it judges is what the account will call |
| `ClankerGateValidatorBase` | `usedPermissionHashes` | `_validate`, `_markUsed` | each check present, in an order that spends nothing on failure |
| `ClankerGate4337` | roots, nonces, admins per account | `setPolicyRoot`, `setPolicyRootWithPermission`, `setPolicyAdmin`, `validateUserOp` | one use per single-use leaf; a revoked leaf stays revoked; strangers change nothing |
| EntryPoint and account (external) | a bundle in progress | validate all, then execute each | window enforced; one attempt per single-use permission; no way to the gate's own policy |
| `ClankerGate7579` | `AccountConfig`, `_installEpoch` | `onInstall`, `onUninstall`, three setters, `validateUserOp`, `isValidSignatureWithSender` | installs do not leak into each other; the signer does not administer |
| `ClankerGateSafe` | `CallerAuth`, callers, delegatecall versions | four configuration functions, `execTransaction`, `execTransactionWithProof` | check and execution are atomic; delegatecall targets die with the root |
| `sdk/src/builder` | permissions added so far | `addPermission`, `build`, `getProof` | a proof fits the root it was made for, and a root proves its leaves only |
| `sdk/src/simulator` | none | `validateCalldata`, `verifyProof`, `validate` | agrees with the contract |
| `sdk/src/policy-compiler` | builder's target, function, rules | `to`, `fn`, `where`, `build` | an offset is that of the named parameter; the selector is the function's |
| `sdk/src/abi-converter` | the parsed ABI, the report of a verification | parsers of three kinds of source, `generateModule`, `verifyABIDirectory` | offsets and selectors are those of the calldata; a pass means right |
| `sdk/src/abi-registry` | ABIs by name | `register`, `get`, `policy` | a builder keeps the ABI it was made for |
| `sdk/src/clients` | none; the transactions in flight | read nonce or configuration, submit | a tree lands whole or grants nothing, in the install it was meant for |
| `apps/policy-builder` | policy, tab, label of the copy button | edits, tabs, examples, copy | rows, map and compiled permission agree; the label goes back |
| `sdk/src/contracts`, `script`, `data` | none | generated or third-party files, one-off deployment | not modelled, see section 7 |

Interaction. The EntryPoint calls an account, the account calls the gate's
`validateUserOp` and believes its answer; later the EntryPoint has the account
execute the callData. The Safe module both checks and executes, through
`execTransactionFromModule` of the Safe. The SDK never talks to the gates
except by reading a nonce or a configuration and submitting transactions; the
link between it and the contracts is that both hash the same leaf. Inside the
SDK, the converter fills the registry, the registry hands ABIs to the policy
builder, and the app compiles with the same offsets and selectors.

What is hard here is not inside one call, since a transaction is atomic, but
between calls: anybody may call `validateUserOp`; a bundle validates all its
operations before it executes any; foreign code runs inside a Safe execution
and may come back; roots, installs and admins come and go while proofs for
older epochs still exist; a deployment is prepared off chain for an epoch that
may be gone when it lands. In the SDK it is arithmetic on offsets that has to
agree in four places (compiler, converter, generated module, app).
`PROJECT.json` lists these hazards at their lines.

## 2. Modules

| Module | Models | Builds on |
|---|---|---|
| `PermissionLedger` | nothing: the abstract promise of a gate | standard modules |
| `ClankerGateCore` | the library, as operators | standard modules |
| `ClankerGateValidatorBase` | the shared pipeline, as operators over root, nonce and signer | `ClankerGateCore` |
| `ClankerGate4337` | the ERC-4337 gate | `ClankerGateValidatorBase`, instance of `PermissionLedger` |
| `EntryPoint4337` | EntryPoint, account and gate together | `ClankerGate4337` |
| `PolicyDeployment` | ERC-4337 clients deploying to the gate | `ClankerGate4337` |
| `ClankerGate7579` | the ERC-7579 gate | `ClankerGateValidatorBase`, instance of `PermissionLedger` |
| `ModuleDeployment7579` | an ERC-7579 client installing, setting and uninstalling | `ClankerGate7579` |
| `ClankerGateSafe` | the Safe module and the executions it starts | `ClankerGateCore`, instance of `PermissionLedger` |
| `MerkleBuilder` | tree builder and proofs | standard modules |
| `Simulator` | simulator beside the contract's checks | `ClankerGateValidatorBase` |
| `OffsetCalculator` | offsets and selectors, and the Solidity ABI as reference | standard modules |
| `PolicyCompiler` | the fluent builder | `OffsetCalculator` |
| `AbiConverter` | converter and registry, beside the builder | `PolicyCompiler` |
| `PolicyBuilderApp` | the web page | `OffsetCalculator` |
| `*_proofs` | theorems | the module named, `TLAPS`; those of the two validators also hold the theorems with the EntryPoint and the clients at work, and that of the compiler those of the page |

`MC*.tla` give the constants small values; each `.cfg` is one run.

How code becomes TLA+:

* A call that reverts changes nothing, so an action's guard is the conjunction
  of the checks that would revert and a refused call is a stuttering step. A
  bad signature does not revert in the validators, so it is an action of its
  own (`ValidateUserOpSigFailed`).
* The caller (`msg.sender`) is a parameter of every function that looks at it,
  and any address may be the caller. Functions that act on `msg.sender` itself
  take only the account.
* Hashing is injective. A leaf is the record of what is hashed (account,
  permission, nonce), a root is the set of the leaves of its tree, and the zero
  root is the empty set. `MerkleBuilder` justifies the last step: there a root
  is a hash of hashes, and `RootIsItsLeaves`, which is proved for trees of any
  size, says that some proof verifies for the tree's leaves and for no other leaf.
* A call is its selector and its argument words; rule offsets count words. The
  two encodings of an execute wrapper are a record with a flag `wellEncoded`
  for the decoders' bounds and padding checks.
* A parameter of an ABI has one of five types: `"word"` (any type of one word, as
  signatures spell it), `"dynamic"`, `"fixed"` (`T[2]` of words), `"tuple"` and
  `"tuple[]"`; or an alias, a type that Solidity sources spell otherwise than
  signatures do (`uint`, an enum, a contract, an array of these or of structs);
  any other is the name of a struct. `Alias` says what each alias stands for. A
  selector is the signature it is cut from: the code's `CanonicalType` leaves an
  alias as it is written, the ABI's `AbiType` spells it out.
* 2^256 is `WordModulus`; comparisons of `int256` reread a word in two's
  complement.
* `uses`, `revoked`, `retired`, `executed`, `attempts`, `allowed`, `landed`,
  `receipt` and `cause` are history variables: no action reads them in a guard.
  Counters of uses stop at 2, which is enough to tell "once" from "more".
* Operators whose comment begins with "Mutated form" are wrong on purpose: they
  are what `PROJECT.json` puts in place of the definition they stand before, to
  show that each property can fail.

### The abstract ledger

`PermissionLedger` says what every gate promises, without roots, epochs or
registries: permissions come to life, are used while they live, and die; the
dead do not come back, and what may be used once is used once. `Amendable` says
whether a permission may leave without dying: in the ERC-7579 gate it may,
since a root change there keeps the epoch and the old tree can be set again.

Each gate defines its image of the ledger's variables and has
`ImplementsLedger == Ledger!Spec` as a property:

| Gate | `live` | `dead` | `used` |
|---|---|---|---|
| `ClankerGate4337` | leaves of the root in force with its epoch | `revoked` | `uses` of single-use leaves |
| `ClankerGate7579` | the same, of an installed configuration | `retired` | the same |
| `ClankerGateSafe` | the same, of the committed state | `revoked`, committed | `executed` |

"Committed" is what would be left if the execution in progress failed: a Safe's
permission counts as used when its execution is over, not when it starts, and
the ledger moves only then.

### The gates

`ClankerGate4337` holds the four mappings under the code's names, the `owner()`
of every account (external, free to change) and the clock. `NewEpoch` is the
write of root and nonce that both root setters share; `PolicyAllows` in the
base module is `_validate` up to the signature; `Acceptable(op)` is what the
account's own call would accept now.

`ClankerGate7579` keeps `accountConfigs` and `installEpoch` apart, because
uninstalling deletes the one and not the other. A root set within an install
keeps its epoch, so a tree may return; this is the code's choice, and
`SingleUseOnce` is harder there than in the ERC-4337 gate.

`ClankerGateSafe` splits `_validateAndExecute` at the external call:
`ExecTransaction` pushes a frame with a snapshot, then the executed code may
call the module as the Safe (`ExecutionConfigures`, `DelegatecallConfigures`),
other owners' transactions may be triggered (`OwnersConfigure`), and the frame
ends with `ExecutionSucceeds` or with `ExecutionFails`, which restores the
snapshot. Whether the lock is needed is part of what is checked.

`EntryPoint4337` puts the gate under the protocol that calls it. Its actions
model code outside the repository (EntryPoint v0.7 and an account that forwards
to the gate) as `README.md` and the gate's comments rely on it. Policy
changes arrive between bundles, as the effect of executed operations, and as
callbacks of an admin contract in the execution phase.

`PolicyDeployment` and `ModuleDeployment7579` add to a gate the clients' drafts
and the transactions in flight. A draft is what the client read, kept for as
long as it likes; a submission lands at any later time, in any order, and may
revert then; a draft may be submitted again. In the first, a tree is for the
epoch it will open itself (`nonce + 1`); in the second, a root is for the epoch
read, and an initial tree for the next install.

### The SDK

`Simulator` writes hex words as pairs of characters in ASCII order so that
string comparison and letter case are real: calldata is in lower case, while the
words of a rule have the letters `toHex32` was given, which for a checksummed
address are of both cases. `OffsetCalculator` follows the
recursion of `resolveOffset`, as functions over parameters whose tuples nest up
to a depth `Nesting`, and compares with the head encoding of the Solidity ABI,
written separately as `Heads`. `MerkleBuilder` is the level by
level construction, index arithmetic included.

`AbiConverter` takes a source in one of three forms (JSON, human-readable
lines, Solidity) with the structs of its file, and follows it through the entry the parser makes of it, `parseABI` with its own offsets
and selectors, the ABI that the generator writes next to them, registration
under a name, and a policy built from what is registered. `Declared` spells the
structs of the source out as the Solidity compiler does, as far as its file goes
(the struct of another file stays a name), and `FunctionSelector` the aliases; both
together are what the results are compared with. A Solidity source has no tuples
but its structs. `VerifyNextFile` is one turn of the loop of `verifyABIDirectory`.

`PolicyBuilderApp` has one action per event handler of the page. Compilation,
rows and map are functions of the policy, as they are in a render. The copy
button starts a clipboard write, which is confirmed or rejected later; each
confirmation sets a timer; leaving the code pane unmounts all of it.

## 3. Runs

| Run | Distinct states | Bounds and why they are enough |
|---|---|---|
| `gate4337` | 341,248 | two accounts that share trees and a key, one of them possibly the admin of the other; a single-use and a reusable permission; two epochs, so that a root can be set, revoked and set anew; a tree prepared for both epochs |
| `entrypoint` | 1,318,218 | bundles of two, so that one operation's execution follows another's validation; eleven shapes of callData, with batch mode, ETH transfers, direct calls and calls of the gate |
| `safe` | 285,897 | one Safe, a caller, three targets with the module itself among them, three operations (call, delegatecall, an invalid one), two epochs; nesting is bounded by the lock |
| `gate7579` | 538,348 | one account, two installs with an uninstall between, every setter from account, admin and signer, a root change within an install, and a client with one submission in flight that may outlive the install it was made for |
| `merkle_builder` | 18,472 | up to five permissions with duplicates: levels of 5, 3, 2, 1 |
| `simulator` | 29,578 | up to two rules and two words, one rule and one value more than the contract takes; words of rules in lower, upper and mixed case; permissions for `execute` itself among the others |
| `policy_compiler` | 716,828 | a builder over ABIs with tuples nested two deep, static and dynamic, before and after other parameters, arrays of fixed size and of tuples, and an overloaded function; a source of each form: tuples and a nested one, structs of the file and of others, aliases of one word and of a pointer, an overloaded function; one registered name that is overwritten; three files to verify |
| `deployment` | 819,121 | two clients, two transactions in flight, three epochs, an admin that sets roots meanwhile |
| `policy_app` | 61,750 | up to three rules on three of the eight fields of `exactInputSingle`, two comparisons, values that do and do not parse, two clipboard writes or timers at a time, so that one can end while another runs |

A word on the state counts: these are all the states, no symmetry or state
constraint is used, and every bound (`MaxNonce`, `MaxEpoch`, `MaxTime`,
`MaxBundle`, `MaxPending`, `MaxPermissions`, `MaxRules`, `MaxAppRules`, `Nesting`) is a constant that
appears in a guard or, for `Nesting`, in the set of parameters. `MaxNonce` and `MaxEpoch` also stand for the largest
`uint256`, at which the checked increments of the code revert.

Deadlock is checked except in `simulator`, where a validation is one step and
then over.

What the properties say:

* *Single use.* `SingleUseOnce` (both validators), `SpentMeansOneAttempt` (with
  the EntryPoint: spent is exactly one attempted execution, as
  `README.md:184` promises), `SpentMeansExecuted` (Safe: spent is exactly one
  successful execution, the atomicity that `README.md:187` promises),
  `UsesPerDeployment` (over epochs: as many uses as deployments). The failing
  bundle, the failing execution and the reentrant call are what could break
  them.
* *Revocation.* `RevokedStaysRevoked`, `RetiredStaysRetired`,
  `RevokedNeverStarts`, `DelegatecallIsFresh`: what was live when a root
  change, an uninstall or a new root hit it never counts again, whatever is
  set later. `ImplementsLedger` says both of the above in the terms of the
  abstract ledger, for each gate.
* *Authority.* `StrangersChangeNothing`, `SpentBySigner`,
  `SignerCannotEscalate`, `CallersCannotEscalate`. The second to last allows
  what a permission explicitly grants: one whose target is the gate can change
  policies, epochs and admins, and one whose target is the account itself or
  left open (zero) can change the owner.
* *Permission means execution.* `ExecutedInWindow` and
  `ExecutedCallIsPermitted` look at the call that the account makes, not at
  what the gate read.
* *Deployment.* `LandsWholeOrDead`, `TakesEffectInItsInstall`: a tree grants
  all it was built for or nothing, however long the submission took.
* *Trees.* `RootIsItsLeaves`, `ProofFitsItsRoot`.
* *Simulation.* `SimulatorMatchesContract`, `SameRuleBlamed`,
  `RejectedOffChainIsRejectedOnChain`. Each says which words of the rules must be
  in lower case for it. A mixed-case word in an `EQ` or `IN` rule equals no
  calldata, so it only makes the simulator refuse more: an accepted call stays
  acceptable whatever these rules hold. A mixed-case word in a comparison by order
  is another bound off chain, so nothing is said with one. That the contract
  rejects what the simulator rejects needs all words in lower case.
* *Offsets and selectors.* `RuleSeesItsParameter`, `StaticParametersResolve`
  (builder, relative to the ABI it holds), `ParsedAsDeclared` (the parsed functions
  against the source), `BuiltAsDeclared` (what a builder makes of a parsed ABI,
  against the source that ABI was parsed from),
  `PublishedAgree` (a policy built from a generated ABI has the selector and
  offsets published beside it), `PassMeansRight` (verification never passes a
  file with a wrong offset; it says nothing of what it fails).
* *The page.* `RowsShowTheCompiledRules`, `MapShowsTheConstrainedFields`,
  `CopiedEnds`.

The invariants `LedgerInv`, `BookkeepingInv`, `TypeOKEntryPoint` and
`TypeOKConverter` contain the type invariants of their modules; the first two
are the inductive invariants of the proofs.

### Disagreements found

Three runs end in a violation, each of one statement of the repository:

| Run | Statement | What the code does |
|---|---|---|
| `gate4337_chain` | `test/invariant/ClankerGateInvariant.t.sol:239`, "ChainId mismatch is always rejected" | a window failure is found first and hides the chain, so the validator answers instead of reverting; the EntryPoint still refuses the window (`ExecutedInWindow` holds) |
| `compiler_fixed_array` | `sdk/src/policy-compiler/offset-calculator.ts:47`, "Resolves a parameter path to its byte offset in calldata" | `T[k]` is given one word of head although it has `k` |
| `source_alias` | `sdk/src/abi-converter/abi-parser.ts:267`, "Gets the canonical type for ABI encoding." | a type is hashed as the source spells it: `mint(uint)`, as `data/interfaces/moonwell/IMToken.sol:6` has it, gets a selector of its own and not that of `mint(uint256)`, and the same goes for enums, contracts and arrays of structs |

The properties of the passing SDK runs except these inputs by name:
`RuleSeesItsParameter` speaks of rules with no fixed array before their
parameter (`NoFixedBefore`), and `ParsedAsDeclared` of functions whose tuples
hold words. With an alias, `ParsedAsDeclared` says that the function is filed under
the signature as the source spells it, and the right selector is claimed only for
types spelt in full (`SpeltInFull`); so it is by `BuiltAsDeclared`, which also
excepts functions with a struct in a struct or of another file (`Understood`).
More exceptions are what the code does not do, found by TLC or
in a proof: `StaticParametersResolve` excepts a tuple with a fixed array in it,
which the compiler takes to be dynamic (`NoFixedIn`), and two parameters of one
name, of which it finds the first; the selector of a builder's permission excepts
arrays of tuples (below); `RejectedOffChainIsRejectedOnChain` excepts the empty call under
a permission for `execute` itself (`JudgedByItself`): an account that sends ETH
this way is judged by the calldata of `execute`, which the simulator never sees.

Smaller divergences seen while reading, with no run of their own.

In the contracts and their docs:
* `src/ClankerGate7579.sol:30` says of `initOwner` "Address that can update
  policy", while it becomes the session signer, whom every setter refuses.
* `README.md:367` says a zero target means any target, while the code compares
  exactly.
* The delegatecall whitelist of a Safe that has not set a root is lost with the
  first root.
* After an uninstall no client can prepare an initial tree that will be live:
  the nonce reads 0 and the next epoch is private
  (`src/ClankerGate7579.sol:75`).

In the SDK:
* `sdk/src/simulator/index.ts:36` says "Matches the contract's compareRule
  function exactly", but hex strings are compared as written (lines 31 and 41-49),
  and `toHex32` (`offset-calculator.ts:238-243`) pads an address without changing
  its letters: an `EQ` or `IN` rule with a checksummed address, the spelling the
  SDK's own examples use for addresses, is refused off chain for every call and
  works on chain. Also, the SDK knows no signed comparisons.
* `sdk/src/abi-converter/abi-parser.ts:163` says "Computes byte offsets for all
  parameters, handling nested tuples", but line 194 gives every component of a
  tuple one word, so what follows a tuple in a tuple overlaps it.
* `offset-calculator.ts:40` hashes an array of tuples as the word `tuple[]`,
  which gives a selector no contract has.
* The module generator writes flattened parameters, so a policy built from the
  ABI it writes has another selector than the one published beside it when the
  function takes a tuple (`PublishedAgree` excludes tuples).
* `verifyABIOffsets` never confirms an offset: a value found after the
  selector's eight digits is never at a multiple of 64
  (`abi-converter/index.ts:222`), so every function with parameters fails. The
  third file of the run has one of words, for which the arithmetic is evaluated.
* `solidity-parser.ts` does not resolve imports: an imported struct becomes a
  word, or a tuple without components when written with a dot. What it should
  be is not in the source, and `ParsedAsDeclared` says nothing of such a function.
* `sdk/src/index.ts:108` and `sdk/src/builder/leaf.ts:130` hash for nonce 0, an
  epoch that no root ever has; the examples at `sdk/src/index.ts:20` and `:179`
  constrain fields that the compiler does not find.
* `setPolicyAdmin` of the 4337 client mentions the current admin as a sender,
  whom the gate refuses.
* `apps/policy-builder/src/app/page.tsx:219` shows code that calls
  `merkleTree()` without its configuration, and an empty value compiles to 0.

## 4. Fairness and liveness

The contracts act only when called, nothing in the repository schedules a call,
and a client that submits a transaction waits for no receipt. A fairness
condition on any of those actions would be an assumption about people and
bundlers that the code does not justify, so the models of the gates and the
clients have none, and what is checked of them are safety properties:
invariants and action properties `[][A]_vars`.

The one thing the repository schedules itself is the timer of the page's copy
button. `SpecApp` in `PolicyBuilderApp` assumes `WF_appVars(TimerFires)`: a browser runs a
timer that is due. Nothing is assumed of the clipboard, which may never answer,
or of the user. Under this, `CopiedEnds` shows that "copied!" goes away, with
overlapping writes, rejected ones, and panes closed in between.

## 5. Proofs

`PermissionLedger_proofs` proves of the abstract ledger, for any set of leaves,
`PromiseHolds` (no second use, none alive that has died) and `DeathIsFinal`.

The other theorems hold for every set of accounts, addresses, permissions,
operations and roots, every choice of owners, admins and signers, and every
bound; those on trees for any number of permissions, and those on the compiler
for parameters nested to any depth. Every safety property of the runs on the
gates, the EntryPoint, the clients, the trees, the SDK and the page is proved:

| Module | Theorem | Property |
|---|---|---|
| `ClankerGate4337_proofs` | `TypeCorrect`, `LedgerHolds` | `TypeOK`, `LedgerInv` |
| | `SingleUseHolds` | `SingleUseOnce` |
| | `RevocationHolds` | `RevokedStaysRevoked` |
| | `StrangersHold` | `StrangersChangeNothing` |
| | `SpendingHolds` | `SpentBySigner` |
| | `GateImplementsLedger` | `ImplementsLedger` |
| | `EntryPointTypeCorrect`, with the EntryPoint | `TypeOKEntryPoint` |
| | `WindowHolds`, the same | `ExecutedInWindow` |
| | `PermittedHolds`, the same | `ExecutedCallIsPermitted` |
| | `SignerHolds`, the same | `SignerCannotEscalate` |
| | `AttemptsHold`, the same | `SpentMeansOneAttempt` |
| | `UsesHold`, with clients | `UsesPerDeployment` |
| | `LandingHolds`, with clients | `LandsWholeOrDead` |
| `ClankerGate7579_proofs` | `TypeCorrect`, `LedgerHolds` | `TypeOK`, `LedgerInv` |
| | `SingleUseHolds` | `SingleUseOnce` |
| | `RetirementHolds` | `RetiredStaysRetired` |
| | `StrangersHold` | `StrangersChangeNothing` |
| | `GateImplementsLedger` | `ImplementsLedger` |
| | `LedgerHoldsWithClients`, `SingleUseHoldsWithClients`, `RetirementHoldsWithClients`, `StrangersHoldWithClients`, `DeploymentImplementsLedger` | the same five, with clients landing roots |
| | `TreesHold` | `TakesEffectInItsInstall` |
| `ClankerGateSafe_proofs` | `BookkeepingHolds` | `BookkeepingInv` |
| | `AtomicityHolds` | `SpentMeansExecuted` |
| | `RevocationHolds` | `RevokedNeverStarts` |
| | `FreshnessHolds` | `DelegatecallIsFresh` |
| | `EscalationHolds` | `CallersCannotEscalate` |
| | `ModuleImplementsLedger` | `ImplementsLedger` |
| `MerkleBuilder_proofs` | `ProofsFitTheirRoot` | `ProofFitsItsRoot` |
| | `RootsAreTheirLeaves` | `RootIsItsLeaves` |
| | `OnlyLeavesVerify` | no list of siblings whatever verifies for a leaf that is not in the tree |
| `PolicyCompiler_proofs` | `BuilderTypeCorrect` | `TypeOK` |
| | `SeeingHolds` | `RuleSeesItsParameter` |
| | `ResolvingHolds` | `StaticParametersResolve` |
| | `SelectorHolds` | `SelectorIsTheFunctions`, which is in no run: `BuiltAsDeclared` says more |
| | `PageTypeCorrect`, of the page | `TypeOKApp` |
| | `RowsHold`, of the page | `RowsShowTheCompiledRules` |
| | `MapHolds`, of the page | `MapShowsTheConstrainedFields` |
| `AbiConverter_proofs` | `ConverterTypeCorrect` | `TypeOKConverter` |
| | `ParsingHolds` | `ParsedAsDeclared` |
| | `BuildingHolds` | `BuiltAsDeclared` |
| | `PublishingHolds` | `PublishedAgree` |
| | `VerifyingHolds` | `PassMeansRight` |
| | `BuildersHold` | `RuleSeesItsParameter`, `StaticParametersResolve`, `SelectorIsTheFunctions`, for builders made from a registry, relative to the ABI registered |
| `Simulator_proofs` | `AgreementHolds` | `SimulatorMatchesContract` |
| | `BlameHolds` | `SameRuleBlamed` |
| | `RejectionHolds` | `RejectedOffChainIsRejectedOnChain` |

Assumptions: `CoreAssumption`, and `GateAssumption` or `SafeAssumption`, which
say that the zero address is no account, that the selectors of the two wrappers
and of short calldata differ, that operations and roots are about known accounts
and permissions, and that the bounds are naturals. `EntryPointAssumption` adds
that the gate is no account and that windows are naturals,
`DeploymentAssumption` that clients grant permissions that exist, and
`SimulatorAssumption` that calldata is words in lower case, that rules are words in
any case, and that they use the SDK's six comparisons. `AliasAssumption` says that
an alias is none of the five types and stands for a word, a pointer or a fixed
array. `BuilderAssumption` says that the bound
on permissions is a natural, `NestingAssumption` the same of the depth of tuples,
and `CompilerAssumption` that ABIs are sequences of entries, that a dotted name
has at least one part and that no target is the empty string. Of the sources
`ConverterAssumption` says what Solidity and the JSON format demand: tuples and
structs have fields, the structs of a file have names of their own, no built-in
type has a dot in its name, and structs are written in Solidity only, whose
parameters and fields are no tuples otherwise.
`SelectorAssumption` says that no two functions of a source have one selector,
which the Solidity compiler refuses; a lookup by selector could not tell them
apart. `AppAssumption` says of the page's constants that the functions of its
examples are in its ABI, once, and have fields, that the rules of the examples
name such fields, and that the menu has no comparison but the five.

The arguments.

* *ERC-4337 gate.* `SingleUseOnce` alone is not inductive: it speaks of the
  history `uses`, while the guard of `MarkUsed` looks at
  `usedPermissionHashes`. `UsesMatchSpent` ties the two together: a leaf has
  been accepted once if it is in the registry and never otherwise.
  `RevokedStaysRevoked` needs that a revoked leaf belongs to an epoch that has
  passed (`RevokedEpochsPassed`), and since epochs only grow
  (`NewEpochRevokes`) and an accepted leaf carries the current epoch, the two
  can never be the same leaf. `LedgerInv` is the conjunction with `TypeOK`.
  `StrangersHold` rests on `AcceptableLocal`: whether an operation is
  acceptable depends only on the entries of its own account, so a step that
  leaves them alone cannot change it.
* *ERC-7579 gate.* The epoch lives in two places, and the invariant must say
  how they hang together: a configuration is of the newest install or there is
  none, and retired leaves are of installs that are over. With that, an
  uninstall may forget the configuration without making an old leaf live.
* *Safe module.* Between check and return the module's state is provisional,
  so the invariant speaks of two states: what is there now, and what a failure
  would restore. `BookkeepingInv` says that at most one execution is in
  progress, that the snapshot it would be rolled back to is consistent, and
  that the registry is settled outside it. It contains the effect of the lock;
  `SpentMeansExecuted` follows.
* *Refinement.* In each gate the initial state maps to the ledger's, and with
  the inductive invariant every step maps to `Use`, to `Change` or to a
  stutter. Acceptance of a single-use leaf is `Use`: the leaf is live by the
  guard and unused by `UsesMatchSpent`. Root changes, installs and uninstalls
  are `Change`: the new epoch is greater than that of any dead leaf, so none
  comes back.

* *EntryPoint.* `AcceptedInv` says that every operation of the bundle that has
  been validated was permitted and is still in its window: the clock stands
  still within a bundle, and policy changes in the execution phase no longer
  matter. The three action properties follow. `SpentMeansOneAttempt` speaks of
  the time between bundles and says nothing of the time within, so
  `AttemptInv` adds what is then in progress: a single-use leaf *awaits* from
  its validation to its execution; no leaf awaits twice, although a bundle may
  carry the same operation twice; what awaits is spent; the rest of what is
  spent was attempted once; and the checkpoint, to which a failing bundle goes
  back, is the registry without what awaits.
* *4337 client.* Only the current epoch of a permission can be spent, and only
  if it is live, so of the deployments counted one is left for the live epoch
  (`UsesInv`). A new epoch adds one to both sides, or nothing to either.
  `LandsWholeOrDead` needs little more than that leaves of different epochs
  differ.
* *7579 client.* A draft's nonce is the number of the install it was read in,
  or 0 between installs, and installs are never taken back (`ClientInv`). A
  tree of one epoch is live in that epoch as a whole and in others not at all.
  A gate with clients is a gate whose roots may be any trees of leaves
  (`DeploymentIsGate`): a landing transaction is one of the gate's own actions
  with a root of the client's making. What is proved of the gate is proved of
  that larger set of roots, and so carries over.
* *Trees.* Induction over data is not available as a rule, since it takes an
  operator as its parameter, but well-founded induction for a *set* is: collect
  the naturals up to the height of a tree for which a fact holds, and a minimal
  one outside the set gives a contradiction. With the levels of a tree as a
  recursive function over heights, `RootIsItsLeaves` goes down from the root: the
  hashes of two levels agree only if the levels do. `BuilderInvariant` adds the
  state: what is deployed is the root of what was added then, and a proof
  verifies against the root of the tree it was made from.
* *Policy compiler.* Each recursive function over parameters is first shown to
  equal its defining equation (`TypesInDef`, `HeadSizeDef`, `HeadOfDef`, ...), by
  induction over the depth of tuples; `ParamsByStep` is then induction over
  parameters, for a set. A head is the heads of its parameters joined
  (`FlattenPositions`), so a parameter starts at the sum of the words before it,
  and without fixed-size arrays that sum is the one `OffsetOf` takes
  (`HeadSizeFacts`, `OffsetCounts`). `ResolvedPathIsSeen` follows a path down,
  name by name: where the first n names lead, the words are those of the whole
  head with these n names in front. `ParameterResolves` goes the other way, from
  a word of the head to the names it is under; names must be distinct there,
  because the code looks up the first parameter of a name.
* *The page.* What is edited stays a policy with rules on the fields of its
  function (`TypeOKApp` is inductive; it is proved and has no place in a run). Rows and permission then agree because
  both look a field up by its name. For the map, fields must be told apart by
  their offsets: a field starts within the words counted for its parameter
  (`FieldPlace`), and those of two parameters do not overlap
  (`ParametersApart`), so two fields with one offset are one (`FieldsApart`).
  This needs no calldata, and holds where a fixed-size array makes the offsets
  themselves wrong.
* *ABI converter.* `ConverterInv` says that what is parsed is `ParseABI` of a
  source, that the registry holds ABIs, that the report is of the files up to
  now, and of the builder what `PolicyCompiler_proofs` shows plus one thing more:
  a permission is for the only function of its name in its ABI. That is what
  `PublishedAgree` rests on, since the generator keeps the last function of a
  name and `fn` refuses a name that has several. `ParsedAsDeclared` is in three
  parts. A parameter of words, pointers and tuples of words is flattened to one
  field for each word of its head, counted word by word (`ShallowIsParsed`). The
  entries of each form of source become the declared ones, struct by struct, and
  so does the signature as it is spelt. The last function filed under a signature
  is then the declared one: signatures spelt alike are the same selector, which no
  two functions of a contract have (`SameSelectorSameFunction`). `BuiltAsDeclared`
  puts the two halves together. A parameter the parser understands, with its
  structs one deep and known, is parsed as declared (`UnderstoodParam`), where
  the induction over depth (`StagePlain`, `NothingExpanded`) shows that what has no
  struct in it stays as it is; so the function built from is the declared one, and
  what is proved of a builder relative to its ABI holds relative to the source. For
  `PassMeansRight` one needs what a pass implies: as `findActualOffset` never
  finds anything, only functions without parameters pass.
* *Simulator.* Words in lower case have the same order as strings and as
  numbers (`WordOrder`), so one rule with such words passes in both or in neither;
  words in either case that are equal as strings are equal as numbers, so an `EQ` or
  `IN` rule that passes off chain passes on chain (`PassesAgrees`). `RulesAgree`
  carries both over to the rules of a permission; that there is a first failing rule is the well-foundedness
  of the naturals (`StopsAtFirst`). For `RejectionHolds`, a call that passes a
  gate is either judged as it stands or unwrapped, and in both cases by the rules
  the simulator has applied.

Only model-checked:

* Liveness under fairness (`CopiedEnds`): out of the prover's reach.
* The three runs that end in a violation, by their nature.

## 6. What could come next

* The execute decoders at the level of words and offsets, against an account
  that decodes by the ABI.
* Two Safes that share the module's lock.

## 7. Not modelled

* The byte layout of leaves (`leaf.ts` against `hashPermission`) and the packing
  of permission, proof and signature (`permission-codec.ts`, `guardData.ts`): the
  models take them as injective; the repository cross-checks vectors in its
  tests.
* The byte arithmetic of `decodeExecuteCallMemory` and `decodeAnyExecuteMemory`:
  functions of one input, which the tests fuzz, and the account decoder they
  must agree with is not in the repository. Gas, return data bombs and events.
* Signature schemes: a signature is the key that made it.
* In the converter: the regular expressions that cut source text into
  declarations, the TypeScript text the generator writes, the printed report,
  and reading and writing files. `AbiConverter` starts from the declarations and
  follows what is computed from them.
* `sdk/src/clients/ClankerGateSafeClient.ts`: it encodes calls of functions that
  are actions of `ClankerGateSafe` for any caller; its root deployment has the
  form of `PolicyDeployment`. The `eth_call` helpers of the clients change
  nothing.
* The text of the page's code panes and its layout.
* The generated contract ABIs, the deployment script and `data/`: generated or
  third-party files, and a one-off creation of contracts.
