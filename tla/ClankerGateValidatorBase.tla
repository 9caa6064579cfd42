---------------------- MODULE ClankerGateValidatorBase ----------------------
(***************************************************************************)
(* The pipeline shared by the ERC-4337 and ERC-7579 gates                   *)
(* (_validate in src/ClankerGateValidatorBase.sol), as operators over what   *)
(* the adapter's hooks return: the account's root, its nonce and its signer. *)
(* A UserOperation is a record with its sender, its callData, the permission *)
(* its signature field carries and the key that signed its hash.             *)
(***************************************************************************)
EXTENDS ClankerGateCore

\* Mutated form: a direct call may use a permission for any target.
TargetMatchesDirect(op) ==
    ExecKind(op.callData) # "Direct" => ActualTarget(op.callData) = op.perm.target

\* A direct call is a call of the account itself and needs target address(0).
TargetMatches(op) ==
    IF ExecKind(op.callData) = "Direct"
    THEN op.perm.target = ZeroAddress
    ELSE ActualTarget(op.callData) = op.perm.target

\* Every check before the signature; where one fails _validate reverts.  The
\* chain is rejected only when ValidatePermission gets as far as the chain.
PolicyAllows(root, nonce, account, op, now) ==
    /\ root # NoRoot
    /\ VerifyMerkleProof(root, op.perm, account, nonce)
    /\ ValidatePermission(op.perm, now) # ERR_CHAIN
    /\ op.perm.authorizedCaller \in {ZeroAddress, account}
    /\ Decodes(op.callData)
    /\ CallValue(op.callData) <= op.perm.maxValue
    /\ TargetMatches(op)
    /\ ValidateCallData(InnerCallData(op.callData), op.perm)

\* Mutated form: any signature will do.
SignatureValidAlways(signer, op) == TRUE

\* SignatureCheckerLib.isValidSignatureNow(signer, userOpHash, ownerSig).
SignatureValid(signer, op) == op.signer = signer

\* Mutated form: the end of the window is lost in the packing.
PackValidationDataOpen(sigFailed, validUntil, validAfter) ==
    [sigFailed |-> sigFailed, validUntil |-> 0, validAfter |-> validAfter]

PackValidationData(sigFailed, validUntil, validAfter) ==
    [sigFailed |-> sigFailed, validUntil |-> validUntil, validAfter |-> validAfter]
=============================================================================
