-------------------------- MODULE PolicyDeployment --------------------------
(***************************************************************************)
(* Deploying policies with the SDK's ERC-4337 client                         *)
(* (sdk/src/clients): a client reads the account's nonce, builds a tree for   *)
(* the epoch that follows, and submits setPolicyRoot; or it submits           *)
(* setPolicyRootWithPermission, which needs no nonce.  The client sends both   *)
(* as the account itself.  A submission lands later, in any order with those   *)
(* of other clients of the account, and a client that does not hear of it may  *)
(* submit again.  Meanwhile the account's operations are validated by the      *)
(* gate, and its policy admin sets roots without the client.                  *)
(***************************************************************************)
EXTENDS ClankerGate4337

CONSTANTS
    Client,     \* the clients at work, each for any account
    Wanted,     \* the sets of permissions a client may want to grant
    MaxPending  \* bound on the submissions that have not landed

ASSUME DeploymentAssumption == Wanted \subseteq SUBSET Permission

VARIABLES
    draft,      \* client -> the tree it is working on
    pending,    \* the transactions submitted and not landed yet
    landed      \* history: how often a permission of an account was made live

deploymentVars == <<draft, pending, landed>>
clientVars == <<vars, deploymentVars>>

Draft(account, nonce, perms) == [account |-> account, nonce |-> nonce, perms |-> perms]

\* Mutated form: the tree is built for the epoch that was read, not the next one.
TreeOfCurrentEpoch(d) ==
    {HashPermissionWithAccount(d.account, p, d.nonce) : p \in d.perms}

\* createMerkleTreeBuilder for the epoch that setPolicyRoot will open.
Tree(d) == {HashPermissionWithAccount(d.account, p, d.nonce + 1) : p \in d.perms}

InitDeployment ==
    /\ Init
    /\ draft = [c \in Client |-> {}]
    /\ pending = {}
    /\ landed = [x \in Account \X Permission |-> 0]

\* getNonce, and the permissions added to a new tree builder.
ReadNonce(client, account, perms) ==
    /\ draft' = [draft EXCEPT ![client] = {Draft(account, nonces[account], perms)}]
    /\ UNCHANGED <<vars, pending, landed>>

\* setPolicyRoot of the client returns when the transaction is submitted; the
\* draft is kept, so it may be submitted again.
Submit(client) ==
    /\ Cardinality(pending) < MaxPending
    /\ \E d \in draft[client] :
         pending' = pending \cup {[by |-> client, method |-> "root", draft |-> d]}
    /\ UNCHANGED <<vars, draft, landed>>

\* setPolicyRootWithPermission of the client.
SubmitPermission(client, account, perm) ==
    /\ Cardinality(pending) < MaxPending
    /\ pending' = pending \cup {[by |-> client, method |-> "permission",
                               draft |-> Draft(account, 0, {perm})]}
    /\ UNCHANGED <<vars, draft, landed>>

\* Counts the permissions that the transaction for the account makes live.
CountLive(account) ==
    landed' = [x \in Account \X Permission |->
        IF x[1] = account
           /\ HashPermissionWithAccount(account, x[2], nonces'[account]) \in policyRoots'[account]
        THEN landed[x] + 1
        ELSE landed[x]]

\* The gate executes the transaction; the account may always administer.
Land(tx) ==
    /\ pending' = pending \ {tx}
    /\ \/ /\ tx.method = "root"
          /\ SetPolicyRoot(tx.draft.account, tx.draft.account, Tree(tx.draft))
       \/ /\ tx.method = "permission"
          /\ \E perm \in tx.draft.perms :
               SetPolicyRootWithPermission(tx.draft.account, tx.draft.account, perm)
    /\ CountLive(tx.draft.account)
    /\ UNCHANGED draft

\* What else happens at the gate: operations, and the admin that was appointed.
Operate ==
    /\ \/ /\ \/ \E op \in UserOp : ValidateUserOp(op.sender, op)
             \/ \E account \in Account, admin \in AdminChoice :
                  SetPolicyAdmin(account, account, admin)
          /\ UNCHANGED landed
       \/ \E account \in Account, root \in Root :
            /\ SetPolicyRoot(policyAdmin[account], account, root)
            /\ CountLive(account)
    /\ UNCHANGED <<draft, pending>>

NextDeployment ==
    \/ \E client \in Client, account \in Account :
         \/ \E perms \in Wanted : ReadNonce(client, account, perms)
         \/ \E perm \in Permission : SubmitPermission(client, account, perm)
    \/ \E client \in Client : Submit(client)
    \/ \E tx \in pending : Land(tx)
    \/ Operate

SpecDeployment == InitDeployment /\ [][NextDeployment]_clientVars

---------------------------------------------------------------------------
\* What lands is live as a whole or not at all: a tree whose nonce was overtaken
\* by another deployment, or by an earlier submission of the same tree, grants
\* nothing (and takes away what was granted); one that was not is live at once.
LandsWholeOrDead ==
    [][\A tx \in pending :
         (tx \notin pending' /\ nonces' # nonces) =>
            LET d == tx.draft
                leaves == {HashPermissionWithAccount(d.account, p, nonces'[d.account]) : p \in d.perms}
            IN  LiveLeaves(d.account)' =
                    IF tx.method = "permission" \/ d.nonce = nonces[d.account]
                    THEN leaves
                    ELSE {}]_clientVars

\* Over all epochs, a single-use permission is accepted at most as often as a
\* deployment made it live: "single use" is per deployment, and submitting the
\* same tree again does not grant a second use.
UsesPerDeployment ==
    \A a \in Account, p \in Permission :
        Cardinality({n \in Nonce : HashPermissionWithAccount(a, p, n) \in usedPermissionHashes[a]})
            <= landed[<<a, p>>]
=============================================================================
