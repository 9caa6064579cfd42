------------------------ MODULE ModuleDeployment7579 ------------------------
(***************************************************************************)
(* Managing the ERC-7579 gate with its SDK client                             *)
(* (sdk/src/clients/ClankerGate7579Client.ts): the client reads the account's  *)
(* configuration, builds a tree for the install it saw, or for the next one,    *)
(* and submits onInstall, setPolicyRoot or onUninstall.  A submission lands     *)
(* later, after whatever else happened at the gate, and may revert then.  The   *)
(* installs are counted by _installEpoch, which no client can read: what is      *)
(* read after an uninstall is nonce 0, as before the first install.              *)
(***************************************************************************)
EXTENDS ClankerGate7579

CONSTANTS
    Client,     \* the clients at work, each for any account
    Wanted,     \* the sets of permissions a client may want to grant
    MaxPending  \* bound on the submissions that have not landed

ASSUME DeploymentAssumption == Wanted \subseteq SUBSET Permission

VARIABLES
    draft,      \* client -> the tree it is working on
    pending     \* the transactions submitted and not landed yet

deploymentVars == <<draft, pending>>
allVars == <<vars, deploymentVars>>

\* What getAccountConfig told, and (history) the install it told it of.
Draft(account, perms) ==
    [account |-> account, perms |-> perms,
     nonce |-> accountConfigs[account].nonce,
     installed |-> accountConfigs[account].installed,
     epoch |-> installEpoch[account]]

Tree(d, nonce) == {HashPermissionWithAccount(d.account, p, nonce) : p \in d.perms}

InitDeployment ==
    /\ Init
    /\ draft = [c \in Client |-> {}]
    /\ pending = {}

\* getAccountConfig, and the permissions added to a new tree builder.
GetAccountConfig(client, account, perms) ==
    /\ draft' = [draft EXCEPT ![client] = {Draft(account, perms)}]
    /\ UNCHANGED <<vars, pending>>

Call(by, method, d, root) == [by |-> by, method |-> method, draft |-> d, root |-> root]

\* Mutated form: the root is built for the epoch after, as for the other gates.
SubmitRootForNext(by, d) ==
    pending' = pending \cup {Call(by, "setPolicyRoot", d, Tree(d, d.nonce + 1))}

\* setPolicyRoot of the client, sent by the account or by whom it takes for its
\* admin: the root opens no epoch here, so the tree is built for the nonce read.
SubmitRoot(by, d) ==
    pending' = pending \cup {Call(by, "setPolicyRoot", d, Tree(d, d.nonce))}

\* onInstall of the client, with a tree for the install it will be.
SubmitInstall(d) ==
    pending' = pending \cup {Call(d.account, "onInstall", d, Tree(d, d.nonce + 1))}

SubmitUninstall(d) ==
    pending' = pending \cup {Call(d.account, "onUninstall", d, NoRoot)}

\* write returns when the transaction is sent; the draft is kept, so it may be
\* sent again.
Submit(client) ==
    /\ Cardinality(pending) < MaxPending
    /\ \E d \in draft[client] :
         \/ SubmitInstall(d)
         \/ SubmitUninstall(d)
         \/ \E by \in {d.account} \cup (AdminChoice \ {ZeroAddress}) : SubmitRoot(by, d)
    /\ UNCHANGED <<vars, draft>>

\* What the gate does with the call, unless it reverts.
Execute7579(tx) ==
    \/ /\ tx.method = "setPolicyRoot"
       /\ SetPolicyRoot(tx.by, tx.draft.account, tx.root)
    \/ /\ tx.method = "onInstall"
       /\ \E signer \in SignerChoice, validator \in ValidatorChoice :
            OnInstall(tx.by, signer, tx.root, validator)
    \/ /\ tx.method = "onUninstall"
       /\ OnUninstall(tx.by)

Reverts(tx) ==
    CASE tx.method = "setPolicyRoot" -> ~MayAdminister(tx.by, tx.draft.account)
      [] tx.method = "onInstall" -> accountConfigs[tx.by].installed
      [] tx.method = "onUninstall" -> ~accountConfigs[tx.by].installed

Land(tx) ==
    /\ pending' = pending \ {tx}
    /\ \/ Execute7579(tx)
       \/ Reverts(tx) /\ UNCHANGED vars
    /\ UNCHANGED draft

NextDeployment ==
    \/ \E client \in Client :
         \/ \E account \in Account, perms \in Wanted : GetAccountConfig(client, account, perms)
         \/ Submit(client)
    \/ \E tx \in pending : Land(tx)
    \/ Next /\ UNCHANGED deploymentVars

SpecDeployment == InitDeployment /\ [][NextDeployment]_allVars

---------------------------------------------------------------------------
\* A tree takes effect in the install its client meant it for, as a whole, and in
\* no other: a root is meant for the install that was read, an initial tree for
\* the one after it.  What is read between two installs foretells nothing, since
\* it reads like an account that was never installed, and grants nothing later.
TakesEffectInItsInstall ==
    [][\A tx \in pending :
         (/\ tx \notin pending'
          /\ accountConfigs' # accountConfigs
          /\ tx.method # "onUninstall") =>
            LET d == tx.draft
                foreseen == /\ d.epoch = installEpoch[d.account]
                            /\ d.installed \/ (tx.method = "onInstall" /\ d.epoch = 0)
            IN  LiveLeaves(d.account)' =
                    IF foreseen THEN Tree(d, installEpoch'[d.account]) ELSE {}]_allVars
=============================================================================
