------------------------------- MODULE MC4337 -------------------------------
(* Small instances of ClankerGate4337 for TLC. *)
EXTENDS ClankerGate4337

MCAddress == {"account", "admin", "key"}
MCAccount == {"account"}
MCOwnerChoice == {"0", "key", "account"}
MCAdminChoice == {"0", "admin"}

\* swap(x) on the protocol "dex", with x at most 1.
AtMostOne == [offset |-> 0, op |-> OP_LTE, value |-> 1, values |-> <<>>]
Swap(x) == [selector |-> "swap", args |-> <<x>>]

Policy(target, selector, singleUse, chainId, validUntil) ==
    [target |-> target, selector |-> selector, validAfter |-> 0, validUntil |-> validUntil,
     singleUse |-> singleUse, chainId |-> chainId, maxValue |-> 1,
     authorizedCaller |-> "0", rules |-> <<AtMostOne>>]

SwapOnce   == Policy("dex", "swap", TRUE, 0, 0)
SwapMany   == Policy("dex", "swap", FALSE, 1, 0)
\* For another chain, and expired after time 0.
Elsewhere  == Policy("dex", "swap", FALSE, 2, 1)

Execute(target, value, inner) ==
    [selector |-> "execute", args |-> <<7, value>>, wellEncoded |-> TRUE,
     target |-> target, value |-> value, inner |-> inner]

MCCallData == {Execute("dex", 0, Swap(1)), Execute("dex", 0, Swap(2))}

MCPermission == {SwapOnce, SwapMany}
MCElsewhere == {SwapOnce, Elsewhere}
MCUserOp ==
    {[sender |-> a, callData |-> c, perm |-> p, signer |-> s] :
        a \in MCAccount, c \in MCCallData, p \in Permission, s \in {"key", "account"}}

\* Trees of one epoch, and a tree prepared for two epochs.
MCRoot ==
    {{}} \cup
    {{HashPermissionWithAccount(a, p, n) : p \in ps, n \in ns} :
        a \in MCAccount, ps \in SUBSET Permission \ {{}}, ns \in {{1}, {2}, {2, 3}}}

\* Two accounts that share trees and trust the same key; one may be the policy
\* admin of the other.
TwoAddress == {"alice", "bob", "key"}
TwoAccount == {"alice", "bob"}
TwoOwnerChoice == {"0", "key"}
TwoAdminChoice == {"0", "alice"}

TwoRoot ==
    {{}, {HashPermissionWithAccount(a, p, n) : a \in Account, p \in Permission, n \in {1, 2}}}

TwoOp(sender, x, perm, signer) ==
    [sender |-> sender, callData |-> Execute("dex", 0, Swap(x)), perm |-> perm, signer |-> signer]

TwoUserOp ==
    {TwoOp(a, 1, p, "key") : a \in Account, p \in Permission}
        \cup {TwoOp("alice", 2, SwapOnce, "key"), TwoOp("bob", 1, SwapOnce, "alice")}
=============================================================================
