------------------------------- MODULE MC7579 -------------------------------
(* The ERC-7579 gate and a client of it, in a small instance for TLC. *)
EXTENDS ModuleDeployment7579

MCAddress == {"account", "admin", "key"}
MCAccount == {"account"}
MCOwnerChoice == {"0", "holder"}
MCSignerChoice == {"0", "key"}
MCValidatorChoice == {"0", "contract"}
MCAdminChoice == {"0", "admin"}

AtMostOne == [offset |-> 0, op |-> OP_LTE, value |-> 1, values |-> <<>>]

Policy(singleUse) ==
    [target |-> "dex", selector |-> "swap", validAfter |-> 0, validUntil |-> 0,
     singleUse |-> singleUse, chainId |-> 1, maxValue |-> 0,
     authorizedCaller |-> "account", rules |-> <<AtMostOne>>]

SwapOnce == Policy(TRUE)
SwapMany == Policy(FALSE)
MCPermission == {SwapOnce, SwapMany}

ExecuteSwap(x) ==
    [selector |-> "execute7579", args |-> <<0, 0>>, wellEncoded |-> TRUE, mode |-> BasicMode,
     target |-> "dex", value |-> 0, inner |-> [selector |-> "swap", args |-> <<x>>]]

MCUserOp ==
    {[sender |-> a, callData |-> ExecuteSwap(1), perm |-> p, signer |-> s] :
        a \in MCAccount, p \in Permission, s \in {"key", "contract", "holder"}}
    \cup {[sender |-> a, callData |-> ExecuteSwap(2), perm |-> SwapMany, signer |-> "key"] :
        a \in MCAccount}

\* The zero root, the tree of one permission, and a tree prepared for two installs.
MCRoot ==
    {{}, {HashPermissionWithAccount("account", SwapOnce, 2)},
     {HashPermissionWithAccount("account", p, n) : p \in Permission, n \in {1, 2}}}

\* One client, which works while the account and everybody else act directly.
MCClient == {"laptop"}
MCWanted == {{SwapOnce, SwapMany}}
=============================================================================
