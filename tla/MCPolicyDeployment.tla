-------------------------- MODULE MCPolicyDeployment --------------------------
(* Two clients of one account deploying over each other, for TLC.              *)
EXTENDS PolicyDeployment, MC4337

MCClient == {"laptop", "phone"}
MCPermissions == {SwapOnce, SwapMany}
MCWanted == {{SwapOnce, SwapMany}}
MCKeyOnly == {"key"}
MCSwaps == {[sender |-> "account", callData |-> Execute("dex", 0, Swap(1)), perm |-> SwapOnce,
             signer |-> "key"]}
\* What the admin sets: no policy, or a single permission for epoch 2.
MCAdminRoot == {{}, {HashPermissionWithAccount("account", SwapOnce, 2)}}
=============================================================================
