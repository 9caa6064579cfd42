------------------------------- MODULE MCSafe -------------------------------
(* A small instance of ClankerGateSafe for TLC. *)
EXTENDS ClankerGateSafe

MCAddress == {"bot"}
MCSafeSet == {"safe"}
MCTarget == {"dex", "gate", "lib"}

AtMostOne == [offset |-> 0, op |-> OP_LTE, value |-> 1, values |-> <<>>]

Policy(target, selector, singleUse, validUntil, caller) ==
    [target |-> target, selector |-> selector, validAfter |-> 0,
     validUntil |-> validUntil, singleUse |-> singleUse, chainId |-> 0,
     maxValue |-> 0, authorizedCaller |-> caller, rules |-> <<AtMostOne>>]

SwapOnce == Policy("dex", "swap", TRUE, 0, "bot")
Govern   == Policy("gate", "setPolicyRoot", FALSE, 1, "0")
Collide  == Policy("dex", "authorizeCaller", FALSE, 0, "0")
RunOnce  == Policy("lib", "run", TRUE, 0, "0")

MCPermission == {SwapOnce, Govern, Collide, RunOnce}

Request(to, selector, operation, perm) ==
    [safe |-> "safe", to |-> to, value |-> 0, operation |-> operation, perm |-> perm,
     call |-> [selector |-> selector, args |-> <<1>>]]

MCTx == {Request("dex", "swap", 0, SwapOnce),
         Request("gate", "authorizeCaller", 0, Collide),
         Request("gate", "setPolicyRoot", 0, Govern),
         Request("lib", "run", 1, RunOnce),
         Request("lib", "run", 0, RunOnce),
         Request("lib", "run", 2, RunOnce)}

MCRoot ==
    {{}} \cup
    {{HashPermissionWithAccount("safe", p, n) : p \in Permission, n \in ns} :
        ns \in {{1}, {2}, {1, 2}}}
=============================================================================
