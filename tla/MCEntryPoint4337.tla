--------------------------- MODULE MCEntryPoint4337 --------------------------
(* A small instance of EntryPoint4337 for TLC. *)
EXTENDS EntryPoint4337

MCAddress == {"account", "admin"}
MCAccount == {"account"}
MCOwnerChoice == {"key", "newKey"}
MCAdminChoice == {"0", "admin"}

AtMostOne == [offset |-> 0, op |-> OP_LTE, value |-> 1, values |-> <<>>]

Policy(target, selector, singleUse, chainId, validAfter, validUntil, rules) ==
    [target |-> target, selector |-> selector, validAfter |-> validAfter,
     validUntil |-> validUntil, singleUse |-> singleUse, chainId |-> chainId,
     maxValue |-> 1, authorizedCaller |-> "0", rules |-> rules]

SwapOnce  == Policy("dex", "swap", TRUE, 1, 0, 0, <<AtMostOne>>)
SwapLater == Policy("dex", "swap", FALSE, 0, 1, 1, <<AtMostOne>>)
Elsewhere == Policy("dex", "swap", FALSE, 2, 0, 1, <<>>)
Govern    == Policy("gate", "setPolicyRoot", FALSE, 0, 0, 0, <<>>)
Collide   == Policy("dex", "rotateOwner", FALSE, 0, 0, 0, <<>>)
Own       == Policy("0", "rotateOwner", FALSE, 0, 0, 0, <<>>)
Pay       == Policy("dex", "execute", FALSE, 0, 0, 0, <<>>)

Call(selector, args) == [selector |-> selector, args |-> args]

\* execute(target, value, data); with no data the rules see these words.
Execute(target, value, inner) ==
    [selector |-> "execute", args |-> <<7, value>>, wellEncoded |-> TRUE,
     target |-> target, value |-> value, inner |-> inner]

Execute7579(callType, target, inner) ==
    [selector |-> "execute7579", args |-> <<0, 0>>, wellEncoded |-> TRUE,
     mode |-> [BasicMode EXCEPT !.callType = callType],
     target |-> target, value |-> 0, inner |-> inner]

Op(callData, perm, signer) ==
    [sender |-> "account", callData |-> callData, perm |-> perm, signer |-> signer]

Swap(x) == Call("swap", <<x>>)

MCPermission == {SwapOnce, SwapLater, Elsewhere, Govern, Collide, Own, Pay}

\* Each permission with a call it is for and with calls it is not for.
MCUserOp ==
    {Op(Execute("dex", 1, Swap(1)), p, "key") : p \in {SwapOnce, SwapLater, Elsewhere, Govern}}
    \cup
    {Op(Execute7579("single", "dex", Swap(1)), SwapOnce, "key"),
     Op(Execute7579("batch", "dex", Swap(1)), SwapOnce, "key"),
     Op(Execute("dex", 1, Swap(2)), SwapOnce, "key"),
     Op(Execute("dex", 1, Swap(1)), SwapOnce, "newKey"),
     Op(Execute("gate", 0, Call("setPolicyRoot", <<1>>)), Govern, "key"),
     Op(Call("rotateOwner", <<1>>), Collide, "key"),
     Op(Execute("dex", 0, Swap(1)), Pay, "key"),
     Op(Execute("gate", 0, Call("setPolicyAdmin", <<1>>)), Govern, "key"),
     Op(Call("rotateOwner", <<1>>), Own, "key"),
     Op(Execute("dex", 1, NoInner), Pay, "key"),
     Op(Execute("dex", 2, NoInner), Pay, "key")}

\* The zero root, and one tree of everything for each epoch.
MCRoot ==
    {{}} \cup
    {{HashPermissionWithAccount("account", p, n) : p \in Permission} : n \in 1 .. 2}
=============================================================================
