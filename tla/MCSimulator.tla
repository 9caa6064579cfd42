----------------------------- MODULE MCSimulator -----------------------------
(* Bounded inputs of Simulator for TLC: calls with up to two words, permissions *)
(* with up to three rules where the contract takes two, words in either case. *)
EXTENDS Simulator

Lower == {<<0, 1>>, <<1, 0>>, <<1, 23>>, <<23, 22>>}

\* Two of these with upper-case letters, all or some.
Words == Lower \cup {<<1, 13>>, <<13, 22>>}

MCCalldata ==
    {[selector |-> s, args |-> <<>>] : s \in {"none", "other", "swap"}}
        \cup {[selector |-> "swap", args |-> a] : a \in (Lower \X Lower)}
        \cup {[selector |-> "swap", args |-> <<w>>] : w \in Lower}

Rule(offset, op, value, values) ==
    [offset |-> offset, op |-> op, value |-> value, values |-> values]

Rules(words) ==
    {Rule(o, op, w, <<>>) : o \in {0, 1}, op \in OP_EQ .. OP_LTE, w \in words}
        \cup {Rule(0, OP_IN, <<0, 1>>, vs) : vs \in UNION {[1 .. n -> words] : n \in 0 .. 3}}

AtLeastTen == Rule(1, OP_GTE, <<1, 0>>, <<>>)

Policy(to, validUntil, rules) ==
    [target |-> to, selector |-> "swap", validAfter |-> 0, validUntil |-> validUntil,
     singleUse |-> FALSE, chainId |-> 0, maxValue |-> 0, authorizedCaller |-> "0",
     rules |-> rules]

MCPermission ==
    {Policy("dex", 0, <<>>), Policy("0", 0, <<AtLeastTen, AtLeastTen, AtLeastTen>>)}
        \cup {Policy("dex", 0, <<r>>) : r \in Rules(Words)}
        \cup {Policy("dex", 0, <<r, AtLeastTen>>) : r \in Rules(Words)}
        \cup {[Policy("dex", 0, rules) EXCEPT !.selector = "execute"] :
                rules \in {<<>>, <<AtLeastTen>>, <<Rule(0, OP_LTE, <<0, 1>>, <<>>)>>}}

MCOnChain == {ToOnChainStruct(p) : p \in SdkPermission}
=============================================================================
