---------------------------- MODULE MCAbiConverter ----------------------------
(* A registered ABI, and sources of each form with tuples, structs and aliases. *)
EXTENDS AbiConverter, MCPolicyCompiler

S(form, entries, structs) == [form |-> form, entries |-> entries, structs |-> structs]
StructOf(name, fields) == [name |-> name, fields |-> fields]
Pair == <<P("x", "word"), P("y", "word")>>

MCAbis == {MCAbi}

MCAlias == "uint" :> "word" @@ "uint[]" :> "dynamic"

MCSource ==
    {S("json",
       <<[type |-> "fallback", name |-> "", inputs |-> <<>>],
         F("swap", <<T("t", Pair), P("a", "word"), P("d", "dynamic"), T("u", Pair), P("b", "word")>>),
         F("nest", <<P("d", "dynamic"), Nested, P("a", "word")>>)>>, <<>>),
     S("solidity",
       <<[type |-> "event", name |-> "Swap", inputs |-> <<P("t", "Pair")>>],
         F("swap", <<P("a", "word"), P("t", "Pair"), P("b", "word")>>),
         F("mint", <<P("d", "uint[]"), P("a", "uint")>>),
         F("deep", <<P("t", "Nest"), P("s", "Far"), P("a", "Lib.Far")>>)>>,
       <<StructOf("Pair", Pair), StructOf("Nest", <<P("u", "Pair"), P("y", "word")>>)>>),
     S("lines", <<F("flat", <<P("a", "word"), P("b", "word")>>),
                  F("flat", <<P("b", "word"), P("d", "dynamic")>>)>>, <<>>)}

\* mint(uint), as data/interfaces/moonwell/IMToken.sol:6 has it.
MCAliasSource == {S("solidity", <<F("mint", <<P("a", "uint")>>)>>, <<>>)}

\* Nothing to encode, a file that does not load, arrays, and words.
File(entries) == [loads |-> TRUE, entries |-> entries]

MCFiles ==
    <<File(<<F("pause", <<>>)>>),
      [loads |-> FALSE, entries |-> <<F("flat", <<P("a", "word")>>)>>],
      File(<<F("fixed", <<P("l", "fixed"), P("a", "word")>>),
             F("flat", <<P("a", "word"), P("b", "word")>>), F("pause", <<>>)>>)>>
=============================================================================
