--------------------------- MODULE MCPolicyCompiler ---------------------------
(* Functions with static and dynamic tuples, nested two deep, for TLC.*)
EXTENDS PolicyCompiler

P(name, type) == [name |-> name, type |-> type, components |-> <<>>]
T(name, components) == [name |-> name, type |-> "tuple", components |-> components]
F(name, inputs) == [type |-> "function", name |-> name, inputs |-> inputs]

Nested == T("t", <<P("x", "word"), T("u", <<P("x", "word"), P("y", "word")>>), P("y", "word")>>)

Rows(name) == [name |-> name, type |-> "tuple[]", components |-> <<P("x", "word")>>]

\* An array before another parameter and one in a tuple, an array of tuples, two
\* names in use twice.
MCAbi ==
    <<F("swap", <<P("a", "word"), Nested, P("b", "word")>>),
      F("bytes", <<P("d", "dynamic"), Nested, P("a", "word"), P("l", "fixed"), P("b", "word")>>),
      F("pointer", <<T("t", <<P("x", "word"), P("d", "dynamic"), P("y", "word")>>), P("b", "word"),
                     Rows("d")>>),
      F("deep", <<P("a", "dynamic"), T("s", <<P("y", "word"), T("u", <<P("d", "dynamic"), P("y", "word")>>)>>),
                  Nested, P("a", "word")>>),
      F("twice", <<T("t", <<P("x", "word"), P("l", "fixed")>>), P("a", "word")>>),
      F("twice", <<P("b", "word")>>)>>

\* A fixed array before another parameter.
MCFixed == {<<F("fixed", <<P("l", "fixed"), P("a", "word")>>)>>}

NoAlias == <<>>

MCPath ==
    {<<"a">>, <<"b">>, <<"d">>, <<"t">>, <<"t", "x">>, <<"t", "y">>, <<"t", "u", "y">>, <<"a", "x">>}
=============================================================================
