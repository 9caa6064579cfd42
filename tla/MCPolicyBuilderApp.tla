------------------------- MODULE MCPolicyBuilderApp -------------------------
(* The examples of the page, on three of the eight fields of exactInputSingle. *)
EXTENDS PolicyBuilderApp

P(name) == [name |-> name, type |-> "word", components |-> <<>>]
Params == [name |-> "params", type |-> "tuple",
           components |-> <<P("tokenIn"), P("recipient"), P("amountIn")>>]

MCAbi == <<[type |-> "function", name |-> "exactInputSingle", inputs |-> <<Params>>]>>

Rule(field, op, raw) == [fieldName |-> <<"params", field>>, op |-> op, rawValue |-> raw]
Example(rules) == [target |-> "router", functionName |-> "exactInputSingle", rules |-> rules]

NoAlias == <<>>

MCExamples ==
    <<Example(<<Rule("recipient", "EQ", "hex"), Rule("amountIn", "LTE", "decimal")>>),
      Example(<<Rule("tokenIn", "EQ", "hex"), Rule("recipient", "EQ", "hex"),
                Rule("amountIn", "LTE", "decimal")>>)>>
=============================================================================
