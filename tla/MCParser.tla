------------------------------ MODULE MCParser ------------------------------
(***************************************************************************)
(* The parser on every short token vector over a few alphabets: all the    *)
(* tokens, operators, brackets and calls, and what follows "def x (".      *)
(***************************************************************************)
EXTENDS Grammar

CONSTANTS
  AllLength, OperatorLength, BracketLength, PrototypeLength

MCIdent == {"x"}
OperatorTokens == {"x", "+", "*", "<", "(", ")"}
BracketTokens == {"x", "1.0", "(", ")", "[", "]", ","}
PrototypeTokens == {"x", "<", ">", ",", ")", ":"}

\* Four operands in a row, with an operator of each precedence between them.
Chains == {<<"x", a, "x", b, "x", c, "x">> : a, b, c \in {"<", "+", "-", "*"}}

MCInputs ==
  {Append(text, "eof") : text \in
       BoundedSeq(Token \ {"eof"}, AllLength)
         \cup Chains
         \cup BoundedSeq(OperatorTokens, OperatorLength)
         \cup BoundedSeq(BracketTokens, BracketLength)
         \cup {<<kw, "x", "(">> \o text : kw \in {"def", "extern"},
                                         text \in BoundedSeq(PrototypeTokens, PrototypeLength)}}
=============================================================================
