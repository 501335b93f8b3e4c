------------------------------ MODULE Grammar ------------------------------
(***************************************************************************)
(* The language the parser is for: for every stretch i .. j of the tokens, *)
(* the set of trees it can be read as.  Precedence and associativity are   *)
(* layered into the grammar, as in a language manual, where the parser has *)
(* a loop and an exception for tighter operators.                          *)
(***************************************************************************)
EXTENDS Parser, SequencesExt

\* The precedence levels of the language, 0 for what is not an operator.
Level(token) ==
  CASE token \in {"<", ">"} -> 1 [] token \in {"+", "-"} -> 2 [] token = "*" -> 3
    [] OTHER -> 0

Tree(kind, name, kids) == [kind |-> kind, name |-> name, kids |-> kids, index |-> ""]
TypeTree(name, args) == [name |-> name, args |-> args]

RECURSIVE Expression(_, _, _), Elements(_, _), Arguments(_, _)

\* A literal, a variable, a[1], f(...), (...) or [...].
Primary(i, j) ==
  IF i = j
  THEN {Tree("literal", tokens[i], <<>>) : t \in {tokens[i]} \cap Literal}
         \cup {Tree("var", tokens[i], <<>>) : t \in {tokens[i]} \cap Ident}
  ELSE CASE tokens[i] = "(" /\ tokens[j] = ")" -> Expression(1, i + 1, j - 1)
         [] tokens[i] = "[" /\ tokens[j] = "]" ->
              {Tree("list", "", kids) : kids \in Elements(i + 1, j - 1)}
         [] tokens[i] \in Ident /\ tokens[i + 1] = "(" /\ tokens[j] = ")" /\ j > i + 1 ->
              {Tree("call", tokens[i], kids) :
                 kids \in IF j = i + 2 THEN {<<>>} ELSE Arguments(i + 2, j - 1)}
         [] j = i + 3 /\ tokens[i] \in Ident /\ tokens[i + 1] = "["
              /\ tokens[i + 2] \in RealLiteral /\ tokens[j] = "]" ->
              {[Tree("subscript", tokens[i], <<>>) EXCEPT !.index = tokens[i + 2]]}
         [] OTHER -> {}

\* Expressions whose operators outside parentheses bind at least as tightly
\* as level; operators of one level associate to the left.
Expression(level, i, j) ==
  IF i > j THEN {}
  ELSE Primary(i, j) \cup
       UNION {{Tree("binary", tokens[m], <<l, r>>) :
                 <<l, r>> \in Expression(Level(tokens[m]), i, m - 1)
                                \X Expression(Level(tokens[m]) + 1, m + 1, j)} :
              m \in {m \in i + 1 .. j - 1 : Level(tokens[m]) >= level}}

Elements(i, j) ==
  IF i > j THEN {<<>>}
  ELSE UNION {{<<e>> \o rest : <<e, rest>> \in Expression(1, i, m) \X Elements(m + 1, j)} :
              m \in i .. j}

Arguments(i, j) ==
  {<<e>> : e \in Expression(1, i, j)} \cup
  UNION {{<<e>> \o rest : <<e, rest>> \in Expression(1, i, m - 1) \X Arguments(m + 1, j)} :
         m \in {m \in i + 1 .. j - 1 : tokens[m] = ","}}

-----------------------------------------------------------------------------
RECURSIVE Type(_, _), TypeArgs(_, _), Parameters(_, _), Program(_, _)

Type(i, j) ==
  IF i > j \/ tokens[i] \notin Ident THEN {}
  ELSE IF i = j THEN {TypeTree(tokens[i], <<>>)}
  ELSE IF tokens[i + 1] = "<" /\ tokens[j] = ">"
       THEN {TypeTree(tokens[i], args) : args \in TypeArgs(i + 2, j - 1)}
       ELSE {}

TypeArgs(i, j) ==
  {<<t>> : t \in Type(i, j)} \cup
  UNION {{<<t>> \o rest : <<t, rest>> \in Type(i, m - 1) \X TypeArgs(m + 1, j)} :
         m \in {m \in i + 1 .. j - 1 : tokens[m] = ","}}

Parameter(i, j) ==
  IF i < j /\ tokens[j] \in Ident
  THEN {[type |-> t, name |-> tokens[j]] : t \in Type(i, j - 1)}
  ELSE {}

Parameters(i, j) ==
  {<<p>> : p \in Parameter(i, j)} \cup
  UNION {{<<p>> \o rest : <<p, rest>> \in Parameter(i, m - 1) \X Parameters(m + 1, j)} :
         m \in {m \in i + 1 .. j - 1 : tokens[m] = ","}}

\* A missing return type or body is the empty sequence, else a singleton.
Signature(kind, i, j) ==
  IF ~(j > i + 1 /\ tokens[i] \in Ident /\ tokens[i + 1] = "(") THEN {}
  ELSE UNION {{[kind |-> kind, name |-> tokens[i], args |-> ps, type |-> t, body |-> <<>>] :
                 <<ps, t>> \in (IF m = i + 2 THEN {<<>>} ELSE Parameters(i + 2, m - 1))
                                 \X (IF m = j THEN {<<>>}
                                     ELSE IF tokens[m + 1] = ":"
                                          THEN {<<t>> : t \in Type(m + 2, j)} ELSE {})} :
              m \in {m \in i + 2 .. j : tokens[m] = ")"}}

TopLevelUnit(i, j) ==
  CASE tokens[i] = "extern" -> Signature("extern", i + 1, j)
    [] tokens[i] = "def" ->
         UNION {{[s EXCEPT !.body = <<b>>] :
                   <<s, b>> \in Signature("def", i + 1, m) \X Expression(1, m + 1, j)} :
                m \in i + 1 .. j - 1}
    [] OTHER ->
         {[kind |-> "def", name |-> "__anon_expr", args |-> <<>>,
           type |-> <<>>, body |-> <<b>>] : b \in Expression(1, i, j)}

Program(i, j) ==
  IF i > j THEN {<<>>}
  ELSE IF tokens[i] = ";" THEN Program(i + 1, j)
  ELSE UNION {{<<u>> \o rest : <<u, rest>> \in TopLevelUnit(i, m) \X Program(m + 1, j)} :
              m \in i .. j}

Readings == Program(1, Len(tokens) - 1)

-----------------------------------------------------------------------------
(* What parse() returned, as trees.                                        *)

RECURSIVE ExprTree(_), DescTree(_), PostOrder(_)

ExprTree(n) ==
  [nodes[n] EXCEPT !.kids = [k \in DOMAIN @ |-> ExprTree(@[k])]]

DescTree(t) ==
  TypeTree(types[t].name, [k \in DOMAIN types[t].args |-> DescTree(types[t].args[k])])

UnitTree(u) ==
  [kind |-> u.kind, name |-> u.name,
   args |-> [k \in DOMAIN u.args |->
               [type |-> DescTree(u.args[k].type), name |-> u.args[k].name]],
   type |-> IF u.type = 0 THEN <<>> ELSE <<DescTree(u.type)>>,
   body |-> IF u.kind = "extern" THEN <<>> ELSE <<ExprTree(u.body)>>]

\* No expression of the program is a null pointer.
NullFree ==
  /\ \A n \in DOMAIN nodes : 0 \notin Range(nodes[n].kids)
  /\ \A u \in DOMAIN units : units[u].kind = "def" => units[u].body # 0

\* The expressions below n in the order visitExprTree reaches them.
PostOrder(n) ==
  FoldLeft(LAMBDA order, kid : order \o PostOrder(kid), <<>>, nodes[n].kids) \o <<n>>

-----------------------------------------------------------------------------
\* The program an accepted token vector becomes is one the grammar gives it:
\* precedence, left associativity, argument and element order, prototypes.
AcceptedIsDerivable ==
  pc = "accepted" /\ NullFree =>
    [k \in DOMAIN units |-> UnitTree(units[k])] \in Readings

\* A token vector the grammar can read, lists and subscripts aside, is
\* accepted without a null expression: no look-ahead loses a program.
DerivableIsAccepted ==
  Halted /\ "[" \notin Range(tokens) /\ Readings # {} =>
    pc = "accepted" /\ NullFree

\* The ExprIds of an accepted program number its expressions in post-order
\* without a gap, over all its units together.
PostOrderIds ==
  pc = "accepted" /\ NullFree =>
    FoldLeft(LAMBDA order, u : IF u.kind = "def" THEN order \o PostOrder(u.body) ELSE order,
             <<>>, units)
      = [n \in DOMAIN nodes |-> n]

\* parse() succeeds only if every expression was parsed: a parenthesis holds
\* an expression and is closed, and an error is reported.
AcceptedIsNullFree == pc = "accepted" => NullFree
=============================================================================
