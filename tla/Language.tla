------------------------------ MODULE Language ------------------------------
(***************************************************************************)
(* What programs mean, without a word on how they are compiled: which ones *)
(* are typable, and what the last function without arguments evaluates to. *)
(* Typing is a function of the expression and the types of the names in    *)
(* scope; evaluation substitutes values and is eager but for "if".         *)
(***************************************************************************)
EXTENDS Types, Literals

CONSTANTS
  NumberOf(_),  \* the number a literal stands for, 1 for the true truth value
  Build(_),     \* the type of a descriptor, or Invalid
  Width, Depth  \* the width of integers, and how deep a recursion may go

UnitsNamed(p, v, x) == {u \in 1 .. v - 1 : p.units[u].name = x}

\* Of functions with one name the first counts, and any counts before an
\* argument; of arguments with one name the first counts.
FirstOf(s) == CHOOSE i \in s : \A j \in s : i <= j
ArgsNamed(unit, x) == {i \in 1 .. Len(unit.args) : unit.args[i].name = x}

-----------------------------------------------------------------------------
(* Typing.                                                                 *)

LiteralType(literal) ==
  CASE literal \in RealLiteral    -> Real
    [] literal \in IntegerLiteral -> Integer
    [] literal \in BooleanLiteral -> Boolean

\* The type of a name in the body of unit v: scope has the types of the units
\* before it.  Its own name is known to it if its return type is declared.
ArgTypes(unit) == [i \in 1 .. Len(unit.args) |-> Build(unit.args[i].type)]

NameType(p, scope, v, x) ==
  LET unit == p.units[v]
  IN  CASE UnitsNamed(p, v, x) # {}  -> scope[x]
        [] ArgsNamed(unit, x) # {}   -> ArgTypes(unit)[FirstOf(ArgsNamed(unit, x))]
        [] x = unit.name /\ unit.type # <<>> -> Function(Build(unit.type[1]), ArgTypes(unit))
        [] OTHER                     -> Invalid

RECURSIVE TypeOf(_, _, _, _), TypesOf(_, _, _, _)

TypesOf(p, scope, v, nodes) ==
  IF nodes = <<>> THEN <<>>
  ELSE <<TypeOf(p, scope, v, Head(nodes))>> \o TypesOf(p, scope, v, Tail(nodes))

BuiltinsFor(op, types) == {k \in EntriesOf(op) : Builtins[k].args = types}

TypeOf(p, scope, v, n) ==
  LET node == p.nodes[n]
      kids == TypesOf(p, scope, v, node.kids)
      kidTypes == {kids[k] : k \in 1 .. Len(kids)}
      builtins == BuiltinsFor(node.name, kids)
      callee == NameType(p, scope, v, node.name)
  IN  CASE node.kind = "literal" -> LiteralType(node.name)
        [] node.kind = "var" -> callee
        [] node.kind = "subscript" ->
             IF callee.name = "list" THEN callee.args[1] ELSE Invalid
        [] Invalid \in kidTypes -> Invalid
        [] node.kind = "list" ->
             IF \E t \in kidTypes : kidTypes = {t} THEN List(kids[1]) ELSE Invalid
        [] node.kind \in {"binary", "call"} /\ builtins # {} ->
             Builtins[FirstOf(builtins)].ret
        [] node.kind = "call" /\ callee.name = "fun" ->
             IF Tail(callee.args) = kids THEN Head(callee.args) ELSE Invalid
        [] OTHER -> Invalid

\* The type of unit v for later units; Invalid if it cannot follow the units
\* before it.
UnitType(p, scope, v) ==
  LET unit == p.units[v]
      args == ArgTypes(unit)
      given == IF unit.type = <<>> THEN Invalid ELSE Build(unit.type[1])
      ret == IF unit.kind = "extern" THEN given ELSE TypeOf(p, scope, v, unit.body)
  IN  IF \/ Invalid \in {ret} \cup {args[i] : i \in 1 .. Len(args)}
         \/ unit.type # <<>> /\ given # ret
      THEN Invalid
      ELSE Function(ret, args)

-----------------------------------------------------------------------------
(* Evaluation.  An outcome is a value, or it is unknown, or there is none: *)
(* the language does not say what a list has behind its end, how negative  *)
(* integers compare, or what a function of another program does.           *)

Gives(value) == [kind |-> "value", value |-> value]
Unknown == [kind |-> "unknown", value |-> 0]
Diverges == [kind |-> "diverges", value |-> 0]

Modulo(n) == n % 2^Width
Negative(n) == n >= 2^(Width - 1)
TruthOf(p) == IF p THEN 1 ELSE 0

Apply(op, ints, a, b) ==
  LET Number(n) == Gives(IF ints THEN Modulo(n) ELSE n)
  IN  CASE op = "+" -> Number(a + b)
        [] op = "-" -> Number(a - b)
        [] op = "*" -> Number(a * b)
        [] op \in {"<", ">"} /\ ints /\ (Negative(a) \/ Negative(b)) -> Unknown
        [] op = "<" -> Gives(TruthOf(a < b))
        [] op = ">" -> Gives(TruthOf(a > b))
        [] op = "or" -> Gives(TruthOf(a = 1 \/ b = 1))
        [] op = "and" -> Gives(TruthOf(a = 1 /\ b = 1))

RECURSIVE Meaning(_, _, _, _, _, _), Meanings(_, _, _, _, _, _)

\* The value of a name: a function stands for itself as the number of its
\* unit, the first definition of the name.
NameValue(p, v, args, x) ==
  LET Known == UnitsNamed(p, IF ArgsNamed(p.units[v], x) = {} THEN v + 1 ELSE v, x)
      definitions == {u \in 1 .. Len(p.units) : p.units[u].name = x /\ p.units[u].kind = "def"}
  IN  IF Known # {} THEN FirstOf(IF definitions # {} THEN definitions ELSE Known)
      ELSE args[FirstOf(ArgsNamed(p.units[v], x))]

\* Applying unit u to values, at most depth calls deep.
Applying(p, scope, u, args, depth) ==
  CASE depth = 0                    -> Diverges
    [] p.units[u].kind = "extern"   -> Unknown
    [] OTHER                        -> Meaning(p, scope, u, args, p.units[u].body, depth)

Meanings(p, scope, v, args, nodes, depth) ==
  IF nodes = <<>> THEN <<>>
  ELSE <<Meaning(p, scope, v, args, Head(nodes), depth)>>
         \o Meanings(p, scope, v, args, Tail(nodes), depth)

Meaning(p, scope, v, args, n, depth) ==
  LET node == p.nodes[n]
      Kid(k) == Meaning(p, scope, v, args, node.kids[k], depth)
      kids == Meanings(p, scope, v, args, node.kids, depth)
      failed == {k \in 1 .. Len(kids) : kids[k].kind # "value"}
      values == [k \in 1 .. Len(kids) |-> kids[k].value]
      types == TypesOf(p, scope, v, node.kids)
      builtin == node.kind # "list" /\ BuiltinsFor(node.name, types) # {}
  IN  CASE node.kind = "literal" -> Gives(NumberOf(node.name))
        [] node.kind = "var" -> Gives(NameValue(p, v, args, node.name))
        [] node.kind = "subscript" ->
             LET list == NameValue(p, v, args, node.name)
                 i == NumberOf(node.index) + 1
             IN  IF i \in 1 .. Len(list) THEN Gives(list[i]) ELSE Unknown
        [] node.name = "if" /\ builtin ->
             LET condition == Kid(1)
             IN  IF condition.kind # "value" THEN condition
                 ELSE Kid(IF condition.value = 1 THEN 2 ELSE 3)
        [] failed # {} -> kids[FirstOf(failed)]
        [] node.kind = "list" -> Gives(values)
        [] builtin -> Apply(node.name, types[1] = Integer, values[1], values[2])
        [] OTHER -> Applying(p, scope, NameValue(p, v, args, node.name), values, depth - 1)

\* The functions without arguments, of which the last one is evaluated.
EntryPoints(p) == {v \in 1 .. Len(p.units) : p.units[v].kind = "def" /\ p.units[v].args = <<>>}

\* Only numbers and truth values are printed.
Evaluation(p, scope) ==
  IF EntryPoints(p) = {} THEN [kind |-> "void", value |-> 0]
  ELSE LET last == CHOOSE v \in EntryPoints(p) : \A w \in EntryPoints(p) : w <= v
       IN  IF Head(scope[p.units[last].name].args) \in {Real, Integer, Boolean}
           THEN Applying(p, scope, last, <<>>, Depth)
           ELSE [kind |-> "void", value |-> 0]
=============================================================================
