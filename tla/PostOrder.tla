----------------------------- MODULE PostOrder -----------------------------
(***************************************************************************)
(* The programs that parse() returns: their expressions by number, as      *)
(* ParserContext::nextId gives them out, and their units in order.  The    *)
(* phases after the parser rely on the numbers and check little of the     *)
(* rest.                                                                   *)
(***************************************************************************)
EXTENDS Integers, Sequences, Literals

\* The least number of an expression in the tree below each one, that of its
\* first leaf, or 0 if there is a null pointer in the tree.
Leftmost(p) ==
  LET first[n \in 0 .. Len(p.nodes)] ==
        LET kids == p.nodes[n].kids
        IN  CASE n = 0 \/ \E k \in 1 .. Len(kids) : first[kids[k]] = 0 -> 0
              [] n # 0 /\ kids = <<>> -> n
              [] OTHER -> first[kids[1]]
  IN  first

\* An expression has its operands in a vector, a binary one has two of them;
\* they were made before it, and 0 stands for a null pointer among them.
IsExpression(node, n) ==
  /\ node.kids \in Seq(0 .. n - 1)
  /\ \/ node.kind \in {"literal", "var", "subscript"} /\ node.kids = <<>>
     \/ node.kind = "binary" /\ Len(node.kids) = 2 /\ node.name \in {"<", ">", "+", "-", "*"}
     \/ node.kind \in {"list", "call"}
  /\ node.kind = "literal" => node.name \in Literal

\* A function or a declaration with the names and types of its arguments.
IsUnit(unit) ==
  /\ unit.kind \in {"def", "extern"}
  /\ unit.args \in Seq({unit.args[i] : i \in DOMAIN unit.args})

\* The body of a function is one of the program's expressions, or null.
IsProgram(p) ==
  /\ p.nodes \in Seq({p.nodes[n] : n \in DOMAIN p.nodes})
  /\ p.units \in Seq({p.units[u] : u \in DOMAIN p.units})
  /\ \A n \in 1 .. Len(p.nodes) : IsExpression(p.nodes[n], n)
  /\ \A u \in 1 .. Len(p.units) :
       IsUnit(p.units[u]) /\ (p.units[u].kind = "def" => p.units[u].body \in 0 .. Len(p.nodes))

\* The parser numbers an expression when it has parsed its operands, so the
\* operands' trees take up the numbers in front of it, one after the other,
\* and those of a function come right after those of the one before.  After
\* an error that left a null pointer behind, numbers are missing.
InPostOrder(p) ==
  LET first == Leftmost(p)
      Kid(n, k) == p.nodes[n].kids[k]
  IN  /\ first[0] = 0
      /\ \A n \in 1 .. Len(p.nodes) :
           /\ first[n] \in 0 .. n
           /\ first[n] = 0 <=> \E k \in 1 .. Len(p.nodes[n].kids) : first[Kid(n, k)] = 0
           /\ first[n] # 0 /\ p.nodes[n].kids = <<>> => first[n] = n
           /\ first[n] # 0 => \A k \in 1 .. Len(p.nodes[n].kids) :
                /\ first[n] <= first[Kid(n, k)]
                /\ k = 1 => first[n] = first[Kid(n, k)]
                /\ k > 1 => first[Kid(n, k)] = Kid(n, k - 1) + 1
                /\ k = Len(p.nodes[n].kids) => Kid(n, k) = n - 1
      /\ \A u \in 1 .. Len(p.units) :
           (\A v \in 1 .. u : p.units[v].kind = "def" => first[p.units[v].body] # 0) =>
             (p.units[u].kind = "def" => \A n \in 1 .. Len(p.nodes) :
                n < first[p.units[u].body]
                  <=> \E v \in 1 .. u - 1 : p.units[v].kind = "def" /\ n <= p.units[v].body)
=============================================================================
