----------------------------- MODULE MCSemantic -----------------------------
(***************************************************************************)
(* The semantic analysis on three families of programs: one function with  *)
(* every small body, a last expression after every small prelude, and a    *)
(* few programs for particular corners.  Bodies are written as trees and   *)
(* numbered the way the parser numbers them.                               *)
(***************************************************************************)
EXTENDS Semantic, TypeTrees

CONSTANTS SmallNames    \* functions and parameters that bodies may call

Tree(kind, name, kids) == [kind |-> kind, name |-> name, kids |-> kids, index |-> ""]
Desc(name, args) == [name |-> name, args |-> args]
Def(name, args, type, tree) ==
  [kind |-> "def", name |-> name, args |-> args, type |-> type, tree |-> tree]
Extern(name, args, type) ==
  [kind |-> "extern", name |-> name, args |-> args, type |-> type, tree |-> Tree("null", "", <<>>)]
Arg(type, name) == [type |-> type, name |-> name]

\* The nodes of a tree in post-order, the first one with number first.
RECURSIVE Numbered(_, _)
Numbered(tree, first) ==
  LET Join(sofar, kid) ==
        LET more == Numbered(kid, first + Len(sofar.nodes))
        IN  IF kid.kind = "null" THEN [sofar EXCEPT !.kids = Append(@, 0)]
            ELSE [nodes |-> sofar.nodes \o more,
                  kids |-> Append(sofar.kids, first + Len(sofar.nodes) + Len(more) - 1)]
      below == FoldLeft(Join, [nodes |-> <<>>, kids |-> <<>>], tree.kids)
  IN  IF tree.kind = "null" THEN <<>>
      ELSE Append(below.nodes, [tree EXCEPT !.kids = below.kids])

Parsed(trees) ==
  FoldLeft(LAMBDA p, u :
             LET nodes == p.nodes \o Numbered(u.tree, Len(p.nodes) + 1)
             IN  [nodes |-> nodes,
                  units |-> Append(p.units,
                    [kind |-> u.kind, name |-> u.name, args |-> u.args, type |-> u.type,
                     body |-> IF u.tree.kind = "null" THEN 0 ELSE Len(nodes)])],
           [nodes |-> <<>>, units |-> <<>>], trees)

-----------------------------------------------------------------------------
Lit(value) == Tree("literal", value, <<>>)
Var(name) == Tree("var", name, <<>>)
Item(name, index) == [Tree("subscript", name, <<>>) EXCEPT !.index = index]
Anon(tree) == Def("__anon_expr", <<>>, <<>>, tree)

Leaves == {Lit("1.0"), Lit("1i"), Lit("true"), Var("x"), Item("x", "1.0")}
Pairs == {<<a, b>> : a, b \in Leaves}
Few == {<<>>} \cup {<<a>> : a \in Leaves} \cup Pairs

Bodies ==
  Leaves \cup {Tree("list", "", kids) : kids \in Few}
    \cup {Tree("binary", op, kids) : op \in {"+", "<"}, kids \in Pairs}
    \cup {Tree("call", name, kids) : name \in SmallNames \cup {"or"}, kids \in Few}
    \cup {Tree("call", "if", <<c>> \o kids) : c \in {Lit("true"), Var("x")}, kids \in Pairs}

real == Desc("real", <<>>)
integer == Desc("integer", <<>>)
funOf(args) == Desc("fun", args)

ParameterTypes == {real, Desc("list", <<real>>), funOf(<<real>>), funOf(<<real, integer>>)}
ReturnTypes == {<<>>, <<real>>, <<Desc("list", <<real>>)>>}

OneFunction ==
  {<<Def("f", <<Arg(type, "x")>>, declared, body)>> :
     type \in ParameterTypes, declared \in ReturnTypes, body \in Bodies}

Preludes ==
  {<<Extern("f", <<Arg(real, "x")>>, <<real>>)>>,
   <<Def("x", <<>>, <<>>, Tree("list", "", <<Lit("1i")>>))>>,
   <<Def("f", <<>>, <<integer>>, Lit("1i")), Def("f", <<Arg(real, "x")>>, <<>>, Var("x"))>>,
   <<Def("x", <<Arg(real, "y")>>, <<>>, Var("y")), Def("f", <<Arg(integer, "x")>>, <<>>, Var("x"))>>}

\* Nested expressions, null pointers and types that cannot be built.
Corners ==
  LET add(a, b) == Tree("binary", "+", <<a, b>>)
      call(name, args) == Tree("call", name, args)
      null == Tree("null", "", <<>>)
      nested == call("if", <<Tree("binary", "<", <<Var("x"), Lit("1i")>>), Var("x"),
                             add(call("f", <<add(Var("x"), Lit("1i"))>>), Lit("1i"))>>)
      list(kids) == Tree("list", "", kids)
  IN  {<<Def("f", <<Arg(integer, "x")>>, declared, nested), Anon(call("f", <<Lit("1i")>>))>> :
         declared \in {<<>>, <<integer>>, <<real>>}}
      \cup {<<Anon(tree)>> : tree \in {null, list(<<null>>), add(Lit("1.0"), null),
              list(<<list(<<Lit("1i")>>), list(<<Lit("1i"), Lit("1i")>>)>>),
              list(<<list(<<>>), list(<<>>)>>),
              call("if", <<Lit("true"), Lit("1.0"), Lit("1.0"), Lit("1i")>>)}}
      \cup {<<Def("f", <<Arg(funOf(<<real, funOf(<<integer>>)>>), "x"),
                         Arg(funOf(<<funOf(<<real, integer>>)>>), "y")>>, <<>>, body)>> :
              body \in {list(<<Var("x"), Var("y")>>), call("x", <<Var("y")>>)}}
      \cup {<<Extern("f", <<Arg(Desc(name, args), "x")>>, type)>> :
              name \in {"real", "list", "fun", "x"}, args \in {<<>>, <<real>>},
              type \in {<<>>, <<real>>, <<Desc("list", <<funOf(<<>>)>>)>>}}
      \cup {<<Def("f", <<Arg(Desc("list", <<>>), "x")>>, <<>>, Var("x"))>>}

MCPrograms ==
  {Parsed(units) : units \in
     OneFunction \cup Corners
       \cup {Append(prelude, Anon(body)) : prelude \in Preludes, body \in Bodies}}

\* The programs on which the assertion of the return type is at stake.
AssertPrograms ==
  {Parsed(<<Def("f", <<Arg(type, "x")>>, <<>>, Tree("list", "", kids))>>) :
     type \in ParameterTypes, kids \in Few}
  \cup {Parsed(<<Def("f", <<Arg(type, "x")>>, <<>>, leaf)>>) :
     type \in ParameterTypes, leaf \in Leaves}

-----------------------------------------------------------------------------
\* What the theorems suppose of Build: descriptors build trees of types
\* without null pointers.
RECURSIVE IsTree(_)
IsTree(t) ==
  /\ \/ t.name \in {"real", "integer", "boolean"} /\ t.args = <<>>
     \/ t.name = "list" /\ Len(t.args) = 1
     \/ t.name = "fun" /\ Len(t.args) >= 1
  /\ \A i \in 1 .. Len(t.args) : IsTree(t.args[i])

ASSUME TreesAreBuilt ==
  \A p \in Programs : \A u \in 1 .. Len(p.units) :
    LET Builds(desc) == Build(desc) = Invalid \/ IsTree(Build(desc))
    IN  /\ \A i \in 1 .. Len(p.units[u].args) : Builds(p.units[u].args[i].type)
        /\ p.units[u].type # <<>> => Builds(p.units[u].type[1])
=============================================================================
