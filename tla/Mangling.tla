------------------------------ MODULE Mangling ------------------------------
(***************************************************************************)
(* The mangled() of each kind of type, as equations between the name of a  *)
(* type and the names of the types in it: what TypeTrees computes by       *)
(* walking the tree, in a form that can be reasoned about.  A name is a    *)
(* sequence of pieces: words as they are, underscores one by one.          *)
(***************************************************************************)
EXTENDS Types

BasicNames == {"real", "integer", "boolean", "null"}
Pieces == BasicNames \cup {"_", "list", "function"}

\* How the names of a list and of a function begin.
ListFront == <<"_", "_", "list", "_">>
FunFront == <<"_", "_", "function", "_", "_">>

\* The name of a function, with what its stream holds after each argument.
Joins(t, joined) ==
  LET n == Len(t.args) - 1
  IN  /\ \A k \in 0 .. n : joined[k] \in Seq(Pieces)
      /\ joined[0] = FunFront
      /\ \A k \in 1 .. n : joined[k] = (joined[k - 1] \o Mangled(t.args[k + 1])) \o <<"_">>
      /\ Mangled(t) = (joined[n] \o <<"_", "_">>) \o Mangled(t.args[1])

\* The name of a type; joined is for that of a function.
NamedWith(t, joined) ==
  /\ Mangled(t) \in Seq(Pieces)
  /\ t.name \in BasicNames => Mangled(t) = <<t.name>>
  /\ t.name = "list" => Mangled(t) = ListFront \o Mangled(t.args[1])
  /\ t.name = "fun" => Joins(t, joined)
=============================================================================
