------------------------------ MODULE TypeTrees ------------------------------
(***************************************************************************)
(* The two functions on types that walk the whole tree: building one from  *)
(* the descriptor the parser made, and mangling its name.                  *)
(***************************************************************************)
EXTENDS Types, SequencesExt

RECURSIVE BuildTree(_), MangleTree(_)

\* How many template arguments each type takes.
ArityOK(name, n) ==
  CASE name \in {"real", "integer", "boolean"} -> n = 0
    [] name = "list"                           -> n = 1
    [] name = "fun"                            -> n >= 1
    [] OTHER                                   -> FALSE

\* types::build: the first template argument of fun is its return type.
BuildTree(desc) ==
  LET args == [i \in DOMAIN desc.args |-> BuildTree(desc.args[i])]
  IN  IF ArityOK(desc.name, Len(desc.args)) /\ Invalid \notin Range(args)
      THEN Type(desc.name, args)
      ELSE Invalid

MangleTree_NoSeparator(type) ==
  CASE type.name = "list" -> <<"_", "_", "list", "_">> \o MangleTree(type.args[1])
    [] type.name = "fun" ->
         FoldLeft(LAMBDA name, arg : name \o MangleTree(arg) \o <<"_">>,
                  <<"_", "_", "function", "_", "_">>, Tail(type.args))
           \o MangleTree(Head(type.args))
    [] OTHER -> <<type.name>>

\* Pieces of the mangled name: words as they are, underscores one by one.
MangleTree(type) ==
  CASE type.name = "list" -> <<"_", "_", "list", "_">> \o MangleTree(type.args[1])
    [] type.name = "fun" ->
         FoldLeft(LAMBDA name, arg : name \o MangleTree(arg) \o <<"_">>,
                  <<"_", "_", "function", "_", "_">>, Tail(type.args))
           \o <<"_", "_">> \o MangleTree(Head(type.args))
    [] OTHER -> <<type.name>>
=============================================================================
