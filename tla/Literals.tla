------------------------------ MODULE Literals ------------------------------
(***************************************************************************)
(* The literals programs are written with.  The lexer has turned each one  *)
(* into a number or a truth value (pom_literals.h); the phases after it    *)
(* look at its kind only, and only the generated code at its value.        *)
(***************************************************************************)

CONSTANTS
  RealLiteral,      \* literals::Real
  IntegerLiteral,   \* literals::Integer
  BooleanLiteral    \* literals::Boolean

Literal == RealLiteral \cup IntegerLiteral \cup BooleanLiteral

\* The lexer gives each token one kind.
ASSUME KindsDiffer ==
  /\ RealLiteral \cap IntegerLiteral = {}
  /\ (RealLiteral \cup IntegerLiteral) \cap BooleanLiteral = {}
=============================================================================
