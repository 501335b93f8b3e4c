----------------------------- MODULE Interpreter -----------------------------
(***************************************************************************)
(* What the compiler promises, as an interpreter would keep it: the units  *)
(* of a program are looked at one after the other, the first one that does *)
(* not fit those before it rejects the program, and the last function      *)
(* without arguments of a program that fits is evaluated.                  *)
(***************************************************************************)
EXTENDS Language

VARIABLES
  program,   \* the program
  defined,   \* how many of its units have been looked at
  scope,     \* the types of their names
  status,    \* "reading", "rejected", "evaluated", "endless" or "undefined"
  answer     \* what it evaluated to

vars == <<program, defined, scope, status, answer>>

Init ==
  /\ defined = 0
  /\ scope = [x \in {} |-> Null]
  /\ status = "reading"
  /\ answer = [kind |-> "void", value |-> 0]

NextType == UnitType(program, scope, defined + 1)

\* The next unit is defined if it can be typed; a name keeps its first type.
Define ==
  /\ status = "reading" /\ defined < Len(program.units)
  /\ defined' = defined + 1
  /\ NextType # Invalid
  /\ LET name == program.units[defined + 1].name
     IN  scope' = [x \in DOMAIN scope \cup {name} |->
                     IF x \in DOMAIN scope THEN scope[x] ELSE NextType]
  /\ UNCHANGED <<program, status, answer>>

Reject ==
  /\ status = "reading" /\ defined < Len(program.units)
  /\ status' = "rejected"
  /\ NextType = Invalid
  /\ UNCHANGED <<program, defined, scope, answer>>

\* What the language leaves open may end in any way, with any answer.
Evaluate ==
  /\ status = "reading" /\ defined = Len(program.units)
  /\ status' \in {"evaluated", "endless", "undefined"}
  /\ LET outcome == Evaluation(program, scope)
     IN  CASE outcome.kind \in {"value", "void"} -> status' = "evaluated" /\ answer' = outcome
           [] outcome.kind = "diverges" -> status' = "endless" /\ UNCHANGED answer
           [] outcome.kind = "unknown" -> TRUE
  /\ UNCHANGED <<program, defined, scope>>

Next == Define \/ Reject \/ Evaluate

Spec == Init /\ [][Next]_vars
=============================================================================
