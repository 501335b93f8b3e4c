------------------------------ MODULE Meaning ------------------------------
(***************************************************************************)
(* The compiler implements an interpreter of its programs.                 *)
(***************************************************************************)
EXTENDS Compiler

\* The compiler as an interpreter of its programs.
Interpreted == INSTANCE Interpreter WITH
  defined <- current - 1,
  scope <- globals,
  status <- CASE pc = "error"                                          -> "rejected"
              [] pc \in {"aborted", "crashed"}                         -> "failed"
              [] gen \in {"error", "aborted", "crashed", "undefined"}  -> "failed"
              [] res.kind = "undefined"                                -> "undefined"
              [] res.kind = "diverges"                                 -> "endless"
              [] gen = "done" \/ res.kind \in {"value", "unknown"}     -> "evaluated"
              [] OTHER                                                 -> "reading",
  answer <- IF res.kind \in {"value", "unknown"} THEN res ELSE [kind |-> "void", value |-> 0]

\* Programs whose meaning the language gives are accepted if and only if
\* they are typable, and evaluate to what they mean.
ImplementsInterpreter == Interpreted!Spec
=============================================================================
