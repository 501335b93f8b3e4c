-------------------------------- MODULE Types --------------------------------
(***************************************************************************)
(* The types of packages/pom and the two lookups the semantic analysis     *)
(* makes with them: the table of builtin operators and the call of a       *)
(* function type.  A type is a tree; the code compares types by their      *)
(* mangled names, which it cannot make for a type with a null pointer in   *)
(* it.                                                                     *)
(***************************************************************************)
EXTENDS Integers, Sequences

CONSTANTS
  Mangled(_)    \* the mangled name of a type, "null" where the code would
                \* dereference a null pointer to make it

Type(name, args) == [name |-> name, args |-> args]
Real == Type("real", <<>>)
Integer == Type("integer", <<>>)
Boolean == Type("boolean", <<>>)
List(contained) == Type("list", <<contained>>)
Function(ret, args) == Type("fun", <<ret>> \o args)

\* A null TypeCSP, and what stands for a type that cannot be built.
Null == Type("null", <<>>)
Invalid == Type("invalid", <<>>)

DereferencesNull(name) == \E i \in 1 .. Len(name) : name[i] = "null"
HasNull(type) == DereferencesNull(Mangled(type))

\* What happens when *a == *b is evaluated.
Compare(a, b) ==
  LET name == Mangled(a)
      other == Mangled(b)
  IN  IF DereferencesNull(name) \/ DereferencesNull(other) THEN "crash"
      ELSE IF name = other THEN "same" ELSE "differ"

\* What std::equal(given.begin(), given.end(), wanted.begin()) can do.  It
\* stops at the first difference and reads past the end of a shorter wanted.
Matching(given, wanted) ==
  LET Same(i) == Compare(given[i], wanted[i]) = "same"
      Odd == {i \in 1 .. Len(given) : i <= Len(wanted) /\ ~Same(i)}
  IN  IF Odd # {}
      THEN {Compare(given[i], wanted[i]) : i \in {i \in Odd : \A j \in Odd : i <= j}}
      ELSE IF Len(given) <= Len(wanted) THEN {"same"}
      ELSE IF wanted = <<>> THEN {"crash"} ELSE {"same", "differ", "crash"}

-----------------------------------------------------------------------------
\* A lookup finds a type, in the table with the number of the entry.
Outcome(kind, type, entry) == [kind |-> kind, type |-> type, entry |-> entry]
Found(type, entry) == Outcome("found", type, entry)
Missing == Outcome("missing", Null, 0)
Crash == Outcome("crash", Null, 0)

Op(op, args, ret) == [op |-> op, args |-> args, ret |-> ret]

Builtins ==
  <<Op("+", <<Real, Real>>, Real),
    Op("+", <<Integer, Integer>>, Integer),
    Op("-", <<Real, Real>>, Real),
    Op("-", <<Integer, Integer>>, Integer),
    Op("*", <<Real, Real>>, Real),
    Op("*", <<Integer, Integer>>, Integer),
    Op("<", <<Integer, Integer>>, Boolean),
    Op(">", <<Integer, Integer>>, Boolean),
    Op("<", <<Real, Real>>, Boolean),
    Op(">", <<Real, Real>>, Boolean),
    Op("or", <<Boolean, Boolean>>, Boolean),
    Op("and", <<Boolean, Boolean>>, Boolean),
    Op("if", <<Boolean, Real, Real>>, Real),
    Op("if", <<Boolean, Integer, Integer>>, Integer)>>

EntriesOf(op) == {k \in 1 .. Len(Builtins) : Builtins[k].op = op}

\* What getBuiltin can do: the entries of op are tried in the order of the
\* table, and the message of a failed lookup describes the operands.
getBuiltin(op, operands) ==
  LET Tried(k) == \A j \in EntriesOf(op) :
                    j < k => "differ" \in Matching(operands, Builtins[j].args)
      Ends(k, how) == Tried(k) /\ how \in Matching(operands, Builtins[k].args)
      described == EntriesOf(op) # {} /\ \E i \in 1 .. Len(operands) : HasNull(operands[i])
  IN  {Found(Builtins[k].ret, k) : k \in {k \in EntriesOf(op) : Ends(k, "same")}}
        \cup {Crash : k \in {k \in EntriesOf(op) : Ends(k, "crash")}}
        \cup {IF described THEN Crash ELSE Missing : k \in {k \in {Len(Builtins) + 1} : Tried(k)}}

\* What callable can do on a type: only function types have one of their own.
Callable(type, args) ==
  IF type.name # "fun" THEN {Missing}
  ELSE {CASE how = "same"   -> Found(Head(type.args), 0)
          [] how = "differ" -> Missing
          [] how = "crash"  -> Crash :
        how \in Matching(args, Tail(type.args))}

subscriptedType(type) == IF type.name = "list" THEN type.args[1] ELSE Null
=============================================================================
