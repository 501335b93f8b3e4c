------------------------------- MODULE Machine -------------------------------
(***************************************************************************)
(* What the machine code made of a module does when one of its functions   *)
(* is called: calls, branches, arithmetic and memory, as the reference of  *)
(* LLVM defines them.  Integers are Width bits wide, reals are exact, and  *)
(* more than Depth nested calls stand for a recursion without end.         *)
(***************************************************************************)
EXTENDS Ir, Literals, TLC

CONSTANTS
  NumberOf(_),  \* the number a literal stands for, 1 for the true truth value
  Width, Depth

VARIABLES
  mod,      \* the module
  calls,    \* active calls of its functions, the innermost one first
  heap,     \* the memory that malloc has given out, block by block
  res       \* how the call from outside has ended

MachineInit == calls = <<>> /\ heap = <<>> /\ res = [kind |-> "void", value |-> 0]

\* A call ends with a value, in undefined behaviour, never, or in a way that
\* is not known here, as it depends on another program, on addresses or on
\* the bits of a number.
Ends(kind, number) == res' = [kind |-> kind, value |-> number] /\ UNCHANGED <<mod, calls, heap>>

Call(f, args) ==
  [fun |-> f, args |-> args, block |-> mod[f].entry, at |-> 1, from |-> 0,
   results |-> [place \in {} |-> 0]]

Running == calls # <<>> /\ res.kind = "void"
This == Head(calls)
Code == mod[This.fun].blocks[This.block][This.at]
Operand(given) ==
  CASE given.kind = "constant" -> NumberOf(given.literal)
    [] given.kind = "argument" -> This.args[given.at]
    [] given.kind = "result"   -> This.results[<<given.block, given.at>>]
    [] given.kind = "address"  -> given.of
Operands == [k \in 1 .. Len(Code.args) |-> Operand(Code.args[k])]

With(call, number) ==
  [call EXCEPT !.results = (<<call.block, call.at>> :> number) @@ @, !.at = @ + 1]
Continues(call) == calls' = <<call>> \o Tail(calls) /\ UNCHANGED <<mod, res>>
Gives(number) == Continues(With(This, number))

-----------------------------------------------------------------------------
\* The function is called from outside, without arguments.
CallFromOutside(f) ==
  /\ calls = <<>> /\ res.kind = "void"
  /\ \/ mod[f].blocks = <<>> /\ Ends("unknown", 0)
     \/ mod[f].blocks # <<>> /\ calls' = <<Call(f, <<>>)>> /\ UNCHANGED <<mod, heap, res>>

CallFunction ==
  /\ Running /\ Code.op = "call"
  /\ LET f == Head(Operands)
     IN  \/ Len(calls) >= Depth /\ Ends("diverges", 0)
         \/ Len(calls) < Depth /\ mod[f].blocks = <<>> /\ Ends("unknown", 0)
         \/ /\ Len(calls) < Depth /\ mod[f].blocks # <<>>
            /\ calls' = <<Call(f, Tail(Operands))>> \o calls
            /\ UNCHANGED <<mod, heap, res>>

Return ==
  /\ Running /\ Code.op = "ret"
  /\ \/ Len(calls) = 1 /\ Ends("value", Operands[1])
     \/ /\ Len(calls) > 1
        /\ calls' = <<With(calls[2], Operands[1])>> \o Tail(Tail(calls))
        /\ UNCHANGED <<mod, heap, res>>

Branch ==
  /\ Running /\ Code.op \in {"br", "condbr"}
  /\ LET next == Code.to[IF Code.op = "condbr" /\ Operands[1] # 1 THEN 2 ELSE 1]
     IN  Continues([This EXCEPT !.block = next, !.at = 1, !.from = This.block])
  /\ UNCHANGED heap

\* Truth values are one bit wide, and "istrue" compares one with 0.
Wrap(type, n) == IF type = Int64 THEN n % 2^Width ELSE IF type = Bool THEN n % 2 ELSE n
Truth(p) == IF p THEN 1 ELSE 0

\* Integers are compared as unsigned numbers, which is how they are kept.
Compute(op, type, a, b) ==
  CASE op \in {"add", "fadd"} -> Wrap(type, a + b)
    [] op \in {"sub", "fsub"} -> Wrap(type, a - b)
    [] op \in {"mul", "fmul"} -> Wrap(type, a * b)
    [] op \in {"ult", "fult"} -> Truth(a < b)
    [] op \in {"ugt", "fugt"} -> Truth(a > b)
    [] op = "or"              -> Truth(a = 1 \/ b = 1)
    [] op = "and"             -> Truth(a = 1 /\ b = 1)

Choose ==
  /\ Running /\ Code.op \in {"istrue", "phi"}
  /\ LET k == CHOOSE k \in 1 .. Len(Code.args) : Code.op = "phi" => Code.to[k] = This.from
     IN  Gives(Operand(Code.args[k]))
  /\ UNCHANGED heap

Arithmetic ==
  /\ Running
  /\ Code.op \in {"add", "sub", "mul", "ult", "ugt", "fadd", "fsub", "fmul", "fult", "fugt", "or", "and"}
  /\ LET open == \/ Code.op \in {"ult", "ugt"} /\ Code.args[1].type.name = "pointer"
                 \/ Code.op \in {"or", "and"} /\ Code.type # Bool
     IN  \/ open /\ Ends("unknown", 0)
         \/ /\ ~open
            /\ Gives(Compute(Code.op, Code.type, Operands[1], Operands[2]))
            /\ UNCHANGED heap

-----------------------------------------------------------------------------
(* Memory.  A pointer is the number of a block and a place in it.          *)

Allocate ==
  /\ Running /\ Code.op = "malloc"
  /\ \/ mod[Operands[1]].blocks # <<>> /\ Ends("undefined", 0)
     \/ /\ mod[Operands[1]].blocks = <<>>
        /\ heap' = Append(heap, [i \in 1 .. Code.n |-> 0])
        /\ Gives(<<Len(heap) + 1, 1>>)

Advance ==
  /\ Running /\ Code.op = "gep"
  /\ Gives(<<Operands[1][1], Operands[1][2] + Code.n>>)
  /\ UNCHANGED heap

Load ==
  /\ Running /\ Code.op = "load"
  /\ LET p == Operands[1]
     IN  \/ p[2] \notin 1 .. Len(heap[p[1]]) /\ Ends("undefined", 0)
         \/ p[2] \in 1 .. Len(heap[p[1]]) /\ Gives(heap[p[1]][p[2]]) /\ UNCHANGED heap

Store ==
  /\ Running /\ Code.op = "store"
  /\ heap' = [heap EXCEPT ![Operands[2][1]][Operands[2][2]] = Operands[1]]
  /\ Continues([This EXCEPT !.at = @ + 1])

MachineNext ==
  \/ CallFunction \/ Return \/ Branch \/ Choose \/ Arithmetic
  \/ Allocate \/ Advance \/ Load \/ Store
=============================================================================
