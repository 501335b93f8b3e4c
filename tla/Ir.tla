--------------------------------- MODULE Ir ---------------------------------
(***************************************************************************)
(* As much of LLVM's intermediate representation as packages/pol uses.  A  *)
(* module is a sequence of functions, a function a sequence of blocks, and *)
(* a block the sequence of its instructions.  An instruction is named by   *)
(* its place.  Well-formedness is what LLVM's verifier checks.             *)
(***************************************************************************)
EXTENDS Integers, Sequences

\* Types, as LLVM had them while pointers knew what they point to.
Ty(name, args) == [name |-> name, args |-> args]
Double == Ty("double", <<>>)
Int64 == Ty("i64", <<>>)
Int8 == Ty("i8", <<>>)
Bool == Ty("i1", <<>>)
Pointer(to) == Ty("pointer", <<to>>)
FunctionType(ret, args) == Ty("function", <<ret>> \o args)

\* Values: literals, arguments and results of instructions of a function,
\* and functions themselves.
Value(kind, of, block, at, literal, type) ==
  [kind |-> kind, of |-> of, block |-> block, at |-> at, literal |-> literal, type |-> type]
Constant(literal, type) == Value("constant", 0, 0, 0, literal, type)
Argument(f, i, type) == Value("argument", f, 0, i, "", type)
Result(f, block, at, type) == Value("result", f, block, at, "", type)
Address(f, type) == Value("address", f, 0, 0, "", Pointer(type))
NoValue == Constant("", Ty("none", <<>>))

\* Instructions: to are the blocks of a branch or a phi, n is a constant.
Instruction(op, type, args, to, n) ==
  [op |-> op, type |-> type, args |-> args, to |-> to, n |-> n]

Terminators == {"br", "condbr", "ret"}

\* A declaration is a function without blocks.  Of the blocks that have been
\* made some are listed, in the function; the entry is the first one of these.
Declaration(name, type, params) ==
  [name |-> name, type |-> type, params |-> params, blocks |-> <<>>,
   entry |-> 0, listed |-> {}]
ReturnTypeOf(f) == f.type.args[1]

-----------------------------------------------------------------------------
(* The control flow graph of a function f.                                 *)

Elements(s) == {s[i] : i \in 1 .. Len(s)}
Terminated(f, b) ==
  f.blocks[b] # <<>> /\ f.blocks[b][Len(f.blocks[b])].op \in Terminators
Successors(f, b) ==
  IF Terminated(f, b) THEN Elements(f.blocks[b][Len(f.blocks[b])].to) ELSE {}
Predecessors(f, b) == {a \in f.listed : b \in Successors(f, a)}

\* The blocks that can be reached from the entry without entering avoided.
ReachableAvoiding(f, avoided) ==
  LET Visited[n \in 0 .. Len(f.blocks)] ==
        IF n = 0 THEN {f.entry} \ avoided
        ELSE (UNION {{b} \cup Successors(f, b) : b \in Visited[n - 1]}) \ avoided
  IN  Visited[Len(f.blocks)]
Reachable(f) == ReachableAvoiding(f, {})
Dominates(f, a, b) == b \notin ReachableAvoiding(f, {a})

\* The code that a call of f can run, once every block of it is complete.
Complete(f) == f.listed # {} /\ \A b \in Reachable(f) : Terminated(f, b)
RunnableCode(f) == [b \in Reachable(f) |-> f.blocks[b]]

\* Every listed block ends in its only terminator, which stays inside.
BlocksEnd(f) ==
  \A b \in f.listed :
    LET code == f.blocks[b]
    IN  /\ Terminated(f, b)
        /\ \A i \in 1 .. Len(code) - 1 : code[i].op \notin Terminators
        /\ Successors(f, b) \subseteq f.listed

\* A phi has one value for each block that control can come from.
PhisMatch(f) ==
  \A b \in f.listed : \A i \in 1 .. Len(f.blocks[b]) :
    f.blocks[b][i].op = "phi" =>
      LET phi == f.blocks[b][i]
      IN  /\ \A j \in 1 .. i : f.blocks[b][j].op = "phi"
          /\ Elements(phi.to) = Predecessors(f, b)
          /\ \A j, k \in 1 .. Len(phi.to) : phi.to[j] = phi.to[k] => j = k

\* A result is used where it has been computed; an operand of a phi at the
\* end of the block it comes with.
ComputedBefore(f, value, b, i) ==
  \/ value.block = b /\ value.at < i
  \/ value.block # b /\ Dominates(f, value.block, b)

UsesComputed(mod, n) ==
  LET f == mod[n]
  IN  \A b \in Reachable(f) : \A i \in 1 .. Len(f.blocks[b]) : \A k \in 1 .. Len(f.blocks[b][i].args) :
        LET code == f.blocks[b][i]
            value == code.args[k]
        IN  /\ value.kind \in {"argument", "result"} => value.of = n
            /\ value.kind = "result" =>
                 IF code.op = "phi"
                 THEN ComputedBefore(f, value, code.to[k], Len(f.blocks[code.to[k]]))
                 ELSE ComputedBefore(f, value, b, i)

WellStructured(mod, n) ==
  BlocksEnd(mod[n]) /\ PhisMatch(mod[n]) /\ UsesComputed(mod, n)

-----------------------------------------------------------------------------
(* The types of operands.                                                  *)

Typed(f, code) ==
  LET of == [k \in 1 .. Len(code.args) |-> code.args[k].type]
  IN  CASE code.op \in {"add", "sub", "mul", "or", "and"} ->
             of[1] = of[2] /\ of[1] \in {Int64, Bool}
        [] code.op \in {"ult", "ugt"} ->
             of[1] = of[2] /\ (of[1] \in {Int64, Bool} \/ of[1].name = "pointer")
        [] code.op \in {"fadd", "fsub", "fmul", "fult", "fugt"} -> of = <<Double, Double>>
        [] code.op \in {"istrue", "condbr"} -> of = <<Bool>>
        [] code.op = "phi" -> \A k \in 1 .. Len(of) : of[k] = code.type
        [] code.op = "call" -> of[1] = Pointer(FunctionType(code.type, Tail(of)))
        [] code.op = "gep" -> of = <<code.type>>
        [] code.op = "load" -> of = <<Pointer(code.type)>>
        [] code.op = "store" -> of[2] = Pointer(of[1])
        [] code.op = "ret" -> of = <<ReturnTypeOf(f)>>
        [] OTHER -> TRUE

WellTypedCode(f) ==
  \A b \in f.listed : \A i \in 1 .. Len(f.blocks[b]) : Typed(f, f.blocks[b][i])

\* What verifyFunction checks.
WellFormed(mod, n) == WellStructured(mod, n) /\ WellTypedCode(mod[n])

\* The functions whose address the blocks of f take.
Callees(f, blocks) ==
  UNION {UNION {{code.args[k].of : k \in {k \in 1 .. Len(code.args) : code.args[k].kind = "address"}} :
                code \in Elements(f.blocks[b])} : b \in blocks}
=============================================================================
