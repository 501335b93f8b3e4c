------------------------------- MODULE Codegen -------------------------------
(***************************************************************************)
(* The code generator of packages/pol: codegen() goes through the units    *)
(* the semantic analysis accepted and makes an LLVM module of them, as a   *)
(* stack machine with one frame for each active call of codegen(Expr), and *)
(* runs the last function without arguments.  The frame of an operator     *)
(* stands for OpTable::generate, if_generic and execute as well.           *)
(***************************************************************************)
EXTENDS Types, Literals, Ir, FiniteSets

CONSTANTS
  LlvmType(_),      \* basictypes::getType
  Renamed(_, _),    \* the name LLVM makes for the n-th argument with a name in use
  Subscript(_),     \* the int64_t that the literal of a subscript is cast to
  ProcessSymbols    \* the functions that the JIT finds in the process

VARIABLES
  program, build,   \* the program, and whether assertions are compiled in
  analyzed,         \* the semantic TopLevel
  gen,              \* the point codegen has reached
  at,               \* the unit of analyzed being generated
  mod,              \* the functions of the LLVM module
  fun,              \* the function being generated
  point,            \* the block the IRBuilder inserts into
  named,            \* m_named_values
  frames,           \* active calls of codegen, the innermost one first
  value,            \* the value the last call returned
  lastfn, tp        \* the function to run and its return type

inputs == <<program, build, analyzed>>
translation == <<mod, fun, point, named>>
chosen == <<lastfn, tp>>
genvars == <<gen, at, translation, frames, value, chosen>>

Node(n) == program.nodes[n]
Unit == analyzed[at]
Top == Head(frames)
Kids == Node(Top.node).kids
expressionType(n) == Unit.expressions[n]
FunctionsNamed(name) == {f \in 1 .. Len(mod) : mod[f].name = name}

\* What basictypes::getType makes of a type, given what it makes of the types
\* in it.
LoweredAs(type) ==
  LET parts == [i \in 1 .. Len(type.args) |-> LlvmType(type.args[i])]
  IN  CASE type = Real        -> LlvmType(type) = Double
        [] type = Integer     -> LlvmType(type) = Int64
        [] type = Boolean     -> LlvmType(type) = Bool
        [] type.name = "list" -> LlvmType(type) = Pointer(parts[1])
        [] type.name = "fun"  ->
             LlvmType(type) = Pointer(FunctionType(parts[1], [i \in 1 .. Len(parts) - 1 |-> parts[i + 1]]))

-----------------------------------------------------------------------------
(* Results and frames.                                                     *)

Halt(how) == gen' = how /\ UNCHANGED <<at, translation, frames, value, chosen>>

\* With the error the program goes: the function is erased from its module
\* first, which must not have other uses of it.
Failed ==
  LET others == UNION {Callees(mod[f], mod[f].listed) : f \in (1 .. Len(mod)) \ {fun}}
  IN  Halt(IF fun \in others THEN "undefined" ELSE "error")
AssertionFails(Otherwise) == IF build = "debug" THEN Halt("aborted") ELSE Otherwise

Start(n) ==
  [node |-> n, how |-> "visit", emits |-> "", type |-> Double, callee |-> NoValue,
   values |-> <<>>, blocks |-> <<>>]
Become(frame) == frames' = <<frame>> \o Tail(frames)
Yield(v) == gen' = "return" /\ value' = v /\ frames' = Tail(frames)
Collected == Append(Top.values, value)
Collect(v) == Become([Top EXCEPT !.values = Append(@, v)]) /\ gen' = "visit"

\* The next place in the block of the insertion point, and code put there.
Place == Len(mod[fun].blocks[point]) + 1
Insert(instructions) == mod' = [mod EXCEPT ![fun].blocks[point] = @ \o instructions]
Produce(op, type, args) ==
  /\ Insert(<<Instruction(op, type, args, <<>>, 0)>>)
  /\ Yield(Result(fun, point, Place, type))

Visiting(kinds) == gen = "visit" /\ Top.how = "visit" /\ Node(Top.node).kind \in kinds
Building(how) == gen = "visit" /\ Top.how = how
Got(how) == gen = "return" /\ frames # <<>> /\ Top.how = how

-----------------------------------------------------------------------------
GenInit ==
  /\ gen = "unit"
  /\ at = 1
  /\ mod = <<>> /\ fun = 0 /\ point = 0 /\ named = [x \in {} |-> NoValue]
  /\ frames = <<>>
  /\ value = NoValue
  /\ lastfn = "" /\ tp = Null

(* codegen of a signature, an extern declaration and a function.           *)

AtUnit(kind) ==
  gen = "unit" /\ at <= Len(analyzed) /\ program.units[Unit.unit].kind = kind

\* A second argument with one name, or a second function, is renamed.
ArgumentNames(args) ==
  LET Twins(i) == {j \in 1 .. i - 1 : args[j].name = args[i].name}
  IN  [i \in 1 .. Len(args) |->
         IF Twins(i) = {} THEN args[i].name ELSE Renamed(args[i].name, Cardinality(Twins(i)))]

Created(s) ==
  Declaration(IF FunctionsNamed(s.name) = {} THEN s.name ELSE "",
              FunctionType(LlvmType(s.ret), [i \in 1 .. Len(s.args) |-> LlvmType(s.args[i].type)]),
              ArgumentNames(s.args))

\* A declaration without arguments is taken for the function to run.
GenExtern ==
  /\ AtUnit("extern")
  /\ \/ /\ Unit.sig.args = <<>>
        /\ AssertionFails(Halt("crashed"))
     \/ /\ Unit.sig.args # <<>>
        /\ mod' = Append(mod, Created(Unit.sig))
        /\ at' = at + 1
        /\ UNCHANGED <<gen, fun, point, named, frames, value, chosen>>

ParameterNames(functions, f) == {functions[f].params[i] : i \in 1 .. Len(functions[f].params)}
ParameterValue(functions, f, x) ==
  LET i == CHOOSE i \in 1 .. Len(functions[f].params) : functions[f].params[i] = x
  IN  Argument(f, i, functions[f].type.args[i + 1])

EnterFunction_KeepsNames(functions, f) ==
  LET block == Len(functions[f].blocks) + 1
  IN  /\ mod' = [functions EXCEPT ![f].blocks = Append(@, <<>>), ![f].listed = @ \cup {block},
                                 ![f].entry = IF @ = 0 THEN block ELSE @]
      /\ fun' = f /\ point' = block
      /\ named' = [x \in ParameterNames(functions, f) \cup DOMAIN named |->
                     IF x \in DOMAIN named THEN named[x] ELSE ParameterValue(functions, f, x)]
      /\ frames' = <<Start(program.units[Unit.unit].body)>> /\ gen' = "visit"

EnterFunction_Prepends(functions, f) ==
  LET block == Len(functions[f].blocks) + 1
  IN  /\ mod' = [functions EXCEPT ![f].blocks = Append(@, <<>>), ![f].listed = @ \cup {block},
                                 ![f].entry = block]
      /\ fun' = f /\ point' = block
      /\ named' = [x \in ParameterNames(functions, f) |-> ParameterValue(functions, f, x)]
      /\ frames' = <<Start(program.units[Unit.unit].body)>> /\ gen' = "visit"

\* A new entry block goes behind the blocks that are there.
EnterFunction(functions, f) ==
  LET block == Len(functions[f].blocks) + 1
  IN  /\ mod' = [functions EXCEPT ![f].blocks = Append(@, <<>>), ![f].listed = @ \cup {block},
                                 ![f].entry = IF @ = 0 THEN block ELSE @]
      /\ fun' = f /\ point' = block
      /\ named' = [x \in ParameterNames(functions, f) |-> ParameterValue(functions, f, x)]
      /\ frames' = <<Start(program.units[Unit.unit].body)>> /\ gen' = "visit"

\* A function of the name is taken up as it is, body and all.
GenFunction ==
  /\ AtUnit("def")
  /\ \/ /\ FunctionsNamed(Unit.sig.name) = {} /\ HasNull(Unit.sig.ret)
        /\ Halt("crashed")
     \/ /\ FunctionsNamed(Unit.sig.name) = {} /\ ~HasNull(Unit.sig.ret)
        /\ EnterFunction(Append(mod, Created(Unit.sig)), Len(mod) + 1)
        /\ UNCHANGED <<at, value, chosen>>
     \/ /\ \E f \in FunctionsNamed(Unit.sig.name) : EnterFunction(mod, f)
        /\ UNCHANGED <<at, value, chosen>>

\* CFGSimplification: the blocks that control cannot reach go.
Simplified(f) == [f EXCEPT !.listed = @ \cap Reachable(f)]

\* The verdict of verifyFunction is not looked at: the passes that run on
\* what it rejects may do anything.
FinishFunction ==
  /\ gen = "return" /\ frames = <<>>
  /\ LET ret == Instruction("ret", value.type, <<value>>, <<>>, 0)
         done == [mod EXCEPT ![fun].blocks[point] = Append(@, ret)]
     IN  \/ /\ ~WellFormed(done, fun)
            /\ gen' = "undefined" /\ mod' = done
            /\ UNCHANGED <<at, fun, point, named, frames, value, chosen>>
         \/ /\ WellFormed(done, fun)
            /\ mod' = [done EXCEPT ![fun] = Simplified(@)]
            /\ IF mod[fun].params = <<>>
               THEN lastfn' = mod[fun].name /\ tp' = Unit.sig.ret
               ELSE UNCHANGED chosen
            /\ gen' = "unit" /\ at' = at + 1
            /\ UNCHANGED <<fun, point, named, frames, value>>

-----------------------------------------------------------------------------
(* codegen of an expression.                                               *)

LiteralValue(literal) ==
  Constant(literal, CASE literal \in RealLiteral    -> Double
                      [] literal \in IntegerLiteral -> Int64
                      [] literal \in BooleanLiteral -> Bool)

GenLiteral ==
  /\ Visiting({"literal"})
  /\ Yield(LiteralValue(Node(Top.node).name))
  /\ UNCHANGED <<at, translation, chosen>>

\* A name means the function of the module, then the argument.
GenFunctionName ==
  /\ Visiting({"var", "subscript"})
  /\ \E f \in FunctionsNamed(Node(Top.node).name) : Yield(Address(f, mod[f].type))
  /\ UNCHANGED <<at, translation, chosen>>

GenVar ==
  /\ Visiting({"var", "subscript"})
  /\ FunctionsNamed(Node(Top.node).name) = {}
  /\ LET x == Node(Top.node).name
         item == subscriptedType(Unit.variables[x])
         pointer == Result(fun, point, Place, named[x].type)
     IN  \/ /\ x \notin DOMAIN named \cap DOMAIN Unit.variables
            /\ Failed
         \/ /\ x \in DOMAIN named \cap DOMAIN Unit.variables
            /\ Node(Top.node).kind = "var"
            /\ Yield(named[x])
            /\ UNCHANGED <<at, translation, chosen>>
         \/ /\ x \in DOMAIN named \cap DOMAIN Unit.variables
            /\ Node(Top.node).kind = "subscript" /\ item = Null
            /\ Failed
         \/ /\ x \in DOMAIN named \cap DOMAIN Unit.variables
            /\ Node(Top.node).kind = "subscript" /\ item # Null
            /\ Insert(<<Instruction("gep", Pointer(LlvmType(item)), <<named[x]>>, <<>>,
                                    Subscript(Node(Top.node).index)),
                        Instruction("load", LlvmType(item), <<pointer>>, <<>>, 0)>>)
            /\ Yield(Result(fun, point, Place + 1, LlvmType(item)))
            /\ UNCHANGED <<at, fun, point, named, chosen>>

\* The operands are generated one after the other.
GenKid ==
  /\ gen = "visit" /\ Top.how # "visit" /\ Len(Top.values) < Len(Kids)
  /\ frames' = <<Start(Kids[Len(Top.values) + 1])>> \o frames
  /\ UNCHANGED <<gen, at, translation, value, chosen>>

GenValue_Forgets ==
  /\ \/ Got("list") \/ Got("operator") \/ Got("call")
  /\ gen' = "visit"
  /\ UNCHANGED <<at, translation, frames, value, chosen>>

GenValue ==
  /\ \/ Got("list") \/ Got("operator") \/ Got("call")
  /\ Collect(value)
  /\ UNCHANGED <<at, translation, value, chosen>>

-----------------------------------------------------------------------------
(* Lists.                                                                  *)

StartList ==
  /\ Visiting({"list"})
  /\ Become([Top EXCEPT !.how = "list"])
  /\ UNCHANGED <<gen, at, translation, value, chosen>>

\* getPrimitiveSizeInBits() / 8: nothing is left of a truth value, and the
\* size of a pointer depends on the target.
PrimitiveSize(type) == IF type \in {Double, Int64} THEN 8 ELSE 0

\* getOrInsertFunction("malloc"), whatever a function of the name is.
WithMalloc(functions) ==
  IF \E f \in 1 .. Len(functions) : functions[f].name = "malloc" THEN functions
  ELSE Append(functions, Declaration("malloc", FunctionType(Pointer(Int8), <<Int64>>), <<"">>))

\* createMalloc: room for n items, through whatever malloc is.
MallocCode(functions, item, n) ==
  LET malloc == CHOOSE f \in 1 .. Len(functions) : functions[f].name = "malloc"
  IN  Instruction("malloc", Pointer(item), <<Address(malloc, functions[malloc].type)>>, <<>>, n)

\* The elements are stored one by one.
ListCode(functions, item, values) ==
  LET list == Result(fun, point, Place, Pointer(item))
      Element(i) ==
        <<Instruction("gep", Pointer(item), <<list>>, <<>>, i - 1),
          Instruction("store", item,
                      <<values[i], Result(fun, point, Place + 2 * i - 1, Pointer(item))>>, <<>>, 0)>>
  IN  <<MallocCode(functions, item, Len(values))>>
        \o [k \in 1 .. 2 * Len(values) |-> Element((k + 1) \div 2)[2 - (k % 2)]]

FinishList ==
  /\ Building("list") /\ Len(Top.values) = Len(Kids)
  /\ \/ /\ Kids = <<>>
        /\ AssertionFails(Halt("crashed"))
     \/ /\ Kids # <<>> /\ PrimitiveSize(LlvmType(expressionType(Kids[1]))) = 0
        /\ Failed
     \/ /\ Kids # <<>> /\ PrimitiveSize(LlvmType(expressionType(Kids[1]))) # 0
        /\ LET item == LlvmType(expressionType(Kids[1]))
               functions == WithMalloc(mod)
           IN  /\ mod' = [functions EXCEPT ![fun].blocks[point] =
                            @ \o ListCode(functions, item, Top.values)]
               /\ Yield(Result(fun, point, Place, Pointer(item)))
        /\ UNCHANGED <<at, fun, point, named, chosen>>

-----------------------------------------------------------------------------
(* Operators and calls.                                                    *)

Builder(op, args, emits) == [op |-> op, args |-> args, emits |-> emits]

Builders_NoIntegerIf ==
  {Builder("+", <<Real, Real>>, "fadd"),       Builder("+", <<Integer, Integer>>, "add"),
   Builder("-", <<Real, Real>>, "fsub"),       Builder("-", <<Integer, Integer>>, "sub"),
   Builder("*", <<Real, Real>>, "fmul"),       Builder("*", <<Integer, Integer>>, "mul"),
   Builder("<", <<Real, Real>>, "fult"),       Builder("<", <<Integer, Integer>>, "ult"),
   Builder(">", <<Real, Real>>, "fugt"),       Builder(">", <<Integer, Integer>>, "ugt"),
   Builder("or", <<Boolean, Boolean>>, "or"),  Builder("and", <<Boolean, Boolean>>, "and"),
   Builder("if", <<Boolean, Real, Real>>, "double")}

\* OpTable: what each entry of the table of builtins is built with.
Builders ==
  {Builder("+", <<Real, Real>>, "fadd"),       Builder("+", <<Integer, Integer>>, "add"),
   Builder("-", <<Real, Real>>, "fsub"),       Builder("-", <<Integer, Integer>>, "sub"),
   Builder("*", <<Real, Real>>, "fmul"),       Builder("*", <<Integer, Integer>>, "mul"),
   Builder("<", <<Real, Real>>, "fult"),       Builder("<", <<Integer, Integer>>, "ult"),
   Builder(">", <<Real, Real>>, "fugt"),       Builder(">", <<Integer, Integer>>, "ugt"),
   Builder("or", <<Boolean, Boolean>>, "or"),  Builder("and", <<Boolean, Boolean>>, "and"),
   Builder("if", <<Boolean, Real, Real>>, "double"),
   Builder("if", <<Boolean, Integer, Integer>>, "i64")}

BuildersOf(entry) ==
  {b \in Builders : b.op = Builtins[entry].op /\ b.args = Builtins[entry].args}

\* An if takes its operands one by one, every other operator together.
StartBuiltin(entry) ==
  IF BuildersOf(entry) = {} THEN Failed
  ELSE \E b \in BuildersOf(entry) :
         /\ Become([Top EXCEPT !.how = IF b.op = "if" THEN "if" ELSE "operator",
                                !.emits = b.emits])
         /\ UNCHANGED <<gen, at, translation, value, chosen>>

OperandTypes == [k \in 1 .. Len(Kids) |-> expressionType(Kids[k])]

GenBinary ==
  /\ Visiting({"binary"})
  /\ \E outcome \in getBuiltin(Node(Top.node).name, OperandTypes) :
       CASE outcome.kind = "found"   -> StartBuiltin(outcome.entry)
         [] outcome.kind = "missing" -> AssertionFails(Failed)
         [] outcome.kind = "crash"   -> Halt("crashed")

StartCall(callee, type) ==
  /\ Become([Top EXCEPT !.how = "call", !.callee = callee, !.type = type])
  /\ UNCHANGED <<gen, at, translation, value, chosen>>

\* A function of the module must have as many arguments as the call; for a
\* value the type of the variable counts.
FindCallee(name) ==
  \/ \E f \in FunctionsNamed(name) :
       /\ Len(mod[f].params) = Len(Kids)
       /\ StartCall(Address(f, mod[f].type), ReturnTypeOf(mod[f]))
  \/ \E f \in FunctionsNamed(name) :
       /\ Len(mod[f].params) # Len(Kids)
       /\ Failed
  \/ /\ FunctionsNamed(name) = {}
     /\ name \in DOMAIN named \cap DOMAIN Unit.variables
     /\ LET type == Unit.variables[name]
        IN  IF type.args = <<>> THEN Halt("undefined")
            ELSE StartCall(named[name], LlvmType(type.args[1]))
  \/ /\ FunctionsNamed(name) = {}
     /\ name \notin DOMAIN named \cap DOMAIN Unit.variables
     /\ Failed

GenCall ==
  /\ Visiting({"call"})
  /\ \E outcome \in getBuiltin(Node(Top.node).name, OperandTypes) :
       \/ outcome.kind = "found" /\ StartBuiltin(outcome.entry)
       \/ outcome.kind = "missing" /\ FindCallee(Node(Top.node).name)
       \/ outcome.kind = "crash" /\ Halt("crashed")

FinishCall ==
  /\ Building("call") /\ Len(Top.values) = Len(Kids)
  /\ Produce("call", Top.type, <<Top.callee>> \o Top.values)
  /\ UNCHANGED <<at, fun, point, named, chosen>>

\* vs[0] and vs[1] are read whether or not the call had two arguments.
FinishOperator ==
  /\ Building("operator") /\ Len(Top.values) = Len(Kids)
  /\ \/ Len(Top.values) < 2 /\ Halt("undefined")
     \/ /\ Len(Top.values) >= 2
        /\ LET type == IF Top.emits \in {"fult", "fugt", "ult", "ugt"} THEN Bool
                       ELSE Top.values[1].type
           IN  Produce(Top.emits, type, <<Top.values[1], Top.values[2]>>)
        /\ UNCHANGED <<at, fun, point, named, chosen>>

-----------------------------------------------------------------------------
(* if_generic.  The frame's blocks are then, else and merge; once a branch *)
(* has been generated its block is the one that it ended in.               *)

IfCondition ==
  /\ Got("if") /\ Len(Top.values) = 0
  /\ LET blocks == mod[fun].blocks
         new == Len(blocks)
         branch == <<Instruction("istrue", Bool, <<value>>, <<>>, 0),
                     Instruction("condbr", Bool, <<Result(fun, point, Place, Bool)>>,
                                 <<new + 1, new + 2>>, 0)>>
     IN  /\ mod' = [mod EXCEPT
              ![fun].blocks = [blocks EXCEPT ![point] = @ \o branch] \o <<<<>>, <<>>, <<>>>>,
              ![fun].listed = @ \cup {new + 1}]
         /\ Become([Top EXCEPT !.values = Collected, !.blocks = <<new + 1, new + 2, new + 3>>])
         /\ point' = new + 1
  /\ gen' = "visit"
  /\ UNCHANGED <<at, fun, named, value, chosen>>

\* The branch is over: control goes on to merge, the builder to next.
EndBranch(next) ==
  /\ mod' = [mod EXCEPT
       ![fun].blocks[point] = Append(@, Instruction("br", Bool, <<>>, <<Top.blocks[3]>>, 0)),
       ![fun].listed = @ \cup {next}]
  /\ point' = next

IfThen_KeepsBlock ==
  /\ Got("if") /\ Len(Top.values) = 1
  /\ EndBranch(Top.blocks[2])
  /\ Become([Top EXCEPT !.values = Collected])
  /\ gen' = "visit"
  /\ UNCHANGED <<at, fun, named, value, chosen>>

IfThen ==
  /\ Got("if") /\ Len(Top.values) = 1
  /\ EndBranch(Top.blocks[2])
  /\ Become([Top EXCEPT !.values = Collected, !.blocks[1] = point])
  /\ gen' = "visit"
  /\ UNCHANGED <<at, fun, named, value, chosen>>

IfElse_NotListed ==
  /\ Got("if") /\ Len(Top.values) = 2
  /\ LET merge == Top.blocks[3]
         type == IF Top.emits = "double" THEN Double ELSE Int64
         br == Instruction("br", Bool, <<>>, <<merge>>, 0)
         phi == Instruction("phi", type, <<Top.values[2], value>>, <<Top.blocks[1], point>>, 0)
     IN  /\ mod' = [mod EXCEPT ![fun].blocks[point] = Append(@, br),
                               ![fun].blocks[merge] = <<phi>>]
         /\ point' = merge
         /\ Yield(Result(fun, merge, 1, type))
  /\ UNCHANGED <<at, fun, named, chosen>>

IfElse_SwapsValues ==
  /\ Got("if") /\ Len(Top.values) = 2
  /\ LET merge == Top.blocks[3]
         type == IF Top.emits = "double" THEN Double ELSE Int64
         br == Instruction("br", Bool, <<>>, <<merge>>, 0)
         phi == Instruction("phi", type, <<value, Top.values[2]>>, <<Top.blocks[1], point>>, 0)
     IN  /\ mod' = [mod EXCEPT ![fun].blocks[point] = Append(@, br),
                               ![fun].blocks[merge] = <<phi>>,
                               ![fun].listed = @ \cup {merge}]
         /\ point' = merge
         /\ Yield(Result(fun, merge, 1, type))
  /\ UNCHANGED <<at, fun, named, chosen>>

IfElse ==
  /\ Got("if") /\ Len(Top.values) = 2
  /\ LET merge == Top.blocks[3]
         type == IF Top.emits = "double" THEN Double ELSE Int64
         br == Instruction("br", Bool, <<>>, <<merge>>, 0)
         phi == Instruction("phi", type, <<Top.values[2], value>>, <<Top.blocks[1], point>>, 0)
     IN  /\ mod' = [mod EXCEPT ![fun].blocks[point] = Append(@, br),
                               ![fun].blocks[merge] = <<phi>>,
                               ![fun].listed = @ \cup {merge}]
         /\ point' = merge
         /\ Yield(Result(fun, merge, 1, type))
  /\ UNCHANGED <<at, fun, named, chosen>>

\* vs[k] is called for all three whatever the call has.
IfTooShort ==
  /\ Building("if") /\ Len(Top.values) = Len(Kids)
  /\ Halt("undefined")

-----------------------------------------------------------------------------
(* The end of codegen(TopLevel): the JIT links the module and the function *)
(* is called through a pointer to a function of the type it should have.   *)

AtEnd == gen = "unit" /\ at > Len(analyzed)

NothingToRun ==
  /\ AtEnd /\ lastfn = ""
  /\ gen' = "done"
  /\ UNCHANGED <<at, translation, frames, value, chosen>>

\* Functions without a body, of those that code refers to, that the process
\* does not have either.
Unresolved(users) ==
  {g \in users : mod[g].blocks = <<>> /\ mod[g].name \notin ProcessSymbols}
Used == UNION {Callees(mod[f], mod[f].listed) : f \in 1 .. Len(mod)}

\* Used for certain: the passes may find that a branch is never taken.
SurelyUsed ==
  UNION {Callees(mod[f], {mod[f].entry}) : f \in {f \in 1 .. Len(mod) : mod[f].listed # {}}}

SymbolNotFound ==
  /\ AtEnd /\ lastfn # "" /\ Unresolved(Used) # {}
  /\ gen' = "error"
  /\ UNCHANGED <<at, translation, frames, value, chosen>>

\* Only numbers and truth values are called for.
RunLast ==
  /\ AtEnd /\ lastfn # "" /\ Unresolved(SurelyUsed) = {}
  /\ \/ HasNull(tp) /\ gen' = "crashed"
     \/ /\ tp \in {Real, Integer, Boolean}
        /\ \E f \in FunctionsNamed(lastfn) :
             gen' = IF ReturnTypeOf(mod[f]) = LlvmType(tp) THEN "run" ELSE "undefined"
     \/ ~HasNull(tp) /\ tp \notin {Real, Integer, Boolean} /\ gen' = "done"
  /\ UNCHANGED <<at, translation, frames, value, chosen>>

-----------------------------------------------------------------------------
GenNext ==
  /\ UNCHANGED inputs
  /\ \/ GenExtern \/ GenFunction \/ FinishFunction
     \/ GenLiteral \/ GenFunctionName \/ GenVar
     \/ GenKid \/ GenValue
     \/ StartList \/ FinishList
     \/ GenBinary \/ GenCall \/ FinishCall \/ FinishOperator
     \/ IfCondition \/ IfThen \/ IfElse \/ IfTooShort
     \/ NothingToRun \/ SymbolNotFound \/ RunLast

Ended == gen \in {"done", "error", "aborted", "crashed", "undefined"}

=============================================================================
