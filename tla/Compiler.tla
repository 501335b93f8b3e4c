------------------------------ MODULE Compiler ------------------------------
(***************************************************************************)
(* The semantic analysis, the code generator and the code it has made, one *)
(* after the other: the code generator starts from the TopLevel that the   *)
(* analysis accepted, with the types it recorded for every expression, and *)
(* the machine calls the last function without arguments of the module.    *)
(***************************************************************************)
EXTENDS Semantic, Ir

CONSTANTS
  LlvmType(_), Renamed(_, _), Subscript(_), ProcessSymbols, NumberOf(_), Width, Depth

\* The machine's words have at least one bit, and its stack one call.
ASSUME MachineAssumption == Width \in Nat \ {0} /\ Depth \in Nat \ {0}

VARIABLES
  gen, at, mod, fun, point, named, frames, value, lastfn, tp, calls, heap, res

Gen == INSTANCE Codegen
Code == INSTANCE Machine

generated == <<gen, at, mod, fun, point, named, frames, value, lastfn, tp>>
machine == <<calls, heap, res>>
compilervars == <<vars, generated, machine>>

CompilerInit == Init /\ Gen!GenInit /\ Code!MachineInit

Analyze == Next /\ UNCHANGED <<generated, machine>>
Generate == pc = "accepted" /\ Gen!GenNext /\ UNCHANGED <<vars, machine>>
Execute ==
  /\ gen = "run"
  /\ (\E f \in Gen!FunctionsNamed(lastfn) : Code!CallFromOutside(f)) \/ Code!MachineNext
  /\ UNCHANGED <<vars, generated>>

CompilerNext == Analyze \/ Generate \/ Execute

CompilerSpec == CompilerInit /\ [][CompilerNext]_compilervars

\* main() is one sequential function: each phase goes on until it returns.
FairCompilerSpec == CompilerSpec /\ WF_compilervars(CompilerNext)

CompilerHalted ==
  pc \in {"error", "aborted", "crashed"} \/ Gen!Ended \/ (gen = "run" /\ res.kind # "void")

-----------------------------------------------------------------------------
\* Shapes of the state.  The code generator waits for the analysis, is in a
\* block of its function while it has frames, and no frame has more values
\* than its expression has operands.
CompilerTypeOK ==
  /\ TypeOK
  /\ gen \in {"unit", "visit", "return", "run", "done", "error", "aborted", "crashed", "undefined"}
  /\ gen # "unit" => pc = "accepted"
  /\ at \in 1 .. Len(analyzed) + 1
  /\ frames # <<>> => fun \in 1 .. Len(mod) /\ point \in mod[fun].listed
  /\ \A i \in 1 .. Len(frames) :
       Len(frames[i].values) <= Len(Node(frames[i].node).kids)
  /\ \A i \in 2 .. Len(frames) : frames[i].how # "visit"
  /\ res.kind \in {"void", "value", "unknown", "undefined", "diverges"}
  /\ Len(calls) <= Depth /\ (calls # <<>> => gen = "run")

\* Functions whose last definition has been completed.
Finished ==
  {f \in 1 .. Len(mod) :
     Complete(mod[f]) /\ (gen \in {"visit", "return"} \/ frames # <<>> => f # fun)}

\* Every function that is finished, of any program that gets that far, has a
\* sound control flow graph: blocks end in one branch, a value is used where
\* it has been computed, and a phi has a value for each way into its block.
GeneratedIsStructured == \A f \in Finished : WellStructured(mod, f)

\* Context::expressionType is asked for the operands of the active calls and
\* finds them in the map that the analysis made of this function: its error
\* for an expression that is not there is never returned.
LookupsSucceed ==
  \A i \in 1 .. Len(frames) :
    LET kids == Node(frames[i].node).kids
    IN  \A k \in 1 .. Len(kids) : kids[k] \in DOMAIN analyzed[at].expressions

\* The names a unit declares, with what it declares of them.
SameArgs(u, v) == program.units[u].args = program.units[v].args
UnitNumbers == 1 .. Len(program.units)
ParameterNames(u) == {program.units[u].args[k].name : k \in 1 .. Len(program.units[u].args)}

\* Programs in which a name means one thing at a time: a function defined
\* again has the same arguments, none has an argument of its own name, or one
\* that LLVM has renamed another to, none is in the way of malloc or without
\* a name, as LLVM leaves a second one, and no call has too many arguments.
Orderly ==
  /\ \A u, v \in UnitNumbers :
       v < u /\ program.units[u].kind = "def" /\ program.units[v].name = program.units[u].name
         => SameArgs(u, v)
  /\ \A u \in UnitNumbers :
       /\ ParameterNames(u) \cap {program.units[u].name, "malloc", ""} = {}
       /\ program.units[u].name \notin {"malloc", ""}
       /\ \A x \in ParameterNames(u) : \A n \in 1 .. Len(program.units[u].args) :
            Renamed(x, n) \notin ParameterNames(u)
  /\ \A n \in 1 .. Len(program.nodes) :
       Node(n).kind = "call" => \A m \in Arities(Node(n).name) : Len(Node(n).kids) <= m

\* The expression whose value has been generated.
GeneratedNode ==
  IF frames = <<>> THEN program.units[analyzed[at].unit].body
  ELSE Node(Head(frames).node).kids[Len(Head(frames).values) + 1]

\* In an orderly program the analysis and the code generator find the same
\* thing behind every name: a value has the LLVM type of the type recorded
\* for its expression.
ValuesHaveTheirTypes ==
  gen = "return" /\ Orderly =>
    LET type == analyzed[at].expressions[GeneratedNode]
    IN  ~HasNull(type) => value.type = LlvmType(type)

\* Programs that use nothing the code generator is known not to translate:
\* orderly ones with one return type for each name, as many arguments in a
\* call as everything of its name takes, lists of numbers, declarations
\* that have arguments and are in the process, and no null types.
Tame ==
  /\ Orderly
  /\ \A u, v \in UnitNumbers :
       v < u /\ program.units[u].kind = "def" /\ program.units[v].name = program.units[u].name
         => program.units[u].type # <<>> /\ program.units[u].type = program.units[v].type
  /\ \A n \in 1 .. Len(program.nodes) :
       Node(n).kind = "call" => \A m \in Arities(Node(n).name) : Len(Node(n).kids) = m
  /\ \A u \in UnitNumbers :
       program.units[u].kind = "extern" =>
         /\ program.units[u].args # <<>>
         /\ \/ program.units[u].name \in ProcessSymbols
            \/ \E v \in UnitNumbers : /\ program.units[v].name = program.units[u].name
                                      /\ program.units[v].kind = "def"
  /\ \A i \in Functions : \A n \in DOMAIN analyzed[i].expressions :
       LET type == analyzed[i].expressions[n]
       IN  /\ ~HasNull(type)
           /\ Node(n).kind = "list" => type \in {List(Real), List(Integer)}

\* A tame program that the analysis accepts is translated to code that the
\* verifier accepts, and linked: whatever goes wrong happens while it runs.
TameIsTranslated ==
  pc = "accepted" /\ Tame => gen \notin {"error", "aborted", "crashed", "undefined"}

\* What a call of a function runs never changes once it is complete: a later
\* definition of the name goes into a block that nothing jumps to.
FirstDefinitionCounts ==
  [][\A f \in 1 .. Len(mod) :
       Complete(mod[f]) => RunnableCode(mod'[f]) = RunnableCode(mod[f])]_compilervars

\* The compiler returns on every program, or calls the function it made.
CompilerTerminates == <>CompilerHalted

-----------------------------------------------------------------------------
\* What the comments and the assertions of the code generator say.

\* A function that is taken up again comes from an extern declaration.
ReusedIsDeclaration ==
  [][gen = "unit" /\ gen' = "visit" /\ fun' <= Len(mod) => mod[fun'].blocks = <<>>]_compilervars

\* The code that is generated is valid.
GeneratedIsValid ==
  gen \in {"unit", "undefined"} =>
    \A f \in 1 .. Len(mod) : Complete(mod[f]) => WellFormed(mod, f)

\* No assertion of the code generator fails.
GenAssertionsHold == gen # "aborted"
=============================================================================
