------------------------------ MODULE Semantic ------------------------------
(***************************************************************************)
(* The semantic analysis of packages/pom/pom_semantic.cpp: analyze() goes  *)
(* through the units of a program, and calculateType() walks the           *)
(* expression of each function as a stack machine with one frame for each  *)
(* active call.  What it learns of an expression goes into a map from      *)
(* ExprIds to types, which the code generator reads.                       *)
(***************************************************************************)
EXTENDS Types, PostOrder

CONSTANTS
  Build(_),   \* types::build: the type of a descriptor, or Invalid
  Programs    \* the programs to analyze, as the parser returns them

ASSUME ProgramsAssumption == \A p \in Programs : IsProgram(p) /\ InPostOrder(p)

VARIABLES
  program,    \* nodes, the expressions by number, and units
  build,      \* how the compiler was built: "debug" has assertions
  pc,         \* the point analyze or calculateType has reached
  current,    \* the unit being analyzed
  sig,        \* its signature, with a null return type if it declares none
  globals,    \* m_variables of the context of analyze
  locals,     \* m_variables of the context of the function
  expressions,\* m_expressions of the context of the function: types by ExprId
  stack,      \* active calls of calculateType, the innermost one first
  ret,        \* the type the last call returned
  analyzed    \* the semantic TopLevel

result == <<pc, stack, ret>>
toplevel == <<globals, current, analyzed>>
context == <<sig, locals, expressions, toplevel>>
input == <<program, build>>
vars == <<input, result, context>>

Node(n) == program.nodes[n]
Unit == program.units[current]
Top == Head(stack)

-----------------------------------------------------------------------------
(* Maps and results.  std::map::insert keeps the entry a key already has.  *)

Bind_Replaces(map, name, type) ==
  [x \in DOMAIN map \cup {name} |-> IF x = name THEN type ELSE map[x]]

Bind(map, name, type) ==
  [x \in DOMAIN map \cup {name} |-> IF x \in DOMAIN map THEN map[x] ELSE type]

\* Of two arguments with one name the first one counts.
BindArgs(map, args) ==
  LET Named(x) == {i \in 1 .. Len(args) : args[i].name = x}
      first(x) == CHOOSE i \in Named(x) : \A j \in Named(x) : i <= j
  IN  [x \in DOMAIN map \cup {args[i].name : i \in 1 .. Len(args)} |->
         IF x \in DOMAIN map THEN map[x] ELSE args[first(x)].type]

Stop(how) == pc' = how /\ UNCHANGED <<stack, ret>>
Fail == Stop("error")
AssertFails == Stop("aborted")
DereferenceNull == Stop("crashed")

Return(type) == pc' = "return" /\ ret' = type /\ stack' = Tail(stack)

Receive(type) ==
  /\ pc' = "visit"
  /\ stack' = <<[Top EXCEPT !.args = Append(@, type)]>> \o Tail(stack)
  /\ UNCHANGED ret

\* The entries are inserted; if one of the ids is in the map already,
\* assert(0) fails or, in a release build, the analysis does.
Record(entries, Continue) ==
  IF DOMAIN entries \cap DOMAIN expressions = {}
  THEN /\ expressions' = [n \in DOMAIN expressions \cup DOMAIN entries |->
                            IF n \in DOMAIN entries THEN entries[n] ELSE expressions[n]]
       /\ Continue
  ELSE /\ UNCHANGED <<expressions, toplevel>>
       /\ IF build = "debug" THEN AssertFails ELSE Fail

Returned(kind) == pc = "return" /\ stack # <<>> /\ Node(Top.node).kind = kind

\* calculateType is at the frame of a node, a null pointer being 0.
AtNode(kinds) == pc = "visit" /\ Top.node # 0 /\ Node(Top.node).kind \in kinds

ThisKid == Node(Top.node).kids[Len(Top.args) + 1]
KidsDone == Len(Top.args) = Len(Node(Top.node).kids)

-----------------------------------------------------------------------------
Init ==
  /\ program \in Programs
  /\ build \in {"debug", "release"}
  /\ pc = "analyze"
  /\ current = 1
  /\ sig = [name |-> "", args |-> <<>>, ret |-> Null]
  /\ globals = [x \in {} |-> Null] /\ locals = globals /\ expressions = globals
  /\ stack = <<>>
  /\ ret = Null
  /\ analyzed = <<>>

(* analyze of a signature, an extern declaration and a function.           *)

AllUnitsDone ==
  /\ pc = "analyze" /\ current > Len(program.units)
  /\ Stop("accepted")
  /\ UNCHANGED context

BuiltSig(unit) ==
  [name |-> unit.name,
   args |-> [i \in 1 .. Len(unit.args) |->
               [type |-> Build(unit.args[i].type), name |-> unit.args[i].name]],
   ret |-> IF unit.type = <<>> THEN Null ELSE Build(unit.type[1])]

CanBuild(unit) ==
  /\ \A i \in 1 .. Len(unit.args) : Build(unit.args[i].type) # Invalid
  /\ unit.type # <<>> => Build(unit.type[1]) # Invalid

signatureType(s) ==
  Function(s.ret, [i \in 1 .. Len(s.args) |-> s.args[i].type])

AtUnit(kind) ==
  pc = "analyze" /\ current <= Len(program.units) /\ Unit.kind = kind

BadSignature ==
  /\ \/ AtUnit("extern") /\ Unit.type = <<>>
     \/ AtUnit("extern") /\ ~CanBuild(Unit)
     \/ AtUnit("def") /\ ~CanBuild(Unit)
  /\ Fail
  /\ UNCHANGED context

AnalyzeExtern_NotPushed ==
  /\ AtUnit("extern") /\ Unit.type # <<>> /\ CanBuild(Unit)
  /\ globals' = Bind(globals, Unit.name, signatureType(BuiltSig(Unit)))
  /\ current' = current + 1
  /\ UNCHANGED <<result, sig, locals, expressions, analyzed>>

AnalyzeExtern ==
  /\ AtUnit("extern") /\ Unit.type # <<>> /\ CanBuild(Unit)
  /\ globals' = Bind(globals, Unit.name, signatureType(BuiltSig(Unit)))
  /\ analyzed' = Append(analyzed, [unit |-> current, sig |-> BuiltSig(Unit),
                                   variables |-> <<>>, expressions |-> <<>>])
  /\ current' = current + 1
  /\ UNCHANGED <<result, sig, locals, expressions>>

StartFunction_KeepsIds ==
  /\ AtUnit("def") /\ CanBuild(Unit)
  /\ sig' = BuiltSig(Unit)
  /\ locals' = BindArgs(globals, BuiltSig(Unit).args)
  /\ stack' = <<[node |-> Unit.body, args |-> <<>>]>> /\ pc' = "visit"
  /\ UNCHANGED <<ret, expressions, toplevel>>

StartFunction_BindsName ==
  /\ AtUnit("def") /\ CanBuild(Unit)
  /\ sig' = BuiltSig(Unit)
  /\ locals' = Bind(BindArgs(globals, BuiltSig(Unit).args), Unit.name, signatureType(BuiltSig(Unit)))
  /\ expressions' = [n \in {} |-> Null]
  /\ stack' = <<[node |-> Unit.body, args |-> <<>>]>> /\ pc' = "visit"
  /\ UNCHANGED <<ret, toplevel>>

\* Its own name is in scope only if it declares its return type.
StartFunction ==
  /\ AtUnit("def") /\ CanBuild(Unit)
  /\ sig' = BuiltSig(Unit)
  /\ LET bound == BindArgs(globals, BuiltSig(Unit).args)
     IN  locals' = IF Unit.type = <<>> THEN bound
                   ELSE Bind(bound, Unit.name, signatureType(BuiltSig(Unit)))
  /\ expressions' = [n \in {} |-> Null]
  /\ stack' = <<[node |-> Unit.body, args |-> <<>>]>> /\ pc' = "visit"
  /\ UNCHANGED <<ret, toplevel>>

\* The function is analyzed and its name becomes visible to later units.
AcceptFunction(s) ==
  Record([n \in {Unit.body} |-> ret],
         /\ analyzed' = Append(analyzed, [unit |-> current, sig |-> s,
                                          variables |-> locals, expressions |-> expressions'])
         /\ globals' = Bind(globals, s.name, signatureType(s))
         /\ current' = current + 1
         /\ pc' = "analyze" /\ UNCHANGED <<stack, ret>>)

EndFunction_Unchecked ==
  /\ pc = "return" /\ stack = <<>>
  /\ ret # Null \/ build = "release"
  /\ AcceptFunction(IF Unit.type = <<>> THEN [sig EXCEPT !.ret = ret] ELSE sig)
  /\ UNCHANGED <<sig, locals>>

EndFunction ==
  /\ pc = "return" /\ stack = <<>>
  /\ \/ /\ ret = Null /\ build = "debug"
        /\ AssertFails
        /\ UNCHANGED <<expressions, toplevel>>
     \/ /\ ret # Null \/ build = "release"
        /\ Unit.type = <<>>
        /\ AcceptFunction([sig EXCEPT !.ret = ret])
     \/ /\ ret # Null \/ build = "release"
        /\ Unit.type # <<>>
        /\ \/ /\ Compare(sig.ret, ret) = "same"
              /\ AcceptFunction(sig)
           \/ /\ Compare(sig.ret, ret) = "differ"
              /\ Fail /\ UNCHANGED <<expressions, toplevel>>
           \/ /\ Compare(sig.ret, ret) = "crash"
              /\ DereferenceNull /\ UNCHANGED <<expressions, toplevel>>
  /\ UNCHANGED <<sig, locals>>

-----------------------------------------------------------------------------
(* calculateType.                                                          *)

VisitNull ==
  /\ pc = "visit" /\ Top.node = 0
  /\ DereferenceNull
  /\ UNCHANGED context

LiteralType(value) ==
  CASE value \in RealLiteral    -> Real
    [] value \in IntegerLiteral -> Integer
    [] value \in BooleanLiteral -> Boolean

VisitLiteral ==
  /\ AtNode({"literal"})
  /\ Return(LiteralType(Node(Top.node).name))
  /\ UNCHANGED context

VisitVar ==
  /\ AtNode({"var", "subscript"})
  /\ LET name == Node(Top.node).name
     IN  \/ /\ name \notin DOMAIN locals
            /\ Fail
         \/ /\ name \in DOMAIN locals /\ Node(Top.node).kind = "var"
            /\ Return(locals[name])
         \/ /\ name \in DOMAIN locals /\ Node(Top.node).kind = "subscript"
            /\ Return(subscriptedType(locals[name]))
  /\ UNCHANGED context

VisitKid ==
  /\ AtNode({"list", "call", "binary"})
  /\ ~KidsDone
  /\ stack' = <<[node |-> ThisKid, args |-> <<>>]>> \o stack
  /\ UNCHANGED <<pc, ret, context>>

ReceiveElement_NoFirst ==
  /\ Returned("list")
  /\ LET first == IF Top.args = <<>> THEN Null ELSE Top.args[1]
         how == IF ret = Null /\ build = "debug" THEN "assert" ELSE Compare(first, ret)
     IN  \/ /\ how = "same" /\ Record([n \in {ThisKid} |-> first], Receive(ret) /\ UNCHANGED toplevel)
         \/ /\ how = "differ" /\ Fail /\ UNCHANGED <<expressions, toplevel>>
         \/ /\ how = "crash" /\ DereferenceNull /\ UNCHANGED <<expressions, toplevel>>
         \/ /\ how = "assert" /\ AssertFails /\ UNCHANGED <<expressions, toplevel>>
  /\ UNCHANGED <<sig, locals>>

\* The elements of a list have the type of its first one.
ReceiveElement ==
  /\ Returned("list")
  /\ LET first == Head(Append(Top.args, ret))
         how == IF ret = Null /\ build = "debug" THEN "assert" ELSE Compare(first, ret)
     IN  \/ /\ how = "same" /\ Record([n \in {ThisKid} |-> first], Receive(ret) /\ UNCHANGED toplevel)
         \/ /\ how = "differ" /\ Fail /\ UNCHANGED <<expressions, toplevel>>
         \/ /\ how = "crash" /\ DereferenceNull /\ UNCHANGED <<expressions, toplevel>>
         \/ /\ how = "assert" /\ AssertFails /\ UNCHANGED <<expressions, toplevel>>
  /\ UNCHANGED <<sig, locals>>

ReceiveArg ==
  /\ Returned("call")
  /\ Record([n \in {ThisKid} |-> ret], Receive(ret) /\ UNCHANGED toplevel)
  /\ UNCHANGED <<sig, locals>>

ReceiveOperand_Forgets ==
  /\ Returned("binary")
  /\ pc' = "visit"
  /\ UNCHANGED <<stack, ret, context>>

ReceiveOperand ==
  /\ Returned("binary")
  /\ Receive(ret)
  /\ UNCHANGED context

FinishList ==
  /\ AtNode({"list"}) /\ KidsDone
  /\ Return(IF Top.args = <<>> THEN List(Null) ELSE List(Top.args[1]))
  /\ UNCHANGED context

Finish(outcome) ==
  \/ outcome.kind = "found" /\ Return(outcome.type)
  \/ outcome.kind = "missing" /\ Fail
  \/ outcome.kind = "crash" /\ DereferenceNull

FinishBinary_ForgetsLeft ==
  /\ AtNode({"binary"}) /\ KidsDone
  /\ Record([n \in {Node(Top.node).kids[2]} |-> Top.args[2]],
            /\ \E outcome \in getBuiltin(Node(Top.node).name, Top.args) : Finish(outcome)
            /\ UNCHANGED toplevel)
  /\ UNCHANGED <<sig, locals>>

FinishBinary ==
  /\ AtNode({"binary"}) /\ KidsDone
  /\ LET kids == Node(Top.node).kids
     IN  Record([n \in {kids[1], kids[2]} |-> IF n = kids[1] THEN Top.args[1] ELSE Top.args[2]],
                /\ \E outcome \in getBuiltin(Node(Top.node).name, Top.args) : Finish(outcome)
                /\ UNCHANGED toplevel)
  /\ UNCHANGED <<sig, locals>>

\* A builtin that fits comes before a function of the context.
CallOutcomes(name, args) ==
  LET builtin == getBuiltin(name, args)
  IN  IF Missing \in builtin /\ name \in DOMAIN locals
      THEN (builtin \ {Missing}) \cup Callable(locals[name], args)
      ELSE builtin

FinishCall ==
  /\ AtNode({"call"}) /\ KidsDone
  /\ \E outcome \in CallOutcomes(Node(Top.node).name, Top.args) : Finish(outcome)
  /\ UNCHANGED context

-----------------------------------------------------------------------------
Next ==
  /\ UNCHANGED input
  /\ \/ AllUnitsDone \/ BadSignature \/ AnalyzeExtern
     \/ StartFunction \/ EndFunction
     \/ VisitNull \/ VisitLiteral \/ VisitVar \/ VisitKid
     \/ ReceiveElement \/ ReceiveArg \/ ReceiveOperand
     \/ FinishList \/ FinishBinary \/ FinishCall

Spec == Init /\ [][Next]_vars

\* analyze() is one sequential function: it goes on until it returns.
FairSpec == Spec /\ WF_vars(Next)

Halted == pc \in {"accepted", "error", "aborted", "crashed"}

-----------------------------------------------------------------------------
\* Shapes of the state.  Every unit passed has been pushed, and a frame has
\* no more results than its node has operands.
TypeOK ==
  /\ build \in {"debug", "release"}
  /\ pc \in {"analyze", "visit", "return", "accepted", "error", "aborted", "crashed"}
  /\ current \in 1 .. Len(program.units) + 1
  /\ Len(analyzed) = current - 1
  /\ DOMAIN globals = {program.units[u].name : u \in 1 .. current - 1}
  /\ DOMAIN expressions \subseteq 1 .. Len(program.nodes)
  /\ \A i \in 1 .. Len(stack) :
       /\ stack[i].node \in 0 .. Len(program.nodes)
       /\ stack[i].node # 0 => Len(stack[i].args) <= Len(Node(stack[i].node).kids)
  /\ pc = "visit" => stack # <<>>

Functions == {i \in 1 .. Len(analyzed) : program.units[analyzed[i].unit].kind = "def"}

\* The parser numbers the expressions of each function after those of the
\* functions before it, so these are the ids of the function's expressions.
IdsOf(u) ==
  {n \in 1 .. Len(program.nodes) :
     /\ n <= program.units[u].body
     /\ \A v \in 1 .. u - 1 : program.units[v].kind = "def" => n > program.units[v].body}

\* The code generator looks up every expression of a function in its context:
\* each has an entry, and none is there of another function.
ContextIsComplete ==
  \A i \in Functions : DOMAIN analyzed[i].expressions = IdsOf(analyzed[i].unit)

\* The arguments agree with the parameters as far as both go.
Fits(args, params) ==
  \A i \in 1 .. Len(args) : i <= Len(params) => args[i] = params[i]

\* The rule of each kind of expression: its type, given its operands' types.
Rule(node, type, args, variables) ==
  LET Entries == {Builtins[k] : k \in EntriesOf(node.name)}
  IN  CASE node.kind = "literal" -> type = LiteralType(node.name)
        [] node.kind = "var" -> node.name \in DOMAIN variables /\ type = variables[node.name]
        [] node.kind = "subscript" ->
             /\ node.name \in DOMAIN variables
             /\ IF variables[node.name].name = "list" THEN variables[node.name] = List(type)
                                                      ELSE type = Null
        [] node.kind = "list" ->
             /\ \A k \in 1 .. Len(args) : type = List(args[k])
             /\ args = <<>> => type = List(Null)
        [] node.kind = "binary" -> Op(node.name, args, type) \in Entries
        [] node.kind = "call" ->
             \/ \E entry \in Entries : Fits(args, entry.args) /\ type = entry.ret
             \/ /\ \A entry \in Entries : Len(args) <= Len(entry.args) => ~Fits(args, entry.args)
                /\ node.name \in DOMAIN variables /\ variables[node.name].name = "fun"
                /\ Fits(args, Tail(variables[node.name].args))
                /\ type = Head(variables[node.name].args)

\* It holds of an expression and its operands in the map of a function.
WellTypedNode(n, types, variables) ==
  Rule(Node(n), types[n], [k \in 1 .. Len(Node(n).kids) |-> types[Node(n).kids[k]]], variables)

\* The types recorded for a function obey the rules of the language
\* together, and its return type is what it declares and what it evaluates
\* to: the code generator repeats each lookup with the recorded types and
\* takes it that it succeeds.
WellTyped ==
  \A i \in Functions :
    LET unit == program.units[analyzed[i].unit]
        types == analyzed[i].expressions
    IN  /\ \A n \in DOMAIN types : WellTypedNode(n, types, analyzed[i].variables)
        /\ analyzed[i].sig.ret = types[unit.body]
        /\ unit.type # <<>> => types[unit.body] = Build(unit.type[1])

\* Two types in use are equal, that is their mangled names are, only if they
\* are the same type.
EqualIsSame ==
  LET InUse == {locals[x] : x \in DOMAIN locals} \cup {expressions[n] : n \in DOMAIN expressions}
  IN  \A a, b \in InUse : Compare(a, b) = "same" => a = b

\* A call of the function's own name needs a declared return type, unless
\* the name means something else that was there first.
RecursionIsDeclared ==
  \A i \in Functions :
    LET unit == program.units[analyzed[i].unit]
    IN  (\E n \in IdsOf(analyzed[i].unit) :
           Node(n).kind = "call" /\ Node(n).name = unit.name /\ EntriesOf(unit.name) = {})
        => \/ unit.type # <<>>
           \/ \E v \in 1 .. analyzed[i].unit - 1 : program.units[v].name = unit.name
           \/ \E k \in 1 .. Len(unit.args) : unit.args[k].name = unit.name

\* Programs without null pointers, empty lists and subscripts, whose calls
\* have no more arguments than anything of that name takes.
Arities(name) ==
  {Len(Builtins[k].args) : k \in EntriesOf(name)}
    \cup {Len(u.args) : u \in {u \in {program.units[v] : v \in 1 .. Len(program.units)} :
                                u.name = name}}
    \cup {Len(Build(a.type).args) - 1 :
            a \in {a \in UNION {{program.units[v].args[k] : k \in 1 .. Len(program.units[v].args)} :
                                  v \in 1 .. Len(program.units)} : a.name = name}}

Harmless ==
  /\ \A u \in 1 .. Len(program.units) :
       program.units[u].kind = "def" => program.units[u].body # 0
  /\ \A n \in 1 .. Len(program.nodes) :
       /\ \A k \in 1 .. Len(Node(n).kids) : Node(n).kids[k] # 0
       /\ Node(n).kind # "subscript"
       /\ Node(n).kind = "list" => Node(n).kids # <<>>
       /\ Node(n).kind = "call" => \A m \in Arities(Node(n).name) : Len(Node(n).kids) <= m

\* On those, no null pointer is dereferenced and no assertion fails.
HarmlessIsSafe == pc \in {"crashed", "aborted"} => ~Harmless

\* A name that units have defined keeps its type for all later units.
GlobalsStable ==
  [][\A x \in DOMAIN globals : x \in DOMAIN globals' /\ globals'[x] = globals[x]]_vars

\* analyze() returns, or crashes, on every program.
Terminates == <>Halted

\* No assertion of the semantic analysis fails on a program that was parsed:
\* every expression it accepts has a type.
AssertionsHold == pc # "aborted"
=============================================================================
