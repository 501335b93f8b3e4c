--------------------------- MODULE ConflakeProofs ---------------------------
(***************************************************************************)
(* The phases together: the invariants of the analysis, of SemanticProofs  *)
(* and TypingProofs, and of the code generator, of CodegenProofs and       *)
(* ValueProofs, in the compiler, and the order of the phases in the        *)
(* command line program.  With the invariants of the parser, of            *)
(* ParserProofs, what is assumed of the programs of the analysis is a fact *)
(* about files: the parser has made them.                                  *)
(***************************************************************************)
EXTENDS Conflake, TypingProofs

P == INSTANCE ValueProofs

-----------------------------------------------------------------------------
(* The operators of Codegen are there twice, as those of Gen and those of  *)
(* P, with the same definitions: every step of the one is one of the other.*)

LEMMA SameInit == Gen!GenInit => P!GenInit
BY DEF Gen!GenInit, P!GenInit, Gen!NoValue, P!NoValue, Gen!Constant, P!Constant,
       Gen!Value, P!Value, Gen!Ty, P!Ty, Gen!Null, P!Null, Gen!Type, P!Type

LEMMA SameStep ==
  ASSUME Gen!GenNext PROVE P!GenNext
<1>1. UNCHANGED P!inputs
  BY DEF Gen!GenNext, Gen!inputs, P!inputs
<1>2. Gen!GenExtern => P!GenExtern
  BY ZenonT(60) DEF Gen!GenExtern, P!GenExtern, Gen!AtUnit, P!AtUnit, Gen!Unit, P!Unit,
         Gen!AssertionFails, P!AssertionFails, Gen!Halt, P!Halt, Gen!Created, P!Created,
         Gen!chosen, P!chosen, Gen!translation, P!translation, Gen!Declaration,
         P!Declaration, Gen!FunctionsNamed, P!FunctionsNamed, Gen!FunctionType,
         P!FunctionType, Gen!ArgumentNames, P!ArgumentNames, Gen!Ty, P!Ty,
         Gen!Cardinality, P!Cardinality
<1>3. Gen!GenFunction => P!GenFunction
  BY ZenonT(60) DEF Gen!GenFunction, P!GenFunction, Gen!AtUnit, P!AtUnit, Gen!FunctionsNamed,
         P!FunctionsNamed, Gen!Unit, P!Unit, Gen!HasNull, P!HasNull, Gen!Halt, P!Halt,
         Gen!EnterFunction, P!EnterFunction, Gen!Created, P!Created, Gen!chosen,
         P!chosen, Gen!DereferencesNull, P!DereferencesNull, Gen!translation,
         P!translation, Gen!ParameterNames, P!ParameterNames, Gen!ParameterValue,
         P!ParameterValue, Gen!Start, P!Start, Gen!Declaration, P!Declaration,
         Gen!FunctionType, P!FunctionType, Gen!ArgumentNames, P!ArgumentNames,
         Gen!Argument, P!Argument, Gen!Double, P!Double, Gen!NoValue, P!NoValue, Gen!Ty,
         P!Ty, Gen!Value, P!Value, Gen!Constant, P!Constant, Gen!Cardinality,
         P!Cardinality
<1>4. Gen!FinishFunction => P!FinishFunction
  BY DEF Gen!FinishFunction, P!FinishFunction, Gen!Instruction, P!Instruction,
         Gen!WellFormed, P!WellFormed, Gen!chosen, P!chosen, Gen!Simplified,
         P!Simplified, Gen!Unit, P!Unit, Gen!WellStructured, P!WellStructured,
         Gen!WellTypedCode, P!WellTypedCode, Gen!Reachable, P!Reachable, Gen!BlocksEnd,
         P!BlocksEnd, Gen!PhisMatch, P!PhisMatch, Gen!UsesComputed, P!UsesComputed,
         Gen!Typed, P!Typed, Gen!ReachableAvoiding, P!ReachableAvoiding, Gen!Terminated,
         P!Terminated, Gen!Terminators, P!Terminators, Gen!Successors, P!Successors,
         Gen!Elements, P!Elements, Gen!Predecessors, P!Predecessors, Gen!ComputedBefore,
         P!ComputedBefore, Gen!Int64, P!Int64, Gen!Bool, P!Bool, Gen!Double, P!Double,
         Gen!Pointer, P!Pointer, Gen!FunctionType, P!FunctionType, Gen!ReturnTypeOf,
         P!ReturnTypeOf, Gen!Dominates, P!Dominates, Gen!Ty, P!Ty
<1>5. Gen!GenLiteral => P!GenLiteral
  BY DEF Gen!GenLiteral, P!GenLiteral, Gen!Visiting, P!Visiting, Gen!Yield, P!Yield,
         Gen!LiteralValue, P!LiteralValue, Gen!Node, P!Node, Gen!Top, P!Top,
         Gen!translation, P!translation, Gen!chosen, P!chosen, Gen!Constant, P!Constant,
         Gen!Double, P!Double, Gen!Int64, P!Int64, Gen!Bool, P!Bool, Gen!Value, P!Value,
         Gen!Ty, P!Ty
<1>6. Gen!GenFunctionName => P!GenFunctionName
  BY ZenonT(60) DEF Gen!GenFunctionName, P!GenFunctionName, Gen!Visiting, P!Visiting,
         Gen!FunctionsNamed, P!FunctionsNamed, Gen!Node, P!Node, Gen!Top, P!Top,
         Gen!Yield, P!Yield, Gen!Address, P!Address, Gen!translation, P!translation,
         Gen!chosen, P!chosen, Gen!Value, P!Value, Gen!Pointer, P!Pointer, Gen!Ty, P!Ty
<1>7. Gen!GenVar => P!GenVar
  BY ZenonT(60) DEF Gen!GenVar, P!GenVar, Gen!Visiting, P!Visiting, Gen!FunctionsNamed,
         P!FunctionsNamed, Gen!Node, P!Node, Gen!Top, P!Top, Gen!subscriptedType,
         P!subscriptedType, Gen!Unit, P!Unit, Gen!Result, P!Result, Gen!Place, P!Place,
         Gen!Failed, P!Failed, Gen!Yield, P!Yield, Gen!translation, P!translation,
         Gen!chosen, P!chosen, Gen!Null, P!Null, Gen!Insert, P!Insert, Gen!Instruction,
         P!Instruction, Gen!Pointer, P!Pointer, Gen!Value, P!Value, Gen!Callees,
         P!Callees, Gen!Halt, P!Halt, Gen!Type, P!Type, Gen!Ty, P!Ty, Gen!Elements,
         P!Elements
<1>8. Gen!GenKid => P!GenKid
  BY DEF Gen!GenKid, P!GenKid, Gen!Top, P!Top, Gen!Kids, P!Kids, Gen!Start, P!Start,
         Gen!translation, P!translation, Gen!chosen, P!chosen, Gen!Node, P!Node,
         Gen!Double, P!Double, Gen!NoValue, P!NoValue, Gen!Ty, P!Ty, Gen!Constant,
         P!Constant, Gen!Value, P!Value
<1>9. Gen!GenValue => P!GenValue
  BY DEF Gen!GenValue, P!GenValue, Gen!Got, P!Got, Gen!Collect, P!Collect,
         Gen!translation, P!translation, Gen!chosen, P!chosen, Gen!Top, P!Top,
         Gen!Become, P!Become
<1>10. Gen!StartList => P!StartList
  BY DEF Gen!StartList, P!StartList, Gen!Visiting, P!Visiting, Gen!Become, P!Become,
         Gen!Top, P!Top, Gen!translation, P!translation, Gen!chosen, P!chosen, Gen!Node,
         P!Node
<1>11. Gen!FinishList => P!FinishList
  BY ZenonT(60) DEF Gen!FinishList, P!FinishList, Gen!Building, P!Building, Gen!Top, P!Top,
         Gen!Kids, P!Kids, Gen!AssertionFails, P!AssertionFails, Gen!Halt, P!Halt,
         Gen!PrimitiveSize, P!PrimitiveSize, Gen!expressionType, P!expressionType,
         Gen!Failed, P!Failed, Gen!WithMalloc, P!WithMalloc, Gen!ListCode, P!ListCode,
         Gen!Yield, P!Yield, Gen!Result, P!Result, Gen!Place, P!Place, Gen!Pointer,
         P!Pointer, Gen!chosen, P!chosen, Gen!Node, P!Node, Gen!translation,
         P!translation, Gen!Double, P!Double, Gen!Int64, P!Int64, Gen!Unit, P!Unit,
         Gen!Callees, P!Callees, Gen!Declaration, P!Declaration, Gen!FunctionType,
         P!FunctionType, Gen!Int8, P!Int8, Gen!Instruction, P!Instruction,
         Gen!MallocCode, P!MallocCode, Gen!Value, P!Value, Gen!Ty, P!Ty, Gen!Elements,
         P!Elements, Gen!Address, P!Address
<1>12. Gen!GenBinary => P!GenBinary
  BY ZenonT(60) DEF Gen!GenBinary, P!GenBinary, Gen!Visiting, P!Visiting, Gen!getBuiltin,
         P!getBuiltin, Gen!Node, P!Node, Gen!Top, P!Top, Gen!OperandTypes,
         P!OperandTypes, Gen!StartBuiltin, P!StartBuiltin, Gen!AssertionFails,
         P!AssertionFails, Gen!Failed, P!Failed, Gen!Halt, P!Halt, Gen!EntriesOf,
         P!EntriesOf, Gen!Matching, P!Matching, Gen!Builtins, P!Builtins, Gen!HasNull,
         P!HasNull, Gen!Found, P!Found, Gen!Crash, P!Crash, Gen!Missing, P!Missing,
         Gen!Kids, P!Kids, Gen!expressionType, P!expressionType, Gen!BuildersOf,
         P!BuildersOf, Gen!Become, P!Become, Gen!translation, P!translation, Gen!chosen,
         P!chosen, Gen!Callees, P!Callees, Gen!Compare, P!Compare, Gen!Op, P!Op,
         Gen!Real, P!Real, Gen!Integer, P!Integer, Gen!Boolean, P!Boolean,
         Gen!DereferencesNull, P!DereferencesNull, Gen!Outcome, P!Outcome, Gen!Null,
         P!Null, Gen!Unit, P!Unit, Gen!Builders, P!Builders, Gen!Elements, P!Elements,
         Gen!Type, P!Type, Gen!Builder, P!Builder
<1>13. Gen!GenCall => P!GenCall
  BY ZenonT(60) DEF Gen!GenCall, P!GenCall, Gen!Visiting, P!Visiting, Gen!getBuiltin, P!getBuiltin,
         Gen!Node, P!Node, Gen!Top, P!Top, Gen!OperandTypes, P!OperandTypes,
         Gen!StartBuiltin, P!StartBuiltin, Gen!FindCallee, P!FindCallee, Gen!Halt,
         P!Halt, Gen!EntriesOf, P!EntriesOf, Gen!Matching, P!Matching, Gen!Builtins,
         P!Builtins, Gen!HasNull, P!HasNull, Gen!Found, P!Found, Gen!Crash, P!Crash,
         Gen!Missing, P!Missing, Gen!Kids, P!Kids, Gen!expressionType, P!expressionType,
         Gen!BuildersOf, P!BuildersOf, Gen!Failed, P!Failed, Gen!Become, P!Become,
         Gen!translation, P!translation, Gen!chosen, P!chosen, Gen!FunctionsNamed,
         P!FunctionsNamed, Gen!StartCall, P!StartCall, Gen!Address, P!Address,
         Gen!ReturnTypeOf, P!ReturnTypeOf, Gen!Unit, P!Unit, Gen!Compare, P!Compare,
         Gen!Op, P!Op, Gen!Real, P!Real, Gen!Integer, P!Integer, Gen!Boolean, P!Boolean,
         Gen!DereferencesNull, P!DereferencesNull, Gen!Outcome, P!Outcome, Gen!Null,
         P!Null, Gen!Builders, P!Builders, Gen!Callees, P!Callees, Gen!Value, P!Value,
         Gen!Pointer, P!Pointer, Gen!Type, P!Type, Gen!Builder, P!Builder, Gen!Elements,
         P!Elements, Gen!Ty, P!Ty
<1>14. Gen!FinishCall => P!FinishCall
  BY ZenonT(60) DEF Gen!FinishCall, P!FinishCall, Gen!Building, P!Building, Gen!Top, P!Top,
         Gen!Kids, P!Kids, Gen!Produce, P!Produce, Gen!chosen, P!chosen, Gen!Node,
         P!Node, Gen!Insert, P!Insert, Gen!Instruction, P!Instruction, Gen!Yield,
         P!Yield, Gen!Result, P!Result, Gen!Place, P!Place, Gen!Value, P!Value
<1>15. Gen!FinishOperator => P!FinishOperator
  BY ZenonT(60) DEF Gen!FinishOperator, P!FinishOperator, Gen!Building, P!Building, Gen!Top, P!Top,
         Gen!Kids, P!Kids, Gen!Halt, P!Halt, Gen!Bool, P!Bool, Gen!Produce, P!Produce,
         Gen!chosen, P!chosen, Gen!Node, P!Node, Gen!translation, P!translation, Gen!Ty,
         P!Ty, Gen!Insert, P!Insert, Gen!Instruction, P!Instruction, Gen!Yield, P!Yield,
         Gen!Result, P!Result, Gen!Place, P!Place, Gen!Value, P!Value
<1>16. Gen!IfCondition => P!IfCondition
  BY DEF Gen!IfCondition, P!IfCondition, Gen!Got, P!Got, Gen!Top, P!Top,
         Gen!Instruction, P!Instruction, Gen!Bool, P!Bool, Gen!Result, P!Result,
         Gen!Place, P!Place, Gen!Become, P!Become, Gen!Collected, P!Collected,
         Gen!chosen, P!chosen, Gen!Ty, P!Ty, Gen!Value, P!Value
<1>17. Gen!IfThen => P!IfThen
  BY DEF Gen!IfThen, P!IfThen, Gen!Got, P!Got, Gen!Top, P!Top, Gen!EndBranch,
         P!EndBranch, Gen!Become, P!Become, Gen!Collected, P!Collected, Gen!chosen,
         P!chosen, Gen!Instruction, P!Instruction, Gen!Bool, P!Bool, Gen!Ty, P!Ty
<1>18. Gen!IfElse => P!IfElse
  BY DEF Gen!IfElse, P!IfElse, Gen!Got, P!Got, Gen!Top, P!Top, Gen!Double, P!Double,
         Gen!Int64, P!Int64, Gen!Instruction, P!Instruction, Gen!Bool, P!Bool,
         Gen!Yield, P!Yield, Gen!Result, P!Result, Gen!chosen, P!chosen, Gen!Ty, P!Ty,
         Gen!Value, P!Value
<1>19. Gen!IfTooShort => P!IfTooShort
  BY DEF Gen!IfTooShort, P!IfTooShort, Gen!Building, P!Building, Gen!Top, P!Top,
         Gen!Kids, P!Kids, Gen!Halt, P!Halt, Gen!Node, P!Node, Gen!translation,
         P!translation, Gen!chosen, P!chosen
<1>20. Gen!NothingToRun => P!NothingToRun
  BY DEF Gen!NothingToRun, P!NothingToRun, Gen!AtEnd, P!AtEnd, Gen!translation,
         P!translation, Gen!chosen, P!chosen
<1>21. Gen!SymbolNotFound => P!SymbolNotFound
  BY DEF Gen!SymbolNotFound, P!SymbolNotFound, Gen!AtEnd, P!AtEnd, Gen!Unresolved,
         P!Unresolved, Gen!Used, P!Used, Gen!translation, P!translation, Gen!chosen,
         P!chosen, Gen!Callees, P!Callees, Gen!Elements, P!Elements
<1>22. Gen!RunLast => P!RunLast
  BY DEF Gen!RunLast, P!RunLast, Gen!AtEnd, P!AtEnd, Gen!Unresolved, P!Unresolved,
         Gen!SurelyUsed, P!SurelyUsed, Gen!HasNull, P!HasNull, Gen!Real, P!Real,
         Gen!Integer, P!Integer, Gen!Boolean, P!Boolean, Gen!FunctionsNamed,
         P!FunctionsNamed, Gen!ReturnTypeOf, P!ReturnTypeOf, Gen!translation,
         P!translation, Gen!chosen, P!chosen, Gen!Callees, P!Callees,
         Gen!DereferencesNull, P!DereferencesNull, Gen!Type, P!Type, Gen!Elements,
         P!Elements
<1> QED BY <1>1, <1>2, <1>3, <1>4, <1>5, <1>6, <1>7, <1>8, <1>9, <1>10, <1>11, <1>12,
       <1>13, <1>14, <1>15, <1>16, <1>17, <1>18, <1>19, <1>20, <1>21, <1>22 DEF
       Gen!GenNext, P!GenNext

LEMMA SameGraphs ==
  ASSUME NEW f
  PROVE  /\ Complete(f) <=> P!Complete(f)
         /\ RunnableCode(f) = P!RunnableCode(f)
<1>1. Complete(f) <=> P!Complete(f)
  BY DEF Complete, P!Complete, Reachable, P!Reachable, ReachableAvoiding,
         P!ReachableAvoiding, Terminated, P!Terminated, Terminators, P!Terminators,
         Successors, P!Successors, Elements, P!Elements
<1>2. RunnableCode(f) = P!RunnableCode(f)
  BY DEF RunnableCode, P!RunnableCode, Reachable, P!Reachable, ReachableAvoiding,
         P!ReachableAvoiding, Terminated, P!Terminated, Terminators, P!Terminators,
         Successors, P!Successors, Elements, P!Elements
<1> QED BY <1>1, <1>2

LEMMA SameStructure ==
  ASSUME NEW m, NEW n, P!WellStructured(m, n) PROVE WellStructured(m, n)
  BY DEF WellStructured, P!WellStructured, BlocksEnd, P!BlocksEnd, PhisMatch,
         P!PhisMatch, UsesComputed, P!UsesComputed, Terminated, P!Terminated,
         Terminators, P!Terminators, Successors, P!Successors, Elements, P!Elements,
         Predecessors, P!Predecessors, Reachable, P!Reachable, ComputedBefore,
         P!ComputedBefore, ReachableAvoiding, P!ReachableAvoiding, Dominates,
         P!Dominates

-----------------------------------------------------------------------------
LEMMA GeneratorHolds ==
  ASSUME P!GenInv, [CompilerNext]_compilervars PROVE P!GenInv' /\ P!AllFrozen
<1>1. CASE Generate
  <2>1. P!GenNext
    BY <1>1, SameStep DEF Generate
  <2> QED BY <2>1, P!NextHolds, KindsDiffer
<1>2. CASE UNCHANGED generated
  <2>1. UNCHANGED P!genvars
    BY <1>2 DEF generated, P!genvars, P!translation, P!chosen
  <2> QED BY <2>1, P!StutterHolds, KindsDiffer
<1> QED BY <1>1, <1>2 DEF CompilerNext, Analyze, Execute, compilervars

LEMMA GeneratorIsStructured ==
  ASSUME P!GenInv PROVE GeneratedIsStructured
<1> SUFFICES ASSUME NEW f \in Finished PROVE WellStructured(mod, f)
  BY DEF GeneratedIsStructured
<1>1. f \in 1 .. Len(mod) /\ Complete(mod[f]) /\ (gen \in {"visit", "return"} \/ frames # <<>> => f # fun)
  BY DEF Finished
<1>2. P!Complete(mod[f])
  BY <1>1, SameGraphs
<1>3. P!Open => f # fun
  BY <1>1 DEF P!Open
<1>4. P!WellStructured(mod, f)
  BY <1>1, <1>2, <1>3, P!FinishedIsStructured, KindsDiffer
<1> QED BY <1>4, SameStructure

-----------------------------------------------------------------------------
(* The compiler as its phases one after the other.                         *)

\* The compiler makes steps of the analysis, and steps that leave it alone:
\* what is proved of the analysis holds in the compiler.
THEOREM CompilerAnalyzes == CompilerSpec => Spec
<1>1. CompilerInit => Init
  BY DEF CompilerInit
<1>2. [CompilerNext]_compilervars => [Next]_vars
  BY DEF CompilerNext, Analyze, Generate, Execute, compilervars
<1> QED BY <1>1, <1>2, PTL DEF CompilerSpec, Spec

\* The expressions of a unit: the tree of its body.
Tree(p, u) ==
  {n \in 1 .. Len(p.nodes) :
     /\ u \in 1 .. Len(p.units) /\ p.units[u].kind = "def"
     /\ First(p, n) # 0 /\ First(p, Body(p, u)) <= First(p, n) /\ n <= Body(p, u)}

\* Operands are in the tree of their expression.
LEMMA TreeKids ==
  ASSUME NEW p, IsParsed(p), NEW u, NEW n \in Tree(p, u)
  PROVE  /\ Len(p.nodes[n].kids) \in Nat
         /\ \A k \in 1 .. Len(p.nodes[n].kids) : p.nodes[n].kids[k] \in Tree(p, u)
<1>1. /\ n \in 1 .. Len(p.nodes) /\ u \in 1 .. Len(p.units) /\ p.units[u].kind = "def"
      /\ First(p, n) # 0 /\ First(p, Body(p, u)) <= First(p, n) /\ n <= Body(p, u)
  BY DEF Tree
<1>2. Len(p.nodes[n].kids) \in Nat
  BY <1>1, NodeFacts
<1>3. ASSUME NEW k \in 1 .. Len(p.nodes[n].kids) PROVE Kid(p, n, k) \in Tree(p, u)
  <2>1. /\ Kid(p, n, k) \in 1 .. Len(p.nodes) /\ Kid(p, n, k) < n
        /\ First(p, n) <= First(p, Kid(p, n, k)) /\ First(p, Kid(p, n, k)) # 0
    BY <1>1, KidFacts, NodeFacts
  <2>2. Body(p, u) \in Nat /\ Len(p.nodes) \in Nat
    BY <1>1, UnitFacts, NodeFacts
  <2>3. First(p, n) \in Nat /\ First(p, Kid(p, n, k)) \in Nat /\ First(p, Body(p, u)) \in Nat
    <3>1. \A m \in 0 .. Len(p.nodes) : First(p, m) \in Nat
      <4> SUFFICES ASSUME NEW m \in 0 .. Len(p.nodes) PROVE First(p, m) \in Nat
        OBVIOUS
      <4>1. First(p, 0) = 0
        BY <1>1, NodeFacts
      <4>2. m # 0 => m \in 1 .. Len(p.nodes)
        BY <2>2
      <4> QED BY <4>1, <4>2, NodeFacts
    <3>2. Body(p, u) \in 0 .. Len(p.nodes)
      BY <1>1, UnitFacts
    <3>3. n \in 0 .. Len(p.nodes) /\ Kid(p, n, k) \in 0 .. Len(p.nodes)
      BY <1>1, <2>1, <2>2
    <3> QED BY <3>1, <3>2, <3>3
  <2>4. First(p, Body(p, u)) <= First(p, Kid(p, n, k)) /\ Kid(p, n, k) <= Body(p, u)
    BY <1>1, <2>1, <2>2, <2>3
  <2> QED BY <1>1, <2>1, <2>4 DEF Tree
<1> QED BY <1>2, <1>3 DEF Kid

\* What the analysis has of a unit it accepted are types of the unit's tree.
LEMMA TreeOfUnit ==
  ASSUME IsParsed(program), FunctionsDone(program, analyzed), Len(analyzed) <= Len(program.units),
         NEW u \in 1 .. Len(analyzed), Len(analyzed) \in Nat, program.units[u].kind = "def"
  PROVE  /\ analyzed[u].unit = u /\ program.units[u].body \in Tree(program, u)
         /\ Tree(program, u) \subseteq DOMAIN analyzed[u].expressions
<1> DEFINE p == program
           b == Body(p, u)
<1>1. analyzed[u].unit = u /\ First(p, b) # 0 /\ DOMAIN analyzed[u].expressions = Ids(p, u)
  BY DEF FunctionsDone
<1>2. u \in 1 .. Len(p.units) /\ Len(p.units) \in Nat
  BY DEF IsParsed, IsProgram
<1>3. \A v \in 1 .. u : p.units[v].kind = "def" => First(p, Body(p, v)) # 0
  <2>1. \A v \in 1 .. u : v \in 1 .. Len(analyzed)
    OBVIOUS
  <2> QED BY <2>1 DEF FunctionsDone
<1>4. b \in 1 .. Len(p.nodes) /\ First(p, b) .. b = Ids(p, u)
  BY <1>2, <1>3, BodyIds DEF Body
<1>5. First(p, b) \in 0 .. b /\ Len(p.nodes) \in Nat
  BY <1>4, NodeFacts
<1>6. b \in Tree(p, u)
  BY <1>1, <1>2, <1>4, <1>5 DEF Tree
<1>7. ASSUME NEW n \in Tree(p, u) PROVE n \in Ids(p, u)
  <2>1. n \in 1 .. Len(p.nodes) /\ First(p, b) <= First(p, n) /\ n <= b
    BY DEF Tree
  <2>2. First(p, n) \in 0 .. n
    BY <2>1, NodeFacts
  <2>3. n \in First(p, b) .. b
    BY <2>1, <2>2, <1>4, <1>5
  <2> QED BY <2>3, <1>4
<1> QED BY <1>1, <1>6, <1>7 DEF Body

\* The calls of the machine: it runs when the code generator is through.
MachineInv ==
  /\ IsSeq(calls) /\ Len(calls) <= Depth
  /\ calls # <<>> => gen = "run"
  /\ res.kind \in {"void", "value", "unknown", "undefined", "diverges"}

\* The inductive invariant of the compiler: those of the analysis and of the
\* code generator, which waits for the analysis and then goes through the
\* trees of the units one after the other, and the calls of the machine.
CompilerInv ==
  /\ SemanticInv
  /\ P!GenInv /\ P!ShapeInv(Tree(program, at))
  /\ pc # "accepted" => gen = "unit" /\ at = 1 /\ frames = <<>>
  /\ MachineInv

\* The trees are what the code generator needs to go on.
LEMMA TreesAreExpressions ==
  ASSUME SemanticInv, at \in Nat \ {0}, NEW N, N = Tree(program, at)
  PROVE  P!Expressions(N)
<1>1. /\ IsParsed(program) /\ FunctionsDone(program, analyzed) /\ Len(analyzed) = current - 1
      /\ current \in 1 .. Len(program.units) + 1 /\ IsSeq(analyzed)
  BY DEF SemanticInv, AnalyzedInv
<1>2. Len(analyzed) \in Nat /\ Len(program.units) \in Nat /\ Len(analyzed) <= Len(program.units)
  <2>1. Len(program.units) \in Nat
    BY <1>1 DEF IsParsed, IsProgram
  <2> QED BY <1>1, <2>1
<1>3. \A n \in N : /\ Len(program.nodes[n].kids) \in Nat
                   /\ \A k \in 1 .. Len(program.nodes[n].kids) : program.nodes[n].kids[k] \in N
  BY <1>1, TreeKids
<1>4. at <= Len(analyzed) /\ program.units[analyzed[at].unit].kind = "def"
        => program.units[analyzed[at].unit].body \in N
  <2> SUFFICES ASSUME at <= Len(analyzed), program.units[analyzed[at].unit].kind = "def"
               PROVE  program.units[analyzed[at].unit].body \in N
    OBVIOUS
  <2>1. at \in 1 .. Len(analyzed)
    BY <1>2
  <2>2. analyzed[at].unit = at
    BY <1>1, <2>1 DEF FunctionsDone
  <2> QED BY <1>1, <1>2, <2>1, <2>2, TreeOfUnit
<1> QED BY <1>2, <1>3, <1>4 DEF P!Expressions, P!Node, P!Unit

\* Where the compiler starts: with a program in post-order, and nothing done.
Starts == Begun /\ P!GenInit /\ Code!MachineInit

LEMMA StartsInv == Starts => CompilerInv
<1> SUFFICES ASSUME Starts PROVE CompilerInv
  OBVIOUS
<1>1. SemanticInv
  BY BegunInv DEF Starts
<1>2. P!GenInit
  BY DEF Starts
<1>3. P!GenInv
  BY <1>2, P!InitHolds, KindsDiffer
<1>4. gen = "unit" /\ at = 1 /\ frames = <<>>
  BY <1>2 DEF P!GenInit
<1>5. PICK N : N = Tree(program, at)
  OBVIOUS
<1>6. P!Expressions(N)
  BY <1>1, <1>4, <1>5, TreesAreExpressions
<1>7. P!ShapeInv(N)
  BY <1>2, <1>6, P!ShapeInit, KindsDiffer
<1>8. MachineInv
  <2>1. calls = <<>> /\ res.kind = "void"
    BY DEF Starts, Code!MachineInit
  <2>2. Len(calls) = 0 /\ IsSeq(calls)
    BY <2>1 DEF IsSeq
  <2> QED BY <2>1, <2>2, MachineAssumption DEF MachineInv
<1> QED BY <1>1, <1>3, <1>4, <1>5, <1>7, <1>8 DEF CompilerInv

LEMMA CompilerInvInit == CompilerInit => CompilerInv
<1>1. CompilerInit => Starts
  BY InitBegun, SameInit DEF CompilerInit, Starts
<1> QED BY <1>1, StartsInv

\* The analysis is over when it has accepted a program,
LEMMA AcceptedIsLast ==
  ASSUME Next PROVE pc # "accepted"
BY DEF Next, AllUnitsDone, BadSignature, AnalyzeExtern, StartFunction, EndFunction, AtUnit, VisitNull,
       VisitLiteral, VisitVar, VisitKid, AtNode, ReceiveElement, ReceiveArg, ReceiveOperand, Returned,
       FinishList, FinishBinary, FinishCall

\* and the code generator when the machine runs.
LEMMA RunIsLast ==
  ASSUME P!GenNext PROVE gen \in {"unit", "visit", "return"}
BY DEF P!GenNext, P!GenExtern, P!GenFunction, P!AtUnit, P!FinishFunction, P!GenLiteral,
       P!GenFunctionName, P!GenVar, P!Visiting, P!GenKid, P!GenValue, P!Got, P!StartList,
       P!FinishList, P!Building, P!GenBinary, P!GenCall, P!FinishCall, P!FinishOperator,
       P!IfCondition, P!IfThen, P!IfElse, P!IfTooShort, P!NothingToRun, P!SymbolNotFound,
       P!RunLast, P!AtEnd

\* A step of the analysis leaves the code generator where it begins.
LEMMA AnalyzeKeeps ==
  ASSUME CompilerInv, Analyze PROVE CompilerInv'
<1>1. Next /\ UNCHANGED <<generated, machine>>
  BY DEF Analyze
<1>2. SemanticInv'
  BY <1>1, SemanticInvStep DEF CompilerInv
<1>3. pc # "accepted" /\ gen = "unit" /\ at = 1 /\ frames = <<>>
  BY <1>1, AcceptedIsLast DEF CompilerInv
<1>4. gen' = "unit" /\ at' = 1 /\ frames' = <<>>
  BY <1>1, <1>3 DEF generated
<1>5. P!GenInv'
  <2>1. UNCHANGED P!genvars
    BY <1>1 DEF generated, P!genvars, P!translation, P!chosen
  <2> QED BY <2>1, P!StutterHolds, KindsDiffer DEF CompilerInv
<1>6. P!ShapeInv(Tree(program, at))'
  <2>1. Len(analyzed') \in Nat
    BY <1>2, SeqDomain DEF SemanticInv, AnalyzedInv
  <2>2. Len(frames') = 0
    BY <1>4
  <2> QED BY <1>4, <2>1, <2>2 DEF P!ShapeInv, P!FramesFit, P!Points, P!Open
<1>7. MachineInv'
  BY <1>1, <1>3, <1>4 DEF CompilerInv, MachineInv, machine
<1> QED BY <1>2, <1>4, <1>5, <1>6, <1>7 DEF CompilerInv

\* A step of the code generator: it goes on in the tree of its unit, or to
\* the next unit with no call left.
LEMMA GenerateKeeps ==
  ASSUME CompilerInv, Generate PROVE CompilerInv'
<1>1. pc = "accepted" /\ Gen!GenNext /\ UNCHANGED <<vars, machine>>
  BY DEF Generate
<1>2. P!GenNext
  BY <1>1, SameStep
<1>3. P!GenInv'
  BY <1>2, P!NextHolds, KindsDiffer DEF CompilerInv
<1>4. SemanticInv'
  BY <1>1, SemanticInvStep DEF CompilerInv
<1>5. UNCHANGED <<program, build, analyzed, pc>>
  BY <1>1 DEF vars, input, result, context, toplevel
<1>6. P!ShapeInv(Tree(program, at))'
  <2>1. PICK N : N = Tree(program, at)
    OBVIOUS
  <2>2. P!ShapeInv(N) /\ at \in Nat \ {0}
    BY <2>1, SeqDomain DEF CompilerInv, P!ShapeInv, SemanticInv, AnalyzedInv
  <2>3. P!Expressions(N)
    BY <2>1, <2>2, TreesAreExpressions DEF CompilerInv
  <2>4. P!ShapeKept(N)
    BY <1>2, <2>2, <2>3, P!ShapeStep, KindsDiffer DEF CompilerInv
  <2>5. CASE at' = at
    <3>1. Tree(program, at)' = N
      BY <1>5, <2>1, <2>5
    <3> QED BY <2>4, <3>1 DEF P!ShapeKept, P!ShapeInv, P!FramesFit, P!Fits, P!Waits
  <2>6. CASE frames' = <<>>
    <3>1. Len(frames') = 0
      BY <2>6
    <3> QED BY <2>4, <2>6, <3>1 DEF P!ShapeKept, P!ShapeInv, P!FramesFit
  <2> QED BY <2>4, <2>5, <2>6 DEF P!ShapeKept
<1>7. MachineInv'
  <2>1. gen # "run"
    BY <1>2, RunIsLast
  <2> QED BY <1>1, <2>1 DEF CompilerInv, MachineInv, machine
<1> QED BY <1>1, <1>3, <1>4, <1>5, <1>6, <1>7 DEF CompilerInv

\* The calls after one begins, goes on and returns.
LEMMA MachineCalls ==
  ASSUME IsSeq(calls), Len(calls) <= Depth, Depth \in Nat, Depth >= 1, NEW c
  PROVE  /\ calls # <<>> => IsSeq(<<c>> \o Tail(calls)) /\ Len(<<c>> \o Tail(calls)) <= Depth
         /\ Len(calls) < Depth => IsSeq(<<c>> \o calls) /\ Len(<<c>> \o calls) <= Depth
         /\ Len(calls) > 1 => /\ IsSeq(<<c>> \o Tail(Tail(calls)))
                              /\ Len(<<c>> \o Tail(Tail(calls))) <= Depth
         /\ IsSeq(<<c>>) /\ Len(<<c>>) <= Depth
<1>1. Len(calls) \in Nat /\ IsSeq(<<>>) /\ Len(<<>>) = 0
  BY SeqDomain DEF IsSeq
<1>2. ASSUME NEW s, IsSeq(s) PROVE IsSeq(<<c>> \o s) /\ Len(<<c>> \o s) = Len(s) + 1
  BY <1>2, PushSeq DEF Push
<1>3. calls # <<>> => IsSeq(Tail(calls)) /\ Len(Tail(calls)) = Len(calls) - 1
  BY TailSeq
<1>4. Len(calls) > 1 => IsSeq(Tail(Tail(calls))) /\ Len(Tail(Tail(calls))) = Len(calls) - 2
  <2> SUFFICES ASSUME Len(calls) > 1
               PROVE  IsSeq(Tail(Tail(calls))) /\ Len(Tail(Tail(calls))) = Len(calls) - 2
    OBVIOUS
  <2>1. calls # <<>>
    BY SeqDomain
  <2>2. PICK rest : rest = Tail(calls)
    OBVIOUS
  <2>3. IsSeq(rest) /\ Len(rest) = Len(calls) - 1
    BY <1>3, <2>1, <2>2
  <2>4. rest # <<>>
    BY <1>1, <2>3, SeqDomain
  <2>5. IsSeq(Tail(rest)) /\ Len(Tail(rest)) = Len(rest) - 1
    BY <2>3, <2>4, TailSeq
  <2>6. IsSeq(Tail(rest)) /\ Len(Tail(rest)) = Len(calls) - 2
    BY <1>1, <2>3, <2>5
  <2> QED BY Zenon, <2>2, <2>6
<1>5. <<c>> \o <<>> = <<c>>
  OBVIOUS
<1>6. /\ calls # <<>> => IsSeq(<<c>> \o Tail(calls)) /\ Len(<<c>> \o Tail(calls)) <= Depth
      /\ Len(calls) < Depth => IsSeq(<<c>> \o calls) /\ Len(<<c>> \o calls) <= Depth
  BY <1>1, <1>2, <1>3
<1>7. Len(calls) > 1 => /\ IsSeq(<<c>> \o Tail(Tail(calls)))
                        /\ Len(<<c>> \o Tail(Tail(calls))) <= Depth
  BY <1>1, <1>2, <1>4
<1>8. IsSeq(<<c>>) /\ Len(<<c>>) <= Depth
  BY <1>1, <1>2, <1>5
<1> QED BY <1>6, <1>7, <1>8

\* A step of the machine.
LEMMA ExecuteKeeps ==
  ASSUME CompilerInv, Execute PROVE CompilerInv'
<1>1. gen = "run" /\ UNCHANGED <<vars, generated>>
  BY DEF Execute
<1>2. IsSeq(calls) /\ Len(calls) <= Depth /\ Depth \in Nat /\ Depth >= 1
      /\ res.kind \in {"void", "value", "unknown", "undefined", "diverges"}
  BY MachineAssumption DEF CompilerInv, MachineInv
<1> DEFINE Kept == /\ IsSeq(calls') /\ Len(calls') <= Depth
                   /\ res'.kind \in {"void", "value", "unknown", "undefined", "diverges"}
<1>3. ASSUME NEW kind \in {"value", "unknown", "undefined", "diverges"}, NEW n, Code!Ends(kind, n)
      PROVE  Kept
  BY <1>2, <1>3 DEF Code!Ends
<1>4. ASSUME NEW call, Code!Continues(call), calls # <<>> PROVE Kept
  BY <1>2, <1>4, MachineCalls DEF Code!Continues
<1>5. ASSUME NEW n, Code!Gives(n), calls # <<>> PROVE Kept
  BY <1>4, <1>5 DEF Code!Gives
<1> HIDE DEF Kept
<1>6. ASSUME NEW f, Code!CallFromOutside(f) PROVE Kept
  <2>1. CASE calls' = <<Code!Call(f, <<>>)>> /\ UNCHANGED res
    BY <1>2, <2>1, MachineCalls DEF Kept
  <2> QED BY <1>3, <1>6, <2>1 DEF Code!CallFromOutside
<1>7. ASSUME Code!CallFunction PROVE Kept
  <2>1. ASSUME NEW c, calls' = <<c>> \o calls, Len(calls) < Depth, UNCHANGED res PROVE Kept
    BY <1>2, <2>1, MachineCalls DEF Kept
  <2> QED BY <1>3, <1>7, <2>1 DEF Code!CallFunction
<1>8. ASSUME Code!Return PROVE Kept
  <2>1. ASSUME NEW c, calls' = <<c>> \o Tail(Tail(calls)), Len(calls) > 1, UNCHANGED res PROVE Kept
    BY <1>2, <2>1, MachineCalls DEF Kept
  <2> QED BY <1>3, <1>8, <2>1 DEF Code!Return
<1>9. ASSUME Code!Branch \/ Code!Choose \/ Code!Advance \/ Code!Store PROVE Kept
  BY <1>4, <1>5, <1>9 DEF Code!Branch, Code!Choose, Code!Advance, Code!Store, Code!Running
<1>10. ASSUME Code!Arithmetic \/ Code!Allocate \/ Code!Load PROVE Kept
  BY <1>3, <1>5, <1>10 DEF Code!Arithmetic, Code!Allocate, Code!Load, Code!Running
<1>11. Kept
  BY <1>6, <1>7, <1>8, <1>9, <1>10 DEF Execute, Code!MachineNext
<1>12. MachineInv'
  BY <1>1, <1>11 DEF Kept, MachineInv, generated
<1>13. SemanticInv'
  BY <1>1, SemanticInvStep DEF CompilerInv
<1>14. UNCHANGED P!genvars /\ UNCHANGED P!inputs /\ UNCHANGED pc
  BY <1>1 DEF generated, P!genvars, P!inputs, P!translation, P!chosen, vars, input, result, context, toplevel
<1>15. P!GenInv'
  BY <1>14, P!StutterHolds, KindsDiffer DEF CompilerInv
<1>16. P!ShapeInv(Tree(program, at))'
  BY <1>14 DEF CompilerInv, P!ShapeInv, P!FramesFit, P!Fits, P!Waits, P!Node, P!Top, P!Open, P!inputs,
     P!genvars, P!translation, Tree, First, Body
<1> QED BY <1>1, <1>12, <1>13, <1>14, <1>15, <1>16 DEF CompilerInv, P!genvars, P!translation

LEMMA CompilerInvStep ==
  ASSUME CompilerInv, [CompilerNext]_compilervars PROVE CompilerInv'
<1>1. CASE CompilerNext
  BY <1>1, AnalyzeKeeps, GenerateKeeps, ExecuteKeeps DEF CompilerNext
<1>2. CASE UNCHANGED compilervars
  <2>1. UNCHANGED <<vars, generated, machine>>
    BY <1>2 DEF compilervars
  <2>2. SemanticInv'
    BY <2>1, SemanticInvStep DEF CompilerInv
  <2>3. UNCHANGED P!genvars /\ UNCHANGED P!inputs /\ UNCHANGED pc
    BY <2>1 DEF generated, P!genvars, P!inputs, P!translation, P!chosen, vars, input, result,
       context, toplevel
  <2>4. P!GenInv'
    BY <2>3, P!StutterHolds, KindsDiffer DEF CompilerInv
  <2>5. P!ShapeInv(Tree(program, at))'
    BY <2>3 DEF CompilerInv, P!ShapeInv, P!FramesFit, P!Fits, P!Waits, P!Node, P!Top, P!Open,
       P!inputs, P!genvars, P!translation, Tree, First, Body
  <2>6. MachineInv'
    BY <2>1 DEF CompilerInv, MachineInv, machine, generated
  <2> QED BY <2>2, <2>3, <2>4, <2>5, <2>6 DEF CompilerInv, P!genvars, P!translation
<1> QED BY <1>1, <1>2

LEMMA CompilerInvHolds == CompilerSpec => []CompilerInv
<1>1. CompilerInv /\ [CompilerNext]_compilervars => CompilerInv'
  BY CompilerInvStep
<1> QED BY CompilerInvInit, <1>1, PTL DEF CompilerSpec

\* Whatever the programs, the types of LLVM and the names it makes: a function
\* that has been finished has a sound control flow graph, whichever way the
\* generation of later functions goes.
THEOREM FinishedFunctionsAreStructured == CompilerSpec => []GeneratedIsStructured
<1>1. CompilerInv => GeneratedIsStructured
  BY GeneratorIsStructured DEF CompilerInv
<1> QED BY CompilerInvHolds, <1>1, PTL

\* No step changes what a call of a complete function runs: a definition that
\* takes up a function that has a body goes into blocks that nothing jumps to.
THEOREM CompleteFunctionsStay == CompilerSpec => FirstDefinitionCounts
<1>1. CompilerInv /\ [CompilerNext]_compilervars
        => \A f \in 1 .. Len(mod) : Complete(mod[f]) => RunnableCode(mod'[f]) = RunnableCode(mod[f])
  <2> SUFFICES ASSUME CompilerInv, [CompilerNext]_compilervars, NEW f \in 1 .. Len(mod), Complete(mod[f])
               PROVE  RunnableCode(mod'[f]) = RunnableCode(mod[f])
    OBVIOUS
  <2>1. P!Frozen(mod[f], mod'[f])
    BY GeneratorHolds DEF P!AllFrozen, CompilerInv
  <2>2. P!Complete(mod[f])
    BY SameGraphs
  <2>3. P!RunnableCode(mod'[f]) = P!RunnableCode(mod[f])
    BY <2>1, <2>2 DEF P!Frozen
  <2> QED BY <2>3, SameGraphs
<1> QED BY <1>1, CompilerInvHolds, PTL DEF CompilerSpec, FirstDefinitionCounts

\* The shapes of the compiler's state hold in every run: the phases take their
\* turns, the IRBuilder inserts into a block of the function it is at, and no
\* active call has more values than its expression has operands.
THEOREM CompilerTypeCorrect == CompilerSpec => []CompilerTypeOK
<1>1. CompilerInv => CompilerTypeOK
  <2> SUFFICES ASSUME CompilerInv PROVE CompilerTypeOK
    OBVIOUS
  <2>1. TypeOK
    BY InvShapes DEF CompilerInv
  <2>2. /\ gen \in P!Points /\ at \in 1 .. Len(analyzed) + 1
        /\ \A i \in 1 .. Len(frames) : P!Fits(Tree(program, at), frames[i])
        /\ \A i \in 2 .. Len(frames) : P!Waits(frames[i])
    BY DEF CompilerInv, P!ShapeInv, P!FramesFit
  <2>3. \A i \in 1 .. Len(frames) : Len(frames[i].values) <= Len(Node(frames[i].node).kids)
    BY <2>2 DEF P!Fits, P!Node, Node
  <2>4. \A i \in 2 .. Len(frames) : frames[i].how # "visit"
    BY <2>2 DEF P!Waits
  <2>5. frames # <<>> => fun \in 1 .. Len(mod) /\ point \in mod[fun].listed
    <3> SUFFICES ASSUME frames # <<>> PROVE fun \in 1 .. Len(mod) /\ point \in mod[fun].listed
      OBVIOUS
    <3>1. P!Open /\ fun \in 1 .. Len(mod)
      BY DEF P!Open, CompilerInv, P!GenInv, P!OpenInv
    <3>2. \E s \in P!Blocks(mod[fun]) : P!Opened(mod[fun], fun, point, frames, s)
      BY <3>1 DEF CompilerInv, P!GenInv, P!ModuleInv
    <3> QED BY <3>1, <3>2 DEF P!Opened, P!InProgress, P!OpenAt
  <2> QED BY <2>1, <2>2, <2>3, <2>4, <2>5 DEF CompilerInv, MachineInv, CompilerTypeOK, P!Points
<1> QED BY CompilerInvHolds, <1>1, PTL

LEMMA InvLookups == CompilerInv => LookupsSucceed
<1> SUFFICES ASSUME CompilerInv, NEW i \in 1 .. Len(frames), NEW k \in 1 .. Len(Node(frames[i].node).kids)
             PROVE  Node(frames[i].node).kids[k] \in DOMAIN analyzed[at].expressions
  BY DEF LookupsSucceed
<1> DEFINE n == frames[i].node
<1>1. n \in Tree(program, at)
  BY DEF CompilerInv, P!ShapeInv, P!FramesFit, P!Fits
<1>2. /\ IsParsed(program) /\ FunctionsDone(program, analyzed) /\ Len(analyzed) = current - 1
      /\ current \in 1 .. Len(program.units) + 1 /\ IsSeq(analyzed)
  BY DEF CompilerInv, SemanticInv, AnalyzedInv
<1>3. Node(n).kids[k] \in Tree(program, at)
  BY <1>1, <1>2, TreeKids DEF Node
<1>4. frames # <<>>
  <2>1. frames = <<>> => Len(frames) = 0
    OBVIOUS
  <2> QED BY <2>1
<1>5. at \in 1 .. Len(analyzed) + 1 /\ at <= Len(analyzed)
  BY <1>4 DEF CompilerInv, P!ShapeInv, P!Open
<1>6. Len(program.units) \in Nat /\ Len(analyzed) \in Nat
  BY <1>2, SeqDomain DEF IsParsed, IsProgram
<1>7. at \in 1 .. Len(analyzed) /\ Len(analyzed) <= Len(program.units)
  BY <1>2, <1>5, <1>6
<1>8. program.units[at].kind = "def"
  BY <1>1 DEF Tree
<1> QED BY <1>2, <1>3, <1>6, <1>7, <1>8, TreeOfUnit

\* Context::expressionType finds the type of every operand that the code
\* generator asks for (pol_codegen.cpp:174, 235 and 277), of every program in
\* post-order and at every point of the generation: the frames are in the
\* tree of the unit, and the analysis has a type for each number of it.
THEOREM OperandsHaveTypes == CompilerSpec => []LookupsSucceed
BY CompilerInvHolds, InvLookups, PTL

-----------------------------------------------------------------------------
(* The types of values.                                                    *)

\* basictypes::getType goes by the kind of a type.
Lowered(T) == \A t \in T : ~HasNull(t) => Gen!LoweredAs(t)

\* What the analysis has found out.
AnalysisInv(T) == SemanticInv /\ TypesIn(T) /\ TypingInv /\ ScopeInv(T)

\* Types and the table of operators are there twice as well.
LEMMA SameTypes ==
  /\ P!Real = Real /\ P!Integer = Integer /\ P!Boolean = Boolean /\ P!Null = Null
  /\ \A a : P!List(a) = List(a)
  /\ \A r, args : P!Function(r, args) = Function(r, args)
  /\ \A a, b : P!Compare(a, b) = Compare(a, b)
  /\ \A t : P!HasNull(t) <=> HasNull(t)
BY DEF P!Real, Real, P!Integer, Integer, P!Boolean, Boolean, P!Null, Null, P!Type, Type, P!List, List,
       P!Function, Function, P!Compare, Compare, P!HasNull, HasNull, P!DereferencesNull, DereferencesNull

LEMMA SameTable ==
  /\ P!Builtins = Builtins
  /\ \A name : P!EntriesOf(name) = EntriesOf(name)
<1>1. P!Builtins = Builtins
  <2>1. \A op, given, kept : P!Op(op, given, kept) = Op(op, given, kept)
    BY DEF P!Op, Op
  <2> QED BY <2>1, SameTypes, Zenon DEF P!Builtins, Builtins
<1> QED BY <1>1 DEF P!EntriesOf, EntriesOf

LEMMA SameLowering ==
  ASSUME NEW t
  PROVE  P!LoweredAs(t) <=> Gen!LoweredAs(t)
BY DEF P!LoweredAs, Gen!LoweredAs, P!Real, Gen!Real, P!Integer, Gen!Integer, P!Boolean, Gen!Boolean,
       P!Type, Gen!Type, P!Double, Gen!Double, P!Int64, Gen!Int64, P!Bool, Gen!Bool, P!Pointer,
       Gen!Pointer, P!FunctionType, Gen!FunctionType, P!Ty, Gen!Ty

\* Types are compared and translated as the code generator needs it.
LEMMA TypesAreLowered ==
  ASSUME NEW T, TreeSet(T), Mangles(T), Null \in T, Lowered(T)
  PROVE  P!Lowers(T)
<1>1. {Real, Integer, Boolean} \subseteq T /\ Faithful(T)
  BY MangledNamesDiffer DEF TreeSet, TypeSet
<1>2. ASSUME NEW t \in {Real, Integer, Boolean, Null} PROVE Mangled(t) = <<t.name>>
  <2>1. PICK joined : NamedWith(t, joined)
    BY <1>1 DEF Mangles
  <2>2. t.name \in BasicNames
    BY DEF Real, Integer, Boolean, Null, Type, BasicNames
  <2> QED BY <2>1, <2>2 DEF NamedWith
<1>3. Null.name = "null" /\ \A t \in {Real, Integer, Boolean} : t.name # "null"
  BY DEF Real, Integer, Boolean, Null, Type
<1>4. HasNull(Null) /\ \A t \in {Real, Integer, Boolean} : ~HasNull(t)
  <2>1. \A x : DereferencesNull(<<x>>) <=> x = "null"
    BY DEF DereferencesNull
  <2>2. HasNull(Null)
    BY <1>2, <1>3, <2>1 DEF HasNull
  <2>3. ASSUME NEW t \in {Real, Integer, Boolean} PROVE ~HasNull(t)
    BY <1>2, <1>3, <2>1 DEF HasNull
  <2> QED BY <2>2, <2>3
<1>5. \A t \in T : ~HasNull(t) => P!LoweredAs(t)
  BY SameLowering DEF Lowered
<1> QED BY <1>1, <1>4, <1>5, SameTypes DEF P!Lowers, Faithful

\* The entries of the TopLevel have the names and arguments of their units.
LEMMA EntryFacts ==
  ASSUME NEW T, AnalysisInv(T)
  PROVE  /\ Len(analyzed) \in Nat /\ IsParsed(program)
         /\ \A u \in 1 .. Len(analyzed) :
              LET entry == analyzed[u]
                  func == program.units[u]
              IN  /\ u \in 1 .. Len(program.units) /\ IsUnit(func) /\ Len(func.args) \in Nat
                  /\ entry.unit = u /\ entry.sig.name = func.name /\ entry.sig.args = BuiltSig(func).args
                  /\ Len(entry.sig.args) = Len(func.args)
                  /\ \A k \in 1 .. Len(func.args) : entry.sig.args[k].name = func.args[k].name
<1>1. /\ IsParsed(program) /\ IsSeq(analyzed) /\ Len(analyzed) = current - 1
      /\ FunctionsDone(program, analyzed) /\ current \in 1 .. Len(program.units) + 1
  BY DEF AnalysisInv, SemanticInv, AnalyzedInv
<1>2. Len(analyzed) \in Nat /\ Len(program.units) \in Nat /\ Len(analyzed) <= Len(program.units)
  <2>1. Len(program.units) \in Nat
    BY <1>1 DEF IsParsed, IsProgram
  <2> QED BY <1>1, <2>1
<1>3. ASSUME NEW u \in 1 .. Len(analyzed)
      PROVE  LET entry == analyzed[u]
                 func == program.units[u]
             IN  /\ u \in 1 .. Len(program.units) /\ IsUnit(func) /\ Len(func.args) \in Nat
                 /\ entry.unit = u /\ entry.sig.name = func.name /\ entry.sig.args = BuiltSig(func).args
                 /\ Len(entry.sig.args) = Len(func.args)
                 /\ \A k \in 1 .. Len(func.args) : entry.sig.args[k].name = func.args[k].name
  <2> DEFINE func == program.units[u]
             entry == analyzed[u]
  <2>1. u \in 1 .. Len(program.units) /\ entry.unit = u
    BY <1>1, <1>2 DEF FunctionsDone
  <2>2. IsUnit(func)
    BY <1>1, <2>1 DEF IsParsed, IsProgram
  <2>3. Len(func.args) \in Nat
    BY <2>2 DEF IsUnit
  <2>4. entry.sig.name = func.name /\ entry.sig.args = BuiltSig(func).args
    BY DEF AnalysisInv, ScopeInv, EntryMeans
  <2> HIDE DEF func, entry
  <2>5. /\ Len(BuiltSig(func).args) = Len(func.args)
        /\ \A k \in 1 .. Len(func.args) : BuiltSig(func).args[k].name = func.args[k].name
    BY <2>3 DEF BuiltSig
  <2>6. /\ Len(entry.sig.args) = Len(func.args)
        /\ \A k \in 1 .. Len(func.args) : entry.sig.args[k].name = func.args[k].name
    BY <2>4, <2>5
  <2> QED BY <2>1, <2>2, <2>3, <2>4, <2>6 DEF func, entry
<1> QED BY <1>1, <1>2, <1>3

\* In an orderly program a name means one thing at a time.
LEMMA OrderlyIsClear ==
  ASSUME NEW T, AnalysisInv(T), Orderly
  PROVE  P!Clear
<1>1. ASSUME NEW u \in 1 .. Len(analyzed), NEW v \in 1 .. Len(analyzed),
             v < u, program.units[u].kind = "def", P!UnitName(v) = P!UnitName(u)
      PROVE  P!Signature(v).args = P!Signature(u).args
  <2>1. u \in UnitNumbers /\ v \in UnitNumbers
    BY EntryFacts DEF UnitNumbers
  <2>2. program.units[u].args = program.units[v].args
    BY <1>1, <2>1, Zenon DEF Orderly, SameArgs, P!UnitName
  <2>3. BuiltSig(program.units[u]).args = BuiltSig(program.units[v]).args
    BY <2>2 DEF BuiltSig
  <2> QED BY <2>3, EntryFacts DEF P!Signature
<1>2. ASSUME NEW u \in 1 .. Len(analyzed)
      PROVE  LET args == P!Signature(u).args
             IN  /\ P!UnitName(u) \notin {"", "malloc"}
                 /\ \A k \in 1 .. Len(args) : /\ args[k].name \notin {P!UnitName(u), "", "malloc"}
                                              /\ \A j, n \in 1 .. Len(args) :
                                                   args[k].name # Renamed(args[j].name, n)
  <2> DEFINE func == program.units[u]
             args == P!Signature(u).args
  <2>1. /\ u \in UnitNumbers /\ Len(args) = Len(func.args)
        /\ \A k \in 1 .. Len(args) : args[k].name = func.args[k].name
    <3>1. /\ u \in 1 .. Len(program.units) /\ Len(analyzed[u].sig.args) = Len(func.args)
          /\ \A k \in 1 .. Len(func.args) : analyzed[u].sig.args[k].name = func.args[k].name
      BY EntryFacts, ZenonT(60)
    <3>2. P!Signature(u) = analyzed[u].sig
      BY DEF P!Signature
    <3> HIDE DEF func
    <3> QED BY <3>1, <3>2 DEF UnitNumbers
  <2>2. \A k \in 1 .. Len(args) : args[k].name \in ParameterNames(u)
    BY <2>1 DEF ParameterNames
  <2>3. /\ ParameterNames(u) \cap {func.name, "malloc", ""} = {} /\ func.name \notin {"malloc", ""}
        /\ \A x \in ParameterNames(u) : \A n \in 1 .. Len(func.args) : Renamed(x, n) \notin ParameterNames(u)
    BY <2>1 DEF Orderly
  <2> HIDE DEF args
  <2>4. ASSUME NEW k \in 1 .. Len(args), NEW j \in 1 .. Len(args), NEW n \in 1 .. Len(args)
        PROVE  args[k].name # Renamed(args[j].name, n)
    <3>1. Renamed(args[j].name, n) \notin ParameterNames(u)
      BY <2>1, <2>2, <2>3
    <3> QED BY <3>1, <2>2
  <2>5. P!UnitName(u) = func.name
    BY DEF P!UnitName
  <2>6. \A k \in 1 .. Len(args) : args[k].name \notin {P!UnitName(u), "", "malloc"}
    BY <2>2, <2>3, <2>5
  <2>7. P!UnitName(u) \notin {"", "malloc"}
    BY <2>3, <2>5
  <2> QED BY <2>4, <2>6, <2>7 DEF args
<1>3. ASSUME NEW n \in 1 .. Len(program.nodes), P!Node(n).kind = "call", NEW k \in P!EntriesOf(P!Node(n).name)
      PROVE  Len(P!Node(n).kids) <= Len(P!Builtins[k].args)
  <2>1. P!Node(n) = Node(n) /\ k \in EntriesOf(Node(n).name) /\ P!Builtins = Builtins
    BY SameTable DEF P!Node, Node
  <2>2. Len(Builtins[k].args) \in Arities(Node(n).name)
    BY <2>1 DEF Arities
  <2> QED BY <1>3, <2>1, <2>2, Zenon DEF Orderly
<1> QED BY <1>1, <1>2, <1>3, Zenon DEF P!Clear

\* The literals by their kinds.
LEMMA LiteralsAreTyped ==
  ASSUME NEW name \in Literal, NEW type, type = LiteralType(name)
  PROVE  P!LiteralTyped(name, type)
<1>1. name \in RealLiteral \/ name \in IntegerLiteral \/ name \in BooleanLiteral
  BY DEF Literal
<1>2. /\ ~(name \in RealLiteral /\ name \in IntegerLiteral)
      /\ ~(name \in RealLiteral /\ name \in BooleanLiteral)
      /\ ~(name \in IntegerLiteral /\ name \in BooleanLiteral)
  BY KindsDiffer
<1>3. /\ name \in RealLiteral => type = Real
      /\ name \in IntegerLiteral => type = Integer
      /\ name \in BooleanLiteral => type = Boolean
  BY <1>2 DEF LiteralType
<1>4. name \in P!Literal
  BY <1>1 DEF P!Literal
<1> QED BY <1>3, <1>4, SameTypes DEF P!LiteralTyped

\* An expression that has its type by the rule of its kind has it as the code
\* generator takes it.
LEMMA RulesAreTyped ==
  ASSUME NEW T, TypeSet(T), NEW n \in 1 .. Len(program.nodes), IsParsed(program), NEW type, NEW e, NEW v,
         TypedBy(program, n, type, e, v), type = e[n], ValuesIn(T, v)
  PROVE  P!NodeTyped(n, e, v)
<1> DEFINE node == program.nodes[n]
           args == [k \in 1 .. Len(node.kids) |-> e[Kid(program, n, k)]]
<1>1. Rule(node, type, args, v) /\ IsExpression(node, n) /\ Len(node.kids) \in Nat
      /\ (Len(node.kids) = 0 => node.kids = <<>>)
  BY NodeFacts DEF TypedBy
<1>2. P!Node(n) = node /\ P!KidTypes(n, e) = args
  BY DEF P!Node, P!KidTypes, Kid
<1>3. Len(args) = Len(node.kids) /\ \A k \in 1 .. Len(node.kids) : args[k] = e[node.kids[k]]
  BY <1>1 DEF Kid
<1> DEFINE Entries == {Builtins[k] : k \in EntriesOf(node.name)}
<1> HIDE DEF node, args
<1>4. ASSUME node.kind = "literal" PROVE P!LiteralTyped(node.name, type)
  <2>1. node.name \in Literal
    BY <1>1, <1>4 DEF IsExpression
  <2>2. type = LiteralType(node.name)
    BY <1>1, <1>4 DEF Rule
  <2> QED BY <2>1, <2>2, LiteralsAreTyped
<1>5. ASSUME node.kind \in {"var", "subscript"} PROVE P!NameTyped(node, type, v)
  <2>1. CASE node.kind = "var"
    <3>1. node.name \in DOMAIN v /\ type = v[node.name]
      BY <1>1, <2>1 DEF Rule
    <3> QED BY <2>1, <3>1 DEF P!NameTyped
  <2>2. CASE node.kind = "subscript"
    <3>1. /\ node.name \in DOMAIN v
          /\ IF v[node.name].name = "list" THEN v[node.name] = List(type) ELSE type = Null
      BY <1>1, <2>2 DEF Rule
    <3> QED BY <2>2, <3>1, SameTypes DEF P!NameTyped
  <2> QED BY <1>5, <2>1, <2>2
<1>6. ASSUME node.kind = "list", node.kids # <<>> PROVE type = P!List(e[node.kids[1]])
  <2>1. 1 \in 1 .. Len(args) /\ args[1] = e[node.kids[1]]
    BY <1>1, <1>3, <1>6
  <2>2. \A k \in 1 .. Len(args) : type = List(args[k])
    BY <1>1, <1>6 DEF Rule
  <2> QED BY <2>1, <2>2, SameTypes
<1>7. ASSUME NEW k \in EntriesOf(node.name), Fits(args, Builtins[k].args), type = Builtins[k].ret
      PROVE  P!BuiltinTyped(node.name, args, type)
  BY <1>7, SameTable DEF P!BuiltinTyped, P!Agree, Fits
<1>8. ASSUME node.kind = "binary" PROVE Len(node.kids) = 2 /\ P!BuiltinTyped(node.name, args, type)
  <2>1. Len(node.kids) = 2
    BY <1>1, <1>8 DEF IsExpression
  <2>2. Op(node.name, args, type) \in Entries
    BY <1>1, <1>8 DEF Rule
  <2>3. PICK k \in EntriesOf(node.name) : Op(node.name, args, type) = Builtins[k]
    BY <2>2
  <2>4. args = Builtins[k].args /\ type = Builtins[k].ret
    BY <2>3 DEF Op
  <2>5. Fits(args, Builtins[k].args)
    BY <2>4 DEF Fits
  <2> QED BY <2>1, <2>4, <2>5, <1>7
<1>9. ASSUME node.kind = "call"
      PROVE  P!BuiltinTyped(node.name, args, type) \/ P!FunctionTyped(node.name, args, type, v)
  <2>1. \/ \E entry \in Entries : Fits(args, entry.args) /\ type = entry.ret
        \/ /\ \A entry \in Entries : Len(args) <= Len(entry.args) => ~Fits(args, entry.args)
           /\ node.name \in DOMAIN v /\ v[node.name].name = "fun"
           /\ type = Head(v[node.name].args)
    BY <1>1, <1>9 DEF Rule
  <2>2. CASE \E entry \in Entries : Fits(args, entry.args) /\ type = entry.ret
    BY <2>2, <1>7
  <2>3. CASE /\ \A entry \in Entries : Len(args) <= Len(entry.args) => ~Fits(args, entry.args)
             /\ node.name \in DOMAIN v /\ v[node.name].name = "fun"
             /\ type = Head(v[node.name].args)
    <3>1. \A k \in EntriesOf(node.name) : Len(args) <= Len(Builtins[k].args) => ~Fits(args, Builtins[k].args)
      BY <2>3
    <3>2. \A a : P!Agree(args, a) <=> Fits(args, a)
      BY DEF P!Agree, Fits
    <3>3. Head(v[node.name].args) = v[node.name].args[1]
      <4> DEFINE a == v[node.name].args
      <4>1. a \in Seq(T) /\ Len(a) >= 1
        BY <2>3 DEF TypeSet, ValuesIn
      <4> HIDE DEF a
      <4>2. Head(a) = a[1]
        BY <4>1
      <4> QED BY <4>2 DEF a
    <3>4. P!FunctionTyped(node.name, args, type, v)
      BY <2>3, <3>1, <3>2, <3>3, SameTable DEF P!FunctionTyped
    <3> QED BY <3>4
  <2> QED BY <2>1, <2>2, <2>3
<1> QED BY <1>2, <1>4, <1>5, <1>6, <1>8, <1>9 DEF P!NodeTyped

\* What a name means to the analysis it means to the code generator.
LEMMA MeaningsAgree ==
  ASSUME NEW u \in Nat, NEW x, NEW type, NEW s, s = analyzed[u].sig,
         NameMeans(program, analyzed, u, s, x, type)
  PROVE  P!MeansUnit(u, x, type) \/ P!MeansParameter(u, x, type) \/ P!MeansItself(u, x, type)
<1>1. \A t : P!TypeOf(t) = signatureType(t)
  BY SameTypes DEF P!TypeOf, signatureType
<1>2. \A w, y : P!Before(w, y) <=> \E v \in 1 .. w - 1 : program.units[v].name = y
  BY DEF P!Before, P!UnitName
<1>3. P!Before(u, x) <=> x \in NamesBefore(program, u)
  BY <1>2 DEF NamesBefore
<1>4. CASE UnitMeaning(program, analyzed, u, x, type)
  <2>1. PICK v \in 1 .. u - 1 : /\ program.units[v].name = x /\ type = signatureType(analyzed[v].sig)
                                /\ \A w \in 1 .. v - 1 : program.units[w].name # x
    BY <1>4 DEF UnitMeaning
  <2>2. P!FirstNamed(v) /\ P!UnitName(v) = x
    BY <2>1, <1>2 DEF P!FirstNamed, P!UnitName
  <2>3. type = P!TypeOf(P!Signature(v))
    BY <2>1, <1>1 DEF P!Signature
  <2> QED BY <2>2, <2>3 DEF P!MeansUnit
<1>5. CASE x \notin NamesBefore(program, u) /\ ParameterMeaning(s.args, x, type)
  BY <1>3, <1>5 DEF ParameterMeaning, P!MeansParameter, P!Signature
<1>6. CASE x \notin NamesBefore(program, u) /\ x = program.units[u].name /\ type = signatureType(s)
  BY <1>1, <1>3, <1>6 DEF P!MeansItself, P!Signature, P!UnitName
<1> QED BY <1>4, <1>5, <1>6 DEF NameMeans

\* What the analysis has accepted is what the code generator relies on.
LEMMA AnalyzedIsChecked ==
  ASSUME NEW T, TypeSet(T), AnalysisInv(T)
  PROVE  P!Checked(T)
<1>1. ASSUME NEW u \in 1 .. Len(analyzed), program.units[u].kind = "def"
      PROVE  P!FunctionChecked(T, u)
  <2> DEFINE e == analyzed[u].expressions
             v == analyzed[u].variables
  <2>1. /\ ScopeMeans(program, analyzed, u, analyzed[u].sig, v)
        /\ ValuesIn(T, v) /\ ValuesIn(T, e) /\ program.units[u].body \in DOMAIN e
    BY <1>1 DEF AnalysisInv, ScopeInv, EntryMeans
  <2>2. MapTyped(program, e, v)
    BY <1>1 DEF AnalysisInv, TypingInv, FunctionTyped
  <2>3. IsParsed(program) /\ Len(analyzed) \in Nat
    BY EntryFacts
  <2>4. DOMAIN e = Ids(program, u)
    BY <1>1 DEF AnalysisInv, SemanticInv, AnalyzedInv, FunctionsDone
  <2>5. \A n \in DOMAIN e : n \in 1 .. Len(program.nodes)
    BY <2>4 DEF Ids
  <2> HIDE DEF e, v
  <2>6. ASSUME NEW n \in DOMAIN e
        PROVE  /\ e[n] \in T /\ Len(P!Node(n).kids) \in Nat /\ P!NodeTyped(n, e, v)
               /\ \A k \in 1 .. Len(P!Node(n).kids) : P!Node(n).kids[k] \in DOMAIN e
    <3>1. n \in 1 .. Len(program.nodes) /\ TypedBy(program, n, e[n], e, v) /\ e[n] \in T
      BY <2>1, <2>2, <2>5 DEF MapTyped, ValuesIn
    <3>2. P!NodeTyped(n, e, v)
      BY <2>1, <2>3, <3>1, RulesAreTyped
    <3>3. Len(program.nodes[n].kids) \in Nat
      BY <2>3, <3>1, NodeFacts
    <3>4. \A k \in 1 .. Len(program.nodes[n].kids) : program.nodes[n].kids[k] \in DOMAIN e
      BY <3>1 DEF TypedBy, Kid
    <3> QED BY <3>1, <3>2, <3>3, <3>4 DEF P!Node
  <2>7. ASSUME NEW x \in DOMAIN v
        PROVE  P!MeansUnit(u, x, v[x]) \/ P!MeansParameter(u, x, v[x]) \/ P!MeansItself(u, x, v[x])
    <3>1. NameMeans(program, analyzed, u, analyzed[u].sig, x, v[x])
      BY <2>1 DEF ScopeMeans
    <3>2. u \in Nat
      BY <2>3
    <3> QED BY <3>1, <3>2, MeaningsAgree
  <2> QED BY <2>1, <2>6, <2>7, Zenon DEF P!FunctionChecked, e, v
<1>2. ASSUME NEW u \in 1 .. Len(analyzed)
      PROVE  analyzed[u].unit = u /\ P!Signature(u).name = P!UnitName(u) /\ Len(P!Signature(u).args) \in Nat
  <2>1. /\ analyzed[u].unit = u /\ analyzed[u].sig.name = program.units[u].name
        /\ Len(analyzed[u].sig.args) = Len(program.units[u].args) /\ Len(program.units[u].args) \in Nat
    BY EntryFacts, Zenon
  <2> QED BY <2>1 DEF P!Signature, P!UnitName
<1>3. Len(analyzed) \in Nat
  BY EntryFacts
<1> QED BY <1>1, <1>2, <1>3, Zenon DEF P!Checked

\* The types of the language are such that names and LLVM types tell them
\* apart.
Told(T) == TreeSet(T) /\ Mangles(T) /\ Null \in T /\ Lowered(T)

\* The inductive invariant: nothing has been generated while the analysis is
\* at work, and the values of an orderly program have their types after it.
ValuesInv(T) ==
  /\ AnalysisInv(T)
  /\ pc # "accepted" => mod = <<>>
  /\ pc = "accepted" /\ Orderly => P!ValueInv

\* Nothing has been generated.
Blank == gen = "unit" /\ at = 1 /\ mod = <<>>

LEMMA BlankHolds == Blank => P!ValueInv
<1> SUFFICES ASSUME Blank PROVE P!ValueInv
  OBVIOUS
<1>1. gen = "unit" /\ at = 1 /\ mod = <<>>
  BY DEF Blank
<1> QED BY <1>1, P!ValueInit, KindsDiffer

LEMMA BlankHoldsNext == Blank' => P!ValueInv'
BY BlankHolds, PTL

LEMMA AnalysisStep ==
  ASSUME NEW T, Told(T), AnalysisInv(T), [Next]_vars
  PROVE  AnalysisInv(T)'
<1>1. TypeSet(T) /\ Faithful(T) /\ Null \in T
  BY MangledNamesDiffer DEF Told, TreeSet
<1>2. SemanticInv /\ TypesIn(T) /\ TypingInv /\ ScopeInv(T)
  BY DEF AnalysisInv
<1>3. SemanticInv'
  BY <1>2, SemanticInvStep
<1>4. TypesIn(T)'
  BY <1>1, <1>2, TypesStep
<1>5. TypingInv'
  BY <1>1, <1>2, TypingStep
<1>6. ScopeInv(T)'
  BY <1>1, <1>2, ScopeStep
<1> QED BY <1>3, <1>4, <1>5, <1>6 DEF AnalysisInv

LEMMA OrderlyStays ==
  ASSUME UNCHANGED program
  PROVE  Orderly' <=> Orderly
BY DEF Orderly, SameArgs, UnitNumbers, ParameterNames, Node, Arities

\* Every step keeps it.
LEMMA ValuesStep ==
  ASSUME NEW T, Told(T), CompilerInv, ValuesInv(T), [CompilerNext]_compilervars
  PROVE  ValuesInv(T)'
<1>1. [Next]_vars
  BY DEF CompilerNext, Analyze, Generate, Execute, compilervars
<1>2. AnalysisInv(T) /\ AnalysisInv(T)'
  BY <1>1, AnalysisStep DEF ValuesInv
<1>3. CASE Generate
  <2>1. pc = "accepted" /\ UNCHANGED <<pc, program>> /\ Gen!GenNext
    BY <1>3 DEF Generate, vars, input, result
  <2>2. P!GenNext
    BY <2>1, SameStep
  <2>3. ASSUME Orderly' PROVE P!ValueInv'
    <3>1. Orderly /\ P!ValueInv
      BY <2>1, <2>3, OrderlyStays DEF ValuesInv
    <3>2. P!Ready(T)
      <4>1. P!Checked(T)
        BY <1>2, AnalyzedIsChecked DEF Told, TreeSet
      <4>2. P!Clear
        BY <1>2, <3>1, OrderlyIsClear
      <4>3. P!Lowers(T)
        BY TypesAreLowered DEF Told
      <4> QED BY <4>1, <4>2, <4>3 DEF P!Ready
    <3>3. PICK N : N = Tree(program, at)
      OBVIOUS
    <3>4. N \subseteq 1 .. Len(program.nodes)
      BY <3>3 DEF Tree
    <3>5. P!GenInv /\ P!ShapeInv(N) /\ at \in Nat \ {0}
      BY <3>3, SeqDomain DEF CompilerInv, P!ShapeInv, SemanticInv, AnalyzedInv
    <3>6. P!Expressions(N)
      BY <3>3, <3>5, TreesAreExpressions DEF CompilerInv
    <3> QED BY <2>2, <3>1, <3>2, <3>4, <3>5, <3>6, P!ValueGoesOn, KindsDiffer
  <2> QED BY <1>2, <2>1, <2>3 DEF ValuesInv
<1>4. CASE Analyze
  <2>1. pc # "accepted" /\ gen = "unit" /\ at = 1 /\ mod = <<>> /\ UNCHANGED <<gen, at, mod>>
    BY <1>4, AcceptedIsLast DEF Analyze, CompilerInv, ValuesInv, generated
  <2>2. P!ValueInv'
    BY <2>1, BlankHoldsNext DEF Blank
  <2> QED BY <1>2, <2>1, <2>2 DEF ValuesInv
<1>5. CASE UNCHANGED <<vars, generated>>
  <2>1. UNCHANGED <<pc, program, mod>> /\ UNCHANGED <<P!inputs, P!genvars>>
    BY <1>5 DEF generated, P!genvars, P!inputs, P!translation, P!chosen, vars, input, result, context,
                toplevel
  <2>2. P!ValueInv => P!ValueInv'
    BY <2>1, P!ValueStutter, KindsDiffer
  <2> QED BY <1>2, <2>1, <2>2, OrderlyStays DEF ValuesInv
<1> QED BY <1>3, <1>4, <1>5 DEF CompilerNext, Execute, compilervars

\* At first there are no values.
LEMMA ValuesInvInit ==
  ASSUME NEW T, BuildsIn(T), Init, Gen!GenInit
  PROVE  ValuesInv(T)
<1>1. SemanticInv /\ TypesIn(T) /\ TypingInv /\ ScopeInv(T)
  BY SemanticInvInit, TypesInit, TypingInit, ScopeInit
<1>2. pc = "analyze" /\ mod = <<>>
  BY Zenon DEF Init, Gen!GenInit
<1> QED BY <1>1, <1>2 DEF ValuesInv, AnalysisInv

\* The invariant says what the code generator relies on.
LEMMA ValuesAreTyped ==
  ASSUME NEW T, CompilerInv, ValuesInv(T)
  PROVE  ValuesHaveTheirTypes
<1> SUFFICES ASSUME gen = "return", Orderly,
                    ~HasNull(analyzed[at].expressions[GeneratedNode])
             PROVE  value.type = LlvmType(analyzed[at].expressions[GeneratedNode])
  BY DEF ValuesHaveTheirTypes
<1>1. pc = "accepted"
  BY DEF CompilerInv
<1>2. P!ValueInv
  BY <1>1 DEF ValuesInv
<1>3. P!HasType(P!Awaited(frames), value)
  BY <1>2, P!ValueIsTyped, KindsDiffer, SMTT(30)
<1>4. P!Awaited(frames) = GeneratedNode
  BY DEF P!Awaited, GeneratedNode, P!Unit, P!Node, Node
<1>5. P!expressionType(GeneratedNode) = analyzed[at].expressions[GeneratedNode]
  BY DEF P!expressionType, P!Unit
<1> QED BY <1>3, <1>4, <1>5, SameTypes DEF P!HasType

\* In an orderly program the value of every expression has the LLVM type of
\* the type that the analysis recorded for it: CodeGenerator::operator()
\* (pol_codegen.cpp) finds behind every name what calculateType found, and
\* OpTable the entry that it found, for every set of types with the names
\* that mangled() and the translations that basictypes::getType makes.
THEOREM ValuesKeepTheirTypes ==
  ASSUME NEW T, TreeSet(T), Mangles(T), BuildsIn(T), Null \in T, Lowered(T)
  PROVE  CompilerSpec => []ValuesHaveTheirTypes
<1>1. CompilerInit => CompilerInv /\ ValuesInv(T)
  BY CompilerInvInit, ValuesInvInit DEF CompilerInit
<1>2. CompilerInv /\ ValuesInv(T) /\ [CompilerNext]_compilervars => CompilerInv' /\ ValuesInv(T)'
  BY CompilerInvStep, ValuesStep DEF Told
<1>3. CompilerInv /\ ValuesInv(T) => ValuesHaveTheirTypes
  BY ValuesAreTyped
<1> QED BY <1>1, <1>2, <1>3, PTL DEF CompilerSpec

-----------------------------------------------------------------------------
(* The command line program.                                               *)

\* Until the parser has accepted the file and its printer is through, no
\* later phase has moved, and the code generator begins when the analysis
\* has accepted the program.
ConflakeInv ==
  /\ phase \in {"lex", "parse"} \cup Later \cup Final
  /\ phase \in {"lex", "parse"} => pc = "analyze" /\ current = 1
  /\ phase \in Later \/ pc # "analyze" \/ current > 1 => parsePc = "accepted"
  /\ phase = "generate" => pc = "accepted"
  /\ pc # "accepted" => gen = "unit" /\ at = 1 /\ mod = <<>>

LEMMA ConflakeInvInit == ConflakeInit => ConflakeInv
<1> SUFFICES ASSUME ConflakeInit PROVE ConflakeInv
  OBVIOUS
<1>1. phase = "lex" /\ Init /\ P!GenInit
  BY SameInit DEF ConflakeInit, CompilerInit
<1>2. pc = "analyze" /\ current = 1 /\ gen = "unit" /\ at = 1 /\ mod = <<>>
  BY <1>1 DEF Init, P!GenInit
<1> QED BY <1>1, <1>2 DEF ConflakeInv, Later

LEMMA ConflakeInvStep == ConflakeInv /\ [ConflakeNext]_conflakevars => ConflakeInv'
<1> SUFFICES ASSUME ConflakeInv, [ConflakeNext]_conflakevars PROVE ConflakeInv'
  OBVIOUS
<1> DEFINE Waits == UNCHANGED <<pc, current, gen, at, mod>>
<1>0. ASSUME UNCHANGED compilervars PROVE Waits
  BY <1>0 DEF compilervars, vars, result, context, toplevel, generated
<1>1. CASE UNCHANGED conflakevars
  <2>1. Waits /\ UNCHANGED <<parsePc, phase>>
    BY <1>0, <1>1 DEF conflakevars, parsing
  <2> QED BY <2>1 DEF ConflakeInv
<1>2. ASSUME NEW next \in Final, Enter(next) PROVE ConflakeInv'
  <2>1. Waits /\ UNCHANGED parsePc /\ phase' = next
    BY <1>0, <1>2 DEF Enter, parsing
  <2> QED BY <2>1 DEF ConflakeInv, Later, Final, Endings
<1>3. CASE Lex
  <2>1. CASE Enter("parse")
    <3>1. Waits /\ UNCHANGED parsePc /\ phase' = "parse" /\ phase = "lex"
      BY <1>0, <1>3, <2>1 DEF Enter, parsing, Lex
    <3> QED BY <3>1 DEF ConflakeInv, Later
  <2> QED BY <1>2, <1>3, <2>1 DEF Lex, Final, Endings
<1>4. CASE ParseTokens
  <2>1. Waits /\ phase = "parse" /\ UNCHANGED phase
    BY <1>0, <1>4 DEF ParseTokens
  <2> QED BY <2>1 DEF ConflakeInv, Later
<1>5. CASE ParserError \/ SemanticError
  BY <1>2, <1>5 DEF ParserError, SemanticError, Final, Endings
<1>6. CASE PrintTree
  <2>1. CASE phase' = "analyze" /\ UNCHANGED <<parsing, build, result, context, generated, machine>>
    <3>1. Waits /\ UNCHANGED parsePc /\ phase' = "analyze" /\ parsePc = "accepted" /\ phase = "parse"
      BY <1>6, <2>1 DEF PrintTree, parsing, result, context, toplevel, generated
    <3> QED BY <3>1 DEF ConflakeInv, Later
  <2> QED BY <1>2, <1>6, <2>1 DEF PrintTree, Final, Endings
<1>7. CASE AnalyzeTree
  <2>1. /\ phase = "analyze" /\ UNCHANGED <<phase, parsePc, gen, at, mod>> /\ pc # "accepted"
    BY <1>7, AcceptedIsLast DEF AnalyzeTree, Analyze, parsing, generated
  <2> QED BY <2>1 DEF ConflakeInv, Later
<1>8. CASE PrintTypes
  <2>1. CASE Enter("generate")
    <3>1. Waits /\ UNCHANGED parsePc /\ phase' = "generate" /\ phase = "analyze" /\ pc = "accepted"
      BY <1>0, <1>8, <2>1 DEF Enter, parsing, PrintTypes
    <3> QED BY <3>1 DEF ConflakeInv, Later
  <2> QED BY <1>2, <1>8, <2>1 DEF PrintTypes, Final, Endings
<1>9. CASE GenerateAndRun
  <2>1. phase = "generate" /\ UNCHANGED <<pc, current, parsePc, phase>>
    BY <1>9 DEF GenerateAndRun, Generate, Execute, parsing, vars, result, context, toplevel
  <2> QED BY <2>1 DEF ConflakeInv, Later
<1>10. CASE EndOfMain
  BY <1>2, <1>10 DEF EndOfMain, Final, Endings
<1> QED BY <1>1, <1>3, <1>4, <1>5, <1>6, <1>7, <1>8, <1>9, <1>10 DEF ConflakeNext

\* The shapes of the program's state hold in every run, whatever the files
\* are: every phase waits for the one before it to accept the program.
THEOREM ConflakeTypeCorrect == ConflakeSpec => []ConflakeTypeOK
<1>1. ConflakeInv => ConflakeTypeOK
  BY DEF ConflakeInv, ConflakeTypeOK, Later
<1> QED BY ConflakeInvInit, ConflakeInvStep, <1>1, PTL DEF ConflakeSpec

-----------------------------------------------------------------------------
(* The command line program on files: the parser's proofs, of ParserProofs,*)
(* hold of the parser that it runs.                                        *)

PP == INSTANCE ParserProofs WITH pc <- parsePc, stack <- parseStack, ret <- parseRet

\* The operators of Parser are there twice, too, with the same definitions.
LEMMA SameParserInit == Parse!Init => PP!Init
BY DEF Parse!Init, PP!Init, Parse!NoUnit, PP!NoUnit

LEMMA SameParserStep ==
  ASSUME Parse!Next PROVE PP!Next
<1>1. UNCHANGED tokens
  BY DEF Parse!Next
<1>2. Parse!ParseEnd => PP!ParseEnd
  BY DEF Parse!ParseEnd, PP!ParseEnd, Parse!Tok, PP!Tok, Parse!heap, PP!heap
<1>3. Parse!ParseSemicolon => PP!ParseSemicolon
  BY DEF Parse!ParseSemicolon, PP!ParseSemicolon, Parse!Tok, PP!Tok, Parse!Eat, PP!Eat,
         Parse!heap, PP!heap
<1>4. Parse!ParseKeyword => PP!ParseKeyword
  BY DEF Parse!ParseKeyword, PP!ParseKeyword, Parse!Tok, PP!Tok, Parse!Eat, PP!Eat,
         Parse!NoUnit, PP!NoUnit, Parse!heap, PP!heap
<1>5. Parse!ParseTopLevelExpr => PP!ParseTopLevelExpr
  BY DEF Parse!ParseTopLevelExpr, PP!ParseTopLevelExpr, Parse!Tok, PP!Tok, Parse!NoUnit,
         PP!NoUnit, Parse!CallExpression, PP!CallExpression, Parse!heap, PP!heap,
         Parse!ExpressionFrame, PP!ExpressionFrame, Parse!Frame, PP!Frame,
         Parse!NamedFrame, PP!NamedFrame
<1>6. Parse!EndFunction => PP!EndFunction
  BY DEF Parse!EndFunction, PP!EndFunction, Parse!NoUnit, PP!NoUnit, Parse!heap, PP!heap
<1>7. Parse!PrototypeName => PP!PrototypeName
  BY DEF Parse!PrototypeName, PP!PrototypeName, Parse!Tok, PP!Tok, Parse!Eat, PP!Eat,
         Parse!heap, PP!heap
<1>8. Parse!PrototypeOpen => PP!PrototypeOpen
  BY DEF Parse!PrototypeOpen, PP!PrototypeOpen, Parse!Tok, PP!Tok, Parse!Eat, PP!Eat,
         Parse!heap, PP!heap
<1>9. Parse!PrototypeClose => PP!PrototypeClose
  BY DEF Parse!PrototypeClose, PP!PrototypeClose, Parse!Tok, PP!Tok, Parse!Eat, PP!Eat,
         Parse!heap, PP!heap
<1>10. Parse!PrototypeArg => PP!PrototypeArg
  BY DEF Parse!PrototypeArg, PP!PrototypeArg, Parse!Tok, PP!Tok, Parse!Eat, PP!Eat,
         Parse!Push, PP!Push, Parse!Frame, PP!Frame, Parse!heap, PP!heap,
         Parse!NamedFrame, PP!NamedFrame
<1>11. Parse!PrototypeArgName => PP!PrototypeArgName
  BY DEF Parse!PrototypeArgName, PP!PrototypeArgName, Parse!Returned, PP!Returned,
         Parse!Tok, PP!Tok, Parse!Eat, PP!Eat, Parse!Pop, PP!Pop, Parse!heap, PP!heap,
         Parse!Top, PP!Top
<1>12. Parse!PrototypeType => PP!PrototypeType
  BY DEF Parse!PrototypeType, PP!PrototypeType, Parse!Tok, PP!Tok, Parse!Eat, PP!Eat,
         Parse!Push, PP!Push, Parse!Frame, PP!Frame, Parse!heap, PP!heap,
         Parse!NamedFrame, PP!NamedFrame
<1>13. Parse!PrototypeEnd => PP!PrototypeEnd
  BY DEF Parse!PrototypeEnd, PP!PrototypeEnd, Parse!Tok, PP!Tok, Parse!AfterPrototype,
         PP!AfterPrototype, Parse!heap, PP!heap, Parse!Returned, PP!Returned,
         Parse!NoUnit, PP!NoUnit, Parse!CallExpression, PP!CallExpression, Parse!Top,
         PP!Top, Parse!ExpressionFrame, PP!ExpressionFrame, Parse!Frame, PP!Frame,
         Parse!NamedFrame, PP!NamedFrame
<1>14. Parse!TypeName => PP!TypeName
  BY DEF Parse!TypeName, PP!TypeName, Parse!Tok, PP!Tok, Parse!Eat, PP!Eat, Parse!Push,
         PP!Push, Parse!NamedFrame, PP!NamedFrame, Parse!heap, PP!heap, Parse!MakeType,
         PP!MakeType, Parse!Return, PP!Return
<1>15. Parse!TypeTemplateArg => PP!TypeTemplateArg
  BY DEF Parse!TypeTemplateArg, PP!TypeTemplateArg, Parse!Returned, PP!Returned,
         Parse!Tok, PP!Tok, Parse!MakeType, PP!MakeType, Parse!Top, PP!Top, Parse!Pop,
         PP!Pop, Parse!Replace, PP!Replace, Parse!heap, PP!heap, Parse!Eat, PP!Eat,
         Parse!Return, PP!Return
<1>16. Parse!ParseLiteral => PP!ParseLiteral
  BY DEF Parse!ParseLiteral, PP!ParseLiteral, Parse!Tok, PP!Tok, Parse!Literal,
         PP!Literal, Parse!Eat, PP!Eat, Parse!MakeExpr, PP!MakeExpr, Parse!NewExpr,
         PP!NewExpr, Parse!Return, PP!Return
<1>17. Parse!ParseVariable => PP!ParseVariable
  BY DEF Parse!ParseVariable, PP!ParseVariable, Parse!Tok, PP!Tok, Parse!Eat, PP!Eat,
         Parse!MakeExpr, PP!MakeExpr, Parse!NewExpr, PP!NewExpr, Parse!Return, PP!Return
<1>18. Parse!ParseSubscript => PP!ParseSubscript
  BY DEF Parse!ParseSubscript, PP!ParseSubscript, Parse!Tok, PP!Tok, Parse!Eat, PP!Eat,
         Parse!Fail, PP!Fail, Parse!heap, PP!heap, Parse!NewSubscript, PP!NewSubscript,
         Parse!Return, PP!Return
<1>19. Parse!ParseCall => PP!ParseCall
  BY DEF Parse!ParseCall, PP!ParseCall, Parse!Tok, PP!Tok, Parse!Eat, PP!Eat,
         Parse!MakeExpr, PP!MakeExpr, Parse!CallExpression, PP!CallExpression,
         Parse!NamedFrame, PP!NamedFrame, Parse!heap, PP!heap, Parse!NewExpr,
         PP!NewExpr, Parse!Return, PP!Return, Parse!ExpressionFrame, PP!ExpressionFrame,
         Parse!Frame, PP!Frame
<1>20. Parse!ParseCallArg => PP!ParseCallArg
  BY DEF Parse!ParseCallArg, PP!ParseCallArg, Parse!Returned, PP!Returned, Parse!Tok,
         PP!Tok, Parse!MakeExpr, PP!MakeExpr, Parse!Top, PP!Top, Parse!Pop, PP!Pop,
         Parse!CallExpression, PP!CallExpression, Parse!heap, PP!heap, Parse!Eat,
         PP!Eat, Parse!NewExpr, PP!NewExpr, Parse!Return, PP!Return,
         Parse!ExpressionFrame, PP!ExpressionFrame, Parse!Frame, PP!Frame,
         Parse!NamedFrame, PP!NamedFrame
<1>21. Parse!ParseParenExpr => PP!ParseParenExpr
  BY DEF Parse!ParseParenExpr, PP!ParseParenExpr, Parse!Tok, PP!Tok, Parse!Eat, PP!Eat,
         Parse!CallExpression, PP!CallExpression, Parse!Frame, PP!Frame, Parse!heap,
         PP!heap, Parse!ExpressionFrame, PP!ExpressionFrame, Parse!NamedFrame,
         PP!NamedFrame
<1>22. Parse!CloseParen => PP!CloseParen
  BY DEF Parse!CloseParen, PP!CloseParen, Parse!Returned, PP!Returned, Parse!Tok,
         PP!Tok, Parse!Eat, PP!Eat, Parse!Pop, PP!Pop, Parse!heap, PP!heap, Parse!Top,
         PP!Top
<1>23. Parse!ParseListExpr => PP!ParseListExpr
  BY DEF Parse!ParseListExpr, PP!ParseListExpr, Parse!Tok, PP!Tok, Parse!Eat, PP!Eat,
         Parse!Push, PP!Push, Parse!Frame, PP!Frame, Parse!heap, PP!heap,
         Parse!NamedFrame, PP!NamedFrame
<1>24. Parse!ParseListElement => PP!ParseListElement
  BY DEF Parse!ParseListElement, PP!ParseListElement, Parse!Tok, PP!Tok,
         Parse!CallExpression, PP!CallExpression, Parse!heap, PP!heap,
         Parse!ExpressionFrame, PP!ExpressionFrame, Parse!Frame, PP!Frame,
         Parse!NamedFrame, PP!NamedFrame
<1>25. Parse!EndListElement => PP!EndListElement
  BY DEF Parse!EndListElement, PP!EndListElement, Parse!Returned, PP!Returned,
         Parse!Replace, PP!Replace, Parse!Top, PP!Top, Parse!heap, PP!heap
<1>26. Parse!CloseList => PP!CloseList
  BY DEF Parse!CloseList, PP!CloseList, Parse!Tok, PP!Tok, Parse!Eat, PP!Eat,
         Parse!MakeExpr, PP!MakeExpr, Parse!Top, PP!Top, Parse!Pop, PP!Pop,
         Parse!NewExpr, PP!NewExpr, Parse!Return, PP!Return
<1>27. Parse!EndPrimary => PP!EndPrimary
  BY DEF Parse!EndPrimary, PP!EndPrimary, Parse!Returned, PP!Returned, Parse!Replace,
         PP!Replace, Parse!BinOpFrame, PP!BinOpFrame, Parse!heap, PP!heap, Parse!Top,
         PP!Top
<1>28. Parse!BinOpDone => PP!BinOpDone
  BY DEF Parse!BinOpDone, PP!BinOpDone, Parse!tokPrecedence, PP!tokPrecedence,
         Parse!Tok, PP!Tok, Parse!Top, PP!Top, Parse!Return, PP!Return, Parse!Pop,
         PP!Pop, Parse!heap, PP!heap
<1>29. Parse!EatBinOp => PP!EatBinOp
  BY DEF Parse!EatBinOp, PP!EatBinOp, Parse!tokPrecedence, PP!tokPrecedence, Parse!Tok,
         PP!Tok, Parse!Top, PP!Top, Parse!Eat, PP!Eat, Parse!Replace, PP!Replace,
         Parse!heap, PP!heap
<1>30. Parse!TightenBinOp => PP!TightenBinOp
  BY DEF Parse!TightenBinOp, PP!TightenBinOp, Parse!Returned, PP!Returned,
         Parse!tokPrecedence, PP!tokPrecedence, Parse!Top, PP!Top, Parse!Tok, PP!Tok,
         Parse!BinOpFrame, PP!BinOpFrame, Parse!heap, PP!heap
<1>31. Parse!MergeBinOp => PP!MergeBinOp
  BY DEF Parse!MergeBinOp, PP!MergeBinOp, Parse!Returned, PP!Returned,
         Parse!tokPrecedence, PP!tokPrecedence, Parse!Top, PP!Top, Parse!Tok, PP!Tok,
         Parse!NewExpr, PP!NewExpr, Parse!Replace, PP!Replace, Parse!BinOpFrame,
         PP!BinOpFrame
<1>32. Parse!SyntaxError => PP!SyntaxError
  BY DEF Parse!SyntaxError, PP!SyntaxError, Parse!Unexpected, PP!Unexpected, Parse!Fail,
         PP!Fail, Parse!heap, PP!heap, Parse!Tok, PP!Tok, Parse!Literal, PP!Literal,
         Parse!Returned, PP!Returned, Parse!Top, PP!Top
<1>33. Parse!PropagateError => PP!PropagateError
  BY DEF Parse!PropagateError, PP!PropagateError, Parse!Top, PP!Top, Parse!Pop, PP!Pop,
         Parse!heap, PP!heap
<1>34. Parse!SwallowError => PP!SwallowError
  BY DEF Parse!SwallowError, PP!SwallowError, Parse!Top, PP!Top, Parse!Return,
         PP!Return, Parse!Pop, PP!Pop, Parse!heap, PP!heap
<1>35. Parse!Reject => PP!Reject
  BY DEF Parse!Reject, PP!Reject, Parse!heap, PP!heap
<1> QED BY <1>1, <1>2, <1>3, <1>4, <1>5, <1>6, <1>7, <1>8, <1>9, <1>10, <1>11, <1>12,
       <1>13, <1>14, <1>15, <1>16, <1>17, <1>18, <1>19, <1>20, <1>21, <1>22, <1>23,
       <1>24, <1>25, <1>26, <1>27, <1>28, <1>29, <1>30, <1>31, <1>32, <1>33, <1>34,
       <1>35, Zenon DEF Parse!Next, PP!Next

-----------------------------------------------------------------------------
\* What the parser counts on of the files.
LEMMA ParserFiles ==
  /\ Ident \cap (PP!Operator \cup PP!Literal \cup {"def", "extern", "eof"}) = {}
  /\ PP!Literal \cap (PP!Operator \cup {"def", "extern", "eof"}) = {}
  /\ \A t \in Inputs : PP!EndsInEof(t)
<1>1. PP!Operator = Parse!Operator /\ PP!Literal = Literal
  BY DEF PP!Operator, Parse!Operator, PP!Literal, Literal
<1>2. \A t : PP!EndsInEof(t) <=> Parse!EndsInEof(t)
  BY DEF PP!EndsInEof, Parse!EndsInEof, PP!Token, Parse!Token, PP!Operator, Parse!Operator,
         PP!Literal, Parse!Literal
<1> QED BY <1>1, <1>2, FilesAssumption

\* The inductive invariants of the parser.
ParserInv == PP!IInv /\ PP!OwnerInv /\ PP!LayoutInv /\ PP!DescriptorInv

LEMMA ParserInvInit == Parse!Init => ParserInv
<1>1. PP!Init => PP!IInv
  BY PP!InitIInv, ParserFiles, KindsDiffer
<1>2. PP!Init => PP!OwnerInv
  BY PP!InitOwners, ParserFiles, KindsDiffer
<1>3. PP!Init => PP!LayoutInv
  BY PP!InitLayout, ParserFiles, KindsDiffer
<1>4. PP!Init => PP!DescriptorInv
  BY PP!InitDescriptors, ParserFiles, KindsDiffer
<1> QED BY <1>1, <1>2, <1>3, <1>4, SameParserInit DEF ParserInv

LEMMA ParserInvStep ==
  ASSUME ParserInv, Parse!Next \/ UNCHANGED parsing PROVE ParserInv'
<1>1. [PP!Next]_(PP!vars)
  BY SameParserStep DEF PP!vars, PP!heap, parsing
<1>2. PP!IInv'
  BY <1>1, PP!NextIInv, ParserFiles, KindsDiffer DEF ParserInv
<1>3. PP!OwnerInv'
  BY <1>1, PP!NextOwners, ParserFiles, KindsDiffer DEF ParserInv
<1>4. PP!LayoutInv'
  BY <1>1, PP!NextLayout, ParserFiles, KindsDiffer DEF ParserInv
<1>5. PP!DescriptorInv'
  BY <1>1, PP!NextDescriptors, ParserFiles, KindsDiffer DEF ParserInv
<1> QED BY <1>2, <1>3, <1>4, <1>5 DEF ParserInv

LEMMA StartsNext == Starts' => CompilerInv'
BY StartsInv, PTL

-----------------------------------------------------------------------------
\* What is said of parsed programs is said twice as well.
LEMMA SamePrograms ==
  ASSUME NEW p
  PROVE  /\ PP!IsProgram(p) <=> IsProgram(p)
         /\ PP!Leftmost(p) = Leftmost(p)
         /\ PP!InPostOrder(p) <=> InPostOrder(p)
<1>1. PP!IsProgram(p) <=> IsProgram(p)
  BY DEF PP!IsProgram, IsProgram, PP!IsExpression, IsExpression, PP!IsUnit, IsUnit, PP!Literal, Literal
<1>2. PP!Leftmost(p) = Leftmost(p)
  BY Zenon DEF PP!Leftmost, Leftmost
<1>3. PP!InPostOrder(p) <=> InPostOrder(p)
  BY Zenon DEF PP!InPostOrder, InPostOrder, PP!Leftmost, Leftmost
<1> QED BY <1>1, <1>2, <1>3

\* The printer meets a null pointer in every tree that has one.
LEMMA NullsFound ==
  ASSUME Len(nodes) \in Nat, NEW f, f[0] = 0,
         \A n \in 1 .. Len(nodes) :
           /\ nodes[n].kids \in Seq(0 .. n - 1)
           /\ f[n] = 0 <=> \E k \in 1 .. Len(nodes[n].kids) : f[nodes[n].kids[k]] = 0
  PROVE  \A n \in 0 .. Len(nodes) : f[n] = 0 => n \in WithNull
<1> DEFINE Some(g, n) == n = 0 \/ \E k \in 1 .. Len(nodes[n].kids) : g[nodes[n].kids[k]]
           Eq(g) == g = [n \in 0 .. Len(nodes) |-> Some(g, n)]
           h == [n \in 0 .. Len(nodes) |-> f[n] = 0]
           null == CHOOSE g : Eq(g)
<1>1. ASSUME NEW n \in 1 .. Len(nodes), NEW k \in 1 .. Len(nodes[n].kids)
      PROVE  nodes[n].kids[k] \in 0 .. Len(nodes) /\ nodes[n].kids[k] < n
  <2>1. nodes[n].kids \in Seq(0 .. n - 1)
    OBVIOUS
  <2>2. nodes[n].kids[k] \in 0 .. n - 1
    BY <2>1
  <2> QED BY <2>2
<1>2. \E g : Eq(g)
  <2>1. \A n \in 0 .. Len(nodes) : h[n] = (f[n] = 0)
    OBVIOUS
  <2>2. h = [n \in 0 .. Len(nodes) |-> h[n]]
    OBVIOUS
  <2> HIDE DEF h
  <2>3. ASSUME NEW n \in 0 .. Len(nodes) PROVE h[n] = Some(h, n)
    <3>1. CASE n = 0
      BY <2>1, <3>1, Zenon
    <3>2. CASE n # 0
      <4>1. n \in 1 .. Len(nodes)
        BY <3>2
      <4>2. h[n] = (\E k \in 1 .. Len(nodes[n].kids) : f[nodes[n].kids[k]] = 0)
        BY <2>1, <4>1, Zenon
      <4>3. \A k \in 1 .. Len(nodes[n].kids) : h[nodes[n].kids[k]] = (f[nodes[n].kids[k]] = 0)
        BY <1>1, <2>1, <4>1, Zenon
      <4>4. (\E k \in 1 .. Len(nodes[n].kids) : f[nodes[n].kids[k]] = 0)
              <=> \E k \in 1 .. Len(nodes[n].kids) : h[nodes[n].kids[k]]
        BY <4>3, Zenon
      <4> QED BY <3>2, <4>2, <4>4, Zenon
    <3> QED BY <3>1, <3>2
  <2> HIDE DEF Some
  <2>4. h = [n \in 0 .. Len(nodes) |-> Some(h, n)]
    BY <2>2, <2>3, Zenon
  <2> QED BY <2>4, Zenon
<1>3. Eq(null)
  BY <1>2, Zenon
<1>4. WithNull = {n \in 0 .. Len(nodes) : null[n]}
  BY Zenon DEF WithNull
<1>5. ASSUME NEW n \in 0 .. Len(nodes) PROVE null[n] = Some(null, n)
  <2> HIDE DEF Some, null
  <2> QED BY <1>3, Zenon
<1> HIDE DEF null
<1> DEFINE Missed == {n \in 0 .. Len(nodes) : f[n] = 0 /\ ~null[n]}
<1>6. Missed = {}
  <2> SUFFICES ASSUME Missed # {} PROVE FALSE
    OBVIOUS
  <2>0. Missed \subseteq Nat
    OBVIOUS
  <2>1. PICK n \in Missed : \A m \in Missed : n <= m
    <3> HIDE DEF Missed
    <3> QED BY <2>0, P!LeastNumber, KindsDiffer, Zenon
  <2>2. n \in 0 .. Len(nodes) /\ f[n] = 0 /\ ~null[n]
    OBVIOUS
  <2>3. n # 0
    BY <1>5, <2>2, Zenon
  <2>4. n \in 1 .. Len(nodes)
    BY <2>2, <2>3
  <2>5. PICK k \in 1 .. Len(nodes[n].kids) : f[nodes[n].kids[k]] = 0
    BY <2>2, <2>4
  <2>6. ~null[nodes[n].kids[k]]
    BY <1>5, <2>2, Zenon
  <2>7. nodes[n].kids[k] \in Missed /\ nodes[n].kids[k] < n
    BY <1>1, <2>4, <2>5, <2>6
  <2>8. nodes[n].kids[k] \in Nat /\ n \in Nat /\ n <= nodes[n].kids[k]
    BY <1>1, <2>1, <2>2, <2>4, <2>7
  <2> QED BY <2>7, <2>8
<1> QED BY <1>4, <1>6

\* What main() takes to the analysis is what the parser has accepted,
LEMMA ParsedUnits ==
  ASSUME ParserInv, parsePc = "accepted"
  PROVE  /\ PP!SameUnits(Parsed) /\ Parsed.nodes = nodes
         /\ Len(nodes) \in Nat /\ Len(units) \in Nat /\ Len(Parsed.units) = Len(units)
         /\ \A u \in 1 .. Len(units) : /\ Parsed.units[u].kind = units[u].kind
                                      /\ Parsed.units[u].body = units[u].body
<1>1. nodes \in Seq(PP!ExprType) /\ units \in Seq(PP!UnitType)
  BY DEF ParserInv, PP!IInv, PP!TypeOK
<1>2. \A u \in 1 .. Len(units) : units[u].kind \in {"def", "extern"}
  BY DEF ParserInv, PP!LayoutInv, PP!PlaceInv
<1>3. Len(nodes) \in Nat /\ Len(units) \in Nat
  BY <1>1
<1> DEFINE Args(u) == [k \in 1 .. Len(units[u].args) |->
                         [type |-> Descriptor[units[u].args[k].type], name |-> units[u].args[k].name]]
           Returns(u) == IF units[u].type = 0 THEN <<>> ELSE <<Descriptor[units[u].type]>>
           Made(u) == [kind |-> units[u].kind, name |-> units[u].name, body |-> units[u].body,
                       args |-> Args(u), type |-> Returns(u)]
<1>4. Parsed = [nodes |-> nodes, units |-> [u \in 1 .. Len(units) |-> Made(u)]]
  BY Zenon DEF Parsed
<1>5. \A u \in 1 .. Len(units) : /\ Made(u).kind = units[u].kind /\ Made(u).body = units[u].body
                                /\ Made(u).args = Args(u)
  OBVIOUS
<1>6. ASSUME NEW u \in 1 .. Len(units) PROVE Args(u) \in Seq({Args(u)[k] : k \in DOMAIN Args(u)})
  <2>1. units[u] \in PP!UnitType
    BY <1>1
  <2>2. Len(units[u].args) \in Nat
    <3>1. units[u].args \in Seq([type : Nat, name : Ident])
      BY <2>1 DEF PP!UnitType
    <3> QED BY <3>1
  <2>3. DOMAIN Args(u) = 1 .. Len(units[u].args) /\ Args(u) = [k \in 1 .. Len(units[u].args) |-> Args(u)[k]]
    OBVIOUS
  <2> HIDE DEF Args
  <2> QED BY <2>2, <2>3
<1> HIDE DEF Args, Made
<1>7. /\ Parsed.nodes = nodes /\ Parsed.units = [u \in 1 .. Len(units) |-> Made(u)]
  BY <1>4
<1>8. /\ Len(Parsed.units) = Len(units)
      /\ \A u \in 1 .. Len(units) : Parsed.units[u] = Made(u)
      /\ Parsed.units \in Seq({Parsed.units[u] : u \in DOMAIN Parsed.units})
  <2>1. PICK s : s = Parsed.units
    OBVIOUS
  <2>2. s = [u \in 1 .. Len(units) |-> Made(u)]
    BY <1>7, <2>1
  <2>3. DOMAIN s = 1 .. Len(units) /\ s \in Seq({s[u] : u \in DOMAIN s})
    BY <1>3, <2>2
  <2> QED BY <1>3, <2>1, <2>2, <2>3
<1>9. \A u \in 1 .. Len(units) : PP!IsUnit(Parsed.units[u])
  <2> SUFFICES ASSUME NEW u \in 1 .. Len(units) PROVE PP!IsUnit(Parsed.units[u])
    OBVIOUS
  <2>1. PICK made : made = Made(u)
    OBVIOUS
  <2>2. PICK args : args = Args(u)
    OBVIOUS
  <2>3. made.kind \in {"def", "extern"} /\ made.args = args
    BY <1>2, <1>5, <2>1, <2>2
  <2>4. args \in Seq({args[k] : k \in DOMAIN args})
    BY <1>6, <2>2
  <2>5. PP!IsUnit(made)
    BY <2>3, <2>4, Zenon DEF PP!IsUnit
  <2> QED BY <1>8, <2>1, <2>5
<1> QED BY <1>3, <1>5, <1>7, <1>8, <1>9 DEF PP!SameUnits

\* in post-order,
LEMMA AcceptedIsParsed ==
  ASSUME ParserInv, parsePc = "accepted" PROVE IsParsed(Parsed)
<1>1. PP!SameUnits(Parsed)
  BY ParsedUnits
<1>2. PP!TypeOK /\ PP!LayoutInv
  BY DEF ParserInv, PP!IInv
<1>3. PP!IsProgram(Parsed) /\ PP!InPostOrder(Parsed)
  BY <1>1, <1>2, PP!AcceptedPlaced, ParserFiles, KindsDiffer
<1> QED BY <1>3, SamePrograms DEF IsParsed

\* A program without a null pointer, whose expressions all belong to a unit.
Whole(p) ==
  /\ \A n \in 1 .. Len(p.nodes) :
       /\ \A k \in 1 .. Len(p.nodes[n].kids) : p.nodes[n].kids[k] # 0
       /\ \/ \E u \in 1 .. Len(p.units) : p.units[u].body = n
          \/ \E m \in 1 .. Len(p.nodes) : \E k \in 1 .. Len(p.nodes[m].kids) : p.nodes[m].kids[k] = n
  /\ \A u \in 1 .. Len(p.units) : p.units[u].kind = "def" => p.units[u].body # 0

\* and whole if the printer has come through it.
LEMMA PrintedIsWhole ==
  ASSUME ParserInv, parsePc = "accepted", ~PrintsNull PROVE Whole(Parsed)
<1> DEFINE p == Parsed
           f == Leftmost(p)
<1>1. /\ PP!SameUnits(p) /\ p.nodes = nodes
      /\ Len(nodes) \in Nat /\ Len(units) \in Nat /\ Len(p.units) = Len(units)
      /\ \A u \in 1 .. Len(units) : p.units[u].kind = units[u].kind /\ p.units[u].body = units[u].body
  BY ParsedUnits
<1>2. IsProgram(p) /\ InPostOrder(p)
  BY AcceptedIsParsed DEF IsParsed
<1>3. /\ f[0] = 0
      /\ \A n \in 1 .. Len(p.nodes) :
           f[n] = 0 <=> \E k \in 1 .. Len(p.nodes[n].kids) : f[p.nodes[n].kids[k]] = 0
  BY <1>2, Zenon DEF InPostOrder
<1>4. \A n \in 1 .. Len(nodes) : nodes[n].kids \in Seq(0 .. n - 1)
  BY <1>1, <1>2 DEF IsProgram, IsExpression
<1>5. PP!TypeOK /\ PP!LayoutInv /\ PP!Leftmost(p) = f
  BY SamePrograms DEF ParserInv, PP!IInv
<1> HIDE DEF f, p
<1>6. \A n \in 0 .. Len(nodes) : f[n] = 0 => n \in WithNull
  BY <1>1, <1>3, <1>4, NullsFound
<1>7. ASSUME NEW u \in 1 .. Len(units), units[u].kind = "def"
      PROVE  units[u].body # 0 /\ f[units[u].body] # 0
  <2>1. units[u].body \in 0 .. Len(nodes)
    BY <1>1, <1>2, <1>7 DEF IsProgram
  <2>2. units[u].body \notin WithNull
    BY <1>7 DEF PrintsNull
  <2> QED BY <1>3, <1>6, <2>1, <2>2
<1>8. \A u \in 1 .. Len(units) : units[u].kind = "def" => PP!Leftmost(p)[units[u].body] # 0
  BY <1>5, <1>7
<1>9. \A n \in 1 .. Len(nodes) :
        /\ \A k \in 1 .. Len(nodes[n].kids) : nodes[n].kids[k] # 0
        /\ \/ \E u \in 1 .. Len(units) : units[u].kind = "def" /\ units[u].body = n
           \/ \E m \in 1 .. Len(nodes) : \E k \in 1 .. Len(nodes[m].kids) : nodes[m].kids[k] = n
  BY <1>1, <1>5, <1>8, PP!AcceptedWhole, ParserFiles, KindsDiffer
<1>10. Whole(p)
  <2>1. ASSUME NEW n \in 1 .. Len(nodes)
        PROVE  \/ \E u \in 1 .. Len(p.units) : p.units[u].body = n
               \/ \E m \in 1 .. Len(nodes) : \E k \in 1 .. Len(nodes[m].kids) : nodes[m].kids[k] = n
    <3>1. CASE \E u \in 1 .. Len(units) : units[u].kind = "def" /\ units[u].body = n
      BY <1>1, <3>1
    <3> QED BY <1>9, <3>1
  <2>2. \A u \in 1 .. Len(p.units) : p.units[u].kind = "def" => p.units[u].body # 0
    BY <1>1, <1>7
  <2> QED BY <1>1, <1>9, <2>1, <2>2 DEF Whole
<1> QED BY <1>10 DEF p

-----------------------------------------------------------------------------
\* A step of main(): one of the parser, one of the compiler, or the one
\* between them that hands the program over; the printer of the analysis
\* looks at the types before the code generator begins.
Early == {"lex", "parse"}
NoNullTypes == \A i \in Functions : ~HasNull(analyzed[i].sig.ret)

LEMMA MainStep ==
  ASSUME [ConflakeNext]_conflakevars
  PROVE  /\ Parse!Next \/ UNCHANGED parsing
         /\ \/ /\ UNCHANGED compilervars
               /\ phase' \in Early => phase \in Early
               /\ phase' \in Later => phase \in Later
               /\ phase' = "generate" => phase = "generate" \/ NoNullTypes
            \/ /\ phase \in Later /\ UNCHANGED <<phase, program>> /\ [CompilerNext]_compilervars
               /\ phase = "generate" => UNCHANGED vars
            \/ /\ phase \in Early /\ phase' = "analyze" /\ parsePc = "accepted" /\ ~PrintsNull
               /\ program' = Parsed /\ UNCHANGED <<build, result, context, generated, machine>>
<1>1. ASSUME NEW next \in {"failed", "killed", "exited", "endless"}, Enter(next)
      PROVE  UNCHANGED <<parsing, compilervars>> /\ phase' \notin Early \cup Later
  BY <1>1 DEF Enter, Early, Later
<1>2. CASE UNCHANGED conflakevars
  BY <1>2 DEF conflakevars
<1>3. CASE Lex
  BY <1>1, <1>3 DEF Lex, Enter, Early, Later
<1>4. CASE ParseTokens
  BY <1>4 DEF ParseTokens
<1>5. CASE ParserError \/ SemanticError \/ EndOfMain
  BY <1>1, <1>5 DEF ParserError, SemanticError, EndOfMain, Early, Later
<1>6. CASE PrintTree
  BY <1>1, <1>6 DEF PrintTree, Early, Later
<1>7. CASE AnalyzeTree
  <2>1. phase = "analyze" /\ UNCHANGED phase /\ UNCHANGED parsing /\ Analyze
    BY <1>7 DEF AnalyzeTree
  <2>2. Next
    BY <2>1 DEF Analyze
  <2>3. UNCHANGED program
    BY <2>2 DEF Next, input
  <2> QED BY <2>1, <2>3 DEF CompilerNext, Later
<1>8. CASE PrintTypes
  <2>1. CASE NoNullTypes /\ Enter("generate")
    BY <1>8, <2>1 DEF PrintTypes, Enter, Early, Later
  <2> QED BY <1>1, <1>8, <2>1 DEF PrintTypes, NoNullTypes, Early, Later
<1>9. CASE GenerateAndRun
  <2>1. phase = "generate" /\ UNCHANGED phase /\ UNCHANGED parsing /\ UNCHANGED vars /\ CompilerNext
    BY <1>9 DEF GenerateAndRun, Generate, Execute, CompilerNext
  <2> QED BY <2>1 DEF vars, input, Later
<1> QED BY <1>2, <1>3, <1>4, <1>5, <1>6, <1>7, <1>8, <1>9 DEF ConflakeNext

-----------------------------------------------------------------------------
\* The invariant of the command line program: those of its phases.  The
\* compiler has the program of the file as soon as the analysis begins.
FileInv ==
  /\ ConflakeInv /\ ParserInv /\ CompilerInv
  /\ phase \in Early => Starts
  /\ phase \in Later => Whole(program)
  /\ phase = "generate" => NoNullTypes

\* A program that is handed over puts the compiler where it starts.
LEMMA HandOver ==
  ASSUME Starts, ParserInv, parsePc = "accepted",
         program' = Parsed, UNCHANGED <<build, result, context, generated, machine>>
  PROVE  Starts'
<1>1. IsParsed(program')
  BY AcceptedIsParsed
<1>2. Begun'
  BY <1>1 DEF Starts, Begun, result, context, toplevel
<1>3. UNCHANGED P!genvars
  BY DEF generated, P!genvars, P!translation, P!chosen
<1>4. P!GenInit' /\ Code!MachineInit'
  BY DEF Starts, generated, machine, P!GenInit, Code!MachineInit
<1> QED BY <1>2, <1>4 DEF Starts

LEMMA FileInvInit == ConflakeInit => FileInv
<1> SUFFICES ASSUME ConflakeInit PROVE FileInv
  OBVIOUS
<1>1. Parse!Init /\ CompilerInit /\ phase = "lex"
  BY DEF ConflakeInit
<1>2. Starts
  BY <1>1, InitBegun, SameInit DEF CompilerInit, Starts
<1>3. ParserInv /\ CompilerInv /\ ConflakeInv
  BY <1>1, <1>2, ParserInvInit, StartsInv, ConflakeInvInit
<1> QED BY <1>1, <1>2, <1>3 DEF FileInv, Later, Early

LEMMA FileInvStep == FileInv /\ [ConflakeNext]_conflakevars => FileInv'
<1> SUFFICES ASSUME FileInv, [ConflakeNext]_conflakevars PROVE FileInv'
  OBVIOUS
<1>1. /\ ConflakeInv /\ ParserInv /\ CompilerInv
      /\ phase \in Early => Starts
      /\ phase \in Later => Whole(program)
      /\ phase = "generate" => NoNullTypes
  BY DEF FileInv
<1>2. ConflakeInv' /\ ParserInv'
  BY <1>1, ConflakeInvStep, MainStep, ParserInvStep
<1>3. ASSUME UNCHANGED compilervars PROVE CompilerInv' /\ (Starts => Starts')
  <2>1. CompilerInv'
    BY <1>1, <1>3, CompilerInvStep
  <2>2. /\ UNCHANGED <<vars, P!genvars, calls, heap, res>>
    BY <1>3 DEF compilervars, generated, machine, P!genvars, P!translation, P!chosen
  <2>3. Begun => Begun'
    BY <2>2 DEF Begun, vars, input, result, context, toplevel
  <2>4. P!GenInit => P!GenInit'
    BY <2>2 DEF P!GenInit, P!genvars, P!translation, P!chosen
  <2>5. Code!MachineInit => Code!MachineInit'
    BY <2>2 DEF Code!MachineInit
  <2> QED BY <2>1, <2>3, <2>4, <2>5 DEF Starts
<1>4. ASSUME UNCHANGED vars PROVE (NoNullTypes <=> NoNullTypes') /\ UNCHANGED program
  BY <1>4 DEF vars, input, result, context, toplevel, NoNullTypes, Functions
<1>5. CASE /\ UNCHANGED compilervars
           /\ phase' \in Early => phase \in Early
           /\ phase' \in Later => phase \in Later
           /\ phase' = "generate" => phase = "generate" \/ NoNullTypes
  <2>1. UNCHANGED vars
    BY <1>5 DEF compilervars
  <2>2. (NoNullTypes <=> NoNullTypes') /\ UNCHANGED program
    BY <2>1, <1>4
  <2>3. phase' \in Later => Whole(program)'
    BY <1>1, <1>5, <2>2 DEF Whole
  <2> QED BY <1>1, <1>2, <1>3, <1>5, <2>2, <2>3 DEF FileInv
<1>6. CASE /\ phase \in Later /\ UNCHANGED <<phase, program>> /\ [CompilerNext]_compilervars
           /\ phase = "generate" => UNCHANGED vars
  <2>1. CompilerInv'
    BY <1>1, <1>6, CompilerInvStep
  <2>2. phase' \notin Early /\ phase' = phase
    BY <1>6 DEF Early, Later
  <2>3. phase' \in Later => Whole(program)'
    BY <1>1, <1>6 DEF Whole
  <2>4. phase' = "generate" => NoNullTypes'
    BY <1>1, <1>4, <1>6
  <2> QED BY <1>2, <2>1, <2>2, <2>3, <2>4 DEF FileInv
<1>7. CASE /\ phase \in Early /\ phase' = "analyze" /\ parsePc = "accepted" /\ ~PrintsNull
           /\ program' = Parsed /\ UNCHANGED <<build, result, context, generated, machine>>
  <2>1. Starts'
    BY <1>1, <1>7, HandOver
  <2>2. CompilerInv'
    BY <2>1, StartsNext
  <2>3. Whole(program')
    BY <1>1, <1>7, PrintedIsWhole
  <2>4. Whole(program)'
    BY <2>3 DEF Whole
  <2> QED BY <1>2, <1>7, <2>2, <2>4 DEF FileInv, Early
<1> QED BY <1>5, <1>6, <1>7, MainStep

-----------------------------------------------------------------------------
LEMMA FileInvHolds == ConflakeSpec => []FileInv
BY FileInvInit, FileInvStep, PTL DEF ConflakeSpec

\* Whatever the files are: the analysis and the code generator never see a
\* null pointer, nor a number that belongs to no unit, and the code generator
\* no null type of a function: the printers of main() die of them first.
THEOREM PrintersMeetEveryNull == ConflakeSpec => []LaterPhasesSeeNoNull
<1>1. FileInv => LaterPhasesSeeNoNull
  BY DEF FileInv, Whole, Node, NoNullTypes, LaterPhasesSeeNoNull
<1> QED BY FileInvHolds, <1>1, PTL

\* What the code generator makes of any file: every function that it finished
\* is sound, and the types it has asked for were there.
THEOREM FilesAreCompiled == ConflakeSpec => [](GeneratedIsStructured /\ LookupsSucceed)
<1>1. FileInv => GeneratedIsStructured /\ LookupsSucceed
  BY GeneratorIsStructured, InvLookups DEF FileInv, CompilerInv
<1> QED BY FileInvHolds, <1>1, PTL

\* The program of every file has its expressions numbered in post-order, so
\* the analysis has a type for exactly the numbers of each function.
THEOREM FilesAreAnalyzed == ConflakeSpec => []ContextIsComplete
<1>1. FileInv => ContextIsComplete
  BY InvComplete DEF FileInv, CompilerInv
<1> QED BY FileInvHolds, <1>1, PTL

\* A set of trees that has the type descriptors of all files: it is closed
\* under what the parser does, which is to put made ones below a name.
DescriptorSet(D) ==
  \A name \in Ident : \A args \in Seq(D) : [name |-> name, args |-> args] \in D

\* types::build makes a type of the language of every descriptor, or fails.
Builds(D, T) == \A descriptor \in D : Build(descriptor) \in T \cup {Invalid}

\* A descriptor is made of a name and of older ones.
LEMMA AreTrees ==
  ASSUME NEW D, DescriptorSet(D), NEW h, Len(h) \in Nat, PP!Made(h),
         NEW f, PP!AsTrees(f, h)
  PROVE  \A t \in 1 .. Len(h) : f[t] \in D
<1> DEFINE If(t) == PP!TreeOf(f, h[t])
           Missed == {t \in 1 .. Len(h) : f[t] \notin D}
<1>1. \A t \in 1 .. Len(h) : f[t] = If(t)
  <2>1. f = [t \in 1 .. Len(h) |-> If(t)]
    BY Zenon DEF PP!AsTrees
  <2> HIDE DEF If
  <2> QED BY <2>1, Zenon
<1>2. \A t \in 1 .. Len(h) : h[t].name \in Ident /\ h[t].args \in Seq(1 .. t - 1)
  BY Zenon DEF PP!Made
<1>3. Missed = {}
  <2> SUFFICES ASSUME Missed # {} PROVE FALSE
    OBVIOUS
  <2>1. Missed \subseteq Nat
    OBVIOUS
  <2>2. PICK t \in Missed : \A s \in Missed : t <= s
    <3> HIDE DEF Missed
    <3> QED BY <2>1, Least, Zenon
  <2>3. t \in 1 .. Len(h) /\ f[t] \notin D
    OBVIOUS
  <2>4. PICK name, args : name = h[t].name /\ args = h[t].args
    OBVIOUS
  <2>5. name \in Ident /\ args \in Seq(1 .. t - 1) /\ t \in Nat
    BY <1>2, <2>3, <2>4
  <2>6. Len(args) \in Nat /\ \A k \in 1 .. Len(args) : args[k] \in 1 .. t - 1
    BY <2>5
  <2>7. ASSUME NEW k \in 1 .. Len(args) PROVE f[args[k]] \in D
    <3>1. args[k] \in 1 .. Len(h) /\ ~(t <= args[k])
      BY <2>3, <2>5, <2>6
    <3> QED BY <2>2, <3>1
  <2> DEFINE trees == [k \in 1 .. Len(args) |-> f[args[k]]]
  <2>8. trees \in Seq(D)
    BY <2>6, <2>7
  <2>9. f[t] = [name |-> name, args |-> trees]
    BY <1>1, <2>3, <2>4 DEF PP!TreeOf
  <2> HIDE DEF trees
  <2> QED BY <2>3, <2>5, <2>8, <2>9 DEF DescriptorSet
<1> QED BY <1>3

\* What the units of a file name are type descriptors.
LEMMA TypesAreTrees ==
  ASSUME ParserInv, NEW D, DescriptorSet(D)
  PROVE  \A t \in 1 .. Len(types) : Descriptor[t] \in D
<1>1. PP!TypeOK /\ PP!Made(types) /\ \E f : PP!AsTrees(f, types)
  BY DEF ParserInv, PP!IInv, PP!DescriptorInv
<1>2. Len(types) \in Nat
  <2>1. types \in Seq(PP!DescType)
    BY <1>1 DEF PP!TypeOK
  <2> QED BY <2>1
<1>3. Descriptor = CHOOSE f : PP!AsTrees(f, types)
  BY Zenon DEF Descriptor, PP!AsTrees, PP!TreeOf
<1>4. PP!AsTrees(Descriptor, types)
  BY <1>1, <1>3, Zenon
<1> QED BY <1>1, <1>2, <1>4, AreTrees, Zenon

\* The types of a file can be built.
LEMMA ParsedBuilds ==
  ASSUME ParserInv, parsePc = "accepted", NEW D, NEW T, DescriptorSet(D), Builds(D, T)
  PROVE  BuildsOf(T, Parsed)
<1>1. /\ units \in Seq(PP!UnitType) /\ PP!UnitsMade(units, Len(types))
      /\ Len(units) \in Nat /\ Len(Parsed.units) = Len(units)
  BY ParsedUnits DEF ParserInv, PP!IInv, PP!TypeOK, PP!DescriptorInv
<1> DEFINE Args(u) == [k \in 1 .. Len(units[u].args) |->
                         [type |-> Descriptor[units[u].args[k].type], name |-> units[u].args[k].name]]
           Returns(u) == IF units[u].type = 0 THEN <<>> ELSE <<Descriptor[units[u].type]>>
           Row(u) == [kind |-> units[u].kind, name |-> units[u].name, body |-> units[u].body,
                      args |-> Args(u), type |-> Returns(u)]
<1>2. \A u \in 1 .. Len(units) : Row(u).args = Args(u) /\ Row(u).type = Returns(u)
  OBVIOUS
<1>3. Parsed.units = [u \in 1 .. Len(units) |-> Row(u)]
  <2>1. Parsed = [nodes |-> nodes, units |-> [u \in 1 .. Len(units) |-> Row(u)]]
    BY Zenon DEF Parsed
  <2> HIDE DEF Row
  <2> QED BY <2>1
<1>4. \A u \in 1 .. Len(units) : Parsed.units[u] = Row(u)
  <2> HIDE DEF Row
  <2> QED BY <1>3
<1>5. \A t \in 1 .. Len(types) : Build(Descriptor[t]) \in T \cup {Invalid}
  BY TypesAreTrees, Zenon DEF Builds
<1>6. ASSUME NEW u \in 1 .. Len(units)
      PROVE  /\ \A i \in 1 .. Len(Args(u)) : Build(Args(u)[i].type) \in T \cup {Invalid}
             /\ Returns(u) # <<>> => Build(Returns(u)[1]) \in T \cup {Invalid}
  <2>1. /\ units[u].type \in 0 .. Len(types)
        /\ \A k \in 1 .. Len(units[u].args) : units[u].args[k].type \in 1 .. Len(types)
    BY <1>1, Zenon DEF PP!UnitsMade, PP!UnitMade
  <2>2. Len(units[u].args) \in Nat
    <3>1. units[u] \in PP!UnitType
      BY <1>1
    <3>2. units[u].args \in Seq([type : Nat, name : Ident])
      BY <3>1 DEF PP!UnitType
    <3> QED BY <3>2
  <2>3. Len(Args(u)) = Len(units[u].args)
    BY <2>2
  <2>4. \A i \in 1 .. Len(units[u].args) : Args(u)[i].type = Descriptor[units[u].args[i].type]
    OBVIOUS
  <2>5. Returns(u) # <<>> => units[u].type \in 1 .. Len(types) /\ Returns(u)[1] = Descriptor[units[u].type]
    BY <2>1
  <2> HIDE DEF Args, Returns
  <2>6. \A i \in 1 .. Len(Args(u)) : Build(Args(u)[i].type) \in T \cup {Invalid}
    <3> TAKE i \in 1 .. Len(Args(u))
    <3>1. i \in 1 .. Len(units[u].args)
      BY <2>3
    <3>2. Args(u)[i].type = Descriptor[units[u].args[i].type] /\ units[u].args[i].type \in 1 .. Len(types)
      BY <2>1, <2>4, <3>1, Zenon
    <3> QED BY <1>5, <3>2
  <2>7. Returns(u) # <<>> => Build(Returns(u)[1]) \in T \cup {Invalid}
    BY <1>5, <2>5
  <2> QED BY <2>6, <2>7
<1> HIDE DEF Args, Returns, Row
<1>7. ASSUME NEW u \in 1 .. Len(Parsed.units)
      PROVE  Parsed.units[u].args = Args(u) /\ Parsed.units[u].type = Returns(u) /\ u \in 1 .. Len(units)
  BY <1>1, <1>2, <1>4, <1>7
<1> QED BY <1>6, <1>7, Zenon DEF BuildsOf

\* The program of a file has no types yet.
LEMMA HandOverValues ==
  ASSUME NEW T, BuildsOf(T, Parsed), Starts, ValuesInv(T), SemanticInv',
         program' = Parsed, UNCHANGED <<build, result, context, generated, machine>>
  PROVE  ValuesInv(T)'
<1>1. /\ UNCHANGED <<pc, current, globals, locals, expressions, stack, analyzed, mod>>
      /\ pc = "analyze" /\ DOMAIN globals = {} /\ analyzed = <<>>
  BY DEF result, context, toplevel, generated, Starts, Begun
<1>2. TypesIn(T)'
  <2>1. BuildsOf(T, program')
    OBVIOUS
  <2>2. ValuesIn(T, globals) /\ ValuesIn(T, locals) /\ ValuesIn(T, expressions) /\ ArgsIn(T, stack)
    BY DEF ValuesInv, AnalysisInv, TypesIn
  <2> QED BY <1>1, <2>1, <2>2 DEF TypesIn
<1>3. TypingInv'
  BY <1>1 DEF TypingInv
<1>4. ScopeInv(T)'
  <2>1. GlobalsMean(program', analyzed', current', globals')
    BY <1>1 DEF GlobalsMean
  <2> QED BY <1>1, <2>1 DEF ScopeInv
<1> QED BY <1>1, <1>2, <1>3, <1>4 DEF ValuesInv, AnalysisInv

\* Every step of main() keeps the types of values.
LEMMA FileValuesStep ==
  ASSUME NEW D, NEW T, DescriptorSet(D), Builds(D, T), Told(T),
         FileInv, ValuesInv(T), [ConflakeNext]_conflakevars
  PROVE  ValuesInv(T)'
<1>1. CompilerInv /\ (phase \in Early => Starts)
  BY DEF FileInv
<1>2. CASE [CompilerNext]_compilervars
  BY <1>1, <1>2, ValuesStep
<1>3. CASE /\ phase \in Early /\ parsePc = "accepted" /\ program' = Parsed
           /\ UNCHANGED <<build, result, context, generated, machine>>
  <2>1. FileInv'
    BY FileInvStep
  <2>2. SemanticInv'
    BY <2>1 DEF FileInv, CompilerInv
  <2>3. BuildsOf(T, Parsed)
    BY <1>3, ParsedBuilds DEF FileInv
  <2> QED BY <1>1, <1>3, <2>2, <2>3, HandOverValues
<1>4. ConflakeInv
  BY DEF FileInv
<1>5. [CompilerNext]_compilervars \/ (/\ phase \in Early /\ parsePc = "accepted" /\ program' = Parsed
                                      /\ UNCHANGED <<build, result, context, generated, machine>>)
  BY <1>4, MainStep
<1> QED BY <1>2, <1>3, <1>5

\* Whatever the files are, if descriptors build the types of the language,
\* and these have the names and the translations that the code gives them:
\* the recorded types follow the rules of the language and are told apart by
\* *a == *b, and in an orderly program a value has the LLVM type of the type
\* recorded for its expression.  BuildsIn speaks of what program is before
\* there is a file, one without units.
THEOREM FilesKeepTheirTypes ==
  ASSUME NEW D, NEW T, DescriptorSet(D), Builds(D, T), BuildsIn(T),
         TreeSet(T), Mangles(T), Null \in T, Lowered(T)
  PROVE  ConflakeSpec => [](WellTyped /\ EqualIsSame /\ ValuesHaveTheirTypes)
<1>1. ConflakeInit => FileInv /\ ValuesInv(T)
  <2> SUFFICES ASSUME ConflakeInit PROVE FileInv /\ ValuesInv(T)
    OBVIOUS
  <2>1. Init /\ Gen!GenInit
    BY DEF ConflakeInit, CompilerInit
  <2> QED BY <2>1, FileInvInit, ValuesInvInit
<1>2. FileInv /\ ValuesInv(T) /\ [ConflakeNext]_conflakevars => FileInv' /\ ValuesInv(T)'
  BY FileInvStep, FileValuesStep DEF Told
<1>3. FileInv /\ ValuesInv(T) => WellTyped /\ EqualIsSame /\ ValuesHaveTheirTypes
  <2> SUFFICES ASSUME FileInv, ValuesInv(T) PROVE WellTyped /\ EqualIsSame /\ ValuesHaveTheirTypes
    OBVIOUS
  <2>1. CompilerInv /\ SemanticInv /\ TypesIn(T) /\ TypingInv
    BY DEF FileInv, ValuesInv, AnalysisInv
  <2>2. Faithful(T)
    BY MangledNamesDiffer
  <2>3. EqualIsSame
    BY <2>1, <2>2 DEF TypesIn, ValuesIn, Faithful, EqualIsSame
  <2> QED BY <2>1, <2>3, InvTyped, ValuesAreTyped
<1> QED BY <1>1, <1>2, <1>3, PTL DEF ConflakeSpec
=============================================================================
