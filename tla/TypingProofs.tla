---------------------------- MODULE TypingProofs ----------------------------
(***************************************************************************)
(* What the semantic analysis records is well typed, for every set of      *)
(* types that is closed under what the language makes of its elements:     *)
(* every recorded type follows from the others by the rule of its kind,    *)
(* and every name in the scope of a function is a unit, the function       *)
(* itself or a parameter.  Mangled names say which type they are of: no    *)
(* name begins with another one, so two types of the language that mangle  *)
(* to one name are the same type, and *a == *b compares types although it  *)
(* compares names.                                                         *)
(***************************************************************************)
EXTENDS SemanticProofs, Mangling, NaturalsInduction, WellFoundedInduction

\* A set of types that contains what the language can make of its elements.
TypeSet(T) ==
  /\ Real \in T /\ Integer \in T /\ Boolean \in T
  /\ \A a \in T : List(a) \in T
  /\ \A r \in T : \A args \in Seq(T) : Function(r, args) \in T
  /\ \A t \in T : /\ t.args \in Seq(T) /\ t = Type(t.name, t.args)
                  /\ t.name = "list" => Len(t.args) = 1
                  /\ t.name = "fun" => Len(t.args) >= 1

\* types::build makes such types of the descriptors in the programs.
BuildsOf(T, p) ==
  \A u \in 1 .. Len(p.units) :
    /\ \A i \in 1 .. Len(p.units[u].args) : Build(p.units[u].args[i].type) \in T \cup {Invalid}
    /\ p.units[u].type # <<>> => Build(p.units[u].type[1]) \in T \cup {Invalid}
BuildsIn(T) == \A p \in Programs : BuildsOf(T, p)

\* Types with one mangled name are one type.
Faithful(T) == \A a, b \in T : Compare(a, b) = "same" => a = b

\* The elements of a sequence.
Frames(s) == {s[i] : i \in 1 .. Len(s)}

\* The types in a map, and in the frames of a stack, are of the set.
ValuesIn(T, map) == \A x \in DOMAIN map : map[x] \in T
ArgsIn(T, s) == \A f \in Frames(s) : f.args \in Seq(T)

\* All types in use are in the set.
TypesIn(T) ==
  /\ ValuesIn(T, globals) /\ ValuesIn(T, locals) /\ ValuesIn(T, expressions)
  /\ ArgsIn(T, stack)
  /\ pc = "return" => ret \in T
  /\ pc \in {"visit", "return"} => CanBuild(program.units[current])
  /\ BuildsOf(T, program)

\* An expression has its type by the rule of its kind from the recorded types
\* of its operands.
TypedBy(p, n, type, e, v) ==
  /\ \A k \in 1 .. Len(p.nodes[n].kids) : Kid(p, n, k) \in DOMAIN e
  /\ Rule(p.nodes[n], type, [k \in 1 .. Len(p.nodes[n].kids) |-> e[Kid(p, n, k)]], v)

\* So has every expression in m_expressions.
MapTyped(p, e, v) == \A n \in DOMAIN e : TypedBy(p, n, e[n], e, v)

\* The types in a frame: those of a binary expression are recorded when it
\* has both, the others have been.
GivenTyped(p, f, e, v) ==
  \A k \in 1 .. Len(f.args) :
    CASE p.nodes[f.node].kind = "binary" -> TypedBy(p, Kid(p, f.node, k), f.args[k], e, v)
      [] p.nodes[f.node].kind = "list" -> Kid(p, f.node, k) \in DOMAIN e /\ e[Kid(p, f.node, k)] = f.args[1]
      [] OTHER -> Kid(p, f.node, k) \in DOMAIN e /\ e[Kid(p, f.node, k)] = f.args[k]

\* So have the results in every frame of the stack.
StackTyped(p, s, e, v) == \A f \in Frames(s) : GivenTyped(p, f, e, v)

\* The entry of a function in the TopLevel agrees with itself and with the
\* return type that the function declares.
FunctionTyped(p, u, entry) ==
  /\ MapTyped(p, entry.expressions, entry.variables)
  /\ entry.sig.ret = entry.expressions[p.units[u].body]
  /\ p.units[u].type # <<>> => entry.sig.ret = Build(p.units[u].type[1])

\* The inductive invariant behind the types: what is recorded follows the
\* rules already while a function is walked, where the operands of a binary
\* expression that has one of them are typed although they are not recorded.
TypingInv ==
  /\ pc \in {"visit", "return"} => /\ MapTyped(program, expressions, locals)
                                   /\ StackTyped(program, stack, expressions, locals)
  /\ pc = "return" => TypedBy(program, Yielded(program, Body(program, current), stack), ret, expressions, locals)
  /\ \A i \in 1 .. Len(analyzed) :
       program.units[i].kind = "def" => FunctionTyped(program, i, analyzed[i])

-----------------------------------------------------------------------------
\* Only the frame on top of the stack changes.
LEMMA TailElements ==
  ASSUME NEW s, IsSeq(s), s # <<>>
  PROVE  Frames(Tail(s)) \subseteq Frames(s) /\ Head(s) \in Frames(s)
<1>1. /\ IsSeq(Tail(s)) /\ Len(Tail(s)) = Len(s) - 1 /\ Len(s) >= 1 /\ Head(s) = s[1]
      /\ \A i \in 1 .. Len(s) - 1 : Tail(s)[i] = s[i + 1]
  BY TailSeq
<1>2. Len(s) \in Nat
  BY SeqDomain
<1>3. \A i \in 1 .. Len(Tail(s)) : i + 1 \in 1 .. Len(s) /\ Tail(s)[i] = s[i + 1]
  BY <1>1, <1>2
<1>4. 1 \in 1 .. Len(s)
  BY <1>1, <1>2
<1> QED BY <1>1, <1>3, <1>4 DEF Frames

\* A call adds its frame to those of its callers.
LEMMA PushElements ==
  ASSUME NEW s, IsSeq(s), NEW f
  PROVE  Frames(Push(f, s)) = Frames(s) \cup {f}
<1> DEFINE t == Push(f, s)
<1>1. Len(t) = Len(s) + 1 /\ t[1] = f /\ \A i \in 2 .. Len(t) : t[i] = s[i - 1]
  BY PushSeq
<1>2. Len(s) \in Nat
  BY SeqDomain
<1> HIDE DEF t
<1>3. \A i \in 1 .. Len(t) : t[i] = f \/ (i - 1 \in 1 .. Len(s) /\ t[i] = s[i - 1])
  BY <1>1, <1>2
<1>4. \A i \in 1 .. Len(s) : i + 1 \in 1 .. Len(t) /\ t[i + 1] = s[i]
  BY <1>1, <1>2
<1>5. 1 \in 1 .. Len(t)
  BY <1>1, <1>2
<1> QED BY <1>1, <1>3, <1>4, <1>5 DEF Frames, t

\* The types that the table of builtins is made of, and the two shapes of an
\* entry.
Basic == {Real, Integer, Boolean}

\* An operator takes two operands, if takes three.
IsEntry(entry) ==
  \/ \E op : \E a, b, r \in Basic : entry = Op(op, <<a, b>>, r)
  \/ \E a, b, c, r \in Basic : entry = Op("if", <<a, b, c>>, r)

\* Every entry has one of them.
LEMMA BuiltinEntries ==
  ASSUME NEW k \in 1 .. Len(Builtins)
  PROVE  IsEntry(Builtins[k])
<1>1. Len(Builtins) = 14
  BY DEF Builtins
<1>2. k \in {1, 2, 3, 4, 5, 6, 7, 8, 9, 10, 11, 12, 13, 14}
  BY <1>1
<1>3. Real \in Basic /\ Integer \in Basic /\ Boolean \in Basic
  BY DEF Basic
<1>4. \A op : \A a, b, r \in Basic : IsEntry(Op(op, <<a, b>>, r))
  BY Zenon DEF IsEntry
<1>5. \A a, b, c, r \in Basic : IsEntry(Op("if", <<a, b, c>>, r))
  BY Zenon DEF IsEntry
<1>6. CASE k \in {1, 2, 3, 4, 5, 6, 7, 8, 9, 10}
  BY <1>3, <1>4, <1>6 DEF Builtins
<1>7. CASE k \in {11, 12, 13, 14}
  BY <1>3, <1>4, <1>5, <1>7 DEF Builtins
<1> QED BY <1>2, <1>6, <1>7

\* What a shape says of an entry.
LEMMA EntryTypes ==
  ASSUME NEW entry, IsEntry(entry)
  PROVE  /\ entry.ret \in Basic /\ entry.args \in Seq(Basic)
         /\ entry = Op(entry.op, entry.args, entry.ret)
         /\ entry.op # "if" => Len(entry.args) = 2
<1>1. ASSUME NEW op, NEW a \in Basic, NEW b \in Basic, NEW r \in Basic, entry = Op(op, <<a, b>>, r)
      PROVE  /\ entry.ret \in Basic /\ entry.args \in Seq(Basic) /\ Len(entry.args) = 2
             /\ entry = Op(entry.op, entry.args, entry.ret)
  BY <1>1 DEF Op
<1>2. ASSUME NEW a \in Basic, NEW b \in Basic, NEW c \in Basic, NEW r \in Basic,
             entry = Op("if", <<a, b, c>>, r)
      PROVE  /\ entry.ret \in Basic /\ entry.args \in Seq(Basic) /\ entry.op = "if"
             /\ entry = Op(entry.op, entry.args, entry.ret)
  BY <1>2 DEF Op
<1> QED BY <1>1, <1>2 DEF IsEntry

\* What is known of every entry.
LEMMA BuiltinTypes ==
  ASSUME NEW k \in 1 .. Len(Builtins)
  PROVE  /\ Builtins[k].ret \in Basic
         /\ Builtins[k].args \in Seq(Basic)
         /\ Builtins[k] = Op(Builtins[k].op, Builtins[k].args, Builtins[k].ret)
         /\ Builtins[k].op # "if" => Len(Builtins[k].args) = 2
BY BuiltinEntries, EntryTypes

\* What getBuiltin finds is the type of an entry that matches.
LEMMA BuiltinFound ==
  ASSUME NEW name, NEW args, NEW outcome \in getBuiltin(name, args), outcome.kind = "found"
  PROVE  \E k \in EntriesOf(name) : /\ "same" \in Matching(args, Builtins[k].args)
                                     /\ outcome.type = Builtins[k].ret
<1>1. outcome # Crash /\ outcome # Missing
  BY DEF Crash, Missing, Outcome
<1>2. \E k \in EntriesOf(name) : "same" \in Matching(args, Builtins[k].args) /\ outcome = Found(Builtins[k].ret, k)
  BY <1>1, Zenon DEF getBuiltin
<1> QED BY <1>2 DEF Found, Outcome

\* What a call finds comes from the table or, if nothing in it fits, from a
\* function in scope.
LEMMA ContextFound ==
  ASSUME NEW name, NEW args, NEW outcome \in CallOutcomes(name, args), outcome.kind = "found"
  PROVE  \/ outcome \in getBuiltin(name, args)
         \/ /\ Missing \in getBuiltin(name, args) /\ name \in DOMAIN locals
            /\ locals[name].name = "fun"
            /\ "same" \in Matching(args, Tail(locals[name].args))
            /\ outcome.type = Head(locals[name].args)
<1> SUFFICES ASSUME outcome \notin getBuiltin(name, args)
             PROVE  /\ Missing \in getBuiltin(name, args) /\ name \in DOMAIN locals
                    /\ locals[name].name = "fun"
                    /\ "same" \in Matching(args, Tail(locals[name].args))
                    /\ outcome.type = Head(locals[name].args)
  OBVIOUS
<1>1. Missing \in getBuiltin(name, args) /\ name \in DOMAIN locals /\ outcome \in Callable(locals[name], args)
  BY Zenon DEF CallOutcomes
<1>2. Missing.kind = "missing" /\ Crash.kind = "crash"
  BY DEF Missing, Crash, Outcome
<1>3. locals[name].name = "fun"
  BY <1>1, <1>2, Zenon DEF Callable
<1>4. PICK how \in Matching(args, Tail(locals[name].args)) :
        outcome = CASE how = "same"   -> Found(Head(locals[name].args), 0)
                    [] how = "differ" -> Missing
                    [] how = "crash"  -> Crash
  BY <1>1, <1>3, Zenon DEF Callable
<1>5. how \in {"same", "differ", "crash"}
  BY <1>4 DEF Matching, Compare
<1>6. how = "same"
  BY <1>2, <1>4, <1>5
<1>7. outcome = Found(Head(locals[name].args), 0)
  BY <1>4, <1>6
<1> QED BY <1>1, <1>3, <1>4, <1>6, <1>7 DEF Found, Outcome

-----------------------------------------------------------------------------
(* Types in use come from the set.                                         *)

\* A set of natural numbers has a least element.
LEMMA Least ==
  ASSUME NEW X, X \subseteq Nat, X # {}
  PROVE  \E x \in X : \A y \in X : x <= y
<1> DEFINE less == {x \in Nat \X Nat : x[1] < x[2]}
<1>1. IsWellFoundedOn(less, Nat)
  BY NatLessThanWellFounded DEF OpToRel
<1>2. PICK x \in X : \A y \in X : ~(<<y, x>> \in less)
  BY <1>1, WFMin
<1>3. \A y \in X : y \in Nat /\ ~(y < x) /\ x \in Nat
  BY <1>2
<1> QED BY <1>3

\* m_variables stays in the set when a name is inserted with a type of the
\* set.
LEMMA BindIn ==
  ASSUME NEW T, NEW map, ValuesIn(T, map), NEW name, NEW type \in T
  PROVE  ValuesIn(T, Bind(map, name, type))
BY DEF ValuesIn, Bind

\* It does when the parameters of a function are inserted.
LEMMA BindArgsIn ==
  ASSUME NEW T, NEW map, ValuesIn(T, map), NEW args, \A i \in 1 .. Len(args) : args[i].type \in T
  PROVE  ValuesIn(T, BindArgs(map, args))
<1> DEFINE Named(x) == {i \in 1 .. Len(args) : args[i].name = x}
           first(x) == CHOOSE i \in Named(x) : \A j \in Named(x) : i <= j
<1>1. \A x \in {args[i].name : i \in 1 .. Len(args)} : first(x) \in 1 .. Len(args)
  <2> TAKE x \in {args[i].name : i \in 1 .. Len(args)}
  <2>1. Named(x) # {} /\ Named(x) \subseteq Nat /\ Named(x) \subseteq 1 .. Len(args)
    OBVIOUS
  <2> HIDE DEF Named
  <2>2. \E i \in Named(x) : \A j \in Named(x) : i <= j
    BY <2>1, Least
  <2>3. first(x) \in Named(x)
    BY <2>2
  <2> QED BY <2>1, <2>3
<1>2. BindArgs(map, args) =
        [x \in DOMAIN map \cup {args[i].name : i \in 1 .. Len(args)} |->
           IF x \in DOMAIN map THEN map[x] ELSE args[first(x)].type]
  BY DEF BindArgs
<1> HIDE DEF first
<1> QED BY <1>1, <1>2 DEF ValuesIn

\* The types of a signature that could be built are in the set, and so is the
\* type of its function.
LEMMA UnitTypes ==
  ASSUME NEW T, TypeSet(T), BuildsOf(T, program),
         NEW u \in 1 .. Len(program.units), CanBuild(program.units[u]), IsParsed(program)
  PROVE  /\ \A i \in 1 .. Len(BuiltSig(program.units[u]).args) : BuiltSig(program.units[u]).args[i].type \in T
         /\ program.units[u].type # <<>> => BuiltSig(program.units[u]).ret \in T
         /\ \A r \in T : signatureType([BuiltSig(program.units[u]) EXCEPT !.ret = r]) \in T
         /\ program.units[u].type # <<>> => signatureType(BuiltSig(program.units[u])) \in T
<1> DEFINE unit == program.units[u]
           s == BuiltSig(unit)
<1>1. Len(unit.args) \in Nat
  <2>1. IsUnit(unit)
    BY DEF IsParsed, IsProgram
  <2> QED BY <2>1 DEF IsUnit
<1>2. /\ \A i \in 1 .. Len(unit.args) : Build(unit.args[i].type) \in T
      /\ unit.type # <<>> => Build(unit.type[1]) \in T
  BY DEF BuildsOf, CanBuild
<1>3. /\ Len(s.args) = Len(unit.args) /\ \A i \in 1 .. Len(unit.args) : s.args[i].type = Build(unit.args[i].type)
      /\ unit.type # <<>> => s.ret = Build(unit.type[1])
      /\ \A r : [s EXCEPT !.ret = r].ret = r /\ [s EXCEPT !.ret = r].args = s.args
  BY <1>1 DEF BuiltSig
<1> HIDE DEF s
<1>4. [i \in 1 .. Len(s.args) |-> s.args[i].type] \in Seq(T)
  BY <1>1, <1>2, <1>3
<1>5. \A r \in T : Function(r, [i \in 1 .. Len(s.args) |-> s.args[i].type]) \in T
  BY <1>4 DEF TypeSet
<1>6. \A r \in T : signatureType([s EXCEPT !.ret = r]) \in T
  BY <1>3, <1>5 DEF signatureType
<1>7. unit.type # <<>> => signatureType(s) \in T
  BY <1>2, <1>3, <1>5 DEF signatureType
<1> QED BY <1>2, <1>3, <1>6, <1>7 DEF s

\* What a lookup in the table finds is a type of the set.
LEMMA BuiltinIn ==
  ASSUME NEW T, TypeSet(T), NEW name, NEW args, NEW outcome \in getBuiltin(name, args), outcome.kind = "found"
  PROVE  outcome.type \in T
<1>1. PICK k \in EntriesOf(name) : outcome.type = Builtins[k].ret
  BY BuiltinFound
<1>2. outcome.type \in Basic
  BY <1>1, BuiltinTypes DEF EntriesOf
<1> QED BY <1>2 DEF Basic, TypeSet

\* What a call finds is a type of the set.
LEMMA FoundIn ==
  ASSUME NEW T, TypeSet(T), ValuesIn(T, locals),
         NEW name, NEW args, NEW outcome \in CallOutcomes(name, args), outcome.kind = "found"
  PROVE  outcome.type \in T
<1>1. CASE outcome \in getBuiltin(name, args)
  BY <1>1, BuiltinIn
<1>2. CASE /\ name \in DOMAIN locals /\ locals[name].name = "fun"
           /\ outcome.type = Head(locals[name].args)
  <2> DEFINE type == locals[name]
  <2>1. type \in T
    BY <1>2 DEF ValuesIn
  <2>2. type.args \in Seq(T) /\ Len(type.args) >= 1
    BY <1>2, <2>1 DEF TypeSet
  <2> HIDE DEF type
  <2>3. Head(type.args) \in T
    BY <2>2
  <2> QED BY <1>2, <2>3 DEF type
<1> QED BY <1>1, <1>2, ContextFound

\* An element of a list has a type in the set, or null.
LEMMA SubscriptIn ==
  ASSUME NEW T, TypeSet(T), Null \in T, NEW type \in T
  PROVE  subscriptedType(type) \in T
<1>1. CASE type.name = "list"
  <2>1. type.args \in Seq(T) /\ Len(type.args) = 1
    BY <1>1 DEF TypeSet
  <2>2. type.args[1] \in T
    BY <2>1
  <2> QED BY <1>1, <2>2 DEF subscriptedType
<1>2. CASE type.name # "list"
  BY <1>2 DEF subscriptedType
<1> QED BY <1>1, <1>2

\* Types stay in the set when the analysis ends.
LEMMA TypesStop ==
  ASSUME NEW T, TypesIn(T), UNCHANGED <<program, stack, globals, locals>>, pc' \notin {"visit", "return"},
         ValuesIn(T, expressions')
  PROVE  TypesIn(T)'
BY DEF TypesIn

\* They do when it ends with the context as it was.
LEMMA StopTypes ==
  ASSUME NEW T, TypesIn(T), UNCHANGED program, UNCHANGED context,
         NEW how \in {"accepted", "error", "aborted", "crashed"}, Stop(how)
  PROVE  TypesIn(T)'
BY DEF TypesIn, Stop, context, toplevel

\* They do when calculateType returns a type of the set to its caller.
LEMMA ReturnTypes ==
  ASSUME NEW T, TypesIn(T), pc = "visit", IsSeq(stack), stack # <<>>, NEW type \in T, Return(type),
         UNCHANGED <<program, current, globals, locals>>, ValuesIn(T, expressions')
  PROVE  TypesIn(T)'
<1>1. pc' = "return" /\ ret' = type /\ stack' = Tail(stack)
  BY DEF Return
<1>2. ArgsIn(T, Tail(stack))
  BY TailElements DEF ArgsIn, TypesIn
<1> QED BY <1>1, <1>2 DEF TypesIn

\* They do when the caller takes the type that was returned.
LEMMA ReceiveTypes ==
  ASSUME NEW T, TypesIn(T), SemanticInv, pc = "return", stack # <<>>, Receive(ret),
         UNCHANGED <<program, current, globals, locals>>, ValuesIn(T, expressions')
  PROVE  TypesIn(T)'
<1>1. pc' = "visit" /\ stack' = Push(Given(Top, ret), Tail(stack)) /\ UNCHANGED ret
  BY DEF Receive, Push, Given
<1>2. IsSeq(stack) /\ IsFrame(Top)
  BY ReturnFacts
<1>3. IsSeq(Tail(stack)) /\ Frames(Tail(stack)) \subseteq Frames(stack) /\ Top \in Frames(stack)
  BY <1>2, TailSeq, TailElements DEF Top
<1>4. Frames(stack') = Frames(Tail(stack)) \cup {Given(Top, ret)}
  BY <1>1, <1>3, PushElements
<1>5. Given(Top, ret).args = Append(Top.args, ret)
  BY <1>2, GivenFacts
<1>6. Top.args \in Seq(T) /\ ret \in T
  BY <1>3 DEF TypesIn, ArgsIn
<1>7. Given(Top, ret).args \in Seq(T)
  BY <1>5, <1>6
<1>8. ArgsIn(T, stack')
  BY <1>3, <1>4, <1>7 DEF TypesIn, ArgsIn
<1> QED BY <1>1, <1>8 DEF TypesIn

\* The type of an operand that is recorded, or that of a list's first one.
LEMMA RecordTypes ==
  ASSUME NEW T, TypesIn(T), NEW n, NEW type \in T,
         expressions' = [x \in DOMAIN expressions \cup {n} |-> IF x \in {n} THEN type ELSE expressions[x]]
  PROVE  ValuesIn(T, expressions')
BY DEF TypesIn, ValuesIn

\* Types stay in the set when calculateType reaches an expression.
LEMMA VisitTypes ==
  ASSUME NEW T, TypeSet(T), Null \in T \/ Harmless, SemanticInv, TypesIn(T), UNCHANGED input,
         VisitNull \/ VisitLiteral \/ VisitVar \/ VisitKid
  PROVE  TypesIn(T)'
<1>0. UNCHANGED <<program, build>> /\ UNCHANGED context
  BY DEF input, VisitNull, VisitLiteral, VisitVar, VisitKid
<1>a. UNCHANGED <<program, current, globals, locals>> /\ ValuesIn(T, expressions')
  BY <1>0 DEF context, toplevel, TypesIn
<1>1. CASE VisitNull
  BY <1>0, <1>1, StopTypes DEF VisitNull, DereferenceNull
<1>2. CASE VisitLiteral
  <2>1. pc = "visit" /\ Top.node # 0 /\ Node(Top.node).kind = "literal"
        /\ Return(LiteralType(Node(Top.node).name))
    BY <1>2 DEF VisitLiteral, AtNode
  <2>2. IsSeq(stack) /\ stack # <<>> /\ Top.node \in 1 .. Len(program.nodes) /\ IsParsed(program)
    BY <2>1, VisitFacts
  <2>3. LiteralType(Node(Top.node).name) \in T
    <3>1. Node(Top.node).name \in Literal
      BY <2>1, <2>2, NodeFacts DEF IsExpression, Node
    <3>2. \A value \in Literal : LiteralType(value) \in {Real, Integer, Boolean}
      BY KindsDiffer DEF LiteralType, Literal
    <3> QED BY <3>1, <3>2 DEF TypeSet
  <2> QED BY <1>a, <2>1, <2>2, <2>3, ReturnTypes
<1>3. CASE VisitVar
  <2> DEFINE name == Node(Top.node).name
  <2>1. pc = "visit" /\ Top.node # 0
    BY <1>3 DEF VisitVar, AtNode
  <2>2. IsSeq(stack) /\ stack # <<>> /\ Top.node \in 1 .. Len(program.nodes)
    BY <2>1, VisitFacts
  <2>3. \/ Fail
        \/ name \in DOMAIN locals /\ Return(locals[name])
        \/ /\ name \in DOMAIN locals /\ Node(Top.node).kind = "subscript"
           /\ Return(subscriptedType(locals[name]))
    BY <1>3 DEF VisitVar
  <2>4. CASE Fail
    BY <1>0, <2>4, StopTypes DEF Fail
  <2>5. ASSUME name \in DOMAIN locals, Return(locals[name]) PROVE TypesIn(T)'
    <3>1. locals[name] \in T
      BY <2>5 DEF TypesIn, ValuesIn
    <3> QED BY <1>a, <2>1, <2>2, <2>5, <3>1, ReturnTypes
  <2>6. ASSUME name \in DOMAIN locals, Node(Top.node).kind = "subscript", Return(subscriptedType(locals[name]))
        PROVE  TypesIn(T)'
    <3>1. locals[name] \in T
      BY <2>6 DEF TypesIn, ValuesIn
    <3>2. Null \in T
      BY <2>2, <2>6 DEF Harmless
    <3>3. subscriptedType(locals[name]) \in T
      BY <3>1, <3>2, SubscriptIn
    <3> QED BY <1>a, <2>1, <2>2, <2>6, <3>3, ReturnTypes
  <2> QED BY <2>3, <2>4, <2>5, <2>6
<1>4. CASE VisitKid
  <2>1. pc = "visit" /\ Top.node # 0 /\ UNCHANGED <<pc, ret>>
        /\ stack' = Push(NewFrame(ThisKid), stack)
    BY <1>4 DEF VisitKid, AtNode, Push, NewFrame
  <2>2. IsSeq(stack)
    BY <2>1, VisitFacts
  <2>3. Frames(stack') = Frames(stack) \cup {NewFrame(ThisKid)}
    BY <2>1, <2>2, PushElements
  <2>4. NewFrame(ThisKid).args \in Seq(T)
    BY DEF NewFrame
  <2>5. ArgsIn(T, stack')
    BY <2>3, <2>4 DEF TypesIn, ArgsIn
  <2> QED BY <1>0, <1>a, <2>1, <2>5 DEF TypesIn, context, toplevel
<1> QED BY <1>1, <1>2, <1>3, <1>4

\* They do when a caller has the type of an operand.
LEMMA ReceiveAllTypes ==
  ASSUME NEW T, SemanticInv, TypesIn(T), UNCHANGED input,
         ReceiveElement \/ ReceiveArg \/ ReceiveOperand
  PROVE  TypesIn(T)'
<1>0. /\ pc = "return" /\ stack # <<>> /\ UNCHANGED <<program, locals, sig>> /\ ret \in T
  BY DEF input, ReceiveElement, ReceiveArg, ReceiveOperand, Returned, context, TypesIn
<1>a. Top.args \in Seq(T)
  BY <1>0, ReturnFacts, TailElements DEF TypesIn, ArgsIn, Top
<1>1. CASE ReceiveOperand
  <2>1. UNCHANGED <<globals, current>> /\ expressions' = expressions /\ Receive(ret)
    BY <1>1 DEF ReceiveOperand, context, toplevel
  <2>2. ValuesIn(T, expressions')
    BY <2>1 DEF TypesIn
  <2> QED BY <1>0, <2>1, <2>2, ReceiveTypes
<1>2. ASSUME NEW type \in T, Record([n \in {ThisKid} |-> type], Receive(ret) /\ UNCHANGED toplevel)
      PROVE  TypesIn(T)'
  <2>1. CASE UNCHANGED <<expressions, toplevel>> /\ (AssertFails \/ Fail)
    <3>1. UNCHANGED context
      BY <1>0, <2>1 DEF context
    <3> QED BY <1>0, <2>1, <3>1, StopTypes DEF AssertFails, Fail
  <2>2. CASE /\ expressions' = [x \in DOMAIN expressions \cup {ThisKid} |->
                                 IF x \in {ThisKid} THEN type ELSE expressions[x]]
             /\ Receive(ret) /\ UNCHANGED toplevel
    <3>1. ValuesIn(T, expressions')
      BY <2>2, RecordTypes
    <3> QED BY <1>0, <2>2, <3>1, ReceiveTypes DEF toplevel
  <2> QED BY <1>2, <2>1, <2>2 DEF Record
<1>3. CASE ReceiveArg
  BY <1>0, <1>2, <1>3 DEF ReceiveArg
<1>4. CASE ReceiveElement
  <2> DEFINE first == Head(Append(Top.args, ret))
  <2>1. first \in T
    BY <1>0, <1>a
  <2>2. \/ Record([n \in {ThisKid} |-> first], Receive(ret) /\ UNCHANGED toplevel)
        \/ (Fail \/ DereferenceNull \/ AssertFails) /\ UNCHANGED <<expressions, toplevel>>
    BY <1>4, Zenon DEF ReceiveElement
  <2>3. CASE (Fail \/ DereferenceNull \/ AssertFails) /\ UNCHANGED <<expressions, toplevel>>
    <3>1. UNCHANGED context
      BY <1>0, <2>3 DEF context
    <3> QED BY <1>0, <2>3, <3>1, StopTypes DEF AssertFails, Fail, DereferenceNull
  <2> QED BY <1>2, <2>1, <2>2, <2>3
<1> QED BY <1>1, <1>3, <1>4

\* They do when an expression has all its operands.
LEMMA FinishTypes ==
  ASSUME NEW T, TypeSet(T), Null \in T \/ Harmless, SemanticInv, TypesIn(T), UNCHANGED input,
         FinishList \/ FinishBinary \/ FinishCall
  PROVE  TypesIn(T)'
<1>0. /\ pc = "visit" /\ Top.node # 0 /\ UNCHANGED <<program, locals, sig>>
      /\ Len(Top.args) = Len(Node(Top.node).kids)
  BY DEF input, FinishList, FinishBinary, FinishCall, AtNode, KidsDone, context
<1>a. IsSeq(stack) /\ stack # <<>> /\ Top.node \in 1 .. Len(program.nodes) /\ IsParsed(program)
  BY <1>0, VisitFacts
<1>b. Top.args \in Seq(T)
  BY <1>a, TailElements DEF TypesIn, ArgsIn, Top
<1>1. CASE FinishList
  <2>1. /\ UNCHANGED context /\ Node(Top.node).kind = "list"
        /\ Return(IF Top.args = <<>> THEN List(Null) ELSE List(Top.args[1]))
    BY <1>1 DEF FinishList, AtNode
  <2>2. (IF Top.args = <<>> THEN List(Null) ELSE List(Top.args[1])) \in T
    <3>1. CASE Top.args = <<>>
      <4>1. Node(Top.node).kids = <<>>
        BY <1>0, <1>a, <3>1, NodeFacts DEF Node
      <4>2. Null \in T
        BY <1>a, <2>1, <4>1 DEF Harmless
      <4> QED BY <3>1, <4>2 DEF TypeSet
    <3>2. CASE Top.args # <<>>
      <4>1. Top.args[1] \in T
        BY <1>b, <3>2
      <4> QED BY <3>2, <4>1 DEF TypeSet
    <3> QED BY <3>1, <3>2
  <2>3. UNCHANGED <<current, globals>> /\ ValuesIn(T, expressions')
    BY <2>1 DEF context, toplevel, TypesIn
  <2> QED BY <1>0, <1>a, <2>1, <2>2, <2>3, ReturnTypes
<1>2. CASE FinishCall
  <2>1. PICK outcome \in CallOutcomes(Node(Top.node).name, Top.args) : Finish(outcome) /\ UNCHANGED context
    BY <1>2 DEF FinishCall
  <2>2. CASE Fail \/ DereferenceNull
    BY <1>0, <2>1, <2>2, StopTypes DEF Fail, DereferenceNull
  <2>3. CASE outcome.kind = "found" /\ Return(outcome.type)
    <3>1. outcome.type \in T
      BY <2>1, <2>3, FoundIn DEF TypesIn
    <3>2. UNCHANGED <<current, globals>> /\ ValuesIn(T, expressions')
      BY <2>1 DEF context, toplevel, TypesIn
    <3> QED BY <1>0, <1>a, <2>3, <3>1, <3>2, ReturnTypes
  <2> QED BY <2>1, <2>2, <2>3 DEF Finish
<1>3. CASE FinishBinary
  <2> DEFINE kids == Node(Top.node).kids
             entries == [n \in {kids[1], kids[2]} |-> IF n = kids[1] THEN Top.args[1] ELSE Top.args[2]]
  <2>1. /\ Node(Top.node).kind = "binary"
        /\ Record(entries,
                  (\E outcome \in getBuiltin(Node(Top.node).name, Top.args) : Finish(outcome))
                  /\ UNCHANGED toplevel)
    BY <1>3 DEF FinishBinary, AtNode
  <2>2. \A n \in DOMAIN entries : entries[n] \in T
    <3>1. Len(Top.args) = 2
      BY <1>0, <1>a, <2>1, NodeFacts DEF IsExpression, Node
    <3>2. Top.args[1] \in T /\ Top.args[2] \in T
      BY <1>b, <3>1
    <3> QED BY <3>2
  <2> HIDE DEF entries
  <2>3. CASE UNCHANGED <<expressions, toplevel>> /\ (AssertFails \/ Fail)
    <3>1. UNCHANGED context
      BY <1>0, <2>3 DEF context
    <3> QED BY <1>0, <2>3, <3>1, StopTypes DEF AssertFails, Fail
  <2>4. ASSUME expressions' = [n \in DOMAIN expressions \cup DOMAIN entries |->
                                 IF n \in DOMAIN entries THEN entries[n] ELSE expressions[n]],
               NEW outcome \in getBuiltin(Node(Top.node).name, Top.args), Finish(outcome), UNCHANGED toplevel
        PROVE  TypesIn(T)'
    <3>1. ValuesIn(T, expressions')
      BY <2>2, <2>4 DEF TypesIn, ValuesIn
    <3>2. CASE Fail \/ DereferenceNull
      BY <1>0, <2>4, <3>1, <3>2, TypesStop DEF Fail, DereferenceNull, Stop, toplevel
    <3>3. CASE outcome.kind = "found" /\ Return(outcome.type)
      <4>1. outcome.type \in T
        BY <3>3, BuiltinIn
      <4> QED BY <1>0, <1>a, <2>4, <3>1, <3>3, <4>1, ReturnTypes DEF toplevel
    <3> QED BY <2>4, <3>2, <3>3 DEF Finish
  <2> QED BY <2>1, <2>3, <2>4 DEF Record
<1> QED BY <1>1, <1>2, <1>3

\* They do in the steps of analyze between functions.
LEMMA UnitStepTypes ==
  ASSUME NEW T, TypeSet(T), SemanticInv, TypesIn(T), UNCHANGED input,
         AllUnitsDone \/ BadSignature \/ AnalyzeExtern \/ StartFunction
  PROVE  TypesIn(T)'
<1>0. UNCHANGED program /\ IsParsed(program) /\ BuildsOf(T, program) /\ TypesIn(T)
      /\ (current <= Len(program.units) => current \in 1 .. Len(program.units))
  BY DEF input, SemanticInv, TypesIn
<1>1. CASE AllUnitsDone \/ BadSignature
  BY <1>0, <1>1, StopTypes DEF AllUnitsDone, BadSignature, Fail
<1>2. CASE AnalyzeExtern
  <2>1. /\ current \in 1 .. Len(program.units) /\ CanBuild(program.units[current])
        /\ program.units[current].type # <<>> /\ pc = "analyze"
        /\ globals' = Bind(globals, Unit.name, signatureType(BuiltSig(program.units[current])))
        /\ UNCHANGED <<result, locals, expressions>>
    BY <1>0, <1>2 DEF AnalyzeExtern, AtUnit, Unit
  <2>2. ValuesIn(T, globals')
    BY <1>0, <2>1, UnitTypes, BindIn DEF TypesIn
  <2> QED BY <1>0, <2>1, <2>2 DEF TypesIn, result
<1>3. CASE StartFunction
  <2> DEFINE bound == BindArgs(globals, BuiltSig(Unit).args)
  <2>1. /\ current \in 1 .. Len(program.units) /\ CanBuild(program.units[current]) /\ pc' = "visit"
        /\ locals' = IF Unit.type = <<>> THEN bound
                     ELSE Bind(bound, Unit.name, signatureType(BuiltSig(Unit)))
        /\ expressions' = [n \in {} |-> Null]
        /\ stack' = <<[node |-> Unit.body, args |-> <<>>]>>
        /\ UNCHANGED toplevel
    BY <1>0, <1>3 DEF StartFunction, AtUnit, Unit
  <2>2. ValuesIn(T, bound)
    BY <1>0, <2>1, UnitTypes, BindArgsIn DEF TypesIn, Unit
  <2>3. Unit.type # <<>> => signatureType(BuiltSig(Unit)) \in T
    BY <1>0, <2>1, UnitTypes DEF Unit
  <2> HIDE DEF bound
  <2>4. ValuesIn(T, locals')
    BY <2>1, <2>2, <2>3, BindIn
  <2>5. ValuesIn(T, expressions')
    BY <2>1 DEF ValuesIn
  <2>6. ArgsIn(T, stack')
    <3> DEFINE f == [node |-> Unit.body, args |-> <<>>]
    <3>1. f.args \in Seq(T)
      OBVIOUS
    <3> HIDE DEF f
    <3>2. Frames(<<f>>) = {f}
      BY DEF Frames
    <3> QED BY <2>1, <3>1, <3>2 DEF ArgsIn, f
  <2> QED BY <1>0, <2>1, <2>4, <2>5, <2>6 DEF TypesIn, toplevel
<1> QED BY <1>1, <1>2, <1>3

\* They do at the end of a function.
LEMMA EndFunctionTypes ==
  ASSUME NEW T, TypeSet(T), SemanticInv, TypesIn(T), UNCHANGED input, EndFunction
  PROVE  TypesIn(T)'
<1> DEFINE unit == program.units[current]
<1>0. /\ pc = "return" /\ stack = <<>> /\ UNCHANGED <<program, sig, locals>>
      /\ ret \in T /\ BuildsOf(T, program) /\ CanBuild(unit)
  BY DEF EndFunction, input, TypesIn
<1>1. sig = BuiltSig(unit) /\ IsParsed(program) /\ current \in 1 .. Len(program.units)
  BY <1>0 DEF SemanticInv, FunctionInv
<1>2. /\ signatureType([sig EXCEPT !.ret = ret]) \in T
      /\ unit.type # <<>> => signatureType(sig) \in T
  BY <1>0, <1>1, UnitTypes
<1>3. ASSUME NEW s, signatureType(s) \in T, AcceptFunction(s) PROVE TypesIn(T)'
  <2>1. CASE UNCHANGED <<expressions, toplevel>> /\ (AssertFails \/ Fail)
    <3>1. UNCHANGED context
      BY <1>0, <2>1 DEF context
    <3> QED BY <1>0, <2>1, <3>1, StopTypes DEF AssertFails, Fail
  <2>2. CASE /\ expressions' = [x \in DOMAIN expressions \cup {Unit.body} |->
                                 IF x \in {Unit.body} THEN ret ELSE expressions[x]]
             /\ globals' = Bind(globals, s.name, signatureType(s))
             /\ pc' = "analyze" /\ UNCHANGED <<stack, ret>>
    <3>1. ValuesIn(T, expressions')
      BY <1>0, <2>2, RecordTypes
    <3>2. ValuesIn(T, globals')
      BY <1>3, <2>2, BindIn DEF TypesIn
    <3> QED BY <1>0, <2>2, <3>1, <3>2 DEF TypesIn
  <2> QED BY <1>3, <2>1, <2>2 DEF AcceptFunction, Record
<1>4. \/ unit.type # <<>> /\ AcceptFunction(sig) 
      \/ AcceptFunction([sig EXCEPT !.ret = ret])
      \/ (Fail \/ AssertFails \/ DereferenceNull) /\ UNCHANGED <<expressions, toplevel>>
  BY Zenon DEF EndFunction, Unit
<1>5. CASE (Fail \/ AssertFails \/ DereferenceNull) /\ UNCHANGED <<expressions, toplevel>>
  <2>1. UNCHANGED context
    BY <1>0, <1>5 DEF context
  <2> QED BY <1>0, <1>5, <2>1, StopTypes DEF AssertFails, Fail, DereferenceNull
<1> QED BY <1>2, <1>3, <1>4, <1>5

\* Types stay in the set at every step, if null is in it or the program makes
\* none.
LEMMA TypesStep ==
  ASSUME NEW T, TypeSet(T), Null \in T \/ Harmless, SemanticInv, TypesIn(T), [Next]_vars
  PROVE  TypesIn(T)'
<1>1. CASE UNCHANGED vars
  BY <1>1 DEF vars, input, result, context, toplevel, TypesIn
<1>2. CASE Next
  BY <1>2, UnitStepTypes, EndFunctionTypes, VisitTypes, ReceiveAllTypes, FinishTypes DEF Next
<1> QED BY <1>1, <1>2

\* There are no types in use yet.
LEMMA TypesInit ==
  ASSUME NEW T, BuildsIn(T), Init
  PROVE  TypesIn(T)
<1> DEFINE none == [x \in {} |-> Null]
<1>1. /\ program \in Programs /\ pc = "analyze" /\ stack = <<>>
      /\ globals = none /\ locals = none /\ expressions = none
  BY Zenon DEF Init
<1>2. ValuesIn(T, none)
  BY DEF ValuesIn
<1> HIDE DEF none
<1> QED BY <1>1, <1>2 DEF TypesIn, ArgsIn, Frames, BuildsIn

-----------------------------------------------------------------------------
(* The types of a function agree with one another.                         *)

\* std::equal says that the arguments are the parameters.
LEMMA MatchingFits ==
  ASSUME NEW T, Faithful(T), NEW given \in Seq(T), NEW wanted \in Seq(T), "same" \in Matching(given, wanted)
  PROVE  Fits(given, wanted)
<1> DEFINE Same(i) == Compare(given[i], wanted[i]) = "same"
           Odd == {i \in 1 .. Len(given) : i <= Len(wanted) /\ ~Same(i)}
<1>1. CASE Odd # {}
  <2>1. "same" \in {Compare(given[i], wanted[i]) : i \in {i \in Odd : \A j \in Odd : i <= j}}
    BY <1>1, Zenon DEF Matching
  <2> QED BY <2>1
<1>2. CASE Odd = {}
  <2>1. \A i \in 1 .. Len(given) : i <= Len(wanted) => Same(i)
    BY <1>2
  <2>2. \A i \in 1 .. Len(given) : i <= Len(wanted) => given[i] \in T /\ wanted[i] \in T
    OBVIOUS
  <2> QED BY <2>1, <2>2 DEF Fits, Faithful
<1> QED BY <1>1, <1>2

\* If it says that they differ, they do.
LEMMA DifferenceShows ==
  ASSUME NEW given, NEW wanted, "differ" \in Matching(given, wanted), Len(given) <= Len(wanted)
  PROVE  ~Fits(given, wanted)
<1> DEFINE Same(i) == Compare(given[i], wanted[i]) = "same"
           Odd == {i \in 1 .. Len(given) : i <= Len(wanted) /\ ~Same(i)}
<1>1. Odd # {} /\ "differ" \in {Compare(given[i], wanted[i]) : i \in {i \in Odd : \A j \in Odd : i <= j}}
  <2>1. CASE Odd # {}
    BY <2>1, Zenon DEF Matching
  <2>2. CASE Odd = {}
    <3>1. Matching(given, wanted) = {"same"}
      BY <2>2, Zenon DEF Matching
    <3> QED BY <3>1
  <2> QED BY <2>1, <2>2
<1>2. PICK i \in Odd : Compare(given[i], wanted[i]) = "differ"
  BY <1>1
<1>3. given[i] # wanted[i]
  BY <1>2 DEF Compare
<1> QED BY <1>2, <1>3 DEF Fits

\* A lookup that fails has tried every entry.
LEMMA TriedDiffer ==
  ASSUME NEW name, NEW args, Missing \in getBuiltin(name, args), NEW k \in EntriesOf(name)
  PROVE  "differ" \in Matching(args, Builtins[k].args)
<1>1. Missing # Crash /\ \A type, entry : Missing # Found(type, entry)
  BY DEF Missing, Crash, Found, Outcome
<1>2. \A j \in EntriesOf(name) : j < Len(Builtins) + 1 => "differ" \in Matching(args, Builtins[j].args)
  BY <1>1, Zenon DEF getBuiltin
<1>3. k < Len(Builtins) + 1
  BY DEF EntriesOf, Builtins
<1> QED BY <1>2, <1>3

\* The operands of an entry are of types of the set.
LEMMA EntryArgsIn ==
  ASSUME NEW T, TypeSet(T), NEW name, NEW k \in EntriesOf(name)
  PROVE  Builtins[k].args \in Seq(T) /\ Builtins[k].op = name
<1>1. Builtins[k].args \in Seq(Basic) /\ Builtins[k].op = name
  BY BuiltinTypes DEF EntriesOf
<1>2. Basic \subseteq T
  BY DEF Basic, TypeSet
<1> QED BY <1>1, <1>2

\* What a call finds obeys the rule.
LEMMA CallRule ==
  ASSUME NEW T, TypeSet(T), Faithful(T), ValuesIn(T, locals),
         NEW node, node.kind = "call", NEW args \in Seq(T),
         NEW outcome \in CallOutcomes(node.name, args), outcome.kind = "found"
  PROVE  Rule(node, outcome.type, args, locals)
<1> DEFINE Entries == {Builtins[k] : k \in EntriesOf(node.name)}
<1>1. CASE outcome \in getBuiltin(node.name, args)
  <2>1. PICK k \in EntriesOf(node.name) : /\ "same" \in Matching(args, Builtins[k].args)
                                          /\ outcome.type = Builtins[k].ret
    BY <1>1, BuiltinFound
  <2>2. Fits(args, Builtins[k].args)
    BY <2>1, EntryArgsIn, MatchingFits
  <2>3. \E entry \in Entries : Fits(args, entry.args) /\ outcome.type = entry.ret
    BY <2>1, <2>2
  <2> QED BY <2>3, Zenon DEF Rule
<1>2. CASE /\ Missing \in getBuiltin(node.name, args) /\ node.name \in DOMAIN locals
           /\ locals[node.name].name = "fun"
           /\ "same" \in Matching(args, Tail(locals[node.name].args))
           /\ outcome.type = Head(locals[node.name].args)
  <2>1. \A entry \in Entries : Len(args) <= Len(entry.args) => ~Fits(args, entry.args)
    BY <1>2, TriedDiffer, DifferenceShows
  <2>2. Tail(locals[node.name].args) \in Seq(T)
    <3> DEFINE given == locals[node.name].args
    <3>1. given \in Seq(T) /\ Len(given) >= 1
      BY <1>2 DEF TypeSet, ValuesIn
    <3> HIDE DEF given
    <3>2. Tail(given) \in Seq(T)
      BY <3>1
    <3> QED BY <3>2 DEF given
  <2>3. Fits(args, Tail(locals[node.name].args))
    BY <1>2, <2>2, MatchingFits
  <2> QED BY <1>2, <2>1, <2>3, Zenon DEF Rule
<1> QED BY <1>1, <1>2, ContextFound

\* What a binary operator finds obeys the rule.
LEMMA BinaryRule ==
  ASSUME NEW T, TypeSet(T), Faithful(T), NEW v,
         NEW node, node.kind = "binary", node.name \in {"<", ">", "+", "-", "*"},
         NEW args \in Seq(T), Len(args) = 2,
         NEW outcome \in getBuiltin(node.name, args), outcome.kind = "found"
  PROVE  Rule(node, outcome.type, args, v)
<1>1. PICK k \in EntriesOf(node.name) : /\ "same" \in Matching(args, Builtins[k].args)
                                        /\ outcome.type = Builtins[k].ret
  BY BuiltinFound
<1>2. Builtins[k].args \in Seq(T) /\ Builtins[k].op = node.name
  BY EntryArgsIn
<1>3. Fits(args, Builtins[k].args)
  BY <1>1, <1>2, MatchingFits
<1>4. k \in 1 .. Len(Builtins)
  BY DEF EntriesOf
<1>5. Len(Builtins[k].args) = 2 /\ Builtins[k] = Op(Builtins[k].op, Builtins[k].args, Builtins[k].ret)
  BY <1>2, <1>4, BuiltinTypes
<1>6. args = Builtins[k].args
  <2> DEFINE wanted == Builtins[k].args
  <2>1. wanted \in Seq(T) /\ Len(wanted) = 2 /\ \A i \in 1 .. 2 : args[i] = wanted[i]
    BY <1>2, <1>3, <1>5 DEF Fits
  <2> HIDE DEF wanted
  <2>2. args = wanted
    BY <2>1
  <2> QED BY <2>2 DEF wanted
<1>7. Op(node.name, args, outcome.type) = Builtins[k]
  BY <1>1, <1>2, <1>5, <1>6
<1>8. Op(node.name, args, outcome.type) \in {Builtins[j] : j \in EntriesOf(node.name)}
  BY <1>7
<1> QED BY <1>8, Zenon DEF Rule

-----------------------------------------------------------------------------
(* The map grows, and what is typed in it stays so.                        *)

\* An expression that is typed stays so when the map has more entries.
LEMMA TypedExtends ==
  ASSUME NEW p, NEW n, NEW type, NEW old, NEW new, NEW v, Extends(new, old), TypedBy(p, n, type, old, v)
  PROVE  TypedBy(p, n, type, new, v)
<1>1. \A k \in 1 .. Len(p.nodes[n].kids) : Kid(p, n, k) \in DOMAIN old
  BY DEF TypedBy
<1>2. \A k \in 1 .. Len(p.nodes[n].kids) : Kid(p, n, k) \in DOMAIN new /\ new[Kid(p, n, k)] = old[Kid(p, n, k)]
  BY <1>1 DEF Extends
<1>3. [k \in 1 .. Len(p.nodes[n].kids) |-> new[Kid(p, n, k)]]
        = [k \in 1 .. Len(p.nodes[n].kids) |-> old[Kid(p, n, k)]]
  BY <1>2
<1> QED BY <1>2, <1>3 DEF TypedBy

\* The operands in a frame stay typed then.
LEMMA GivenExtends ==
  ASSUME NEW p, NEW f, NEW old, NEW new, NEW v, Extends(new, old), GivenTyped(p, f, old, v)
  PROVE  GivenTyped(p, f, new, v)
<1> SUFFICES ASSUME NEW k \in 1 .. Len(f.args)
             PROVE  CASE p.nodes[f.node].kind = "binary" -> TypedBy(p, Kid(p, f.node, k), f.args[k], new, v)
                      [] p.nodes[f.node].kind = "list" ->
                           Kid(p, f.node, k) \in DOMAIN new /\ new[Kid(p, f.node, k)] = f.args[1]
                      [] OTHER -> Kid(p, f.node, k) \in DOMAIN new /\ new[Kid(p, f.node, k)] = f.args[k]
  BY DEF GivenTyped
<1>1. CASE p.nodes[f.node].kind = "binary"
  BY <1>1, TypedExtends DEF GivenTyped
<1>2. CASE p.nodes[f.node].kind = "list"
  BY <1>2 DEF GivenTyped, Extends
<1>3. CASE p.nodes[f.node].kind \notin {"binary", "list"}
  BY <1>3 DEF GivenTyped, Extends
<1> QED BY <1>1, <1>2, <1>3

\* Those in all frames stay typed then.
LEMMA StackExtends ==
  ASSUME NEW p, NEW s, NEW old, NEW new, NEW v, Extends(new, old), StackTyped(p, s, old, v)
  PROVE  StackTyped(p, s, new, v)
BY GivenExtends DEF StackTyped

\* New entries that are typed already.
LEMMA MapExtends ==
  ASSUME NEW p, NEW old, NEW new, NEW v, Extends(new, old), MapTyped(p, old, v),
         \A n \in DOMAIN new \ DOMAIN old : TypedBy(p, n, new[n], old, v)
  PROVE  MapTyped(p, new, v)
<1> SUFFICES ASSUME NEW n \in DOMAIN new PROVE TypedBy(p, n, new[n], new, v)
  BY DEF MapTyped
<1>1. TypedBy(p, n, new[n], old, v)
  BY DEF MapTyped, Extends
<1> QED BY <1>1, TypedExtends

\* m_expressions with more entries.
Merged(old, entries) ==
  [n \in DOMAIN old \cup DOMAIN entries |-> IF n \in DOMAIN entries THEN entries[n] ELSE old[n]]

\* A step that inserts typed entries under new numbers keeps the entries there
\* are, and all of them are typed.
LEMMA RecordExtends ==
  ASSUME NEW old, NEW entries, DOMAIN entries \cap DOMAIN old = {},
         NEW p, NEW v, MapTyped(p, old, v), \A n \in DOMAIN entries : TypedBy(p, n, entries[n], old, v)
  PROVE  /\ Extends(Merged(old, entries), old) /\ MapTyped(p, Merged(old, entries), v)
         /\ \A n \in DOMAIN entries : n \in DOMAIN Merged(old, entries) /\ Merged(old, entries)[n] = entries[n]
<1> DEFINE new == Merged(old, entries)
<1>1. Extends(new, old) /\ \A n \in DOMAIN entries : n \in DOMAIN new /\ new[n] = entries[n]
  BY DEF Extends, Merged
<1>2. \A n \in DOMAIN new \ DOMAIN old : n \in DOMAIN entries
  BY DEF Merged
<1> HIDE DEF new
<1>3. MapTyped(p, new, v)
  BY <1>1, <1>2, MapExtends
<1> QED BY <1>1, <1>3 DEF new

-----------------------------------------------------------------------------
\* The invariant does not speak of an analysis that has ended.
LEMMA TypingStop ==
  ASSUME TypingInv, UNCHANGED program, UNCHANGED analyzed, pc' \notin {"visit", "return"}
  PROVE  TypingInv'
BY DEF TypingInv

\* The same with the context as it was.
LEMMA StopTyping ==
  ASSUME TypingInv, UNCHANGED program, UNCHANGED toplevel,
         NEW how \in {"accepted", "error", "aborted", "crashed"}, Stop(how)
  PROVE  TypingInv'
BY TypingStop DEF Stop, toplevel

\* An expression is typed and its type goes to the caller.
LEMMA ReturnTyping ==
  ASSUME SemanticInv, TypingInv, pc = "visit", Top.node # 0, NEW type, Return(type),
         Len(Top.args) = Len(program.nodes[Top.node].kids),
         UNCHANGED <<program, locals, toplevel>>,
         Extends(expressions', expressions), MapTyped(program, expressions', locals),
         TypedBy(program, Top.node, type, expressions', locals)
  PROVE  TypingInv'
<1>1. pc' = "return" /\ ret' = type /\ stack' = Tail(stack)
  BY DEF Return
<1>2. StackTyped(program, stack, expressions, locals)
  BY DEF TypingInv
<1>3. StackTyped(program, stack, expressions', locals)
  BY <1>2, StackExtends
<1>4. IsSeq(stack) /\ stack # <<>> /\ IsParsed(program) /\ Body(program, current) \in 0 .. Len(program.nodes)
      /\ Visiting(program, Body(program, current), stack)
      /\ VisitingCounts(program, Body(program, current), stack, DOMAIN expressions)
  BY VisitFacts
<1>5. StackTyped(program, stack', expressions', locals)
  BY <1>1, <1>3, <1>4, TailElements DEF StackTyped
<1>6. Yielded(program, Body(program, current), Tail(stack)) = Top.node
  BY <1>4, ReturnFromVisit DEF Top
<1> QED BY <1>1, <1>5, <1>6 DEF TypingInv, toplevel

\* An expression is typed when its frame has all its operands.
LEMMA CompleteTyped ==
  ASSUME NEW p, NEW f, IsFrame(f), Len(f.args) = Len(p.nodes[f.node].kids), p.nodes[f.node].kind # "binary",
         NEW e, NEW v, GivenTyped(p, f, e, v), NEW type,
         Rule(p.nodes[f.node], type, [k \in 1 .. Len(f.args) |-> IF p.nodes[f.node].kind = "list" THEN f.args[1] ELSE f.args[k]], v)
  PROVE  TypedBy(p, f.node, type, e, v)
<1>1. \A k \in 1 .. Len(f.args) :
        /\ Kid(p, f.node, k) \in DOMAIN e
        /\ e[Kid(p, f.node, k)] = IF p.nodes[f.node].kind = "list" THEN f.args[1] ELSE f.args[k]
  <2>1. CASE p.nodes[f.node].kind = "list"
    BY <2>1 DEF GivenTyped
  <2>2. CASE p.nodes[f.node].kind # "list"
    BY <2>2 DEF GivenTyped
  <2> QED BY <2>1, <2>2
<1>2. [k \in 1 .. Len(f.args) |-> e[Kid(p, f.node, k)]]
        = [k \in 1 .. Len(f.args) |-> IF p.nodes[f.node].kind = "list" THEN f.args[1] ELSE f.args[k]]
  BY <1>1
<1> QED BY <1>1, <1>2 DEF TypedBy

\* The caller takes the type of its operand, which it has recorded unless the
\* operator is binary.
LEMMA ReceiveTyping ==
  ASSUME SemanticInv, TypingInv, pc = "return", stack # <<>>, Receive(ret),
         UNCHANGED <<program, locals, toplevel>>,
         Extends(expressions', expressions), MapTyped(program, expressions', locals),
         CASE program.nodes[Top.node].kind = "binary" -> TRUE
           [] program.nodes[Top.node].kind = "list" ->
                /\ Awaited(program, Top) \in DOMAIN expressions'
                /\ expressions'[Awaited(program, Top)] = Head(Append(Top.args, ret))
           [] OTHER -> /\ Awaited(program, Top) \in DOMAIN expressions'
                       /\ expressions'[Awaited(program, Top)] = ret
  PROVE  TypingInv'
<1> DEFINE f == Given(Top, ret)
<1>1. pc' = "visit" /\ stack' = Push(f, Tail(stack))
  BY DEF Receive, Push, Given
<1>2. IsSeq(stack) /\ IsFrame(Top)
  BY ReturnFacts
<1>3. IsSeq(Tail(stack)) /\ Frames(Tail(stack)) \subseteq Frames(stack) /\ Top \in Frames(stack)
  BY <1>2, TailSeq, TailElements DEF Top
<1>4. Frames(stack') = Frames(Tail(stack)) \cup {f}
  BY <1>1, <1>3, PushElements
<1>5. StackTyped(program, stack, expressions', locals)
  BY StackExtends DEF TypingInv
<1>6. GivenTyped(program, Top, expressions', locals)
  BY <1>3, <1>5 DEF StackTyped
<1>7. TypedBy(program, Awaited(program, Top), ret, expressions', locals)
  <2>1. TypedBy(program, Yielded(program, Body(program, current), stack), ret, expressions, locals)
    BY DEF TypingInv
  <2>2. Yielded(program, Body(program, current), stack) = Awaited(program, Top)
    BY DEF Yielded, Top
  <2> QED BY <2>1, <2>2, TypedExtends
<1>8. /\ f.node = Top.node /\ f.args = Append(Top.args, ret) /\ Len(f.args) = Len(Top.args) + 1
      /\ Len(Top.args) \in Nat /\ f.args[Len(f.args)] = ret /\ \A k \in 1 .. Len(Top.args) : f.args[k] = Top.args[k]
      /\ IsSeq(f.args) /\ f.args # <<>>
  <2>1. f.node = Top.node /\ f.args = Append(Top.args, ret) /\ Len(f.args) = Len(Top.args) + 1 /\ Len(Top.args) \in Nat
    BY <1>2, GivenFacts
  <2>2. IsSeq(Top.args)
    BY <1>2 DEF IsFrame
  <2> HIDE DEF f
  <2> QED BY <2>1, <2>2, AppendSeq
<1> HIDE DEF f
<1>9. \A k \in 1 .. Len(f.args) : k \in 1 .. Len(Top.args)
         \/ (k = Len(f.args) /\ Kid(program, Top.node, k) = Awaited(program, Top))
  BY <1>8 DEF Awaited
<1>10. GivenTyped(program, f, expressions', locals)
  <2> SUFFICES ASSUME NEW k \in 1 .. Len(f.args)
               PROVE  CASE program.nodes[f.node].kind = "binary" ->
                             TypedBy(program, Kid(program, f.node, k), f.args[k], expressions', locals)
                        [] program.nodes[f.node].kind = "list" ->
                             /\ Kid(program, f.node, k) \in DOMAIN expressions'
                             /\ expressions'[Kid(program, f.node, k)] = f.args[1]
                        [] OTHER -> /\ Kid(program, f.node, k) \in DOMAIN expressions'
                                    /\ expressions'[Kid(program, f.node, k)] = f.args[k]
    BY DEF GivenTyped
  <2>1. CASE program.nodes[f.node].kind = "binary"
    BY <2>1, <1>6, <1>7, <1>8, <1>9 DEF GivenTyped
  <2>2. CASE program.nodes[f.node].kind = "list"
    <3>1. f.args[1] = Head(Append(Top.args, ret))
      BY <1>8, TailSeq
    <3>2. CASE k = Len(f.args) /\ Kid(program, Top.node, k) = Awaited(program, Top)
      BY <2>2, <3>1, <3>2, <1>8
    <3>3. CASE k \in 1 .. Len(Top.args)
      <4>1. Kid(program, f.node, k) \in DOMAIN expressions' /\ expressions'[Kid(program, f.node, k)] = Top.args[1]
        BY <2>2, <3>3, <1>6, <1>8 DEF GivenTyped
      <4>2. 1 \in 1 .. Len(Top.args)
        BY <3>3, <1>8
      <4> QED BY <2>2, <4>1, <4>2, <1>8
    <3> QED BY <3>2, <3>3, <1>9
  <2>3. CASE program.nodes[f.node].kind \notin {"binary", "list"}
    BY <2>3, <1>6, <1>8, <1>9 DEF GivenTyped
  <2> QED BY <2>1, <2>2, <2>3
<1>11. StackTyped(program, stack', expressions', locals)
  BY <1>3, <1>4, <1>5, <1>10 DEF StackTyped
<1> QED BY <1>1, <1>11 DEF TypingInv, toplevel

\* The map grows by nothing.
LEMMA SameExtends ==
  ASSUME TypingInv, pc \in {"visit", "return"}, expressions' = expressions
  PROVE  Extends(expressions', expressions) /\ MapTyped(program, expressions', locals)
BY DEF Extends, TypingInv

\* A subscripted name has the type that was in its list.
LEMMA SubscriptRule ==
  ASSUME NEW T, TypeSet(T), NEW type \in T, type.name = "list"
  PROVE  type = List(subscriptedType(type))
<1>1. type.args \in Seq(T) /\ Len(type.args) = 1 /\ type = Type(type.name, type.args)
  BY DEF TypeSet
<1>2. type.args = <<type.args[1]>>
  <2> DEFINE args == type.args
  <2>1. args \in Seq(T) /\ Len(args) = 1
    BY <1>1
  <2> HIDE DEF args
  <2>2. args = <<args[1]>>
    BY <2>1
  <2> QED BY <2>2 DEF args
<1> QED BY <1>1, <1>2 DEF subscriptedType, List

\* An expression without operands is typed.
LEMMA LeafTyping ==
  ASSUME SemanticInv, TypingInv, pc = "visit", Top.node # 0, NEW type, Return(type),
         program.nodes[Top.node].kind \in {"literal", "var", "subscript"},
         UNCHANGED program, UNCHANGED context,
         \A args : Rule(program.nodes[Top.node], type, args, locals)
  PROVE  TypingInv'
<1>1. UNCHANGED <<program, locals, toplevel>> /\ expressions' = expressions
  BY DEF context
<1>2. Len(Top.args) = Len(program.nodes[Top.node].kids)
  BY SimpleNode DEF Node
<1>3. Extends(expressions', expressions) /\ MapTyped(program, expressions', locals)
  BY <1>1, SameExtends
<1>4. program.nodes[Top.node].kids = <<>>
  <2>1. Top.node \in 1 .. Len(program.nodes) /\ IsParsed(program)
    BY VisitFacts
  <2> QED BY <2>1, NodeFacts DEF IsExpression
<1>5. TypedBy(program, Top.node, type, expressions', locals)
  <2>1. \A k \in 1 .. Len(program.nodes[Top.node].kids) : FALSE
    BY <1>4
  <2> QED BY <2>1, Zenon DEF TypedBy
<1> QED BY <1>1, <1>2, <1>3, <1>5, ReturnTyping

\* The steps that reach an expression keep the invariant.
LEMMA VisitTyping ==
  ASSUME NEW T, TypeSet(T), SemanticInv, TypesIn(T), TypingInv, UNCHANGED input,
         VisitNull \/ VisitLiteral \/ VisitVar \/ VisitKid
  PROVE  TypingInv'
<1>0. UNCHANGED program /\ UNCHANGED context
  BY DEF input, VisitNull, VisitLiteral, VisitVar, VisitKid
<1>1. CASE VisitNull
  BY <1>0, <1>1, StopTyping DEF VisitNull, DereferenceNull, context
<1>2. CASE VisitLiteral
  <2>1. pc = "visit" /\ Top.node # 0 /\ program.nodes[Top.node].kind = "literal"
        /\ Return(LiteralType(program.nodes[Top.node].name))
    BY <1>2 DEF VisitLiteral, AtNode, Node
  <2>2. \A args : Rule(program.nodes[Top.node], LiteralType(program.nodes[Top.node].name), args, locals)
    BY <2>1, Zenon DEF Rule
  <2> QED BY <1>0, <2>1, <2>2, LeafTyping
<1>3. CASE VisitVar
  <2> DEFINE node == program.nodes[Top.node]
  <2>1. pc = "visit" /\ Top.node # 0 /\ node.kind \in {"var", "subscript"}
    BY <1>3 DEF VisitVar, AtNode, Node
  <2>3. \/ Fail
        \/ node.name \in DOMAIN locals /\ node.kind = "var" /\ Return(locals[node.name])
        \/ /\ node.name \in DOMAIN locals /\ node.kind = "subscript"
           /\ Return(subscriptedType(locals[node.name]))
    BY <1>3 DEF VisitVar, Node
  <2>4. CASE Fail
    BY <1>0, <2>4, StopTyping DEF Fail, context
  <2>5. ASSUME node.name \in DOMAIN locals, node.kind = "var", Return(locals[node.name])
        PROVE  TypingInv'
    <3>1. \A args : Rule(node, locals[node.name], args, locals)
      BY <2>5, Zenon DEF Rule
    <3> QED BY <1>0, <2>1, <2>5, <3>1, LeafTyping
  <2>6. ASSUME node.name \in DOMAIN locals, node.kind = "subscript", Return(subscriptedType(locals[node.name]))
        PROVE  TypingInv'
    <3>1. locals[node.name] \in T
      BY <2>6 DEF TypesIn, ValuesIn
    <3>2. IF locals[node.name].name = "list"
          THEN locals[node.name] = List(subscriptedType(locals[node.name]))
          ELSE subscriptedType(locals[node.name]) = Null
      BY <3>1, SubscriptRule DEF subscriptedType
    <3>3. \A args : Rule(node, subscriptedType(locals[node.name]), args, locals)
      BY <2>6, <3>2, Zenon DEF Rule
    <3> QED BY <1>0, <2>1, <2>6, <3>3, LeafTyping
  <2> QED BY <2>3, <2>4, <2>5, <2>6
<1>4. CASE VisitKid
  <2>1. pc = "visit" /\ Top.node # 0 /\ UNCHANGED <<pc, ret>>
        /\ stack' = Push(NewFrame(ThisKid), stack)
    BY <1>4 DEF VisitKid, AtNode, Push, NewFrame
  <2>2. IsSeq(stack)
    BY <2>1, VisitFacts
  <2>3. Frames(stack') = Frames(stack) \cup {NewFrame(ThisKid)}
    BY <2>1, <2>2, PushElements
  <2>4. NewFrame(ThisKid).args = <<>>
    BY DEF NewFrame
  <2>5. GivenTyped(program, NewFrame(ThisKid), expressions, locals)
    BY <2>4 DEF GivenTyped
  <2>6. StackTyped(program, stack', expressions, locals)
    BY <2>1, <2>3, <2>5 DEF TypingInv, StackTyped
  <2> QED BY <1>0, <2>1, <2>6 DEF TypingInv, context, toplevel
<1> QED BY <1>1, <1>2, <1>3, <1>4

\* The step by which a caller records the type of an operand keeps the
\* invariant, for the operand was not recorded yet.
LEMMA ReceiveAllTyping ==
  ASSUME NEW T, TypeSet(T), Faithful(T), SemanticInv, TypesIn(T), TypingInv, UNCHANGED input,
         ReceiveElement \/ ReceiveArg \/ ReceiveOperand
  PROVE  TypingInv'
<1> DEFINE a == Awaited(program, Top)
           kind == program.nodes[Top.node].kind
<1>0. /\ pc = "return" /\ stack # <<>> /\ UNCHANGED <<program, locals, sig>> /\ ret \in T
  BY DEF input, ReceiveElement, ReceiveArg, ReceiveOperand, Returned, context, TypesIn
<1>a. Top.args \in Seq(T) /\ a = ThisKid
  BY <1>0, ReturnFacts, TailElements DEF TypesIn, ArgsIn, Top, Awaited, Kid, ThisKid, Node
<1>b. MapTyped(program, expressions, locals) /\ TypedBy(program, a, ret, expressions, locals)
  <2>1. Yielded(program, Body(program, current), stack) = a
    BY <1>0 DEF Yielded, Top
  <2> QED BY <1>0, <2>1 DEF TypingInv
<1>1. CASE ReceiveOperand
  <2>1. kind = "binary" /\ UNCHANGED toplevel /\ expressions' = expressions /\ Receive(ret)
    BY <1>1 DEF ReceiveOperand, Returned, Node, context
  <2>2. Extends(expressions', expressions) /\ MapTyped(program, expressions', locals)
    BY <1>0, <2>1, SameExtends
  <2> QED BY <1>0, <2>1, <2>2, ReceiveTyping
<1>2. ASSUME NEW type, type = ret, Record([n \in {a} |-> type], Receive(ret) /\ UNCHANGED toplevel),
             kind = "list" => type = Head(Append(Top.args, ret)), kind # "binary"
      PROVE  TypingInv'
  <2> DEFINE entries == [n \in {a} |-> type]
  <2>0. DOMAIN entries = {a} /\ entries[a] = type
    OBVIOUS
  <2> HIDE DEF entries, a
  <2>1. CASE UNCHANGED <<expressions, toplevel>> /\ (AssertFails \/ Fail)
    BY <1>0, <2>1, StopTyping DEF AssertFails, Fail
  <2>2. CASE /\ DOMAIN entries \cap DOMAIN expressions = {}
             /\ expressions' = Merged(expressions, entries)
             /\ Receive(ret) /\ UNCHANGED toplevel
    <3>1. \A n \in DOMAIN entries : TypedBy(program, n, entries[n], expressions, locals)
      BY <1>2, <1>b, <2>0
    <3>2. /\ Extends(expressions', expressions) /\ MapTyped(program, expressions', locals)
          /\ \A n \in DOMAIN entries : n \in DOMAIN expressions' /\ expressions'[n] = entries[n]
      BY <1>b, <2>2, <3>1, RecordExtends
    <3>3. a \in DOMAIN expressions' /\ expressions'[a] = type
      BY <2>0, <3>2
    <3> QED BY <1>0, <1>2, <2>2, <3>2, <3>3, ReceiveTyping DEF a
  <2> QED BY <1>2, <2>1, <2>2 DEF Record, entries, Merged
<1>3. CASE ReceiveArg
  <2>1. kind = "call" /\ Record([n \in {a} |-> ret], Receive(ret) /\ UNCHANGED toplevel)
    BY <1>3, <1>a DEF ReceiveArg, Returned, Node
  <2> QED BY <1>2, <2>1
<1>4. CASE ReceiveElement
  <2> DEFINE first == Head(Append(Top.args, ret))
  <2>1. first \in T
    BY <1>0, <1>a
  <2>2. /\ kind = "list"
        /\ \/ /\ Compare(first, ret) = "same"
              /\ Record([n \in {a} |-> first], Receive(ret) /\ UNCHANGED toplevel)
           \/ (Fail \/ DereferenceNull \/ AssertFails) /\ UNCHANGED <<expressions, toplevel>>
    <3> HIDE DEF first
    <3>1. ReceiveElement =>
            /\ kind = "list"
            /\ \/ /\ (IF ret = Null /\ build = "debug" THEN "assert" ELSE Compare(first, ret)) = "same"
                  /\ Record([n \in {ThisKid} |-> first], Receive(ret) /\ UNCHANGED toplevel)
               \/ (Fail \/ DereferenceNull \/ AssertFails) /\ UNCHANGED <<expressions, toplevel>>
      BY Zenon DEF ReceiveElement, Returned, Node, first
    <3> QED BY <1>4, <1>a, <3>1
  <2>3. CASE (Fail \/ DereferenceNull \/ AssertFails) /\ UNCHANGED <<expressions, toplevel>>
    BY <1>0, <2>3, StopTyping DEF AssertFails, Fail, DereferenceNull
  <2>4. ASSUME Compare(first, ret) = "same", Record([n \in {a} |-> first], Receive(ret) /\ UNCHANGED toplevel)
        PROVE  TypingInv'
    <3>1. first = ret
      BY <1>0, <2>1, <2>4 DEF Faithful
    <3> QED BY <1>2, <2>2, <2>4, <3>1
  <2> QED BY <2>2, <2>3, <2>4
<1> QED BY <1>1, <1>3, <1>4

\* The operands of a binary expression are two.
LEMMA TwoOperands ==
  ASSUME SemanticInv, pc = "visit", Top.node # 0, program.nodes[Top.node].kind = "binary",
         Len(Top.args) = Len(program.nodes[Top.node].kids)
  PROVE  /\ Len(Top.args) = 2 /\ Kid(program, Top.node, 1) # Kid(program, Top.node, 2)
         /\ program.nodes[Top.node].name \in {"<", ">", "+", "-", "*"}
<1> DEFINE n == Top.node
<1>1. n \in 1 .. Len(program.nodes) /\ IsParsed(program) /\ GivenKids(program, Top) /\ IsFrame(Top)
  BY VisitFacts
<1>2. Len(program.nodes[n].kids) = 2 /\ program.nodes[n].name \in {"<", ">", "+", "-", "*"}
  BY <1>1, NodeFacts DEF IsExpression
<1>3. First(program, n) # 0
  BY <1>1, CompleteFacts
<1>4. /\ First(program, Kid(program, n, 2)) = Kid(program, n, 1) + 1
      /\ Kid(program, n, 2) \in 1 .. Len(program.nodes) /\ Kid(program, n, 1) \in 1 .. Len(program.nodes)
  <2>1. 1 \in 1 .. Len(program.nodes[n].kids) /\ 2 \in 1 .. Len(program.nodes[n].kids) /\ 2 > 1 /\ 2 - 1 = 1
    BY <1>2
  <2> QED BY <1>1, <1>3, <2>1, KidFacts
<1>5. First(program, Kid(program, n, 2)) <= Kid(program, n, 2)
  BY <1>1, <1>4, NodeFacts
<1> QED BY <1>2, <1>4, <1>5

\* The steps that finish an expression keep the invariant: it is typed by the
\* lookup that was made with the types of its operands.
LEMMA FinishTyping ==
  ASSUME NEW T, TypeSet(T), Faithful(T), SemanticInv, TypesIn(T), TypingInv, UNCHANGED input,
         FinishList \/ FinishBinary \/ FinishCall
  PROVE  TypingInv'
<1> DEFINE node == program.nodes[Top.node]
           given == Top.args
<1>0. /\ pc = "visit" /\ Top.node # 0 /\ UNCHANGED <<program, locals, sig>>
      /\ Len(given) = Len(node.kids)
  BY DEF input, FinishList, FinishBinary, FinishCall, AtNode, KidsDone, context, Node
<1>a. /\ IsSeq(stack) /\ stack # <<>> /\ Top.node \in 1 .. Len(program.nodes) /\ IsParsed(program) /\ IsFrame(Top)
      /\ MapTyped(program, expressions, locals) /\ StackTyped(program, stack, expressions, locals)
  BY <1>0, VisitFacts DEF TypingInv
<1>b. given \in Seq(T) /\ GivenTyped(program, Top, expressions, locals)
  BY <1>a, TailElements DEF TypesIn, ArgsIn, Top, StackTyped
<1>1. CASE FinishList
  <2> DEFINE type == IF given = <<>> THEN List(Null) ELSE List(given[1])
             args == [k \in 1 .. Len(given) |-> IF node.kind = "list" THEN given[1] ELSE given[k]]
  <2>1. /\ UNCHANGED context /\ node.kind = "list" /\ Return(type)
    BY <1>1 DEF FinishList, AtNode, Node
  <2>2. UNCHANGED <<program, locals, toplevel>> /\ expressions' = expressions
    BY <1>0, <2>1 DEF context
  <2>3. Extends(expressions', expressions) /\ MapTyped(program, expressions', locals)
    BY <1>0, <2>2, SameExtends
  <2>4. /\ \A k \in 1 .. Len(args) : type = List(args[k])
        /\ args = <<>> => type = List(Null)
    <3>1. Len(args) = Len(given) /\ \A k \in 1 .. Len(given) : args[k] = given[1]
      BY <1>b, <2>1
    <3>2. Len(given) \in Nat /\ (given = <<>> <=> Len(given) = 0)
      BY <1>b
    <3>3. args = <<>> => Len(args) = 0
      OBVIOUS
    <3> HIDE DEF args, given
    <3> QED BY <3>1, <3>2, <3>3
  <2> HIDE DEF type, args
  <2>5. Rule(node, type, args, locals)
    BY <2>1, <2>4, Zenon DEF Rule
  <2>6. TypedBy(program, Top.node, type, expressions, locals)
    BY <1>0, <1>a, <1>b, <2>1, <2>5, CompleteTyped DEF args
  <2> QED BY <1>0, <2>1, <2>2, <2>3, <2>6, ReturnTyping
<1>2. CASE FinishCall
  <2>1. PICK outcome \in CallOutcomes(node.name, given) :
          Finish(outcome) /\ node.kind = "call" /\ UNCHANGED context
    BY <1>2 DEF FinishCall, AtNode, Node
  <2>2. UNCHANGED <<program, locals, toplevel>> /\ expressions' = expressions
    BY <1>0, <2>1 DEF context
  <2>3. CASE Fail \/ DereferenceNull
    BY <2>2, <2>3, StopTyping DEF Fail, DereferenceNull
  <2>4. CASE outcome.kind = "found" /\ Return(outcome.type)
    <3> DEFINE args == [k \in 1 .. Len(given) |-> IF node.kind = "list" THEN given[1] ELSE given[k]]
    <3>1. Extends(expressions', expressions) /\ MapTyped(program, expressions', locals)
      BY <1>0, <2>2, SameExtends
    <3>2. Rule(node, outcome.type, given, locals)
      BY <1>b, <2>1, <2>4, CallRule DEF TypesIn
    <3>3. args = given
      BY <1>b, <2>1
    <3>4. Rule(node, outcome.type, args, locals)
      BY <3>2, <3>3
    <3>5. TypedBy(program, Top.node, outcome.type, expressions, locals)
      BY <1>0, <1>a, <1>b, <2>1, <3>4, CompleteTyped
    <3> QED BY <1>0, <2>2, <2>4, <3>1, <3>5, ReturnTyping
  <2> QED BY <2>1, <2>3, <2>4 DEF Finish
<1>3. CASE FinishBinary
  <2> DEFINE kids == node.kids
             entries == [n \in {kids[1], kids[2]} |-> IF n = kids[1] THEN given[1] ELSE given[2]]
  <2>1. /\ node.kind = "binary"
        /\ Record(entries, (\E outcome \in getBuiltin(node.name, given) : Finish(outcome)) /\ UNCHANGED toplevel)
    BY <1>3 DEF FinishBinary, AtNode, Node
  <2>2. Len(given) = 2 /\ kids[1] # kids[2] /\ node.name \in {"<", ">", "+", "-", "*"}
    BY <1>0, <2>1, TwoOperands DEF Kid
  <2>3. DOMAIN entries = {kids[1], kids[2]} /\ entries[kids[1]] = given[1] /\ entries[kids[2]] = given[2]
    BY <2>2
  <2>4. \A n \in DOMAIN entries : TypedBy(program, n, entries[n], expressions, locals)
    <3>1. \A k \in 1 .. Len(given) : TypedBy(program, kids[k], given[k], expressions, locals)
      BY <1>b, <2>1 DEF GivenTyped, Kid
    <3> HIDE DEF entries, kids
    <3> QED BY <2>2, <2>3, <3>1
  <2> HIDE DEF entries
  <2>5. CASE UNCHANGED <<expressions, toplevel>> /\ (AssertFails \/ Fail)
    BY <1>0, <2>5, StopTyping DEF AssertFails, Fail
  <2>6. ASSUME DOMAIN entries \cap DOMAIN expressions = {},
               expressions' = Merged(expressions, entries),
               NEW outcome \in getBuiltin(node.name, given), Finish(outcome), UNCHANGED toplevel
        PROVE  TypingInv'
    <3>1. /\ Extends(expressions', expressions) /\ MapTyped(program, expressions', locals)
          /\ \A n \in DOMAIN entries : n \in DOMAIN expressions' /\ expressions'[n] = entries[n]
      BY <1>a, <2>4, <2>6, RecordExtends
    <3>2. CASE Fail \/ DereferenceNull
      BY <1>0, <2>6, <3>2, StopTyping DEF Fail, DereferenceNull
    <3>3. CASE outcome.kind = "found" /\ Return(outcome.type)
      <4>1. Rule(node, outcome.type, given, locals)
        BY <1>b, <2>1, <2>2, <3>3, BinaryRule
      <4>2. Len(kids) = 2 /\ \A k \in 1 .. 2 : kids[k] \in DOMAIN expressions' /\ expressions'[kids[k]] = given[k]
        <5> HIDE DEF kids, given
        <5>1. \A k \in 1 .. 2 : k = 1 \/ k = 2
          OBVIOUS
        <5> QED BY <1>0, <2>2, <2>3, <3>1, <5>1 DEF kids
      <4>3. [k \in 1 .. Len(kids) |-> expressions'[kids[k]]] = given
        <5> HIDE DEF kids, given
        <5> QED BY <1>b, <2>2, <4>2
      <4>4. TypedBy(program, Top.node, outcome.type, expressions', locals)
        BY <4>1, <4>2, <4>3 DEF TypedBy, Kid
      <4> QED BY <1>0, <2>6, <3>1, <3>3, <4>4, ReturnTyping
    <3> QED BY <2>6, <3>2, <3>3 DEF Finish
  <2> QED BY <2>1, <2>5, <2>6 DEF Record, Merged
<1> QED BY <1>1, <1>2, <1>3

\* Between functions nothing is being typed: the invariant is kept.
LEMMA UnitStepTyping ==
  ASSUME SemanticInv, TypingInv, UNCHANGED input, AllUnitsDone \/ BadSignature \/ AnalyzeExtern \/ StartFunction
  PROVE  TypingInv'
<1>0. UNCHANGED program
  BY DEF input
<1>1. CASE AllUnitsDone \/ BadSignature
  BY <1>0, <1>1, StopTyping DEF AllUnitsDone, BadSignature, Fail, context
<1>2. CASE AnalyzeExtern
  <2> DEFINE entry == [unit |-> current, sig |-> BuiltSig(Unit), variables |-> <<>>, expressions |-> <<>>]
  <2>1. /\ pc = "analyze" /\ pc' = pc /\ current <= Len(program.units)
        /\ program.units[current].kind = "extern" /\ analyzed' = Append(analyzed, entry)
    BY <1>2 DEF AnalyzeExtern, AtUnit, Unit, result
  <2> HIDE DEF entry
  <2>2. IsSeq(analyzed) /\ Len(analyzed) = current - 1 /\ current \in Nat
    <3>1. Len(program.units) \in Nat
      BY DEF SemanticInv, IsParsed, IsProgram
    <3> QED BY <3>1 DEF SemanticInv, AnalyzedInv
  <2>3. Len(analyzed') = Len(analyzed) + 1 /\ \A i \in 1 .. Len(analyzed) : analyzed'[i] = analyzed[i]
    BY <2>1, <2>2, AppendSeq
  <2>4. \A i \in 1 .. Len(analyzed') : i \in 1 .. Len(analyzed) \/ i = current
    BY <2>2, <2>3
  <2> QED BY <1>0, <2>1, <2>3, <2>4 DEF TypingInv
<1>3. CASE StartFunction
  <2> DEFINE f == [node |-> Unit.body, args |-> <<>>]
             none == [n \in {} |-> Null]
  <2>1. /\ pc' = "visit" /\ expressions' = none /\ stack' = <<f>> /\ UNCHANGED toplevel
    BY <1>3 DEF StartFunction
  <2>2. f.args = <<>> /\ Len(f.args) = 0
    OBVIOUS
  <2>3. MapTyped(program, none, locals')
    BY DEF MapTyped
  <2> HIDE DEF f, none
  <2>4. Frames(<<f>>) = {f}
    BY DEF Frames
  <2>5. GivenTyped(program, f, none, locals')
    BY <2>2 DEF GivenTyped
  <2>6. StackTyped(program, stack', none, locals')
    BY <2>1, <2>4, <2>5 DEF StackTyped
  <2> QED BY <1>0, <2>1, <2>3, <2>6 DEF TypingInv, toplevel
<1> QED BY <1>1, <1>2, <1>3

\* The step that ends a function keeps the invariant: the body is recorded
\* last, and the types of the function agree.
LEMMA EndFunctionTyping ==
  ASSUME NEW T, TypeSet(T), Faithful(T), SemanticInv, TypesIn(T), TypingInv,
         UNCHANGED input, EndFunction
  PROVE  TypingInv'
<1> DEFINE unit == program.units[current]
<1>0. /\ pc = "return" /\ stack = <<>> /\ UNCHANGED <<program, sig, locals>>
      /\ ret \in T /\ BuildsOf(T, program) /\ CanBuild(unit)
  BY DEF EndFunction, input, TypesIn
<1>1. /\ sig = BuiltSig(unit) /\ IsParsed(program) /\ current \in 1 .. Len(program.units)
      /\ IsSeq(analyzed) /\ Len(analyzed) = current - 1 /\ current \in Nat
  <2>1. IsParsed(program) /\ Len(program.units) \in Nat
    BY DEF SemanticInv, IsParsed, IsProgram
  <2> QED BY <1>0, <2>1 DEF SemanticInv, FunctionInv, AnalyzedInv
<1>2. /\ unit.type # <<>> => sig.ret \in T /\ sig.ret = Build(unit.type[1])
      /\ [sig EXCEPT !.ret = ret].ret = ret
  <2>1. unit.type # <<>> => sig.ret \in T
    BY <1>0, <1>1, UnitTypes
  <2> QED BY <2>1, <1>1 DEF BuiltSig
<1>3. /\ MapTyped(program, expressions, locals)
      /\ TypedBy(program, unit.body, ret, expressions, locals)
  BY <1>0 DEF TypingInv, Yielded, Body
<1>4. ASSUME NEW s, s.ret = ret, unit.type # <<>> => s.ret = Build(unit.type[1]), AcceptFunction(s)
      PROVE  TypingInv'
  <2> DEFINE entries == [n \in {Unit.body} |-> ret]
             entry == [unit |-> current, sig |-> s, variables |-> locals, expressions |-> expressions']
  <2>0. DOMAIN entries = {unit.body} /\ entries[unit.body] = ret
    BY DEF Unit
  <2> HIDE DEF entries
  <2>1. CASE UNCHANGED <<expressions, toplevel>> /\ (AssertFails \/ Fail)
    BY <1>0, <2>1, StopTyping DEF AssertFails, Fail
  <2>2. CASE /\ DOMAIN entries \cap DOMAIN expressions = {}
             /\ expressions' = Merged(expressions, entries)
             /\ analyzed' = Append(analyzed, entry) /\ pc' = "analyze"
    <3>1. \A n \in DOMAIN entries : TypedBy(program, n, entries[n], expressions, locals)
      BY <1>3, <2>0
    <3>2. /\ MapTyped(program, expressions', locals)
          /\ \A n \in DOMAIN entries : n \in DOMAIN expressions' /\ expressions'[n] = entries[n]
      BY <1>3, <2>2, <3>1, RecordExtends
    <3>3. expressions'[unit.body] = ret
      BY <2>0, <3>2
    <3>4. entry.sig = s /\ entry.variables = locals /\ entry.expressions = expressions'
      OBVIOUS
    <3> HIDE DEF entry
    <3>5. FunctionTyped(program, current, entry)
      BY <1>4, <3>2, <3>3, <3>4 DEF FunctionTyped
    <3>6. /\ Len(analyzed') = Len(analyzed) + 1 /\ analyzed'[Len(analyzed')] = entry
          /\ \A i \in 1 .. Len(analyzed) : analyzed'[i] = analyzed[i]
      BY <1>1, <2>2, AppendSeq
    <3>7. \A i \in 1 .. Len(analyzed') : i \in 1 .. Len(analyzed) \/ (i = current /\ analyzed'[i] = entry)
      BY <1>1, <3>6
    <3> QED BY <1>0, <2>2, <3>5, <3>6, <3>7 DEF TypingInv
  <2> QED BY <1>4, <2>1, <2>2 DEF AcceptFunction, Record, entries, Merged
<1>5. \/ unit.type # <<>> /\ Compare(sig.ret, ret) = "same" /\ AcceptFunction(sig) 
      \/ unit.type = <<>> /\ AcceptFunction([sig EXCEPT !.ret = ret])
      \/ (Fail \/ AssertFails \/ DereferenceNull) /\ UNCHANGED <<expressions, toplevel>>
  BY Zenon DEF EndFunction, Unit
<1>6. CASE unit.type # <<>> /\ Compare(sig.ret, ret) = "same" /\ AcceptFunction(sig)
  <2>1. sig.ret = ret
    BY <1>0, <1>2, <1>6 DEF Faithful
  <2> QED BY <1>2, <1>4, <1>6, <2>1
<1>7. CASE (Fail \/ AssertFails \/ DereferenceNull) /\ UNCHANGED <<expressions, toplevel>>
  BY <1>0, <1>7, StopTyping DEF AssertFails, Fail, DereferenceNull
<1> QED BY <1>2, <1>4, <1>5, <1>6, <1>7

\* Every step keeps the invariant.
LEMMA TypingStep ==
  ASSUME NEW T, TypeSet(T), Faithful(T), SemanticInv, TypesIn(T), TypingInv, [Next]_vars
  PROVE  TypingInv'
<1>1. CASE UNCHANGED vars
  BY <1>1 DEF vars, input, result, context, toplevel, TypingInv
<1>2. CASE Next
  BY <1>2, UnitStepTyping, EndFunctionTyping, VisitTyping, ReceiveAllTyping, FinishTyping DEF Next
<1> QED BY <1>1, <1>2

\* The invariant holds at the start.
LEMMA TypingInit ==
  ASSUME Init
  PROVE  TypingInv
<1>1. pc = "analyze" /\ analyzed = <<>>
  BY Zenon DEF Init
<1> QED BY <1>1 DEF TypingInv

\* The invariant says what the code generator relies on.
LEMMA InvTyped ==
  ASSUME SemanticInv, TypingInv
  PROVE  WellTyped
<1> SUFFICES ASSUME NEW i \in Functions
             PROVE  LET unit == program.units[analyzed[i].unit]
                        types == analyzed[i].expressions
                    IN  /\ \A n \in DOMAIN types : WellTypedNode(n, types, analyzed[i].variables)
                        /\ analyzed[i].sig.ret = types[unit.body]
                        /\ unit.type # <<>> => types[unit.body] = Build(unit.type[1])
  BY DEF WellTyped
<1>1. i \in 1 .. Len(analyzed) /\ program.units[analyzed[i].unit].kind = "def" /\ analyzed[i].unit = i
  BY DEF Functions, SemanticInv, AnalyzedInv, FunctionsDone
<1>2. FunctionTyped(program, i, analyzed[i])
  BY <1>1 DEF TypingInv
<1>3. \A n \in DOMAIN analyzed[i].expressions :
        TypedBy(program, n, analyzed[i].expressions[n], analyzed[i].expressions, analyzed[i].variables)
  BY <1>2 DEF FunctionTyped, MapTyped
<1>4. \A n \in DOMAIN analyzed[i].expressions :
        WellTypedNode(n, analyzed[i].expressions, analyzed[i].variables)
  BY <1>3, Zenon DEF TypedBy, WellTypedNode, Node, Kid
<1> QED BY <1>1, <1>2, <1>4 DEF FunctionTyped

\* For every way of building and mangling types under which types of one name
\* are one, the recorded types of each function follow the rules of the
\* language together, and its return type is the one it declares: what the
\* code generator looks up again with recorded types is found again.
THEOREM FaithfulTypesAgree ==
  ASSUME NEW T, TypeSet(T), BuildsIn(T), Null \in T, Faithful(T)
  PROVE  Spec => []WellTyped
<1>1. Init => SemanticInv /\ TypesIn(T) /\ TypingInv
  BY SemanticInvInit, TypesInit, TypingInit
<1>2. SemanticInv /\ TypesIn(T) /\ TypingInv /\ [Next]_vars => SemanticInv' /\ TypesIn(T)' /\ TypingInv'
  BY SemanticInvStep, TypesStep, TypingStep
<1>3. SemanticInv /\ TypesIn(T) /\ TypingInv => WellTyped
  BY InvTyped
<1> QED BY <1>1, <1>2, <1>3, PTL DEF Spec

-----------------------------------------------------------------------------
(* What the names in the scope of a function mean.                         *)

\* The first unit before one that has the name.
UnitMeaning(p, done, u, x, type) ==
  \E v \in 1 .. u - 1 : /\ p.units[v].name = x /\ type = signatureType(done[v].sig)
                        /\ \A w \in 1 .. v - 1 : p.units[w].name # x

\* The first parameter that has it.
ParameterMeaning(args, x, type) ==
  \E k \in 1 .. Len(args) : /\ args[k].name = x /\ type = args[k].type
                            /\ \A j \in 1 .. k - 1 : args[j].name # x

\* One of them, or a function of a declared type itself.
NameMeans(p, done, u, s, x, type) ==
  \/ UnitMeaning(p, done, u, x, type)
  \/ x \notin NamesBefore(p, u) /\ ParameterMeaning(s.args, x, type)
  \/ /\ x \notin NamesBefore(p, u) /\ x = p.units[u].name
     /\ type = signatureType(s) /\ p.units[u].type # <<>>

GlobalsMean(p, done, u, map) == \A x \in DOMAIN map : UnitMeaning(p, done, u, x, map[x])
ScopeMeans(p, done, u, s, map) == \A x \in DOMAIN map : NameMeans(p, done, u, s, x, map[x])

\* The entry of a unit in the TopLevel has the arguments that the unit
\* declares, and the names of a function mean something.
EntryMeans(T, p, done, u) ==
  LET entry == done[u]
  IN  /\ entry.sig.name = p.units[u].name /\ entry.sig.args = BuiltSig(p.units[u]).args
      /\ p.units[u].kind = "def" =>
           /\ ScopeMeans(p, done, u, entry.sig, entry.variables)
           /\ ValuesIn(T, entry.variables) /\ ValuesIn(T, entry.expressions)
           /\ p.units[u].body \in DOMAIN entry.expressions

ScopeInv(T) ==
  /\ GlobalsMean(program, analyzed, current, globals)
  /\ pc \in {"visit", "return"} => ScopeMeans(program, analyzed, current, sig, locals)
  /\ \A u \in 1 .. Len(analyzed) : EntryMeans(T, program, analyzed, u)

\* It depends on the units before.
LEMMA MeaningExtends ==
  ASSUME NEW p, NEW u, NEW done, NEW new, \A v \in 1 .. u - 1 : new[v] = done[v]
  PROVE  /\ \A x, type : UnitMeaning(p, done, u, x, type) => UnitMeaning(p, new, u, x, type)
         /\ \A s, x, type : NameMeans(p, done, u, s, x, type) => NameMeans(p, new, u, s, x, type)
<1>1. ASSUME NEW x, NEW type, UnitMeaning(p, done, u, x, type) PROVE UnitMeaning(p, new, u, x, type)
  BY <1>1 DEF UnitMeaning
<1> QED BY <1>1, Zenon DEF NameMeans

\* A unit that is done adds its name, if there was none before.
LEMMA GlobalsBound ==
  ASSUME NEW p, NEW u \in Nat \ {0}, NEW done, NEW new, \A v \in 1 .. u - 1 : new[v] = done[v],
         NEW map, DOMAIN map = NamesBefore(p, u), GlobalsMean(p, done, u, map)
  PROVE  GlobalsMean(p, new, u + 1, Bind(map, p.units[u].name, signatureType(new[u].sig)))
<1> DEFINE bound == Bind(map, p.units[u].name, signatureType(new[u].sig))
<1>1. DOMAIN bound = DOMAIN map \cup {p.units[u].name}
  BY BindDomain
<1>2. /\ \A x \in DOMAIN map : bound[x] = map[x]
      /\ p.units[u].name \notin DOMAIN map => bound[p.units[u].name] = signatureType(new[u].sig)
  BY DEF Bind
<1> HIDE DEF bound
<1>3. u \in 1 .. (u + 1) - 1 /\ \A v \in 1 .. u - 1 : v \in 1 .. (u + 1) - 1
  OBVIOUS
<1>4. ASSUME NEW x \in DOMAIN map PROVE UnitMeaning(p, new, u + 1, x, bound[x])
  <2>1. UnitMeaning(p, new, u, x, map[x])
    BY MeaningExtends, Zenon DEF GlobalsMean
  <2> QED BY <1>2, <1>3, <2>1, Zenon DEF UnitMeaning
<1>5. ASSUME p.units[u].name \notin DOMAIN map
      PROVE  UnitMeaning(p, new, u + 1, p.units[u].name, bound[p.units[u].name])
  <2>1. \A w \in 1 .. u - 1 : p.units[w].name # p.units[u].name
    BY <1>5 DEF NamesBefore
  <2> QED BY <1>2, <1>3, <1>5, <2>1, Zenon DEF UnitMeaning
<1>6. GlobalsMean(p, new, u + 1, bound)
  BY <1>1, <1>4, <1>5, Zenon DEF GlobalsMean
<1> QED BY <1>6 DEF bound

\* The parameters add theirs.
LEMMA ArgsBound ==
  ASSUME NEW map, NEW args, Len(args) \in Nat, NEW x \in DOMAIN BindArgs(map, args)
  PROVE  \/ x \in DOMAIN map /\ BindArgs(map, args)[x] = map[x]
         \/ x \notin DOMAIN map /\ ParameterMeaning(args, x, BindArgs(map, args)[x])
<1> DEFINE Named(y) == {i \in 1 .. Len(args) : args[i].name = y}
           first(y) == CHOOSE i \in Named(y) : \A j \in Named(y) : i <= j
           bound == BindArgs(map, args)
<1>1. bound = [y \in DOMAIN map \cup {args[i].name : i \in 1 .. Len(args)} |->
                 IF y \in DOMAIN map THEN map[y] ELSE args[first(y)].type]
  BY DEF BindArgs
<1>2. x \in DOMAIN map \cup {args[i].name : i \in 1 .. Len(args)}
  BY <1>1
<1>3. bound[x] = IF x \in DOMAIN map THEN map[x] ELSE args[first(x)].type
  <2> HIDE DEF first, bound
  <2> QED BY <1>1, <1>2
<1>4. CASE x \notin DOMAIN map
  <2>1. Named(x) # {} /\ Named(x) \subseteq Nat /\ Named(x) \subseteq 1 .. Len(args)
    BY <1>2, <1>4
  <2> HIDE DEF Named
  <2>2. \E i \in Named(x) : \A j \in Named(x) : i <= j
    BY <2>1, Least
  <2>3. first(x) \in Named(x) /\ \A j \in Named(x) : first(x) <= j
    BY <2>2
  <2> HIDE DEF first
  <2> DEFINE k == first(x)
  <2>4. k \in 1 .. Len(args) /\ args[k].name = x /\ bound[x] = args[k].type
    BY <1>3, <1>4, <2>1, <2>3 DEF Named
  <2>5. \A j \in Named(x) : k <= j
    BY <2>3
  <2> HIDE DEF k, bound
  <2>6. \A j \in 1 .. k - 1 : args[j].name # x
    BY <2>4, <2>5 DEF Named
  <2>7. ParameterMeaning(args, x, bound[x])
    BY <2>4, <2>6, Zenon DEF ParameterMeaning
  <2> QED BY <1>4, <2>7 DEF bound
<1> HIDE DEF bound, first, Named
<1> QED BY <1>3, <1>4 DEF bound

\* Steps that leave the names alone, and start no function, keep what they
\* mean.
LEMMA SameScope ==
  ASSUME NEW T, ScopeInv(T), UNCHANGED <<program, sig, locals, toplevel>>,
         pc' \in {"visit", "return"} => pc \in {"visit", "return"}
  PROVE  ScopeInv(T)'
BY DEF ScopeInv, toplevel

\* So do those that pass a unit.
LEMMA PassedScope ==
  ASSUME NEW T, SemanticInv, ScopeInv(T), UNCHANGED program, pc' = "analyze",
         current <= Len(program.units), current' = current + 1,
         NEW entry, analyzed' = Append(analyzed, entry),
         globals' = Bind(globals, program.units[current].name, signatureType(entry.sig)),
         entry.sig.name = program.units[current].name,
         entry.sig.args = BuiltSig(program.units[current]).args,
         program.units[current].kind = "def" =>
           /\ ScopeMeans(program, analyzed, current, entry.sig, entry.variables)
           /\ ValuesIn(T, entry.variables) /\ ValuesIn(T, entry.expressions)
           /\ program.units[current].body \in DOMAIN entry.expressions
  PROVE  ScopeInv(T)'
<1>1. /\ current \in Nat \ {0} /\ IsSeq(analyzed) /\ Len(analyzed) = current - 1
      /\ DOMAIN globals = NamesBefore(program, current)
  <2>1. Len(program.units) \in Nat
    BY DEF SemanticInv, IsParsed, IsProgram
  <2> QED BY <2>1 DEF SemanticInv, AnalyzedInv
<1>2. /\ Len(analyzed') = Len(analyzed) + 1 /\ analyzed'[Len(analyzed')] = entry
      /\ \A i \in 1 .. Len(analyzed) : analyzed'[i] = analyzed[i]
  BY <1>1, AppendSeq
<1>3. /\ analyzed'[current] = entry /\ \A v \in 1 .. current - 1 : analyzed'[v] = analyzed[v]
      /\ \A u \in 1 .. Len(analyzed') : u \in 1 .. Len(analyzed) \/ u = current
  BY <1>1, <1>2
<1>4. GlobalsMean(program, analyzed', current', globals')
  <2>1. GlobalsMean(program, analyzed, current, globals)
    BY DEF ScopeInv
  <2>2. PICK new : new = analyzed'
    OBVIOUS
  <2>3. GlobalsMean(program, new, current + 1,
                    Bind(globals, program.units[current].name, signatureType(new[current].sig)))
    BY <1>1, <1>3, <2>1, <2>2, GlobalsBound
  <2> QED BY <1>3, <2>2, <2>3
<1>5. ASSUME NEW u, NEW s, NEW map, ScopeMeans(program, analyzed, u, s, map),
             \A v \in 1 .. u - 1 : analyzed'[v] = analyzed[v]
      PROVE  ScopeMeans(program, analyzed', u, s, map)
  <2>1. PICK new : new = analyzed'
    OBVIOUS
  <2>2. \A x, type : NameMeans(program, analyzed, u, s, x, type) => NameMeans(program, new, u, s, x, type)
    BY <1>5, <2>1, MeaningExtends
  <2> QED BY <1>5, <2>1, <2>2 DEF ScopeMeans
<1>6. ASSUME NEW u \in 1 .. Len(analyzed) PROVE EntryMeans(T, program, analyzed', u)
  <2>1. EntryMeans(T, program, analyzed, u)
    BY DEF ScopeInv
  <2>2. analyzed'[u] = analyzed[u] /\ \A v \in 1 .. u - 1 : analyzed'[v] = analyzed[v]
    BY <1>1, <1>2
  <2> QED BY <1>5, <2>1, <2>2 DEF EntryMeans
<1>7. EntryMeans(T, program, analyzed', current)
  BY <1>3, <1>5 DEF EntryMeans
<1>8. \A u \in 1 .. Len(analyzed') : EntryMeans(T, program, analyzed', u)
  BY <1>3, <1>6, <1>7
<1> QED BY <1>4, <1>8 DEF ScopeInv

\* A function starts with the names of the units before it, its parameters
\* and, if its type is declared, itself.
LEMMA StartedScope ==
  ASSUME NEW T, SemanticInv, ScopeInv(T), UNCHANGED input, StartFunction
  PROVE  ScopeInv(T)'
<1> DEFINE unit == program.units[current]
           s == BuiltSig(unit)
           bound == BindArgs(globals, s.args)
<1>1. /\ UNCHANGED <<program, toplevel>> /\ sig' = s /\ pc' = "visit"
      /\ locals' = IF unit.type = <<>> THEN bound ELSE Bind(bound, unit.name, signatureType(s))
      /\ DOMAIN globals = NamesBefore(program, current)
      /\ current \in 1 .. Len(program.units) /\ IsParsed(program)
  BY DEF StartFunction, AtUnit, Unit, input, SemanticInv, AnalyzedInv
<1>2. Len(s.args) \in Nat
  <2>1. IsUnit(unit)
    BY <1>1 DEF IsParsed, IsProgram
  <2> QED BY <2>1 DEF IsUnit, BuiltSig
<1>3. ASSUME NEW x \in DOMAIN bound PROVE NameMeans(program, analyzed, current, s, x, bound[x])
  <2>1. \/ x \in DOMAIN globals /\ bound[x] = globals[x]
        \/ x \notin DOMAIN globals /\ ParameterMeaning(s.args, x, bound[x])
    <3> HIDE DEF s
    <3> QED BY <1>2, <1>3, ArgsBound
  <2>2. \A y \in DOMAIN globals : UnitMeaning(program, analyzed, current, y, globals[y])
    BY DEF ScopeInv, GlobalsMean
  <2> HIDE DEF bound, s
  <2> QED BY <1>1, <2>1, <2>2, ZenonT(30) DEF NameMeans
<1>4. DOMAIN globals \subseteq DOMAIN bound
  BY DEF BindArgs
<1> HIDE DEF bound, s
<1>5. ASSUME NEW x \in DOMAIN locals' PROVE NameMeans(program, analyzed, current, s, x, locals'[x])
  <2>1. CASE x \in DOMAIN bound /\ locals'[x] = bound[x]
    BY <1>3, <2>1
  <2>2. CASE x \notin DOMAIN bound /\ x = unit.name /\ locals'[x] = signatureType(s) /\ unit.type # <<>>
    <3>1. x \notin NamesBefore(program, current)
      BY <1>1, <1>4, <2>2
    <3> QED BY <2>2, <3>1, Zenon DEF NameMeans
  <2> QED BY <1>1, <1>5, <2>1, <2>2 DEF Bind
<1>6. ScopeMeans(program, analyzed, current, s, locals')
  BY <1>5 DEF ScopeMeans
<1> QED BY <1>1, <1>6 DEF ScopeInv, toplevel

\* A function ends with its arguments, and with its type if that is declared.
LEMMA EndedScope ==
  ASSUME NEW T, TypeSet(T), SemanticInv, TypesIn(T), ScopeInv(T), UNCHANGED input, EndFunction
  PROVE  ScopeInv(T)'
<1> DEFINE unit == program.units[current]
<1>0. /\ pc = "return" /\ stack = <<>> /\ UNCHANGED <<program, sig, locals>> /\ ret \in T
      /\ sig = BuiltSig(unit) /\ current <= Len(program.units)
      /\ ValuesIn(T, locals) /\ ValuesIn(T, expressions)
      /\ ScopeMeans(program, analyzed, current, sig, locals)
  BY DEF EndFunction, input, TypesIn, SemanticInv, FunctionInv, ScopeInv
<1>1. ASSUME NEW s, s.name = sig.name, s.args = sig.args, unit.type # <<>> => s = sig, AcceptFunction(s)
      PROVE  ScopeInv(T)'
  <2> DEFINE entry == [unit |-> current, sig |-> s, variables |-> locals, expressions |-> expressions']
  <2>1. CASE UNCHANGED <<expressions, toplevel>> /\ (AssertFails \/ Fail)
    BY <1>0, <2>1, SameScope DEF AssertFails, Fail, Stop
  <2>2. CASE /\ expressions' = [x \in DOMAIN expressions \cup {Unit.body} |->
                                 IF x \in {Unit.body} THEN ret ELSE expressions[x]]
             /\ analyzed' = Append(analyzed, entry) /\ current' = current + 1
             /\ globals' = Bind(globals, s.name, signatureType(s)) /\ pc' = "analyze"
    <3>1. ValuesIn(T, expressions') /\ unit.body \in DOMAIN expressions'
      BY <1>0, <2>2, RecordTypes DEF Unit
    <3>2. ScopeMeans(program, analyzed, current, s, locals)
      <4>1. ASSUME NEW x, NEW type, NameMeans(program, analyzed, current, sig, x, type)
            PROVE  NameMeans(program, analyzed, current, s, x, type)
        BY <1>1, <4>1 DEF NameMeans
      <4> QED BY <1>0, <4>1 DEF ScopeMeans
    <3>3. entry.sig = s /\ entry.variables = locals /\ entry.expressions = expressions'
      OBVIOUS
    <3>4. s.name = unit.name /\ s.args = BuiltSig(unit).args
      BY <1>0, <1>1 DEF BuiltSig
    <3> HIDE DEF entry
    <3> QED BY <1>0, <2>2, <3>1, <3>2, <3>3, <3>4, PassedScope
  <2> QED BY <1>1, <2>1, <2>2 DEF AcceptFunction, Record
<1>2. \/ unit.type # <<>> /\ AcceptFunction(sig) 
      \/ unit.type = <<>> /\ AcceptFunction([sig EXCEPT !.ret = ret])
      \/ (Fail \/ AssertFails \/ DereferenceNull) /\ UNCHANGED <<expressions, toplevel>>
  BY Zenon DEF EndFunction, Unit
<1>3. [sig EXCEPT !.ret = ret].name = sig.name /\ [sig EXCEPT !.ret = ret].args = sig.args
  BY <1>0 DEF BuiltSig
<1>4. CASE (Fail \/ AssertFails \/ DereferenceNull) /\ UNCHANGED <<expressions, toplevel>>
  BY <1>0, <1>4, SameScope DEF AssertFails, Fail, DereferenceNull, Stop
<1>5. CASE unit.type # <<>> /\ AcceptFunction(sig)
  BY <1>1, <1>5
<1>6. CASE unit.type = <<>> /\ AcceptFunction([sig EXCEPT !.ret = ret])
  BY <1>1, <1>3, <1>6
<1> QED BY <1>2, <1>4, <1>5, <1>6

\* Every step keeps it.
LEMMA ScopeStep ==
  ASSUME NEW T, TypeSet(T), SemanticInv, TypesIn(T), ScopeInv(T), [Next]_vars
  PROVE  ScopeInv(T)'
<1>1. CASE UNCHANGED vars
  BY <1>1, SameScope DEF vars, input, result, context
<1>2. CASE UNCHANGED input /\ (AllUnitsDone \/ BadSignature)
  BY <1>2, SameScope DEF AllUnitsDone, BadSignature, Stop, Fail, input, context
<1>3. CASE UNCHANGED input /\ AnalyzeExtern
  <2> DEFINE entry == [unit |-> current, sig |-> BuiltSig(Unit), variables |-> <<>>, expressions |-> <<>>]
  <2>1. /\ pc = "analyze" /\ pc' = pc /\ current <= Len(program.units) /\ UNCHANGED program
        /\ program.units[current].kind = "extern" /\ analyzed' = Append(analyzed, entry)
        /\ globals' = Bind(globals, program.units[current].name, signatureType(BuiltSig(Unit)))
        /\ current' = current + 1
    BY <1>3 DEF AnalyzeExtern, AtUnit, Unit, result, input
  <2>2. entry.sig = BuiltSig(Unit)
    OBVIOUS
  <2>3. BuiltSig(Unit).name = program.units[current].name
        /\ BuiltSig(Unit).args = BuiltSig(program.units[current]).args
    BY DEF BuiltSig, Unit
  <2> HIDE DEF entry
  <2>4. program.units[current].kind # "def"
    BY <2>1
  <2> QED BY <2>1, <2>2, <2>3, <2>4, PassedScope
<1>4. CASE UNCHANGED input /\ StartFunction
  BY <1>4, StartedScope
<1>5. CASE UNCHANGED input /\ EndFunction
  BY <1>5, EndedScope
<1>6. CASE UNCHANGED input /\ (\/ VisitNull \/ VisitLiteral \/ VisitVar \/ VisitKid
                               \/ ReceiveElement \/ ReceiveArg \/ ReceiveOperand
                               \/ FinishList \/ FinishBinary \/ FinishCall)
  <2>1. pc \in {"visit", "return"}
    BY <1>6 DEF VisitNull, VisitLiteral, VisitVar, VisitKid, ReceiveElement, ReceiveArg,
       ReceiveOperand, FinishList, FinishBinary, FinishCall, AtNode, Returned
  <2>2. UNCHANGED <<sig, locals, toplevel>>
    BY <1>6 DEF VisitNull, VisitLiteral, VisitVar, VisitKid, ReceiveElement, ReceiveArg,
       ReceiveOperand, FinishList, FinishBinary, FinishCall, Record, context
  <2> QED BY <1>6, <2>1, <2>2, SameScope DEF input
<1> QED BY <1>1, <1>2, <1>3, <1>4, <1>5, <1>6 DEF Next

\* There are no names yet.
LEMMA ScopeInit ==
  ASSUME NEW T, Init
  PROVE  ScopeInv(T)
<1>1. pc = "analyze" /\ analyzed = <<>> /\ globals = [x \in {} |-> Null]
  BY Zenon DEF Init
<1>2. GlobalsMean(program, analyzed, current, globals)
  BY <1>1 DEF GlobalsMean
<1> QED BY <1>1, <1>2 DEF ScopeInv

-----------------------------------------------------------------------------
(* What equality of types and the analysis of harmless programs promise,   *)
(* for every set of types that is closed under what the language makes of  *)
(* them.                                                                   *)

\* No type in the set has a null pointer in it.
NullFree(T) == Null \notin T /\ \A t \in T : ~HasNull(t)

\* In a harmless program a function in scope has no more parameters than
\* something of its name takes.
InArities(map) == \A x \in DOMAIN map : map[x].name = "fun" => Len(map[x].args) - 1 \in Arities(x)

\* The arities of a name in a program.
AritiesIn(p, name) ==
  {Len(Builtins[k].args) : k \in EntriesOf(name)}
    \cup {Len(u.args) : u \in {u \in {p.units[v] : v \in 1 .. Len(p.units)} : u.name = name}}
    \cup {Len(Build(a.type).args) - 1 :
            a \in {a \in UNION {{p.units[v].args[k] : k \in 1 .. Len(p.units[v].args)} :
                                  v \in 1 .. Len(p.units)} : a.name = name}}

\* What a harmless program keeps besides its types.
Safe ==
  /\ pc \notin {"crashed", "aborted"}
  /\ InArities(globals) /\ InArities(locals)

-----------------------------------------------------------------------------
\* Without null pointers, comparisons and lookups dereference none.
LEMMA CompareSafe ==
  ASSUME NEW T, NullFree(T), NEW a \in T, NEW b \in T
  PROVE  Compare(a, b) \in {"same", "differ"}
BY DEF NullFree, Compare, HasNull

\* std::equal dereferences no null pointer when there are no more arguments
\* than parameters.
LEMMA MatchingSafe ==
  ASSUME NEW T, NullFree(T), NEW given \in Seq(T), NEW wanted \in Seq(T), Len(given) <= Len(wanted)
  PROVE  "crash" \notin Matching(given, wanted)
<1> DEFINE Same(i) == Compare(given[i], wanted[i]) = "same"
           Odd == {i \in 1 .. Len(given) : i <= Len(wanted) /\ ~Same(i)}
<1>1. \A i \in Odd : given[i] \in T /\ wanted[i] \in T
  OBVIOUS
<1>2. \A i \in Odd : Compare(given[i], wanted[i]) # "crash"
  BY <1>1, CompareSafe
<1>3. Matching(given, wanted) =
        IF Odd # {} THEN {Compare(given[i], wanted[i]) : i \in {i \in Odd : \A j \in Odd : i <= j}}
        ELSE {"same"}
  BY DEF Matching
<1> HIDE DEF Odd
<1>4. CASE Odd # {}
  BY <1>2, <1>3, <1>4
<1>5. CASE Odd = {}
  BY <1>3, <1>5
<1> QED BY <1>4, <1>5

\* A lookup in the table dereferences none when every entry has enough
\* operands.
LEMMA BuiltinSafe ==
  ASSUME NEW T, TypeSet(T), NullFree(T), NEW name, NEW args \in Seq(T),
         \A k \in EntriesOf(name) : Len(args) <= Len(Builtins[k].args),
         NEW outcome \in getBuiltin(name, args)
  PROVE  outcome.kind # "crash"
<1>1. \A k \in EntriesOf(name) : "crash" \notin Matching(args, Builtins[k].args)
  BY EntryArgsIn, MatchingSafe
<1>2. \A i \in 1 .. Len(args) : ~HasNull(args[i])
  BY DEF NullFree
<1>3. \/ \E k \in EntriesOf(name) : outcome = Found(Builtins[k].ret, k)
      \/ outcome = Missing
  BY <1>1, <1>2, Zenon DEF getBuiltin
<1> QED BY <1>3 DEF Found, Missing, Outcome

\* Neither does one that goes on to a function in scope with enough
\* parameters.
LEMMA CallSafe ==
  ASSUME NEW T, TypeSet(T), NullFree(T), ValuesIn(T, locals), NEW name, NEW args \in Seq(T),
         \A k \in EntriesOf(name) : Len(args) <= Len(Builtins[k].args),
         name \in DOMAIN locals /\ locals[name].name = "fun" => Len(args) <= Len(locals[name].args) - 1,
         NEW outcome \in CallOutcomes(name, args)
  PROVE  outcome.kind # "crash"
<1>1. CASE outcome \in getBuiltin(name, args)
  BY <1>1, BuiltinSafe
<1>2. CASE name \in DOMAIN locals /\ outcome \in Callable(locals[name], args)
  <2> DEFINE type == locals[name]
  <2>1. type \in T
    BY <1>2 DEF ValuesIn
  <2>2. CASE type.name # "fun"
    BY <1>2, <2>2 DEF Callable, Missing, Outcome
  <2>3. CASE type.name = "fun"
    <3>1. type.args \in Seq(T) /\ Len(type.args) >= 1
      BY <2>1, <2>3 DEF TypeSet
    <3>2. Tail(type.args) \in Seq(T) /\ Len(Tail(type.args)) = Len(type.args) - 1
      BY <3>1
    <3>3. "crash" \notin Matching(args, Tail(type.args))
      BY <1>2, <2>3, <3>2, MatchingSafe
    <3>4. PICK how \in Matching(args, Tail(type.args)) :
            outcome = CASE how = "same"   -> Found(Head(type.args), 0)
                        [] how = "differ" -> Missing
                        [] how = "crash"  -> Crash
      BY <1>2, <2>3, Zenon DEF Callable
    <3>5. how # "crash"
      BY <3>3, <3>4
    <3>6. how \in {"same", "differ"}
      <4>1. \A a, b : Compare(a, b) \in {"same", "differ", "crash"}
        BY DEF Compare
      <4>2. how \in {"same", "differ", "crash"}
        BY <3>4, <4>1 DEF Matching
      <4> QED BY <4>2, <3>5
    <3>7. outcome = Found(Head(type.args), 0) \/ outcome = Missing
      BY <3>4, <3>6
    <3> QED BY <3>7 DEF Found, Missing, Outcome
  <2> QED BY <2>2, <2>3
<1> QED BY <1>1, <1>2 DEF CallOutcomes

-----------------------------------------------------------------------------
\* There is no null pointer in the tree of an expression of a harmless program:
\* the first one with such a tree would have a null operand.
LEMMA HarmlessFirst ==
  ASSUME IsParsed(program), Harmless, NEW n \in 1 .. Len(program.nodes)
  PROVE  First(program, n) # 0
<1> DEFINE X == {m \in 1 .. Len(program.nodes) : First(program, m) = 0}
<1>1. SUFFICES ASSUME X # {} PROVE FALSE
  OBVIOUS
<1>2. X \subseteq Nat
  OBVIOUS
<1>3. PICK x \in X : \A y \in X : x <= y
  BY <1>1, <1>2, Least
<1>4. x \in 1 .. Len(program.nodes) /\ First(program, x) = 0
  BY <1>3
<1>5. \A k \in 1 .. Len(program.nodes[x].kids) :
        Kid(program, x, k) \in 1 .. Len(program.nodes) /\ Kid(program, x, k) < x
  <2>1. \A k \in 1 .. Len(program.nodes[x].kids) : Kid(program, x, k) \in 0 .. x - 1
    BY <1>4, NodeFacts
  <2>2. \A k \in 1 .. Len(program.nodes[x].kids) : Kid(program, x, k) # 0
    BY <1>4 DEF Harmless, Node, Kid
  <2> QED BY <1>4, <2>1, <2>2
<1>6. \A k \in 1 .. Len(program.nodes[x].kids) : First(program, Kid(program, x, k)) # 0
  <2> TAKE k \in 1 .. Len(program.nodes[x].kids)
  <2> DEFINE kid == Kid(program, x, k)
  <2>1. kid \in 1 .. Len(program.nodes) /\ kid < x
    BY <1>5
  <2>2. kid \notin X
    BY <1>3, <1>4, <2>1
  <2> QED BY <2>1, <2>2
<1> QED BY <1>4, <1>6, NodeFacts

\* Nor is the body of one of its functions null.
LEMMA HarmlessBody ==
  ASSUME IsParsed(program), Harmless, NEW u \in 1 .. Len(program.units), program.units[u].kind = "def"
  PROVE  Body(program, u) # 0 /\ First(program, Body(program, u)) # 0
<1>1. Body(program, u) # 0
  BY DEF Harmless, Body
<1>2. Body(program, u) \in 0 .. Len(program.nodes)
  BY UnitFacts
<1> QED BY <1>1, <1>2, HarmlessFirst

\* A step that leaves the names alone.
LEMMA SafeSame ==
  ASSUME Safe, UNCHANGED <<program, globals, locals>>, pc' \notin {"crashed", "aborted"}
  PROVE  Safe'
<1>1. \A x : Arities(x) = AritiesIn(program, x) /\ Arities(x)' = AritiesIn(program', x)
  BY Zenon DEF Arities, AritiesIn
<1>2. \A x : Arities(x)' = Arities(x)
  BY <1>1
<1>3. InArities(globals)' /\ InArities(locals)'
  BY <1>2 DEF Safe, InArities
<1> QED BY <1>3 DEF Safe

\* calculateType never reaches a null pointer.
LEMMA VisitSafe ==
  ASSUME SemanticInv, Harmless, Safe, UNCHANGED input,
         VisitNull \/ VisitLiteral \/ VisitVar \/ VisitKid
  PROVE  Safe'
<1>1. UNCHANGED <<program, globals, locals>> /\ pc = "visit"
  BY DEF input, VisitNull, VisitLiteral, VisitVar, VisitKid, context, toplevel, AtNode
<1>2. ~VisitNull
  <2>1. SUFFICES Top.node # 0
    BY DEF VisitNull
  <2>2. /\ IsParsed(program) /\ Visiting(program, Body(program, current), stack) /\ FunctionInv
    BY <1>1 DEF SemanticInv, VisitingIn
  <2>3. current \in 1 .. Len(program.units) /\ program.units[current].kind = "def"
    BY <2>2 DEF SemanticInv, FunctionInv
  <2>4. First(program, Body(program, current)) # 0
    BY <2>2, <2>3, HarmlessBody
  <2>5. First(program, Top.node) # 0
    BY <2>2, <2>4 DEF Visiting, Path, Top
  <2>6. First(program, 0) = 0
    BY <2>2 DEF IsParsed, InPostOrder, First
  <2> QED BY <2>5, <2>6
<1>3. pc' \notin {"crashed", "aborted"}
  BY <1>1, <1>2 DEF VisitLiteral, VisitVar, VisitKid, Fail, Stop, Return
<1> QED BY <1>1, <1>3, SafeSame

\* The type a caller receives is recorded for the first time.
LEMMA ReceiveSafe ==
  ASSUME NEW T, NullFree(T), SemanticInv, TypesIn(T), Harmless, Safe, UNCHANGED input,
         ReceiveElement \/ ReceiveArg \/ ReceiveOperand
  PROVE  Safe'
<1>1. /\ pc = "return" /\ stack # <<>> /\ UNCHANGED <<program, locals, sig>> /\ ret \in T
  BY DEF input, ReceiveElement, ReceiveArg, ReceiveOperand, Returned, context, TypesIn
<1>2. Top.args \in Seq(T)
  BY <1>1, ReturnFacts, TailElements DEF TypesIn, ArgsIn, Top
<1>3. Awaited(program, Top) \notin DOMAIN expressions
  <2>1. IsParsed(program) /\ ReturningCounts(program, Body(program, current), stack, DOMAIN expressions) /\ FunctionInv
    BY <1>1, ReturnFacts
  <2>2. current \in 1 .. Len(program.units) /\ program.units[current].kind = "def"
    BY <2>1 DEF SemanticInv, FunctionInv
  <2>3. First(program, Body(program, current)) # 0
    BY <2>1, <2>2, HarmlessBody
  <2>4. Yielded(program, Body(program, current), stack) = Awaited(program, Top)
    BY <1>1 DEF Yielded, Top
  <2> QED BY <2>1, <2>3, <2>4 DEF ReturningCounts, Partition
<1>4. ThisKid = Awaited(program, Top)
  BY DEF ThisKid, Awaited, Kid, Node
<1>5. ASSUME NEW type, Record([n \in {ThisKid} |-> type], Receive(ret) /\ UNCHANGED toplevel)
      PROVE  Safe'
  <2>1. DOMAIN [n \in {ThisKid} |-> type] \cap DOMAIN expressions = {}
    BY <1>3, <1>4
  <2>2. Receive(ret) /\ UNCHANGED toplevel
    BY <1>5, <2>1, Zenon DEF Record
  <2> QED BY <1>1, <2>2, SafeSame DEF Receive, toplevel
<1>6. CASE ReceiveOperand
  BY <1>1, <1>6, SafeSame DEF ReceiveOperand, Receive, context, toplevel
<1>7. CASE ReceiveArg
  BY <1>5, <1>7 DEF ReceiveArg
<1>8. CASE ReceiveElement
  <2> DEFINE first == Head(Append(Top.args, ret))
             how == IF ret = Null /\ build = "debug" THEN "assert" ELSE Compare(first, ret)
  <2>1. first \in T
    BY <1>1, <1>2
  <2>2. how \in {"same", "differ"}
    <3>1. ret # Null
      BY <1>1 DEF NullFree
    <3> QED BY <1>1, <2>1, <3>1, CompareSafe
  <2>3. \/ Record([n \in {ThisKid} |-> first], Receive(ret) /\ UNCHANGED toplevel)
        \/ how = "differ" /\ Fail /\ UNCHANGED <<expressions, toplevel>>
        \/ how = "crash" \/ how = "assert"
    BY <1>8, Zenon DEF ReceiveElement
  <2> HIDE DEF how
  <2>4. \/ Record([n \in {ThisKid} |-> first], Receive(ret) /\ UNCHANGED toplevel)
        \/ Fail /\ UNCHANGED toplevel
    BY <2>2, <2>3
  <2>5. CASE Fail /\ UNCHANGED toplevel
    BY <1>1, <2>5, SafeSame DEF Fail, Stop, toplevel
  <2> QED BY <1>5, <2>4, <2>5
<1> QED BY <1>6, <1>7, <1>8

\* An expression is complete: its operands are recorded for the first time,
\* and it has no more of them than what it calls takes.
LEMMA FinishSafe ==
  ASSUME NEW T, TypeSet(T), NullFree(T), SemanticInv, TypesIn(T), Harmless, Safe, UNCHANGED input,
         FinishList \/ FinishBinary \/ FinishCall
  PROVE  Safe'
<1>0. /\ pc = "visit" /\ Top.node # 0 /\ UNCHANGED <<program, locals, sig>>
      /\ Len(Top.args) = Len(Node(Top.node).kids)
  BY DEF input, FinishList, FinishBinary, FinishCall, AtNode, KidsDone, context
<1>a. IsSeq(stack) /\ stack # <<>> /\ Top.node \in 1 .. Len(program.nodes) /\ IsParsed(program)
  BY <1>0, VisitFacts
<1>b. Top.args \in Seq(T)
  BY <1>a, TailElements DEF TypesIn, ArgsIn, Top
<1>1. CASE FinishList
  BY <1>0, <1>1, SafeSame DEF FinishList, Return, context, toplevel
<1>2. CASE FinishCall
  <2> DEFINE name == Node(Top.node).name
  <2>1. Node(Top.node).kind = "call"
    BY <1>2 DEF FinishCall, AtNode
  <2>2. PICK outcome \in CallOutcomes(name, Top.args) : Finish(outcome) /\ UNCHANGED context
    BY <1>2 DEF FinishCall
  <2>3. \A m \in Arities(name) : Len(Top.args) <= m
    BY <1>0, <1>a, <2>1 DEF Harmless
  <2>4. \A k \in EntriesOf(name) : Len(Top.args) <= Len(Builtins[k].args)
    BY <2>3 DEF Arities
  <2>5. name \in DOMAIN locals /\ locals[name].name = "fun" => Len(Top.args) <= Len(locals[name].args) - 1
    BY <2>3 DEF Safe, InArities
  <2>6. outcome.kind # "crash"
    BY <1>b, <2>2, <2>4, <2>5, CallSafe DEF TypesIn
  <2> QED BY <1>0, <2>2, <2>6, SafeSame DEF Finish, Fail, Stop, Return, context, toplevel
<1>3. CASE FinishBinary
  <2> DEFINE kids == Node(Top.node).kids
             name == Node(Top.node).name
             entries == [n \in {kids[1], kids[2]} |-> IF n = kids[1] THEN Top.args[1] ELSE Top.args[2]]
  <2>1. /\ Node(Top.node).kind = "binary"
        /\ Record(entries,
                  (\E outcome \in getBuiltin(name, Top.args) : Finish(outcome)) /\ UNCHANGED toplevel)
    BY <1>3 DEF FinishBinary, AtNode
  <2>2. DOMAIN entries \cap DOMAIN expressions = {}
    <3>1. PendingIn(program, Top) = DOMAIN entries
      BY <1>0, <2>1, VisitFacts, PendingPair DEF Node
    <3>2. /\ Visiting(program, Body(program, current), stack)
          /\ VisitingCounts(program, Body(program, current), stack, DOMAIN expressions)
      BY <1>0, VisitFacts
    <3>3. First(program, Body(program, current)) # 0
      <4>1. current \in 1 .. Len(program.units) /\ program.units[current].kind = "def"
        BY <1>0 DEF SemanticInv, FunctionInv
      <4> QED BY <1>a, <4>1, HarmlessBody
    <3>4. DOMAIN expressions \cap Pending(program, stack) = {}
      BY <3>2, <3>3 DEF VisitingCounts, Partition
    <3>5. PendingIn(program, Top) \subseteq Pending(program, stack)
      <4>1. Top = stack[1] /\ 1 \in 1 .. Len(stack)
        BY <1>a, TailSeq, SeqDomain DEF Top
      <4> QED BY <4>1, PendingIsThere DEF Pending
    <3> QED BY <3>1, <3>4, <3>5
  <2> HIDE DEF entries
  <2>3. PICK outcome \in getBuiltin(name, Top.args) : Finish(outcome) /\ UNCHANGED toplevel
    BY <2>1, <2>2, Zenon DEF Record
  <2>4. \A k \in EntriesOf(name) : Len(Top.args) <= Len(Builtins[k].args)
    <3>1. Len(Top.args) = 2 /\ name \in {"<", ">", "+", "-", "*"}
      BY <1>0, <2>1, TwoOperands DEF Node
    <3>2. \A k \in EntriesOf(name) : k \in 1 .. Len(Builtins) /\ Builtins[k].op # "if"
      BY <3>1 DEF EntriesOf
    <3>3. \A k \in EntriesOf(name) : Len(Builtins[k].args) = 2
      BY <3>2, BuiltinTypes, Zenon
    <3>4. Len(Top.args) = 2
      BY <3>1
    <3> HIDE DEF name
    <3> QED BY SMTT(60), <3>3, <3>4
  <2>5. outcome.kind # "crash"
    BY <1>b, <2>3, <2>4, BuiltinSafe
  <2> QED BY <1>0, <2>3, <2>5, SafeSame DEF Finish, Fail, Stop, Return, toplevel
<1> QED BY <1>1, <1>2, <1>3

-----------------------------------------------------------------------------
\* A name that comes into scope takes as many arguments as something of its
\* name in the program does.
LEMMA BindCallees ==
  ASSUME NEW map, InArities(map), NEW name, NEW type,
         type.name = "fun" => Len(type.args) - 1 \in Arities(name)
  PROVE  InArities(Bind(map, name, type))
BY DEF InArities, Bind

\* The function of a unit takes as many arguments as its name may.
LEMMA SignatureCallee ==
  ASSUME IsParsed(program), NEW u \in 1 .. Len(program.units),
         NEW s, IsSeq(s.args), Len(s.args) = Len(program.units[u].args)
  PROVE  Len(signatureType(s).args) - 1 \in Arities(program.units[u].name)
<1> DEFINE unit == program.units[u]
           types == [i \in 1 .. Len(s.args) |-> s.args[i].type]
<1>1. Len(s.args) \in Nat /\ IsSeq(types) /\ Len(types) = Len(s.args)
  <2> DEFINE n == Len(s.args)
             X == {s.args[i].type : i \in 1 .. n}
  <2>1. n \in Nat
    BY SeqDomain
  <2>2. types = [i \in 1 .. n |-> s.args[i].type] /\ \A i \in 1 .. n : s.args[i].type \in X
    OBVIOUS
  <2> HIDE DEF types, n, X
  <2>3. types \in Seq(X) /\ Len(types) = n
    BY <2>1, <2>2
  <2> QED BY <2>1, <2>3, SeqIntro DEF n
<1> HIDE DEF types
<1>2. Len(Push(s.ret, types)) - 1 = Len(s.args)
  BY SMTT(60), <1>1, PushSeq
<1>3. signatureType(s).args = Push(s.ret, types)
  BY DEF signatureType, Function, Type, Push, types
<1>4. Len(unit.args) \in Arities(unit.name)
  BY DEF Arities
<1> QED BY <1>2, <1>3, <1>4

\* A parameter of function type takes as many arguments as its name may.
LEMMA ParameterCallee ==
  ASSUME NEW u \in 1 .. Len(program.units), NEW i \in 1 .. Len(program.units[u].args)
  PROVE  Len(Build(program.units[u].args[i].type).args) - 1 \in Arities(program.units[u].args[i].name)
<1> DEFINE a == program.units[u].args[i]
           all == UNION {{program.units[v].args[k] : k \in 1 .. Len(program.units[v].args)} :
                           v \in 1 .. Len(program.units)}
<1>1. a \in all
  OBVIOUS
<1> HIDE DEF a, all
<1>2. Len(Build(a.type).args) - 1 \in {Len(Build(b.type).args) - 1 : b \in {b \in all : b.name = a.name}}
  BY <1>1
<1>3. {Len(Build(b.type).args) - 1 : b \in {b \in all : b.name = a.name}} \subseteq Arities(a.name)
  BY DEF Arities, all
<1> QED BY <1>2, <1>3 DEF a

\* The parameters of a unit come into scope, each with arguments as its name
\* may.
LEMMA BindArgsCallees ==
  ASSUME NEW map, InArities(map), NEW args,
         \A i \in 1 .. Len(args) : Len(args[i].type.args) - 1 \in Arities(args[i].name)
  PROVE  InArities(BindArgs(map, args))
<1> DEFINE Named(x) == {i \in 1 .. Len(args) : args[i].name = x}
           first(x) == CHOOSE i \in Named(x) : \A j \in Named(x) : i <= j
<1>1. \A x \in {args[i].name : i \in 1 .. Len(args)} :
        first(x) \in 1 .. Len(args) /\ args[first(x)].name = x
  <2> TAKE x \in {args[i].name : i \in 1 .. Len(args)}
  <2>1. Named(x) # {} /\ Named(x) \subseteq Nat /\ Named(x) \subseteq 1 .. Len(args)
    OBVIOUS
  <2>2. \A i \in Named(x) : i \in 1 .. Len(args) /\ args[i].name = x
    OBVIOUS
  <2> HIDE DEF Named
  <2>3. \E i \in Named(x) : \A j \in Named(x) : i <= j
    BY <2>1, Least
  <2>4. first(x) \in Named(x)
    BY <2>3
  <2> QED BY <2>2, <2>4
<1>2. BindArgs(map, args) =
        [x \in DOMAIN map \cup {args[i].name : i \in 1 .. Len(args)} |->
           IF x \in DOMAIN map THEN map[x] ELSE args[first(x)].type]
  BY DEF BindArgs
<1> HIDE DEF first
<1> QED BY <1>1, <1>2 DEF InArities

\* The parameters of a unit and its function type.
LEMMA UnitSignature ==
  ASSUME IsParsed(program), NEW u \in 1 .. Len(program.units)
  PROVE  LET unit == program.units[u]
             s == BuiltSig(unit)
         IN  /\ IsSeq(s.args) /\ Len(s.args) = Len(unit.args) /\ s.name = unit.name
             /\ \A i \in 1 .. Len(s.args) : Len(s.args[i].type.args) - 1 \in Arities(s.args[i].name)
             /\ unit.type # <<>> => s.ret = Build(unit.type[1])
             /\ \A r : [s EXCEPT !.ret = r].args = s.args /\ [s EXCEPT !.ret = r].name = s.name
<1> DEFINE unit == program.units[u]
           s == BuiltSig(unit)
<1>1. Len(unit.args) \in Nat
  <2>1. IsUnit(unit)
    BY DEF IsParsed, IsProgram
  <2> QED BY <2>1 DEF IsUnit
<1>2. /\ s.name = unit.name
      /\ unit.type # <<>> => s.ret = Build(unit.type[1])
      /\ s.args = [i \in 1 .. Len(unit.args) |->
                     [type |-> Build(unit.args[i].type), name |-> unit.args[i].name]]
      /\ \A r : [s EXCEPT !.ret = r].args = s.args /\ [s EXCEPT !.ret = r].name = s.name
  BY DEF BuiltSig
<1> HIDE DEF s
<1>3. /\ IsSeq(s.args) /\ Len(s.args) = Len(unit.args)
      /\ \A i \in 1 .. Len(unit.args) : /\ s.args[i].type = Build(unit.args[i].type)
                                        /\ s.args[i].name = unit.args[i].name
  <2> DEFINE Param(i) == [type |-> Build(unit.args[i].type), name |-> unit.args[i].name]
             n == Len(unit.args)
  <2>1. s.args = [i \in 1 .. n |-> Param(i)] /\ n \in Nat
    BY <1>1, <1>2
  <2>2. \A i : Param(i).type = Build(unit.args[i].type) /\ Param(i).name = unit.args[i].name
    OBVIOUS
  <2> HIDE DEF Param, n
  <2>3. IsSeq(s.args) /\ Len(s.args) = n /\ \A i \in 1 .. n : s.args[i] = Param(i)
    BY <2>1 DEF IsSeq
  <2> QED BY <2>2, <2>3 DEF n
<1>4. \A i \in 1 .. Len(s.args) : Len(s.args[i].type.args) - 1 \in Arities(s.args[i].name)
  BY <1>3, ParameterCallee
<1> QED BY <1>2, <1>3, <1>4 DEF s

\* The steps of analyze between functions are safe.
LEMMA UnitSafe ==
  ASSUME SemanticInv, Safe, UNCHANGED input, AllUnitsDone \/ BadSignature \/ AnalyzeExtern \/ StartFunction
  PROVE  Safe'
<1>0. UNCHANGED program /\ IsParsed(program)
      /\ (current <= Len(program.units) => current \in 1 .. Len(program.units))
  BY DEF input, SemanticInv
<1>a. \A x : Arities(x)' = Arities(x)
  <2>1. \A x : Arities(x) = AritiesIn(program, x) /\ Arities(x)' = AritiesIn(program', x)
    BY Zenon DEF Arities, AritiesIn
  <2> QED BY <1>0, <2>1
<1>b. \A map : InArities(map) => (\A x \in DOMAIN map : map[x].name = "fun" => Len(map[x].args) - 1 \in Arities(x))
  BY DEF InArities
<1>1. CASE AllUnitsDone \/ BadSignature
  BY <1>0, <1>1, SafeSame DEF AllUnitsDone, BadSignature, Fail, Stop, context, toplevel
<1>2. CASE AnalyzeExtern
  <2> DEFINE unit == program.units[current]
             map == Bind(globals, unit.name, signatureType(BuiltSig(unit)))
  <2>1. /\ current \in 1 .. Len(program.units)
        /\ globals' = map /\ UNCHANGED <<pc, locals>>
    BY <1>0, <1>2 DEF AnalyzeExtern, AtUnit, Unit, result
  <2>2. InArities(map)
    BY <1>0, <2>1, UnitSignature, SignatureCallee, BindCallees DEF Safe
  <2> HIDE DEF map
  <2>3. InArities(globals)' /\ InArities(locals)'
    BY <1>a, <2>1, <2>2 DEF Safe, InArities
  <2> QED BY <2>1, <2>3 DEF Safe
<1>3. CASE StartFunction
  <2> DEFINE unit == program.units[current]
             bound == BindArgs(globals, BuiltSig(unit).args)
             map == IF unit.type = <<>> THEN bound
                    ELSE Bind(bound, unit.name, signatureType(BuiltSig(unit)))
  <2>1. /\ current \in 1 .. Len(program.units) /\ pc' = "visit"
        /\ locals' = map /\ UNCHANGED globals
    BY <1>0, <1>3 DEF StartFunction, AtUnit, Unit, toplevel
  <2>2. InArities(bound)
    BY <1>0, <2>1, UnitSignature, BindArgsCallees DEF Safe
  <2> HIDE DEF bound
  <2>3. InArities(map)
    <3>1. InArities(Bind(bound, unit.name, signatureType(BuiltSig(unit))))
      BY <1>0, <2>1, <2>2, UnitSignature, SignatureCallee, BindCallees
    <3> QED BY <2>2, <3>1
  <2> HIDE DEF map
  <2>4. InArities(globals)' /\ InArities(locals)'
    BY <1>a, <2>1, <2>3 DEF Safe, InArities
  <2> QED BY <2>1, <2>4 DEF Safe
<1> QED BY <1>1, <1>2, <1>3

\* A function ends with a type, which has not been recorded, and no other
\* types than those it declares are compared with it.
LEMMA EndSafe ==
  ASSUME NEW T, TypeSet(T), NullFree(T), SemanticInv, TypesIn(T), Harmless, Safe,
         UNCHANGED input, EndFunction
  PROVE  Safe'
<1> DEFINE unit == program.units[current]
<1>0. /\ pc = "return" /\ stack = <<>> /\ UNCHANGED <<program, sig, locals>>
      /\ ret \in T /\ BuildsOf(T, program) /\ CanBuild(unit)
  BY DEF EndFunction, input, TypesIn
<1>1. /\ sig = BuiltSig(unit) /\ IsParsed(program) /\ current \in 1 .. Len(program.units)
      /\ unit.kind = "def"
  BY <1>0 DEF SemanticInv, FunctionInv
<1>2. unit.body \notin DOMAIN expressions
  <2>1. ReturningCounts(program, Body(program, current), stack, DOMAIN expressions)
    BY <1>0, ReturnFacts
  <2>2. First(program, Body(program, current)) # 0
    BY <1>1, HarmlessBody
  <2>3. Yielded(program, Body(program, current), stack) = unit.body
    BY <1>0 DEF Yielded, Body
  <2> QED BY <2>1, <2>2, <2>3 DEF ReturningCounts, Partition
<1>a. \A x : Arities(x)' = Arities(x)
  <2>1. \A x : Arities(x) = AritiesIn(program, x) /\ Arities(x)' = AritiesIn(program', x)
    BY Zenon DEF Arities, AritiesIn
  <2> QED BY <1>0, <2>1
<1>3. ASSUME NEW s, s.name = unit.name, s.args = BuiltSig(unit).args, AcceptFunction(s)
      PROVE  Safe'
  <2> DEFINE map == Bind(globals, s.name, signatureType(s))
  <2>1. globals' = map /\ pc' = "analyze"
    <3>1. DOMAIN [n \in {Unit.body} |-> ret] \cap DOMAIN expressions = {}
      BY <1>2 DEF Unit
    <3> QED BY <1>3, <3>1, Zenon DEF AcceptFunction, Record
  <2>2. InArities(map)
    <3>1. IsSeq(s.args) /\ Len(s.args) = Len(unit.args)
      BY <1>1, <1>3, UnitSignature
    <3>2. Len(signatureType(s).args) - 1 \in Arities(s.name)
      BY <1>1, <1>3, <3>1, SignatureCallee
    <3> QED BY <3>2, BindCallees DEF Safe
  <2> HIDE DEF map
  <2>3. InArities(globals)' /\ InArities(locals)'
    BY <1>0, <1>a, <2>1, <2>2 DEF Safe, InArities
  <2> QED BY <2>1, <2>3 DEF Safe
<1>4. ret # Null
  BY <1>0 DEF NullFree
<1>5. \/ AcceptFunction(sig) \/ AcceptFunction([sig EXCEPT !.ret = ret])
      \/ Fail /\ UNCHANGED toplevel
      \/ unit.type # <<>> /\ Compare(sig.ret, ret) = "crash"
  BY <1>4, Zenon DEF EndFunction, Unit
<1>6. unit.type # <<>> => Compare(sig.ret, ret) # "crash"
  BY <1>0, <1>1, UnitTypes, CompareSafe
<1>7. CASE Fail /\ UNCHANGED toplevel
  BY <1>0, <1>7, SafeSame DEF Fail, Stop, toplevel
<1>8. /\ sig.name = unit.name /\ sig.args = BuiltSig(unit).args
      /\ [sig EXCEPT !.ret = ret].name = unit.name /\ [sig EXCEPT !.ret = ret].args = BuiltSig(unit).args
  BY <1>1, UnitSignature
<1> QED BY <1>3, <1>5, <1>6, <1>7, <1>8

-----------------------------------------------------------------------------
\* A program that is harmless.
HarmlessIn(p) ==
  /\ \A u \in 1 .. Len(p.units) : p.units[u].kind = "def" => p.units[u].body # 0
  /\ \A n \in 1 .. Len(p.nodes) :
       /\ \A k \in 1 .. Len(p.nodes[n].kids) : p.nodes[n].kids[k] # 0
       /\ p.nodes[n].kind # "subscript"
       /\ p.nodes[n].kind = "list" => p.nodes[n].kids # <<>>
       /\ p.nodes[n].kind = "call" => \A m \in AritiesIn(p, p.nodes[n].name) : Len(p.nodes[n].kids) <= m

\* Whether a program is harmless does not change.
LEMMA HarmlessStays ==
  ASSUME UNCHANGED program
  PROVE  Harmless' = Harmless
<1>1. Harmless = HarmlessIn(program)
  BY Zenon DEF Harmless, HarmlessIn, Arities, AritiesIn, Node
<1>2. Harmless' = HarmlessIn(program')
  BY Zenon DEF Harmless, HarmlessIn, Arities, AritiesIn, Node
<1> QED BY <1>1, <1>2

\* Every step of a harmless program is safe.
LEMMA SafeStep ==
  ASSUME NEW T, TypeSet(T), NullFree(T), SemanticInv, TypesIn(T), Harmless, Safe, [Next]_vars
  PROVE  Safe'
<1>1. CASE UNCHANGED vars
  <2>1. UNCHANGED <<program, globals, locals, pc>>
    BY <1>1 DEF vars, input, result, context, toplevel
  <2> QED BY <2>1, SafeSame DEF Safe
<1>2. CASE Next
  BY <1>2, UnitSafe, EndSafe, VisitSafe, ReceiveSafe, FinishSafe DEF Next
<1> QED BY <1>1, <1>2

\* The start of the analysis is safe.
LEMMA SafeInit ==
  ASSUME Init
  PROVE  Safe
<1> DEFINE none == [x \in {} |-> Null]
<1>1. pc = "analyze" /\ globals = none /\ locals = none
  BY Zenon DEF Init
<1>2. InArities(none)
  BY DEF InArities
<1> HIDE DEF none
<1> QED BY <1>1, <1>2 DEF Safe

\* For every way of building types without null pointers, the analysis of a
\* harmless program dereferences no null pointer and fails no assertion: every
\* expression it accepts has a type, and no number is recorded twice.
THEOREM NullFreeIsSafe ==
  ASSUME NEW T, TypeSet(T), BuildsIn(T), NullFree(T)
  PROVE  Spec => []HarmlessIsSafe
<1> DEFINE I == Harmless => TypesIn(T) /\ Safe
<1>1. Init => SemanticInv /\ I
  BY SemanticInvInit, TypesInit, SafeInit
<1>2. SemanticInv /\ I /\ [Next]_vars => SemanticInv' /\ I'
  <2> SUFFICES ASSUME SemanticInv, I, [Next]_vars PROVE SemanticInv' /\ I'
    OBVIOUS
  <2>1. SemanticInv'
    BY SemanticInvStep
  <2>2. UNCHANGED program
    BY DEF Next, vars, input
  <2>3. Harmless' = Harmless
    BY <2>2, HarmlessStays
  <2>4. Harmless => TypesIn(T)' /\ Safe'
    BY TypesStep, SafeStep
  <2> QED BY <2>1, <2>3, <2>4
<1>3. SemanticInv /\ I => HarmlessIsSafe
  BY DEF Safe, HarmlessIsSafe
<1> QED BY <1>1, <1>2, <1>3, PTL DEF Spec

-----------------------------------------------------------------------------
(* Mangled names.                                                          *)

\* The types of the language, and null.
TreeSet(T) ==
  /\ TypeSet(T)
  /\ \A t \in T : t.name \in BasicNames \cup {"list", "fun"} /\ (t.name \in BasicNames => t.args = <<>>)

\* Their names are what mangled() makes.
Mangles(T) == \A t \in T : \E joined : NamedWith(t, joined)

\* The same kind by kind.
Named(T) ==
  \A t \in T :
    /\ IsSeq(Mangled(t))
    /\ t.name \in BasicNames => Mangled(t) = <<t.name>>
    /\ t.name = "list" => Mangled(t) = ListFront \o Mangled(t.args[1])
    /\ t.name = "fun" => \E joined : Joins(t, joined)

LEMMA NamesAsMade ==
  ASSUME NEW T, Mangles(T)
  PROVE  Named(T)
<1> SUFFICES ASSUME NEW t \in T
             PROVE  /\ IsSeq(Mangled(t))
                    /\ t.name \in BasicNames => Mangled(t) = <<t.name>>
                    /\ t.name = "list" => Mangled(t) = ListFront \o Mangled(t.args[1])
                    /\ t.name = "fun" => \E joined : Joins(t, joined)
  BY Zenon DEF Named
<1>1. PICK joined : NamedWith(t, joined)
  BY Zenon DEF Mangles
<1>2. /\ Mangled(t) \in Seq(Pieces)
      /\ t.name \in BasicNames => Mangled(t) = <<t.name>>
      /\ t.name = "list" => Mangled(t) = ListFront \o Mangled(t.args[1])
      /\ t.name = "fun" => Joins(t, joined)
  BY <1>1, Zenon DEF NamedWith
<1>3. IsSeq(Mangled(t))
  BY <1>2, SeqIntro
<1> QED BY <1>2, <1>3, Zenon

-----------------------------------------------------------------------------
\* What holds at one end of a range and passes from each number to the next
\* holds in the range.
LEMMA Upwards ==
  ASSUME NEW S, NEW n \in Nat, 0 \in S, \A k \in 1 .. n : k - 1 \in S => k \in S
  PROVE  \A k \in 0 .. n : k \in S
<1> DEFINE X == {k \in 0 .. n : k \notin S}
<1>1. SUFFICES ASSUME X # {} PROVE FALSE
  OBVIOUS
<1>2. X \subseteq Nat
  OBVIOUS
<1>3. PICK x \in X : \A y \in X : x <= y
  BY <1>1, <1>2, Least
<1>4. x \in 1 .. n /\ x \notin S
  BY <1>3
<1>5. x - 1 \notin X
  BY <1>3, <1>4
<1>6. x - 1 \in S
  BY <1>4, <1>5
<1> QED BY <1>4, <1>6

\* So does what passes from each number to the one before.
LEMMA Downwards ==
  ASSUME NEW S, NEW n \in Nat, n \in S, \A k \in 1 .. n : k \in S => k - 1 \in S
  PROVE  \A k \in 0 .. n : k \in S
<1> DEFINE R == {k \in 0 .. n : n - k \in S}
<1>1. 0 \in R
  OBVIOUS
<1>2. \A k \in 1 .. n : k - 1 \in R => k \in R
  <2> TAKE k \in 1 .. n
  <2> HAVE k - 1 \in R
  <2>1. n - (k - 1) \in 1 .. n /\ n - (k - 1) \in S /\ (n - (k - 1)) - 1 = n - k
    OBVIOUS
  <2>2. n - k \in S
    BY <2>1
  <2> QED BY <2>2
<1> HIDE DEF R
<1>3. \A k \in 0 .. n : k \in R
  BY <1>1, <1>2, Upwards
<1>4. \A k \in 0 .. n : n - k \in 0 .. n /\ n - (n - k) = k
  OBVIOUS
<1> QED BY <1>3, <1>4 DEF R

\* A sequence of pieces stands in a text behind a place.
Occurs(s, u, at) == \A i \in 1 .. Len(s) : u[at + i] = s[i]

\* One sequence behind another is one.
LEMMA ConcatSeq ==
  ASSUME NEW x, IsSeq(x), NEW y, IsSeq(y)
  PROVE  IsSeq(x \o y)
<1> DEFINE X == {x[i] : i \in DOMAIN x}
           Y == {y[i] : i \in DOMAIN y}
<1>1. x \in Seq(X) /\ y \in Seq(Y)
  BY DEF IsSeq
<1> HIDE DEF X, Y
<1>2. x \in Seq(X \cup Y) /\ y \in Seq(X \cup Y)
  BY <1>1
<1>3. x \o y \in Seq(X \cup Y)
  BY <1>2
<1> QED BY <1>3, SeqIntro

\* The parts of a sequence stand one behind the other.
LEMMA OccursBoth ==
  ASSUME NEW x, IsSeq(x), NEW y, IsSeq(y), NEW u, NEW at \in Nat, Occurs(x \o y, u, at)
  PROVE  /\ Len(x \o y) = Len(x) + Len(y) /\ Len(x) \in Nat /\ Len(y) \in Nat
         /\ Occurs(x, u, at) /\ Occurs(y, u, at + Len(x))
<1> DEFINE s == x \o y
<1>1. /\ Len(s) = Len(x) + Len(y) /\ Len(x) \in Nat /\ Len(y) \in Nat
      /\ \A i \in 1 .. Len(x) : s[i] = x[i]
      /\ \A i \in 1 .. Len(y) : s[Len(x) + i] = y[i]
  BY DEF IsSeq
<1> HIDE DEF s
<1>2. Occurs(s, u, at)
  BY DEF s
<1>3. Occurs(x, u, at)
  BY <1>1, <1>2 DEF Occurs
<1>4. Occurs(y, u, at + Len(x))
  <2> SUFFICES ASSUME NEW i \in 1 .. Len(y) PROVE u[(at + Len(x)) + i] = y[i]
    BY DEF Occurs
  <2>1. Len(x) + i \in 1 .. Len(s) /\ (at + Len(x)) + i = at + (Len(x) + i)
    BY <1>1
  <2>2. u[at + (Len(x) + i)] = s[Len(x) + i]
    BY <1>2, <2>1 DEF Occurs
  <2> QED BY <1>1, <2>1, <2>2
<1> QED BY <1>1, <1>3, <1>4 DEF s

\* The pieces of both fronts.
LEMMA FrontFacts ==
  /\ IsSeq(ListFront) /\ Len(ListFront) = 4
  /\ ListFront[1] = "_" /\ ListFront[2] = "_" /\ ListFront[3] = "list"
  /\ IsSeq(FunFront) /\ Len(FunFront) = 5
  /\ FunFront[1] = "_" /\ FunFront[2] = "_" /\ FunFront[3] = "function"
<1>1. \A a, b, c, d, e : /\ IsSeq(<<a, b, c, d>>) /\ Len(<<a, b, c, d>>) = 4
                         /\ IsSeq(<<a, b, c, d, e>>) /\ Len(<<a, b, c, d, e>>) = 5
  <2> TAKE a, b, c, d, e
  <2>1. <<a, b, c, d>> \in Seq({a, b, c, d, e}) /\ <<a, b, c, d, e>> \in Seq({a, b, c, d, e})
    OBVIOUS
  <2> QED BY <2>1, SeqIntro
<1>2. \A a, b, c, d, e : /\ <<a, b, c, d>>[1] = a /\ <<a, b, c, d>>[2] = b /\ <<a, b, c, d>>[3] = c
                         /\ <<a, b, c, d, e>>[1] = a /\ <<a, b, c, d, e>>[2] = b /\ <<a, b, c, d, e>>[3] = c
  OBVIOUS
<1>3. IsSeq(ListFront) /\ Len(ListFront) = 4 /\ IsSeq(FunFront) /\ Len(FunFront) = 5
  BY <1>1, Zenon DEF ListFront, FunFront
<1>4. /\ ListFront[1] = "_" /\ ListFront[2] = "_" /\ ListFront[3] = "list"
      /\ FunFront[1] = "_" /\ FunFront[2] = "_" /\ FunFront[3] = "function"
  BY <1>2, Zenon DEF ListFront, FunFront
<1> QED BY <1>3, <1>4

\* A piece and two of them.
LEMMA OneAndTwo ==
  ASSUME NEW a, NEW b
  PROVE  /\ IsSeq(<<a>>) /\ Len(<<a>>) = 1 /\ <<a>>[1] = a
         /\ IsSeq(<<a, b>>) /\ Len(<<a, b>>) = 2 /\ <<a, b>>[1] = a /\ <<a, b>>[2] = b
<1>1. <<a>> \in Seq({a, b}) /\ <<a, b>> \in Seq({a, b})
  OBVIOUS
<1>2. IsSeq(<<a>>) /\ IsSeq(<<a, b>>)
  BY <1>1, SeqIntro
<1> QED BY <1>2

\* What stands where when the name of a function stands behind a place.
FunctionStands(T, t, joined, n, u, at) ==
  /\ n \in Nat /\ t.args \in Seq(T) /\ t.args[1] \in T
  /\ \A k \in 0 .. n : Len(joined[k]) \in Nat /\ Len(joined[k]) <= Len(joined[n])
  /\ joined[0] = FunFront /\ Occurs(FunFront, u, at)
  /\ \A k \in 1 .. n : /\ t.args[k + 1] \in T
                       /\ Len(Mangled(t.args[k + 1])) \in Nat
                       /\ Len(joined[k]) = (Len(joined[k - 1]) + Len(Mangled(t.args[k + 1]))) + 1
                       /\ Occurs(Mangled(t.args[k + 1]), u, at + Len(joined[k - 1]))
  /\ u[(at + Len(joined[n])) + 1] = "_" /\ u[(at + Len(joined[n])) + 2] = "_"
  /\ Occurs(Mangled(t.args[1]), u, (at + Len(joined[n])) + 2)
  /\ Len(Mangled(t.args[1])) \in Nat
  /\ Len(Mangled(t)) = (Len(joined[n]) + 2) + Len(Mangled(t.args[1]))

\* The name of a function has those of its arguments in it, one behind the
\* other, and that of its return type behind them.
LEMMA JoinedOccurs ==
  ASSUME NEW T, TreeSet(T), Named(T), NEW t \in T, t.name = "fun", NEW joined, Joins(t, joined),
         NEW u, NEW at \in Nat, Occurs(Mangled(t), u, at), NEW n, n = Len(t.args) - 1
  PROVE  FunctionStands(T, t, joined, n, u, at)
<1>1. n \in Nat /\ t.args \in Seq(T) /\ t.args[1] \in T
  <2>1. t.args \in Seq(T) /\ Len(t.args) >= 1
    BY DEF TreeSet, TypeSet
  <2> QED BY <2>1
<1>2. \A k \in 1 .. n : t.args[k + 1] \in T
  BY <1>1
<1>3. \A x \in T : IsSeq(Mangled(x)) /\ Len(Mangled(x)) \in Nat
  BY SeqDomain DEF Named
<1>4. \A k \in 0 .. n : IsSeq(joined[k]) /\ Len(joined[k]) \in Nat
  <2>1. \A k \in 0 .. n : joined[k] \in Seq(Pieces)
    BY Zenon DEF Joins
  <2> QED BY <2>1, SeqIntro
<1>5. /\ joined[0] = FunFront
      /\ \A k \in 1 .. n : joined[k] = (joined[k - 1] \o Mangled(t.args[k + 1])) \o <<"_">>
      /\ Mangled(t) = (joined[n] \o <<"_", "_">>) \o Mangled(t.args[1])
  BY Zenon DEF Joins
<1>6. /\ Occurs(joined[n], u, at)
      /\ u[(at + Len(joined[n])) + 1] = "_" /\ u[(at + Len(joined[n])) + 2] = "_"
      /\ Occurs(Mangled(t.args[1]), u, (at + Len(joined[n])) + 2)
      /\ Len(Mangled(t)) = (Len(joined[n]) + 2) + Len(Mangled(t.args[1]))
  <2> DEFINE two == <<"_", "_">>
             a == joined[n]
             b == a \o two
             r == Mangled(t.args[1])
  <2>1. IsSeq(two) /\ Len(two) = 2 /\ two[1] = "_" /\ two[2] = "_"
    BY OneAndTwo
  <2>2. IsSeq(a) /\ IsSeq(r)
    BY <1>1, <1>3, <1>4
  <2>3. Mangled(t) = b \o r
    BY <1>5
  <2> HIDE DEF two, a, r
  <2>4. IsSeq(b)
    BY <2>1, <2>2, ConcatSeq
  <2>5. Occurs(b \o r, u, at)
    BY <2>3
  <2> HIDE DEF b
  <2>6. /\ Len(b \o r) = Len(b) + Len(r) /\ Len(b) \in Nat /\ Len(r) \in Nat
        /\ Occurs(b, u, at) /\ Occurs(r, u, at + Len(b))
    BY <2>2, <2>4, <2>5, OccursBoth
  <2>7. Occurs(a \o two, u, at)
    BY <2>6 DEF b
  <2>8. /\ Len(a \o two) = Len(a) + Len(two) /\ Len(a) \in Nat
        /\ Occurs(a, u, at) /\ Occurs(two, u, at + Len(a))
    BY <2>1, <2>2, <2>7, OccursBoth
  <2>9. u[(at + Len(a)) + 1] = two[1] /\ u[(at + Len(a)) + 2] = two[2]
    <3>1. Len(two) = 2
      BY <2>1
    <3>2. 1 \in 1 .. Len(two) /\ 2 \in 1 .. Len(two)
      BY <3>1
    <3> QED BY <2>8, <3>2, Zenon DEF Occurs
  <2>10. Len(b) = Len(a) + 2 /\ at + Len(b) = (at + Len(a)) + 2
    <3>1. Len(b) = Len(a) + Len(two) /\ Len(two) = 2
      BY <2>1, <2>8, Zenon DEF b
    <3>2. Len(a) \in Nat
      BY <2>8
    <3> QED BY <3>1, <3>2
  <2>11. /\ Occurs(r, u, (at + Len(a)) + 2)
         /\ Len(Mangled(t)) = (Len(a) + 2) + Len(r)
    BY <2>3, <2>6, <2>10
  <2> QED BY <2>1, <2>8, <2>9, <2>11 DEF a, r
<1>7. \A k \in 1 .. n : Occurs(joined[k], u, at) =>
        /\ Occurs(joined[k - 1], u, at)
        /\ Occurs(Mangled(t.args[k + 1]), u, at + Len(joined[k - 1]))
        /\ Len(joined[k]) = (Len(joined[k - 1]) + Len(Mangled(t.args[k + 1]))) + 1
  <2> TAKE k \in 1 .. n
  <2> HAVE Occurs(joined[k], u, at)
  <2> DEFINE one == <<"_">>
             a == joined[k - 1]
             r == Mangled(t.args[k + 1])
             b == a \o r
  <2>1. IsSeq(one) /\ Len(one) = 1
    BY OneAndTwo
  <2>2. IsSeq(a) /\ IsSeq(r)
    <3>1. k - 1 \in 0 .. n /\ t.args[k + 1] \in T
      BY <1>1, <1>2
    <3> QED BY <1>3, <1>4, <3>1
  <2>3. joined[k] = b \o one
    BY <1>5
  <2> HIDE DEF one, a, r
  <2>4. IsSeq(b)
    BY <2>2, ConcatSeq
  <2>5. Occurs(b \o one, u, at)
    BY <2>3
  <2> HIDE DEF b
  <2>6. Len(b \o one) = Len(b) + Len(one) /\ Len(b) \in Nat /\ Occurs(b, u, at)
    BY <2>1, <2>4, <2>5, OccursBoth
  <2>7. Occurs(a \o r, u, at)
    BY <2>6 DEF b
  <2>8. /\ Len(a \o r) = Len(a) + Len(r)
        /\ Occurs(a, u, at) /\ Occurs(r, u, at + Len(a))
    BY <2>2, <2>7, OccursBoth
  <2>9. Len(joined[k]) = (Len(a) + Len(r)) + 1
    <3>1. Len(b) = Len(a \o r)
      BY DEF b
    <3> QED BY <2>1, <2>3, <2>6, <2>8, <3>1
  <2> QED BY <2>8, <2>9 DEF a, r
<1>8. \A k \in 0 .. n : Occurs(joined[k], u, at) /\ Len(joined[k]) <= Len(joined[n])
  <2> DEFINE S == {k \in 0 .. n : Occurs(joined[k], u, at) /\ Len(joined[k]) <= Len(joined[n])}
  <2>1. n \in S
    <3>1. n \in 0 .. n /\ Len(joined[n]) <= Len(joined[n])
      <4>1. n \in 0 .. n
        BY <1>1
      <4>2. Len(joined[n]) \in Nat
        BY <1>4, <4>1, Zenon
      <4> QED BY <4>1, <4>2
    <3> QED BY <1>6, <3>1, Zenon
  <2>2. \A k \in 1 .. n : k \in S => k - 1 \in S
    <3> TAKE k \in 1 .. n
    <3> HAVE k \in S
    <3>1. /\ Occurs(joined[k - 1], u, at) /\ Len(joined[k]) <= Len(joined[n])
          /\ Len(joined[k]) = (Len(joined[k - 1]) + Len(Mangled(t.args[k + 1]))) + 1
      BY <1>7
    <3>2. k - 1 \in 0 .. n /\ k \in 0 .. n /\ n \in 0 .. n
      BY <1>1
    <3>3. /\ Len(joined[k - 1]) \in Nat /\ Len(joined[k]) \in Nat /\ Len(joined[n]) \in Nat
          /\ Len(Mangled(t.args[k + 1])) \in Nat
      BY <1>2, <1>3, <1>4, <3>2, Zenon
    <3> DEFINE before == Len(joined[k - 1])
               here == Len(joined[k])
               all == Len(joined[n])
               name == Len(Mangled(t.args[k + 1]))
    <3>4. before \in Nat /\ here \in Nat /\ all \in Nat /\ name \in Nat /\ here <= all /\ here = (before + name) + 1
      BY <3>1, <3>3, Zenon
    <3> HIDE DEF before, here, all, name
    <3>5. before <= all
      BY <3>4
    <3> QED BY <3>1, <3>2, <3>5, Zenon DEF before, all
  <2> HIDE DEF S
  <2>3. \A k \in 0 .. n : k \in S
    BY <1>1, <2>1, <2>2, Downwards
  <2> QED BY <2>3 DEF S
<1>9. Occurs(FunFront, u, at)
  <2>1. 0 \in 0 .. n
    BY <1>1
  <2> QED BY <1>5, <1>8, <2>1, Zenon
<1>10. \A k \in 1 .. n :
         /\ Occurs(Mangled(t.args[k + 1]), u, at + Len(joined[k - 1]))
         /\ Len(joined[k]) = (Len(joined[k - 1]) + Len(Mangled(t.args[k + 1]))) + 1
  <2>1. \A k \in 1 .. n : k \in 0 .. n
    BY <1>1
  <2> QED BY <1>7, <1>8, <2>1, Zenon
<1> QED BY <1>1, <1>2, <1>3, <1>4, <1>5, <1>6, <1>8, <1>9, <1>10, Zenon DEF FunctionStands

\* What the pieces of a name behind a place say of its type.
KindStands(T, t, u, at) ==
  /\ Len(Mangled(t)) \in Nat
  /\ t.name \in BasicNames => u[at + 1] = t.name
  /\ t.name = "list" => /\ u[at + 1] = "_" /\ u[at + 2] = "_" /\ u[at + 3] = "list"
                        /\ t.args[1] \in T /\ Len(t.args) = 1
                        /\ Occurs(Mangled(t.args[1]), u, at + 4)
                        /\ Len(Mangled(t.args[1])) < Len(Mangled(t))
  /\ t.name = "fun" => u[at + 1] = "_" /\ u[at + 2] = "_" /\ u[at + 3] = "function"

\* What a name begins with says of which kind its type is.
LEMMA NameBegins ==
  ASSUME NEW T, TreeSet(T), Named(T), NEW t \in T, NEW u, NEW at \in Nat, Occurs(Mangled(t), u, at)
  PROVE  KindStands(T, t, u, at)
<1>1. /\ IsSeq(Mangled(t)) /\ t.args \in Seq(T)
      /\ t.name = "list" => Len(t.args) = 1
      /\ t.name = "fun" => Len(t.args) >= 1
  BY DEF Named, TreeSet, TypeSet
<1>2. CASE t.name \in BasicNames
  <2>1. Mangled(t) = <<t.name>>
    BY <1>2 DEF Named
  <2>2. u[at + 1] = t.name
    BY <2>1 DEF Occurs
  <2>3. Len(Mangled(t)) \in Nat /\ t.name # "list" /\ t.name # "fun"
    BY <1>1, <1>2, SeqDomain DEF BasicNames
  <2> QED BY <2>2, <2>3, Zenon DEF KindStands
<1>3. CASE t.name = "list"
  <2>1. Mangled(t) = ListFront \o Mangled(t.args[1])
    BY <1>3, Zenon DEF Named
  <2>2. t.args[1] \in T /\ Len(t.args) = 1
    BY <1>1, <1>3
  <2>3. IsSeq(Mangled(t.args[1]))
    BY <2>2 DEF Named
  <2>4. /\ Len(Mangled(t)) = 4 + Len(Mangled(t.args[1])) /\ Len(Mangled(t.args[1])) \in Nat
        /\ Occurs(ListFront, u, at) /\ Occurs(Mangled(t.args[1]), u, at + 4)
    <3> DEFINE rest == Mangled(t.args[1])
    <3>1. Occurs(ListFront \o rest, u, at) /\ IsSeq(ListFront) /\ IsSeq(rest) /\ Len(ListFront) = 4
      BY <2>1, <2>3, FrontFacts, Zenon
    <3> HIDE DEF rest
    <3>2. /\ Len(ListFront \o rest) = Len(ListFront) + Len(rest) /\ Len(rest) \in Nat
          /\ Occurs(ListFront, u, at) /\ Occurs(rest, u, at + Len(ListFront))
      BY <3>1, OccursBoth, Zenon
    <3> QED BY <2>1, <3>1, <3>2, Zenon DEF rest
  <2>5. u[at + 1] = "_" /\ u[at + 2] = "_" /\ u[at + 3] = "list"
    <3>1. u[at + 1] = ListFront[1] /\ u[at + 2] = ListFront[2] /\ u[at + 3] = ListFront[3]
      <4>1. 1 \in 1 .. Len(ListFront) /\ 2 \in 1 .. Len(ListFront) /\ 3 \in 1 .. Len(ListFront)
        <5>1. Len(ListFront) = 4
          BY FrontFacts
        <5> QED BY <5>1
      <4> QED BY <2>4, <4>1, Zenon DEF Occurs
    <3> QED BY <3>1, FrontFacts
  <2>6. t.name \notin BasicNames /\ t.name # "fun"
    BY <1>3 DEF BasicNames
  <2>7. Len(Mangled(t.args[1])) < Len(Mangled(t)) /\ Len(Mangled(t)) \in Nat
    BY <2>4
  <2> QED BY <1>3, <2>2, <2>4, <2>5, <2>6, <2>7, Zenon DEF KindStands
<1>4. CASE t.name = "fun"
  <2>1. PICK joined : Joins(t, joined)
    BY <1>4, Zenon DEF Named
  <2>2. Occurs(FunFront, u, at)
    <3>1. \A n : n = Len(t.args) - 1 => FunctionStands(T, t, joined, n, u, at)
      BY <1>4, <2>1, JoinedOccurs
    <3> QED BY <3>1, Zenon DEF FunctionStands
  <2>3. u[at + 1] = FunFront[1] /\ u[at + 2] = FunFront[2] /\ u[at + 3] = FunFront[3]
    <3>1. 1 \in 1 .. Len(FunFront) /\ 2 \in 1 .. Len(FunFront) /\ 3 \in 1 .. Len(FunFront)
      <4>1. Len(FunFront) = 5
        BY FrontFacts
      <4> QED BY <4>1
    <3> QED BY <2>2, <3>1, Zenon DEF Occurs
  <2>4. u[at + 1] = "_" /\ u[at + 2] = "_" /\ u[at + 3] = "function"
    BY <2>3, FrontFacts
  <2>5. t.name \notin BasicNames /\ t.name # "list"
    BY <1>4 DEF BasicNames
  <2>6. Len(Mangled(t)) \in Nat
    BY <1>1, SeqDomain
  <2> QED BY <2>4, <2>5, <2>6, Zenon DEF KindStands
<1> QED BY <1>2, <1>3, <1>4 DEF TreeSet

\* A function with fewer arguments has the underscores of its return type
\* where one with more has the next argument.
LEMMA ShorterDiffers ==
  ASSUME NEW T, TreeSet(T), Named(T), NEW a \in T, NEW b \in T, a.name = "fun", b.name = "fun",
         NEW j, NEW l, Joins(a, j), Joins(b, l), NEW u, NEW at \in Nat,
         Occurs(Mangled(a), u, at), Occurs(Mangled(b), u, at),
         NEW m, NEW w, m = Len(a.args) - 1, w = Len(b.args) - 1, m < w, Len(j[m]) = Len(l[m])
  PROVE  FALSE
<1> DEFINE x == a.args[1]
           y == b.args[m + 2]
           place == at + Len(j[m])
<1>1. /\ m \in Nat /\ x \in T /\ \A k \in 0 .. m : Len(j[k]) \in Nat
      /\ u[place + 1] = "_" /\ u[place + 2] = "_"
      /\ Occurs(Mangled(x), u, place + 2)
  <2>1. FunctionStands(T, a, j, m, u, at)
    BY JoinedOccurs
  <2> QED BY <2>1, Zenon DEF FunctionStands
<1>2. /\ w \in Nat
      /\ \A k \in 1 .. w : b.args[k + 1] \in T /\ Occurs(Mangled(b.args[k + 1]), u, at + Len(l[k - 1]))
  <2>1. FunctionStands(T, b, l, w, u, at)
    BY JoinedOccurs
  <2> QED BY <2>1, Zenon DEF FunctionStands
<1>3. y \in T /\ Occurs(Mangled(y), u, at + Len(l[m]))
  <2>1. m + 1 \in 1 .. w /\ (m + 1) + 1 = m + 2 /\ (m + 1) - 1 = m
    <3>1. m \in Nat /\ w \in Nat
      BY <1>1, <1>2, Zenon
    <3> QED BY <3>1
  <2> DEFINE k == m + 1
  <2>2. b.args[k + 1] \in T /\ Occurs(Mangled(b.args[k + 1]), u, at + Len(l[k - 1]))
    BY <1>2, <2>1, Zenon
  <2>3. k + 1 = m + 2 /\ k - 1 = m
    BY <2>1
  <2> HIDE DEF k
  <2> QED BY <2>2, <2>3, Zenon
<1>4. place \in Nat /\ (place + 2) + 1 = place + 3 /\ place + 2 \in Nat
  <2>1. m \in Nat
    BY <1>1, Zenon
  <2>2. m \in 0 .. m
    BY <2>1
  <2>3. Len(j[m]) \in Nat
    BY <1>1, <2>2, Zenon
  <2> QED BY <2>3
<1>5. Occurs(Mangled(y), u, place)
  BY <1>3, Zenon
<1> HIDE DEF x, y, place
<1>6. /\ y.name \in BasicNames => u[place + 1] = y.name
      /\ y.name = "list" => u[place + 3] = "list"
      /\ y.name = "fun" => u[place + 3] = "function"
  <2>1. KindStands(T, y, u, place)
    BY <1>3, <1>4, <1>5, NameBegins
  <2> QED BY <2>1, Zenon DEF KindStands
<1>7. /\ x.name \in BasicNames => u[(place + 2) + 1] = x.name
      /\ x.name = "list" => u[(place + 2) + 1] = "_"
      /\ x.name = "fun" => u[(place + 2) + 1] = "_"
  <2>1. KindStands(T, x, u, place + 2)
    <3>1. x \in T /\ place + 2 \in Nat /\ Occurs(Mangled(x), u, place + 2)
      BY <1>1, <1>4, Zenon
    <3> QED BY <3>1, NameBegins
  <2> QED BY <2>1, Zenon DEF KindStands
<1>8. /\ x.name \in BasicNames \cup {"list", "fun"} /\ y.name \in BasicNames \cup {"list", "fun"}
  BY <1>1, <1>3, Zenon DEF TreeSet
<1>9. u[place + 3] \in {"list", "function"}
  <2>1. y.name \notin BasicNames
    BY <1>1, <1>6 DEF BasicNames
  <2> QED BY <1>6, <1>8, <2>1
<1>10. u[place + 3] \in BasicNames \cup {"_"}
  BY <1>4, <1>7, <1>8
<1> QED BY <1>9, <1>10 DEF BasicNames

\* Two functions with one name, if arguments with one name are the same.
LEMMA FunctionNames ==
  ASSUME NEW T, TreeSet(T), Named(T), NEW a \in T, NEW b \in T, a.name = "fun", b.name = "fun",
         NEW u, NEW at \in Nat, Occurs(Mangled(a), u, at), Occurs(Mangled(b), u, at),
         \A c \in T : \A d \in T : \A place \in Nat :
           Len(Mangled(c)) < Len(Mangled(a)) /\ Occurs(Mangled(c), u, place) /\ Occurs(Mangled(d), u, place)
             => c = d
  PROVE  a = b
<1> DEFINE m == Len(a.args) - 1
           w == Len(b.args) - 1
<1>1. PICK j : Joins(a, j)
  BY Zenon DEF Named
<1>2. PICK l : Joins(b, l)
  BY Zenon DEF Named
<1>3. /\ m \in Nat /\ a.args \in Seq(T) /\ a.args[1] \in T
      /\ \A k \in 0 .. m : Len(j[k]) \in Nat /\ Len(j[k]) <= Len(j[m])
      /\ j[0] = FunFront
      /\ \A k \in 1 .. m : /\ a.args[k + 1] \in T
                           /\ Len(Mangled(a.args[k + 1])) \in Nat
                           /\ Len(j[k]) = (Len(j[k - 1]) + Len(Mangled(a.args[k + 1]))) + 1
                           /\ Occurs(Mangled(a.args[k + 1]), u, at + Len(j[k - 1]))
      /\ Occurs(Mangled(a.args[1]), u, (at + Len(j[m])) + 2)
      /\ Len(Mangled(a.args[1])) \in Nat
      /\ Len(Mangled(a)) = (Len(j[m]) + 2) + Len(Mangled(a.args[1]))
  <2>1. \A n : n = Len(a.args) - 1 => FunctionStands(T, a, j, n, u, at)
    BY <1>1, JoinedOccurs
  <2>2. FunctionStands(T, a, j, m, u, at)
    BY <2>1, Zenon
  <2> HIDE DEF m
  <2> QED BY <2>2, Zenon DEF FunctionStands
<1>4. /\ w \in Nat /\ b.args \in Seq(T) /\ b.args[1] \in T
      /\ \A k \in 0 .. w : Len(l[k]) \in Nat /\ Len(l[k]) <= Len(l[w])
      /\ l[0] = FunFront
      /\ \A k \in 1 .. w : /\ b.args[k + 1] \in T
                           /\ Len(l[k]) = (Len(l[k - 1]) + Len(Mangled(b.args[k + 1]))) + 1
                           /\ Occurs(Mangled(b.args[k + 1]), u, at + Len(l[k - 1]))
      /\ Occurs(Mangled(b.args[1]), u, (at + Len(l[w])) + 2)
  <2>1. \A n : n = Len(b.args) - 1 => FunctionStands(T, b, l, n, u, at)
    BY <1>2, JoinedOccurs
  <2>2. FunctionStands(T, b, l, w, u, at)
    BY <2>1, Zenon
  <2> HIDE DEF w
  <2> QED BY <2>2, Zenon DEF FunctionStands
<1> HIDE DEF m, w
<1> DEFINE S == {k \in 0 .. m : k <= w => /\ Len(j[k]) = Len(l[k])
                                          /\ k # 0 => a.args[k + 1] = b.args[k + 1]}
<1>5. 0 \in S
  <2>1. Len(j[0]) = Len(l[0]) /\ 0 \in 0 .. m
    BY <1>3, <1>4
  <2> QED BY <2>1
<1>6. \A k \in 1 .. m : k - 1 \in S => k \in S
  <2> TAKE k \in 1 .. m
  <2> HAVE k - 1 \in S
  <2>1. SUFFICES ASSUME k <= w PROVE Len(j[k]) = Len(l[k]) /\ a.args[k + 1] = b.args[k + 1]
    BY <1>3
  <2>2. k \in 1 .. w /\ k - 1 <= w /\ k - 1 \in 0 .. m /\ k \in 0 .. m /\ m \in 0 .. m
    <3>1. m \in Nat /\ w \in Nat
      BY <1>3, <1>4, Zenon
    <3> HIDE DEF S
    <3> QED BY <2>1, <3>1
  <2>3. Len(j[k - 1]) = Len(l[k - 1])
    BY <2>2
  <2> DEFINE c == a.args[k + 1]
             d == b.args[k + 1]
             before == Len(j[k - 1])
             place == at + before
  <2>4. /\ c \in T /\ Occurs(Mangled(c), u, place) /\ d \in T /\ Occurs(Mangled(d), u, place)
        /\ before \in Nat
    BY <1>3, <1>4, <2>2, <2>3, Zenon
  <2>5. place \in Nat
    BY <2>4
  <2>6. /\ Len(j[k]) = (before + Len(Mangled(c))) + 1 /\ Len(l[k]) = (before + Len(Mangled(d))) + 1
        /\ Len(Mangled(c)) \in Nat /\ Len(j[k]) <= Len(j[m])
        /\ Len(Mangled(a)) = (Len(j[m]) + 2) + Len(Mangled(a.args[1]))
        /\ Len(Mangled(a.args[1])) \in Nat /\ Len(j[m]) \in Nat /\ Len(j[k]) \in Nat
    BY <1>3, <1>4, <2>2, <2>3, Zenon
  <2> HIDE DEF c, d, before, place
  <2>7. Len(Mangled(c)) < Len(Mangled(a))
    <3> DEFINE p == Len(Mangled(c))
               q == Len(j[k])
               r == Len(j[m])
               s == Len(Mangled(a.args[1]))
    <3>1. /\ q = (before + p) + 1 /\ p \in Nat /\ q <= r /\ Len(Mangled(a)) = (r + 2) + s
          /\ s \in Nat /\ r \in Nat /\ q \in Nat /\ before \in Nat
      BY <2>4, <2>6, Zenon
    <3> HIDE DEF p, q, r, s
    <3>2. p < Len(Mangled(a))
      BY <3>1
    <3> QED BY <3>2 DEF p
  <2>8. c = d
    BY <2>4, <2>5, <2>7, Zenon
  <2> QED BY <2>6, <2>8, Zenon DEF c, d
<1> HIDE DEF S
<1>7. \A k \in 0 .. m : k \in S
  BY <1>3, <1>5, <1>6, Upwards
<1>8. ~(m < w)
  <2> SUFFICES ASSUME m < w PROVE FALSE
    OBVIOUS
  <2>1. Len(j[m]) = Len(l[m])
    <3>1. m \in 0 .. m /\ m <= w
      BY <1>3, <1>4
    <3> QED BY <1>7, <3>1 DEF S
  <2> QED BY <1>1, <1>2, <2>1, ShorterDiffers DEF m, w
<1>9. ~(w < m)
  <2> SUFFICES ASSUME w < m PROVE FALSE
    OBVIOUS
  <2>1. Len(l[w]) = Len(j[w])
    <3>1. w \in 0 .. m /\ w <= w
      BY <1>3, <1>4
    <3> QED BY <1>7, <3>1 DEF S
  <2> QED BY <1>1, <1>2, <2>1, ShorterDiffers DEF m, w
<1>10. m = w
  BY <1>3, <1>4, <1>8, <1>9
<1>11. a.args[1] = b.args[1]
  <2>1. m \in 0 .. m /\ m <= w
    BY <1>3, <1>10
  <2>2. Len(j[m]) = Len(l[w])
    BY <1>7, <1>10, <2>1 DEF S
  <2> DEFINE place == (at + Len(j[m])) + 2
  <2>3. Len(j[m]) \in Nat
    BY <1>3, <2>1, Zenon
  <2>4. place \in Nat
    BY <2>3
  <2>5. /\ Occurs(Mangled(a.args[1]), u, place) /\ Occurs(Mangled(b.args[1]), u, place)
        /\ a.args[1] \in T /\ b.args[1] \in T
    BY <1>3, <1>4, <2>2, Zenon
  <2>6. Len(Mangled(a.args[1])) < Len(Mangled(a))
    <3> DEFINE r == Len(j[m])
               s == Len(Mangled(a.args[1]))
    <3>1. Len(Mangled(a)) = (r + 2) + s /\ r \in Nat /\ s \in Nat
      BY <1>3, <2>3, Zenon
    <3> HIDE DEF r, s
    <3>2. s < Len(Mangled(a))
      BY <3>1
    <3> QED BY <3>2 DEF s
  <2> HIDE DEF place
  <2> QED BY <2>4, <2>5, <2>6, Zenon
<1>12. a.args = b.args
  <2>1. Len(a.args) = Len(b.args) /\ a.args \in Seq(T) /\ b.args \in Seq(T)
    BY <1>3, <1>4, <1>10 DEF m, w
  <2>2. \A i \in 1 .. Len(a.args) : a.args[i] = b.args[i]
    <3> TAKE i \in 1 .. Len(a.args)
    <3>1. CASE i = 1
      BY <1>11, <3>1
    <3>2. CASE i # 1
      <4> DEFINE k == i - 1
      <4>1. k \in 0 .. m /\ k <= w /\ k # 0 /\ k + 1 = i
        BY <1>10, <2>1, <3>2 DEF m
      <4> HIDE DEF k
      <4>2. a.args[k + 1] = b.args[k + 1]
        BY <1>7, <4>1 DEF S
      <4> QED BY <4>1, <4>2
    <3> QED BY <3>1, <3>2
  <2> QED BY <2>1, <2>2
<1>13. a = Type(a.name, a.args) /\ b = Type(b.name, b.args)
  BY Zenon DEF TreeSet, TypeSet
<1> QED BY <1>12, <1>13, Zenon

\* No name of a type begins with the name of another.
LEMMA NamesApart ==
  ASSUME NEW T, TreeSet(T), Named(T), NEW u
  PROVE  \A a \in T : \A b \in T : \A at \in Nat :
           Occurs(Mangled(a), u, at) /\ Occurs(Mangled(b), u, at) => a = b
<1> DEFINE Bad(n) == \E a \in T : \E b \in T : \E at \in Nat :
                       /\ Len(Mangled(a)) = n /\ a # b
                       /\ Occurs(Mangled(a), u, at) /\ Occurs(Mangled(b), u, at)
           X == {n \in Nat : Bad(n)}
<1>1. \A t \in T : Len(Mangled(t)) \in Nat
  BY SeqDomain DEF Named
<1>2. ASSUME X # {} PROVE FALSE
  <2>1. X \subseteq Nat
    OBVIOUS
  <2>2. PICK n \in X : \A k \in X : n <= k
    BY <1>2, <2>1, Least
  <2>3. PICK a \in T, b \in T, at \in Nat :
          /\ Len(Mangled(a)) = n /\ a # b
          /\ Occurs(Mangled(a), u, at) /\ Occurs(Mangled(b), u, at)
    BY <2>2
  <2>4. ASSUME NEW c \in T, NEW d \in T, NEW place \in Nat, Len(Mangled(c)) < Len(Mangled(a)),
               Occurs(Mangled(c), u, place), Occurs(Mangled(d), u, place)
        PROVE  c = d
    <3>1. n \in Nat /\ Len(Mangled(c)) \in Nat /\ Len(Mangled(c)) < n
      BY <1>1, <2>2, <2>3, <2>4
    <3>2. Len(Mangled(c)) \notin X
      BY <2>2, <3>1
    <3> QED BY <2>4, <3>1, <3>2, Zenon
  <2>5. /\ a.name \in BasicNames => u[at + 1] = a.name
        /\ a.name = "list" => u[at + 1] = "_" /\ u[at + 3] = "list"
        /\ a.name = "fun" => u[at + 1] = "_" /\ u[at + 3] = "function"
        /\ a.name = "list" => /\ a.args[1] \in T /\ Len(a.args) = 1
                              /\ Occurs(Mangled(a.args[1]), u, at + 4)
                              /\ Len(Mangled(a.args[1])) < Len(Mangled(a))
    <3>1. a \in T /\ at \in Nat /\ Occurs(Mangled(a), u, at)
      BY <2>3, Zenon
    <3>2. KindStands(T, a, u, at)
      BY <3>1, NameBegins
    <3> QED BY <3>2, Zenon DEF KindStands
  <2>6. /\ b.name \in BasicNames => u[at + 1] = b.name
        /\ b.name = "list" => u[at + 1] = "_" /\ u[at + 3] = "list"
        /\ b.name = "fun" => u[at + 1] = "_" /\ u[at + 3] = "function"
        /\ b.name = "list" => b.args[1] \in T /\ Len(b.args) = 1 /\ Occurs(Mangled(b.args[1]), u, at + 4)
    <3>1. b \in T /\ at \in Nat /\ Occurs(Mangled(b), u, at)
      BY <2>3, Zenon
    <3>2. KindStands(T, b, u, at)
      BY <3>1, NameBegins
    <3> QED BY <3>2, Zenon DEF KindStands
  <2>7. /\ a.name \in BasicNames \cup {"list", "fun"} /\ b.name \in BasicNames \cup {"list", "fun"}
        /\ a.name \in BasicNames => a.args = <<>>
        /\ b.name \in BasicNames => b.args = <<>>
        /\ a = Type(a.name, a.args) /\ b = Type(b.name, b.args)
        /\ a.args \in Seq(T) /\ b.args \in Seq(T)
    BY Zenon DEF TreeSet, TypeSet
  <2>8. "_" \notin BasicNames /\ "list" # "function"
    BY DEF BasicNames
  <2>9. a.name = b.name
    BY <2>5, <2>6, <2>7, <2>8
  <2>10. CASE a.name \in BasicNames
    BY <2>3, <2>7, <2>9, <2>10, Zenon
  <2>11. CASE a.name = "list"
    <3>1. at + 4 \in Nat
      BY <2>3
    <3>2. a.args[1] = b.args[1]
      BY <2>4, <2>5, <2>6, <2>9, <2>11, <3>1, Zenon
    <3>3. Len(a.args) = 1 /\ Len(b.args) = 1
      BY <2>5, <2>6, <2>9, <2>11, Zenon
    <3>4. a.args = b.args
      BY <2>7, <3>2, <3>3
    <3> QED BY <2>3, <2>7, <2>9, <3>4, Zenon
  <2>12. CASE a.name = "fun"
    <3>1. /\ a \in T /\ b \in T /\ at \in Nat /\ a.name = "fun" /\ b.name = "fun"
          /\ Occurs(Mangled(a), u, at) /\ Occurs(Mangled(b), u, at)
      BY <2>3, <2>9, <2>12, Zenon
    <3>2. a = b
      BY <2>4, <3>1, FunctionNames
    <3> QED BY <2>3, <3>2, Zenon
  <2> QED BY <2>7, <2>10, <2>11, <2>12
<1>3. X = {}
  BY <1>2
<1> SUFFICES ASSUME NEW a \in T, NEW b \in T, NEW at \in Nat,
                    Occurs(Mangled(a), u, at), Occurs(Mangled(b), u, at), a # b
             PROVE  FALSE
  OBVIOUS
<1>4. Bad(Len(Mangled(a)))
  OBVIOUS
<1>5. Len(Mangled(a)) \in X
  BY <1>1, <1>4
<1> QED BY <1>3, <1>5

\* Types are equal, that is have one mangled name, only if they are one type.
THEOREM MangledNamesDiffer ==
  ASSUME NEW T, TreeSet(T), Mangles(T)
  PROVE  Faithful(T)
<1>0. Named(T)
  BY NamesAsMade
<1> SUFFICES ASSUME NEW a \in T, NEW b \in T, Compare(a, b) = "same" PROVE a = b
  BY DEF Faithful
<1>1. Mangled(a) = Mangled(b)
  BY DEF Compare
<1> DEFINE u == [i \in Nat |-> Mangled(a)[i]]
<1>2. \A i \in 1 .. Len(Mangled(a)) : u[0 + i] = Mangled(a)[i]
  <2>1. Len(Mangled(a)) \in Nat
    BY <1>0, SeqDomain DEF Named
  <2> QED BY <2>1
<1>3. Occurs(Mangled(a), u, 0) /\ Occurs(Mangled(b), u, 0)
  BY <1>1, <1>2 DEF Occurs
<1> HIDE DEF u
<1> QED BY <1>0, <1>3, NamesApart

-----------------------------------------------------------------------------
\* No piece of a name is that of a null pointer.
NoNull(s) == \A i \in 1 .. Len(s) : s[i] # "null"

\* Two such names behind one another make a third.
LEMMA NoNullConcat ==
  ASSUME NEW x, IsSeq(x), NEW y, IsSeq(y), NoNull(x), NoNull(y)
  PROVE  NoNull(x \o y)
<1> DEFINE s == x \o y
<1>1. /\ Len(s) = Len(x) + Len(y) /\ Len(x) \in Nat /\ Len(y) \in Nat
      /\ \A i \in 1 .. Len(x) : s[i] = x[i]
      /\ \A i \in 1 .. Len(y) : s[Len(x) + i] = y[i]
  BY DEF IsSeq
<1> HIDE DEF s
<1> SUFFICES ASSUME NEW i \in 1 .. Len(s) PROVE s[i] # "null"
  BY DEF s, NoNull
<1>2. CASE i <= Len(x)
  <2>1. i \in 1 .. Len(x)
    BY <1>1, <1>2
  <2> QED BY <1>1, <2>1, Zenon DEF NoNull
<1>3. CASE i > Len(x)
  <2>1. i - Len(x) \in 1 .. Len(y) /\ Len(x) + (i - Len(x)) = i
    BY <1>1, <1>3
  <2> QED BY <1>1, <2>1 DEF NoNull
<1> QED BY <1>1, <1>2, <1>3

\* The words between the names of other types.
LEMMA NoNullWords ==
  /\ IsSeq(ListFront) /\ NoNull(ListFront)
  /\ IsSeq(FunFront) /\ NoNull(FunFront)
  /\ IsSeq(<<"_">>) /\ NoNull(<<"_">>)
  /\ IsSeq(<<"_", "_">>) /\ NoNull(<<"_", "_">>)
<1> DEFINE W == {"_", "list", "function"}
<1>1. \A s \in Seq(W) : IsSeq(s) /\ NoNull(s)
  <2> TAKE s \in Seq(W)
  <2>1. \A i \in 1 .. Len(s) : s[i] \in W
    <3> HIDE DEF W
    <3> QED OBVIOUS
  <2>2. \A x \in W : x # "null"
    OBVIOUS
  <2>3. NoNull(s)
    BY <2>1, <2>2, Zenon DEF NoNull
  <2> QED BY <2>3, SeqIntro, Zenon
<1>2. ListFront \in Seq(W) /\ FunFront \in Seq(W) /\ <<"_">> \in Seq(W) /\ <<"_", "_">> \in Seq(W)
  <2>1. \A X : \A a, b, c \in X : /\ <<a, a, b, a>> \in Seq(X) /\ <<a, a, c, a, a>> \in Seq(X)
                                  /\ <<a>> \in Seq(X) /\ <<a, a>> \in Seq(X)
    OBVIOUS
  <2>2. "_" \in W /\ "list" \in W /\ "function" \in W
    OBVIOUS
  <2> HIDE DEF W
  <2> QED BY <2>1, <2>2, Zenon DEF ListFront, FunFront
<1> QED BY <1>1, <1>2, Zenon

\* The name of a function whose arguments and return type have such names.
LEMMA FunctionHasNoNull ==
  ASSUME NEW T, Named(T), NEW t, NEW joined, Joins(t, joined), NEW n \in Nat, n = Len(t.args) - 1,
         \A k \in 1 .. n : t.args[k + 1] \in T /\ NoNull(Mangled(t.args[k + 1])),
         t.args[1] \in T, NoNull(Mangled(t.args[1]))
  PROVE  NoNull(Mangled(t))
<1>1. /\ joined[0] = FunFront
      /\ \A k \in 0 .. n : IsSeq(joined[k])
      /\ \A k \in 1 .. n : joined[k] = (joined[k - 1] \o Mangled(t.args[k + 1])) \o <<"_">>
      /\ Mangled(t) = (joined[n] \o <<"_", "_">>) \o Mangled(t.args[1])
  <2>1. \A k \in 0 .. n : joined[k] \in Seq(Pieces)
    BY Zenon DEF Joins
  <2>2. \A k \in 0 .. n : IsSeq(joined[k])
    BY <2>1, SeqIntro
  <2> QED BY <2>2, Zenon DEF Joins
<1> DEFINE S == {k \in 0 .. n : NoNull(joined[k])}
<1>2. 0 \in S
  <2>1. 0 \in 0 .. n
    OBVIOUS
  <2>2. NoNull(joined[0])
    BY <1>1, NoNullWords, Zenon
  <2> QED BY <2>1, <2>2
<1>3. \A k \in 1 .. n : k - 1 \in S => k \in S
  <2> TAKE k \in 1 .. n
  <2> HAVE k - 1 \in S
  <2> DEFINE x == joined[k - 1]
             y == Mangled(t.args[k + 1])
             one == <<"_">>
  <2>1. NoNull(x) /\ k - 1 \in 0 .. n /\ k \in 0 .. n
    OBVIOUS
  <2>2. IsSeq(x) /\ IsSeq(y) /\ NoNull(y)
    BY <1>1, <2>1, Zenon DEF Named
  <2>3. IsSeq(one) /\ NoNull(one)
    BY NoNullWords
  <2>4. joined[k] = (x \o y) \o one
    BY <1>1
  <2> HIDE DEF x, y, one
  <2>5. IsSeq(x \o y) /\ NoNull(x \o y)
    BY <2>1, <2>2, ConcatSeq, NoNullConcat
  <2>6. NoNull((x \o y) \o one)
    BY <2>3, <2>5, NoNullConcat
  <2> QED BY <2>1, <2>4, <2>6
<1> HIDE DEF S
<1>4. n \in S
  <2>1. \A k \in 0 .. n : k \in S
    BY <1>2, <1>3, Upwards
  <2> QED BY <2>1
<1> DEFINE x == joined[n]
           y == Mangled(t.args[1])
           two == <<"_", "_">>
<1>5. NoNull(x) /\ IsSeq(x)
  BY <1>1, <1>4 DEF S
<1>6. IsSeq(y) /\ NoNull(y)
  BY DEF Named
<1>7. IsSeq(two) /\ NoNull(two)
  BY NoNullWords
<1>8. Mangled(t) = (x \o two) \o y
  BY <1>1
<1> HIDE DEF x, y, two
<1>9. IsSeq(x \o two) /\ NoNull(x \o two)
  BY <1>5, <1>7, ConcatSeq, NoNullConcat
<1> QED BY <1>6, <1>8, <1>9, NoNullConcat

\* Types without null pointers have names that can be made.
LEMMA NamesCanBeMade ==
  ASSUME NEW T, TreeSet(T), Named(T), Null \notin T
  PROVE  NullFree(T)
<1> DEFINE Bad(n) == \E t \in T : Len(Mangled(t)) = n /\ ~NoNull(Mangled(t))
           X == {n \in Nat : Bad(n)}
<1>1. \A t \in T : IsSeq(Mangled(t)) /\ Len(Mangled(t)) \in Nat
  BY SeqDomain DEF Named
<1>2. ASSUME X # {} PROVE FALSE
  <2>1. X \subseteq Nat
    OBVIOUS
  <2>2. PICK n \in X : \A k \in X : n <= k
    BY <1>2, <2>1, Least
  <2>3. PICK t \in T : Len(Mangled(t)) = n /\ ~NoNull(Mangled(t))
    BY <2>2
  <2>4. \A x \in T : Len(Mangled(x)) < n => NoNull(Mangled(x))
    <3> TAKE x \in T
    <3> HAVE Len(Mangled(x)) < n
    <3>1. Len(Mangled(x)) \notin X
      BY <1>1, <2>2
    <3> QED BY <1>1, <3>1
  <2> HIDE DEF X
  <2> DEFINE u == Mangled(t)
  <2>5. Occurs(Mangled(t), u, 0)
    BY <1>1 DEF Occurs
  <2>6. /\ t.name \in BasicNames \cup {"list", "fun"} /\ t = Type(t.name, t.args)
        /\ t.name \in BasicNames => t.args = <<>>
    BY Zenon DEF TreeSet, TypeSet
  <2>7. CASE t.name \in BasicNames
    <3>1. t.name # "null"
      BY <2>6, <2>7, Zenon DEF Null
    <3>2. Mangled(t) = <<t.name>>
      BY <2>7 DEF Named
    <3>3. NoNull(<<t.name>>)
      BY <3>1 DEF NoNull
    <3> QED BY <2>3, <3>2, <3>3
  <2>8. CASE t.name = "list"
    <3> HIDE DEF u
    <3>1. KindStands(T, t, u, 0)
      BY <2>5, NameBegins
    <3>2. t.args[1] \in T /\ Len(Mangled(t.args[1])) < Len(Mangled(t))
      BY <2>8, <3>1, Zenon DEF KindStands
    <3>3. NoNull(Mangled(t.args[1])) /\ IsSeq(Mangled(t.args[1]))
      BY <1>1, <2>3, <2>4, <3>2, Zenon
    <3>4. Mangled(t) = ListFront \o Mangled(t.args[1])
      BY <2>8, Zenon DEF Named
    <3>5. NoNull(ListFront \o Mangled(t.args[1]))
      BY <3>3, NoNullWords, NoNullConcat
    <3> QED BY <2>3, <3>4, <3>5
  <2>9. CASE t.name = "fun"
    <3> HIDE DEF u
    <3>1. PICK joined : Joins(t, joined)
      BY <2>9, Zenon DEF Named
    <3> DEFINE m == Len(t.args) - 1
    <3>2. FunctionStands(T, t, joined, m, u, 0)
      <4>1. \A w : w = Len(t.args) - 1 => FunctionStands(T, t, joined, w, u, 0)
        BY <2>5, <2>9, <3>1, JoinedOccurs
      <4> QED BY <4>1, Zenon
    <3> HIDE DEF m
    <3>3. /\ m \in Nat /\ t.args[1] \in T /\ Len(Mangled(t.args[1])) \in Nat
          /\ Len(Mangled(t)) = (Len(joined[m]) + 2) + Len(Mangled(t.args[1]))
          /\ \A k \in 0 .. m : Len(joined[k]) \in Nat /\ Len(joined[k]) <= Len(joined[m])
          /\ \A k \in 1 .. m : /\ t.args[k + 1] \in T /\ Len(Mangled(t.args[k + 1])) \in Nat
                               /\ Len(joined[k]) = (Len(joined[k - 1]) + Len(Mangled(t.args[k + 1]))) + 1
      BY <3>2, Zenon DEF FunctionStands
    <3>4. m \in 0 .. m /\ \A k \in 1 .. m : k - 1 \in 0 .. m /\ k \in 0 .. m
      <4>1. m \in Nat
        BY <3>3, Zenon
      <4> QED BY <4>1
    <3>5. Len(joined[m]) \in Nat /\ n = (Len(joined[m]) + 2) + Len(Mangled(t.args[1]))
      BY <2>3, <3>3, <3>4, Zenon
    <3>6. Len(Mangled(t.args[1])) < n
      <4> DEFINE r == Len(Mangled(t.args[1]))
                 all == Len(joined[m])
      <4>1. r \in Nat /\ all \in Nat /\ n = (all + 2) + r
        BY <3>3, <3>5, Zenon
      <4> HIDE DEF r, all
      <4>2. r < n
        BY <4>1
      <4> QED BY <4>2 DEF r
    <3>7. \A k \in 1 .. m : Len(Mangled(t.args[k + 1])) < n
      <4> TAKE k \in 1 .. m
      <4> DEFINE p == Len(Mangled(t.args[k + 1]))
                 before == Len(joined[k - 1])
                 here == Len(joined[k])
                 all == Len(joined[m])
                 r == Len(Mangled(t.args[1]))
      <4>1. /\ p \in Nat /\ before \in Nat /\ all \in Nat /\ r \in Nat
            /\ here = (before + p) + 1 /\ here <= all /\ n = (all + 2) + r
        BY <3>3, <3>4, <3>5, Zenon
      <4> HIDE DEF p, before, here, all, r
      <4>2. p < n
        BY <4>1
      <4> QED BY <4>2 DEF p
    <3>8. /\ \A k \in 1 .. m : t.args[k + 1] \in T /\ NoNull(Mangled(t.args[k + 1]))
          /\ t.args[1] \in T /\ NoNull(Mangled(t.args[1]))
      BY <2>4, <3>3, <3>6, <3>7, Zenon
    <3>9. m \in Nat /\ m = Len(t.args) - 1
      BY <3>3, Zenon DEF m
    <3>10. NoNull(Mangled(t))
      BY <3>1, <3>8, <3>9, FunctionHasNoNull
    <3> QED BY <2>3, <3>10
  <2> QED BY <2>6, <2>7, <2>8, <2>9
<1>3. X = {}
  BY <1>2
<1>4. \A t \in T : NoNull(Mangled(t))
  <2> TAKE t \in T
  <2>1. Len(Mangled(t)) \notin X
    BY <1>3
  <2> QED BY <1>1, <2>1
<1> QED BY <1>4, Zenon DEF NullFree, HasNull, DereferencesNull, NoNull

-----------------------------------------------------------------------------
\* The recorded types of each function follow the rules of the language
\* together, and its return type is the one it declares, for every program
\* whose descriptors build trees of types: what the code generator looks up
\* again with recorded types (pol_codegen.cpp) is found again.
THEOREM TypesAgree ==
  ASSUME NEW T, TreeSet(T), Mangles(T), BuildsIn(T), Null \in T
  PROVE  Spec => []WellTyped
BY MangledNamesDiffer, FaithfulTypesAgree DEF TreeSet

\* The types in use are such trees, so two of them that *a == *b finds equal
\* are the same type, however deep the analysis is in an expression.
THEOREM EqualTypesAreOne ==
  ASSUME NEW T, TreeSet(T), Mangles(T), BuildsIn(T), Null \in T
  PROVE  Spec => []EqualIsSame
<1>1. TypeSet(T) /\ Faithful(T)
  BY MangledNamesDiffer DEF TreeSet
<1>2. Init => SemanticInv /\ TypesIn(T)
  BY <1>1, SemanticInvInit, TypesInit
<1>3. SemanticInv /\ TypesIn(T) /\ [Next]_vars => SemanticInv' /\ TypesIn(T)'
  BY <1>1, SemanticInvStep, TypesStep
<1>4. TypesIn(T) => EqualIsSame
  BY <1>1 DEF TypesIn, ValuesIn, Faithful, EqualIsSame
<1> QED BY <1>2, <1>3, <1>4, PTL DEF Spec

\* If no descriptor builds a type with a null pointer in it, the analysis of a
\* harmless program dereferences no null pointer and fails none of its
\* assertions, neither that a type is there nor that a number is recorded once.
THEOREM HarmlessProgramsAreSafe ==
  ASSUME NEW T, TreeSet(T), Mangles(T), BuildsIn(T), Null \notin T
  PROVE  Spec => []HarmlessIsSafe
BY NamesAsMade, NamesCanBeMade, NullFreeIsSafe DEF TreeSet
=============================================================================
