----------------------------- MODULE ValueProofs -----------------------------
(***************************************************************************)
(* The code generator finds behind every name what the analysis found: the *)
(* value of an expression has the LLVM type of the type recorded for it.   *)
(***************************************************************************)
EXTENDS CodegenProofs

-----------------------------------------------------------------------------
(* What the code generator is given.                                       *)

UnitName(u) == program.units[u].name
Signature(u) == analyzed[u].sig

\* The units before one that have a name.
Before(u, x) == \E v \in 1 .. u - 1 : UnitName(v) = x
FirstNamed(u) == ~Before(u, UnitName(u))

\* The type of a function with a signature, and that of the LLVM function.
TypeOf(s) == Function(s.ret, [k \in 1 .. Len(s.args) |-> s.args[k].type])
CodeType(s) == FunctionType(LlvmType(s.ret), [k \in 1 .. Len(s.args) |-> LlvmType(s.args[k].type)])

\* What a name means in a function: the first unit before it with the name,
\* the first parameter with the name, or the function itself.
MeansUnit(u, x, type) ==
  \E v \in 1 .. u - 1 : FirstNamed(v) /\ UnitName(v) = x /\ type = TypeOf(Signature(v))
MeansParameter(u, x, type) ==
  LET args == Signature(u).args
  IN  /\ ~Before(u, x)
      /\ \E k \in 1 .. Len(args) : /\ args[k].name = x /\ type = args[k].type
                                   /\ \A j \in 1 .. k - 1 : args[j].name # x
MeansItself(u, x, type) == ~Before(u, x) /\ x = UnitName(u) /\ type = TypeOf(Signature(u))

\* The types of the operands of an expression.
KidTypes(n, e) == [k \in 1 .. Len(Node(n).kids) |-> e[Node(n).kids[k]]]

\* Types agree with others as far as both go.
Agree(given, wanted) == \A i \in 1 .. Len(given) : i <= Len(wanted) => given[i] = wanted[i]

\* The rule of each kind of expression, as far as the code generator needs it.
LiteralTyped(name, type) ==
  /\ name \in Literal
  /\ name \in RealLiteral => type = Real
  /\ name \in IntegerLiteral => type = Integer
  /\ name \in BooleanLiteral => type = Boolean
NameTyped(node, type, v) ==
  /\ node.name \in DOMAIN v
  /\ node.kind = "var" => type = v[node.name]
  /\ node.kind = "subscript" =>
       IF v[node.name].name = "list" THEN v[node.name] = List(type) ELSE type = Null
BuiltinTyped(name, types, type) ==
  \E k \in EntriesOf(name) : Agree(types, Builtins[k].args) /\ type = Builtins[k].ret
FunctionTyped(name, types, type, v) ==
  /\ \A k \in EntriesOf(name) : Len(types) <= Len(Builtins[k].args) => ~Agree(types, Builtins[k].args)
  /\ name \in DOMAIN v /\ type = v[name].args[1]
NodeTyped(n, e, v) ==
  LET node == Node(n)
  IN  /\ node.kind = "literal" => LiteralTyped(node.name, e[n])
      /\ node.kind \in {"var", "subscript"} => NameTyped(node, e[n], v)
      /\ node.kind = "list" /\ node.kids # <<>> => e[n] = List(e[node.kids[1]])
      /\ node.kind = "binary" => Len(node.kids) = 2 /\ BuiltinTyped(node.name, KidTypes(n, e), e[n])
      /\ node.kind = "call" => \/ BuiltinTyped(node.name, KidTypes(n, e), e[n])
                               \/ FunctionTyped(node.name, KidTypes(n, e), e[n], v)

\* Every expression of a function has a type of the set by its rule, and every
\* name in its scope means something.
FunctionChecked(T, u) ==
  LET e == analyzed[u].expressions
      v == analyzed[u].variables
  IN  /\ program.units[u].body \in DOMAIN e
      /\ \A n \in DOMAIN e : /\ e[n] \in T /\ Len(Node(n).kids) \in Nat /\ NodeTyped(n, e, v)
                             /\ \A k \in 1 .. Len(Node(n).kids) : Node(n).kids[k] \in DOMAIN e
      /\ \A x \in DOMAIN v :
           MeansUnit(u, x, v[x]) \/ MeansParameter(u, x, v[x]) \/ MeansItself(u, x, v[x])

\* What the analysis says of the units it has accepted.
Checked(T) ==
  /\ Len(analyzed) \in Nat
  /\ \A u \in 1 .. Len(analyzed) :
       /\ analyzed[u].unit = u /\ Signature(u).name = UnitName(u) /\ Len(Signature(u).args) \in Nat
       /\ program.units[u].kind = "def" => FunctionChecked(T, u)

\* A program in which a name means one thing at a time.
Clear ==
  /\ \A u, v \in 1 .. Len(analyzed) :
       v < u /\ program.units[u].kind = "def" /\ UnitName(v) = UnitName(u)
         => Signature(v).args = Signature(u).args
  /\ \A u \in 1 .. Len(analyzed) :
       LET args == Signature(u).args
       IN  /\ UnitName(u) \notin {"", "malloc"}
           /\ \A k \in 1 .. Len(args) : /\ args[k].name \notin {UnitName(u), "", "malloc"}
                                        /\ \A j, n \in 1 .. Len(args) : args[k].name # Renamed(args[j].name, n)
  /\ \A n \in 1 .. Len(program.nodes) : Node(n).kind = "call" =>
       \A k \in EntriesOf(Node(n).name) : Len(Node(n).kids) <= Len(Builtins[k].args)

\* The types are compared and translated as they should.
Lowers(T) ==
  /\ {Real, Integer, Boolean} \subseteq T
  /\ HasNull(Null) /\ \A t \in {Real, Integer, Boolean} : ~HasNull(t)
  /\ \A a, b \in T : Compare(a, b) = "same" => a = b
  /\ \A t \in T : ~HasNull(t) => LoweredAs(t)

Ready(T) == Checked(T) /\ Clear /\ Lowers(T)

-----------------------------------------------------------------------------
(* What it makes of it.                                                    *)

\* The units whose function is in the module.
Declared == IF gen = "unit" THEN at - 1 ELSE at

\* The functions of the module are theirs by their names, besides the ones
\* without a name, and malloc.
FunctionMeans(f) ==
  \E u \in 1 .. Declared : /\ FirstNamed(u) /\ UnitName(u) = mod[f].name
                           /\ mod[f].type = CodeType(Signature(u))
                           /\ mod[f].params = ArgumentNames(Signature(u).args)
ModuleMeans ==
  /\ \A f \in 1 .. Len(mod) : mod[f].name \notin {"", "malloc"} => FunctionMeans(f)
  /\ \A u \in 1 .. Declared : FunctionsNamed(UnitName(u)) # {}

\* Names in the scope of the function stand for what they mean.
NamesMean ==
  \A x \in DOMAIN Unit.variables :
    /\ \A f \in FunctionsNamed(x) : \E u \in 1 .. Len(analyzed) :
         Unit.variables[x] = TypeOf(Signature(u)) /\ mod[f].type = CodeType(Signature(u))
    /\ x \in DOMAIN named /\ FunctionsNamed(x) = {} => named[x].type = LlvmType(Unit.variables[x])

\* A value has the type of its expression.
HasType(n, v) == ~HasNull(expressionType(n)) => v.type = LlvmType(expressionType(n))

\* The frame of an operator: its entry in the table fits the operands, and
\* gives the expression its type if it has as many operands as it takes.
BuiltBy(frame, k) ==
  /\ Agree(KidTypes(frame.node, Unit.expressions), Builtins[k].args)
  /\ Len(Node(frame.node).kids) <= Len(Builtins[k].args)
  /\ \E b \in BuildersOf(k) : frame.emits = b.emits /\ (frame.how = "if" <=> b.op = "if")
  /\ Len(Node(frame.node).kids) = Len(Builtins[k].args) => expressionType(frame.node) = Builtins[k].ret
FrameHolds(frame) ==
  /\ frame.node \in DOMAIN Unit.expressions
  /\ \A k \in 1 .. Len(frame.values) : HasType(Node(frame.node).kids[k], frame.values[k])
  /\ frame.how = "list" => Node(frame.node).kind = "list"
  /\ frame.how = "call" => frame.type = LlvmType(expressionType(frame.node))
  /\ frame.how \in {"operator", "if"} => \E k \in EntriesOf(Node(frame.node).name) : BuiltBy(frame, k)

\* The expression that the calls of a stack wait for.
Awaited(s) ==
  IF s = <<>> THEN program.units[Unit.unit].body
  ELSE Node(Head(s).node).kids[Len(Head(s).values) + 1]
Chained(s) ==
  \A i \in 1 .. Len(s) :
    s[i].node = IF i = Len(s) THEN program.units[Unit.unit].body
                ELSE Node(s[i + 1].node).kids[Len(s[i + 1].values) + 1]
CallsHold(s) == Chained(s) /\ \A i \in 1 .. Len(s) : FrameHolds(s[i])

\* The inductive invariant.
InFunction ==
  /\ at \in 1 .. Len(analyzed) /\ program.units[at].kind = "def"
  /\ NamesMean /\ CallsHold(frames)
  /\ gen = "return" => HasType(Awaited(frames), value)
ValueInv ==
  gen \in {"unit", "visit", "return"} => ModuleMeans /\ (gen # "unit" => InFunction)

-----------------------------------------------------------------------------
(* Facts about types and the table of operators.                           *)

\* What the entries of the table are like: the operands of an operator have
\* one type, and so have the branches of an if.
Counting == {"+", "-", "*"}
Ordering == {"<", ">"}
Joining == {"or", "and"}

IsOperator(entry, ops, a, r) == entry.op \in ops /\ entry = Op(entry.op, <<a, a>>, r)
IsChoice(entry, a) == entry = Op("if", <<Boolean, a, a>>, a)
IsEntry(entry) ==
  \/ \E a \in {Real, Integer} : IsOperator(entry, Counting, a, a)
  \/ \E a \in {Real, Integer} : IsOperator(entry, Ordering, a, Boolean)
  \/ IsOperator(entry, Joining, Boolean, Boolean)
  \/ \E a \in {Real, Integer} : IsChoice(entry, a)

LEMMA TableEntries ==
  ASSUME NEW k \in 1 .. Len(Builtins)
  PROVE  IsEntry(Builtins[k])
<1>1. Len(Builtins) = 14
  BY DEF Builtins
<1>2. ASSUME NEW op \in Counting, NEW a \in {Real, Integer} PROVE IsEntry(Op(op, <<a, a>>, a))
  <2>1. Op(op, <<a, a>>, a).op = op
    BY DEF Op
  <2> QED BY <2>1, Zenon DEF IsEntry, IsOperator
<1>3. ASSUME NEW op \in Ordering, NEW a \in {Real, Integer} PROVE IsEntry(Op(op, <<a, a>>, Boolean))
  <2>1. Op(op, <<a, a>>, Boolean).op = op
    BY DEF Op
  <2> QED BY <2>1, Zenon DEF IsEntry, IsOperator
<1>4. ASSUME NEW op \in Joining PROVE IsEntry(Op(op, <<Boolean, Boolean>>, Boolean))
  <2>1. Op(op, <<Boolean, Boolean>>, Boolean).op = op
    BY DEF Op
  <2> QED BY <2>1, Zenon DEF IsEntry, IsOperator
<1>5. ASSUME NEW a \in {Real, Integer} PROVE IsEntry(Op("if", <<Boolean, a, a>>, a))
  BY Zenon DEF IsEntry, IsChoice
<1>6. "+" \in Counting /\ "-" \in Counting /\ "*" \in Counting /\ Real \in {Real, Integer} /\ Integer \in {Real, Integer}
  BY DEF Counting
<1>7. "<" \in Ordering /\ ">" \in Ordering /\ "or" \in Joining /\ "and" \in Joining
  BY DEF Ordering, Joining
<1>8. k \in {1, 2, 3, 4, 5, 6} \/ k \in {7, 8, 9, 10} \/ k \in {11, 12} \/ k \in {13, 14}
  BY <1>1
<1> HIDE DEF IsEntry
<1>9. CASE k \in {1, 2, 3, 4, 5, 6}
  BY <1>2, <1>6, <1>9 DEF Builtins
<1>10. CASE k \in {7, 8, 9, 10}
  BY <1>3, <1>6, <1>7, <1>10 DEF Builtins
<1>11. CASE k \in {11, 12}
  BY <1>4, <1>7, <1>11 DEF Builtins
<1>12. CASE k \in {13, 14}
  BY <1>5, <1>6, <1>12 DEF Builtins
<1> QED BY <1>8, <1>9, <1>10, <1>11, <1>12

LEMMA OperatorFacts ==
  ASSUME NEW entry, NEW ops, NEW a, NEW r, IsOperator(entry, ops, a, r), ops \in {Counting, Ordering, Joining}
  PROVE  /\ entry.op \in ops /\ entry.args = <<a, a>> /\ entry.ret = r /\ entry.op # "if"
         /\ ops # Counting => entry.op \notin Counting
         /\ ops # Ordering => entry.op \notin Ordering
         /\ ops # Joining => entry.op \notin Joining
BY DEF IsOperator, Op, Counting, Ordering, Joining

LEMMA ChoiceFacts ==
  ASSUME NEW entry, NEW a, IsChoice(entry, a)
  PROVE  /\ entry.op = "if" /\ entry.args = <<Boolean, a, a>> /\ entry.ret = a
         /\ entry.op \notin Counting /\ entry.op \notin Ordering /\ entry.op \notin Joining
BY DEF IsChoice, Op, Counting, Ordering, Joining

LEMMA TableFacts ==
  ASSUME NEW k \in 1 .. Len(Builtins)
  PROVE  /\ Len(Builtins[k].args) = IF Builtins[k].op = "if" THEN 3 ELSE 2
         /\ \A i \in 1 .. Len(Builtins[k].args) : Builtins[k].args[i] \in {Real, Integer, Boolean}
         /\ Builtins[k].ret \in {Real, Integer, Boolean}
<1> DEFINE entry == Builtins[k]
<1>1. IsEntry(entry)
  BY TableEntries
<1> HIDE DEF entry
<1>2. ASSUME NEW ops \in {Counting, Ordering, Joining}, NEW a \in {Real, Integer, Boolean},
             NEW r \in {Real, Integer, Boolean}, IsOperator(entry, ops, a, r)
      PROVE  /\ Len(entry.args) = IF entry.op = "if" THEN 3 ELSE 2
             /\ \A i \in 1 .. Len(entry.args) : entry.args[i] \in {Real, Integer, Boolean}
             /\ entry.ret \in {Real, Integer, Boolean}
  <2>1. entry.args = <<a, a>> /\ entry.ret = r /\ entry.op # "if"
    BY <1>2, OperatorFacts
  <2> QED BY <2>1
<1>3. ASSUME NEW a \in {Real, Integer, Boolean}, IsChoice(entry, a)
      PROVE  /\ Len(entry.args) = IF entry.op = "if" THEN 3 ELSE 2
             /\ \A i \in 1 .. Len(entry.args) : entry.args[i] \in {Real, Integer, Boolean}
             /\ entry.ret \in {Real, Integer, Boolean}
  <2>1. entry.args = <<Boolean, a, a>> /\ entry.ret = a /\ entry.op = "if"
    BY <1>3, ChoiceFacts
  <2> QED BY <2>1
<1>4. \/ \E ops \in {Counting, Ordering, Joining} : \E a, r \in {Real, Integer, Boolean} : IsOperator(entry, ops, a, r)
      \/ \E a \in {Real, Integer, Boolean} : IsChoice(entry, a)
  BY <1>1 DEF IsEntry
<1> QED BY <1>2, <1>3, <1>4 DEF entry

LEMMA KindsOfNumbers == Real # Integer /\ Real # Boolean /\ Integer # Boolean
BY DEF Real, Integer, Boolean, Type

\* An operator and its operands' types determine the type of its result.
LEMMA TableIsFunction ==
  ASSUME NEW j \in 1 .. Len(Builtins), NEW k \in 1 .. Len(Builtins), Builtins[j].op = Builtins[k].op,
         \A i \in 1 .. Len(Builtins[k].args) : Builtins[j].args[i] = Builtins[k].args[i]
  PROVE  Builtins[j].ret = Builtins[k].ret
<1> DEFINE e == Builtins[j]
           f == Builtins[k]
<1>1. IsEntry(e) /\ IsEntry(f) /\ e.op = f.op /\ \A i \in 1 .. Len(f.args) : e.args[i] = f.args[i]
  BY TableEntries
<1> HIDE DEF e, f
<1>2. ASSUME NEW ops \in {Counting, Ordering, Joining}, NEW a, NEW r, IsOperator(f, ops, a, r)
      PROVE  e.op \in ops /\ e.op # "if" /\ e.args[1] = a /\ f.ret = r
             /\ (ops # Counting => e.op \notin Counting) /\ (ops # Ordering => e.op \notin Ordering)
             /\ (ops # Joining => e.op \notin Joining)
  <2>1. /\ f.op \in ops /\ f.args = <<a, a>> /\ f.ret = r /\ f.op # "if"
        /\ ops # Counting => f.op \notin Counting
        /\ ops # Ordering => f.op \notin Ordering
        /\ ops # Joining => f.op \notin Joining
    BY <1>2, OperatorFacts, ZenonT(60)
  <2>2. e.args[1] = f.args[1]
    BY <1>1, <2>1
  <2> QED BY <1>1, <2>1, <2>2
<1>3. ASSUME NEW ops \in {Counting, Ordering, Joining}, NEW a, NEW r, IsOperator(e, ops, a, r)
      PROVE  e.op \in ops /\ e.args[1] = a /\ e.ret = r /\ e.op # "if"
  BY <1>3, OperatorFacts
<1>4. ASSUME NEW a, IsChoice(e, a) PROVE e.op = "if" /\ e.args[2] = a /\ e.ret = a
  BY <1>4, ChoiceFacts
<1>5. ASSUME NEW a, IsChoice(f, a) PROVE f.ret = a /\ e.op = "if" /\ e.args[2] = a
  <2>1. f.args = <<Boolean, a, a>> /\ f.ret = a /\ f.op = "if"
    BY <1>5, ChoiceFacts
  <2> QED BY <1>1, <2>1
<1>6. Counting # Ordering /\ Counting # Joining /\ Ordering # Joining
  <2>1. "+" \in Counting /\ "+" \notin Ordering /\ "+" \notin Joining /\ "<" \in Ordering /\ "<" \notin Joining
    BY DEF Counting, Ordering, Joining
  <2> QED BY <2>1
<1>7. ASSUME NEW a, IsOperator(f, Counting, a, a) PROVE e.ret = f.ret
  <2>1. e.op \in Counting /\ e.args[1] = a /\ f.ret = a /\ e.op \notin Ordering /\ e.op \notin Joining /\ e.op # "if"
    BY <1>2, <1>6, <1>7
  <2>2. PICK b : IsOperator(e, Counting, b, b)
    BY <1>1, <1>3, <1>4, <2>1 DEF IsEntry
  <2> QED BY <1>3, <2>1, <2>2
<1>8. ASSUME NEW a, IsOperator(f, Ordering, a, Boolean) PROVE e.ret = f.ret
  <2>1. e.op \in Ordering /\ f.ret = Boolean /\ e.op \notin Counting /\ e.op \notin Joining /\ e.op # "if"
    BY <1>2, <1>6, <1>8
  <2>2. PICK b : IsOperator(e, Ordering, b, Boolean)
    BY <1>1, <1>3, <1>4, <2>1 DEF IsEntry
  <2> QED BY <1>3, <2>1, <2>2
<1>9. ASSUME IsOperator(f, Joining, Boolean, Boolean) PROVE e.ret = f.ret
  <2>1. e.op \in Joining /\ f.ret = Boolean /\ e.op \notin Counting /\ e.op \notin Ordering /\ e.op # "if"
    BY <1>2, <1>6, <1>9
  <2>2. IsOperator(e, Joining, Boolean, Boolean)
    BY <1>1, <1>3, <1>4, <2>1 DEF IsEntry
  <2> QED BY <1>3, <2>1, <2>2
<1>10. ASSUME NEW a, IsChoice(f, a) PROVE e.ret = f.ret
  <2>1. e.op = "if" /\ e.args[2] = a /\ f.ret = a
    BY <1>5, <1>10
  <2>2. PICK b : IsChoice(e, b)
    BY <1>1, <1>3, <2>1 DEF IsEntry
  <2> QED BY <1>4, <2>1, <2>2
<1>11. e.ret = f.ret
  BY <1>1, <1>7, <1>8, <1>9, <1>10 DEF IsEntry
<1> QED BY <1>11 DEF e, f

Comparing == {"fult", "fugt", "ult", "ugt"}

\* What the instructions say of the operators they are built for.
LEMMA BuildersAreTyped ==
  ASSUME NEW b \in Builders
  PROVE  /\ b.op \in Counting \cup Joining => b.emits \notin Comparing
         /\ b.op \in Ordering => b.emits \in Comparing
         /\ b.op = "if" => (b.emits = "double" <=> b.args[2] = Real)
BY KindsOfNumbers, SMTT(60) DEF Builders, Builder, Comparing, Counting, Ordering, Joining

LEMMA BuilderFacts ==
  ASSUME NEW k \in 1 .. Len(Builtins), NEW b \in BuildersOf(k)
  PROVE  /\ b.op = Builtins[k].op
         /\ b.op = "if" => Builtins[k].ret = IF b.emits = "double" THEN Real ELSE Integer
         /\ b.op # "if" => Builtins[k].ret = IF b.emits \in Comparing THEN Boolean ELSE Builtins[k].args[1]
<1> DEFINE entry == Builtins[k]
<1>1. IsEntry(entry) /\ b.op = entry.op /\ b.args = entry.args /\ b \in Builders
  BY TableEntries DEF BuildersOf
<1> HIDE DEF entry
<1>2. /\ b.op \in Counting \cup Joining => b.emits \notin Comparing
      /\ b.op \in Ordering => b.emits \in Comparing
      /\ b.op = "if" => (b.emits = "double" <=> b.args[2] = Real)
  BY <1>1, BuildersAreTyped
<1>3. ASSUME NEW ops \in {Counting, Ordering, Joining}, NEW a, NEW r, IsOperator(entry, ops, a, r)
      PROVE  b.op \in ops /\ entry.args[1] = a /\ entry.ret = r /\ b.op # "if"
  BY <1>1, <1>3, OperatorFacts
<1> DEFINE Agreed == /\ b.op = "if" => entry.ret = IF b.emits = "double" THEN Real ELSE Integer
                     /\ b.op # "if" => entry.ret = IF b.emits \in Comparing THEN Boolean ELSE entry.args[1]
<1>4. ASSUME NEW a, IsOperator(entry, Counting, a, a) PROVE Agreed
  <2>1. b.op \in Counting /\ entry.args[1] = a /\ entry.ret = a /\ b.op # "if"
    BY <1>3, <1>4
  <2> QED BY <1>2, <2>1
<1>5. ASSUME NEW a, IsOperator(entry, Ordering, a, Boolean) PROVE Agreed
  <2>1. b.op \in Ordering /\ entry.ret = Boolean /\ b.op # "if"
    BY <1>3, <1>5
  <2> QED BY <1>2, <2>1
<1>6. ASSUME IsOperator(entry, Joining, Boolean, Boolean) PROVE Agreed
  <2>1. b.op \in Joining /\ entry.args[1] = Boolean /\ entry.ret = Boolean /\ b.op # "if"
    BY <1>3, <1>6
  <2> QED BY <1>2, <2>1
<1>7. ASSUME NEW a \in {Real, Integer}, IsChoice(entry, a) PROVE Agreed
  <2>1. entry.op = "if" /\ entry.args = <<Boolean, a, a>> /\ entry.ret = a
    BY <1>7, ChoiceFacts
  <2>2. b.args[2] = a
    BY <1>1, <2>1
  <2> QED BY <1>1, <1>2, <2>1, <2>2, KindsOfNumbers
<1>8. Agreed
  <2> HIDE DEF Agreed
  <2> QED BY <1>1, <1>4, <1>5, <1>6, <1>7 DEF IsEntry
<1>9. /\ b.op = entry.op
      /\ b.op = "if" => entry.ret = IF b.emits = "double" THEN Real ELSE Integer
      /\ b.op # "if" => entry.ret = IF b.emits \in Comparing THEN Boolean ELSE entry.args[1]
  BY <1>1, <1>8 DEF Agreed
<1> QED BY <1>9, Zenon DEF entry

-----------------------------------------------------------------------------
(* The lookup in the table, once more.                                     *)

LEMMA SameAgree ==
  ASSUME NEW T, Lowers(T), NEW given, NEW k \in 1 .. Len(Builtins), Len(given) \in Nat,
         \A i \in 1 .. Len(given) : given[i] \in T, "same" \in Matching(given, Builtins[k].args)
  PROVE  Agree(given, Builtins[k].args)
<1> DEFINE wanted == Builtins[k].args
           Odd == {i \in 1 .. Len(given) : i <= Len(wanted) /\ Compare(given[i], wanted[i]) # "same"}
<1>1. \A i \in 1 .. Len(wanted) : wanted[i] \in T
  BY TableFacts DEF Lowers
<1>2. Len(wanted) \in Nat
  BY TableFacts
<1>3. "same" \in Matching(given, wanted)
  OBVIOUS
<1> HIDE DEF wanted
<1>4. Odd = {}
  BY <1>3 DEF Matching
<1>5. ASSUME NEW i \in 1 .. Len(given), i <= Len(wanted) PROVE given[i] = wanted[i]
  <2>1. i \in 1 .. Len(wanted)
    BY <1>2, <1>5
  <2>2. Compare(given[i], wanted[i]) = "same"
    BY <1>4, <1>5
  <2> QED BY <1>1, <2>1, <2>2 DEF Lowers
<1> QED BY <1>5 DEF Agree, wanted

LEMMA DifferDisagree ==
  ASSUME NEW T, Lowers(T), NEW given, NEW k \in 1 .. Len(Builtins), Len(given) \in Nat,
         Len(given) <= Len(Builtins[k].args), "differ" \in Matching(given, Builtins[k].args)
  PROVE  ~Agree(given, Builtins[k].args)
<1> DEFINE wanted == Builtins[k].args
           Odd == {i \in 1 .. Len(given) : i <= Len(wanted) /\ Compare(given[i], wanted[i]) # "same"}
<1> SUFFICES ASSUME Agree(given, wanted) PROVE FALSE
  OBVIOUS
<1>1. \A i \in 1 .. Len(wanted) : wanted[i] \in {Real, Integer, Boolean}
  BY TableFacts
<1>2. Len(wanted) \in Nat /\ Len(given) <= Len(wanted)
  BY TableFacts
<1>3. "differ" \in Matching(given, wanted)
  OBVIOUS
<1> HIDE DEF wanted
<1>4. ASSUME NEW i \in 1 .. Len(given), i <= Len(wanted) PROVE Compare(given[i], wanted[i]) = "same"
  <2>1. i \in 1 .. Len(wanted) /\ given[i] = wanted[i]
    BY <1>2, <1>4 DEF Agree
  <2>2. ~HasNull(wanted[i])
    BY <1>1, <2>1 DEF Lowers
  <2> QED BY <2>1, <2>2 DEF Compare, HasNull
<1>5. Odd = {}
  BY <1>4
<1>6. Matching(given, wanted) = {"same"}
  BY <1>2, <1>5 DEF Matching
<1> QED BY <1>3, <1>6

\* What is found is an entry of the operator that matches.
LEMMA EntryFound ==
  ASSUME NEW op, NEW operands, NEW outcome \in getBuiltin(op, operands), outcome.kind = "found"
  PROVE  /\ outcome.entry \in EntriesOf(op) /\ outcome.entry \in 1 .. Len(Builtins)
         /\ "same" \in Matching(operands, Builtins[outcome.entry].args)
<1>1. outcome # Crash /\ outcome # Missing
  BY DEF Crash, Missing, Outcome
<1>2. PICK k \in EntriesOf(op) : "same" \in Matching(operands, Builtins[k].args) /\ outcome = Found(Builtins[k].ret, k)
  BY <1>1, Zenon DEF getBuiltin
<1>3. outcome.entry = k
  BY <1>2 DEF Found, Outcome
<1> QED BY <1>2, <1>3 DEF EntriesOf

\* If nothing is found every entry has been tried.
LEMMA EntriesTried ==
  ASSUME NEW op, NEW operands, NEW outcome \in getBuiltin(op, operands), outcome.kind = "missing",
         NEW k \in EntriesOf(op)
  PROVE  "differ" \in Matching(operands, Builtins[k].args)
<1>1. outcome # Crash /\ \A type, j : outcome # Found(type, j)
  BY DEF Crash, Found, Outcome
<1>2. \A j \in EntriesOf(op) : j < Len(Builtins) + 1 => "differ" \in Matching(operands, Builtins[j].args)
  BY <1>1, Zenon DEF getBuiltin
<1>3. k < Len(Builtins) + 1
  BY DEF EntriesOf, Builtins
<1> QED BY <1>2, <1>3

\* The operands' types, and the rule that an operator or a call obeys.
LEMMA FoundIsTyped ==
  ASSUME NEW T, Lowers(T), NEW name, NEW types, NEW type, Len(types) \in Nat,
         \A i \in 1 .. Len(types) : types[i] \in T, NEW k \in EntriesOf(name),
         "same" \in Matching(types, Builtins[k].args), Len(types) = Len(Builtins[k].args),
         BuiltinTyped(name, types, type) \/ \E v : FunctionTyped(name, types, type, v)
  PROVE  type = Builtins[k].ret
<1>1. k \in 1 .. Len(Builtins) /\ Builtins[k].op = name
  BY DEF EntriesOf
<1>2. Agree(types, Builtins[k].args)
  BY <1>1, SameAgree
<1>3. BuiltinTyped(name, types, type)
  BY <1>2 DEF FunctionTyped
<1>4. PICK j \in EntriesOf(name) : Agree(types, Builtins[j].args) /\ type = Builtins[j].ret
  BY <1>3 DEF BuiltinTyped
<1>5. j \in 1 .. Len(Builtins) /\ Builtins[j].op = name
  BY DEF EntriesOf
<1>6. Len(Builtins[j].args) = Len(Builtins[k].args)
  BY <1>1, <1>5, TableFacts
<1>7. \A i \in 1 .. Len(Builtins[k].args) : Builtins[j].args[i] = Builtins[k].args[i]
  BY <1>2, <1>4, <1>6 DEF Agree
<1> QED BY <1>1, <1>4, <1>5, <1>7, TableIsFunction

-----------------------------------------------------------------------------
(* The types of LLVM.                                                      *)

LEMMA KindsAreApart ==
  ASSUME NEW type, type.name \in {"list", "fun"}
  PROVE  type # Real /\ type # Integer /\ type # Boolean
BY DEF Real, Integer, Boolean, Type

LEMMA NumbersLowered ==
  ASSUME NEW T, Lowers(T)
  PROVE  LlvmType(Real) = Double /\ LlvmType(Integer) = Int64 /\ LlvmType(Boolean) = Bool
<1>1. LoweredAs(Real) /\ LoweredAs(Integer) /\ LoweredAs(Boolean)
  BY DEF Lowers
<1>2. \A type \in {Real, Integer, Boolean} : type.name # "list" /\ type.name # "fun"
  BY DEF Real, Integer, Boolean, Type
<1>3. LlvmType(Real) = Double
  BY <1>1, <1>2, KindsOfNumbers DEF LoweredAs
<1>4. LlvmType(Integer) = Int64
  BY <1>1, <1>2, KindsOfNumbers DEF LoweredAs
<1>5. LlvmType(Boolean) = Bool
  BY <1>1, <1>2, KindsOfNumbers DEF LoweredAs
<1> QED BY <1>3, <1>4, <1>5

LEMMA ListLowered ==
  ASSUME NEW T, Lowers(T), NEW type, List(type) \in T, ~HasNull(List(type))
  PROVE  LlvmType(List(type)) = Pointer(LlvmType(type))
<1>1. LoweredAs(List(type))
  BY DEF Lowers
<1>2. List(type).name = "list" /\ List(type).args = <<type>>
  BY DEF List, Type
<1>3. List(type) # Real /\ List(type) # Integer /\ List(type) # Boolean
  BY <1>2, KindsAreApart
<1> DEFINE parts == [i \in 1 .. Len(List(type).args) |-> LlvmType(List(type).args[i])]
<1>4. LlvmType(List(type)) = Pointer(parts[1])
  BY <1>1, <1>2, <1>3 DEF LoweredAs
<1>5. parts[1] = LlvmType(type)
  BY <1>2
<1> QED BY <1>4, <1>5

LEMMA FunctionLowered ==
  ASSUME NEW T, Lowers(T), NEW s, Len(s.args) \in Nat, TypeOf(s) \in T, ~HasNull(TypeOf(s))
  PROVE  LlvmType(TypeOf(s)) = Pointer(CodeType(s))
<1> DEFINE type == TypeOf(s)
           given == [k \in 1 .. Len(s.args) |-> s.args[k].type]
           parts == [i \in 1 .. Len(type.args) |-> LlvmType(type.args[i])]
           rest == [i \in 1 .. Len(parts) - 1 |-> parts[i + 1]]
<1>1. LoweredAs(type)
  BY DEF Lowers
<1>2. type.name = "fun" /\ type.args = <<s.ret>> \o given
  BY DEF TypeOf, Function, Type
<1>3. type # Real /\ type # Integer /\ type # Boolean
  BY <1>2, KindsAreApart
<1>4. LlvmType(type) = Pointer(FunctionType(parts[1], rest))
  <2> HIDE DEF type
  <2> QED BY <1>1, <1>2, <1>3 DEF LoweredAs
<1>5. SeqLike(given) /\ Len(given) = Len(s.args) /\ \A k \in 1 .. Len(s.args) : given[k] = s.args[k].type
  BY DEF SeqLike
<1> HIDE DEF given, type
<1>6. /\ Len(type.args) = Len(s.args) + 1 /\ type.args[1] = s.ret
      /\ \A i \in 2 .. Len(s.args) + 1 : type.args[i] = given[i - 1]
  BY <1>2, <1>5, Prefixed
<1>7. Len(parts) = Len(s.args) + 1 /\ parts[1] = LlvmType(s.ret)
  BY <1>6
<1>8. ASSUME NEW k \in 1 .. Len(s.args) PROVE parts[k + 1] = LlvmType(s.args[k].type)
  <2>1. k + 1 \in 2 .. Len(s.args) + 1 /\ k + 1 \in 1 .. Len(type.args) /\ (k + 1) - 1 = k
    BY <1>6
  <2> QED BY <1>5, <1>6, <2>1
<1> HIDE DEF parts
<1>9. rest = [k \in 1 .. Len(s.args) |-> LlvmType(s.args[k].type)]
  <2>1. Len(parts) - 1 = Len(s.args)
    BY <1>7
  <2> QED BY <1>8, <2>1
<1> QED BY <1>4, <1>7, <1>9 DEF CodeType, type

\* What a function returns and takes, as a type and as code.
LEMMA SignatureParts ==
  ASSUME NEW s, Len(s.args) \in Nat
  PROVE  /\ TypeOf(s).name = "fun" /\ TypeOf(s).args[1] = s.ret
         /\ CodeType(s).args[1] = LlvmType(s.ret)
         /\ \A k \in 1 .. Len(s.args) : CodeType(s).args[k + 1] = LlvmType(s.args[k].type)
<1> DEFINE given == [k \in 1 .. Len(s.args) |-> s.args[k].type]
           code == [k \in 1 .. Len(s.args) |-> LlvmType(s.args[k].type)]
<1>1. TypeOf(s).name = "fun" /\ TypeOf(s).args = <<s.ret>> \o given
  BY DEF TypeOf, Function, Type
<1>2. CodeType(s).args = <<LlvmType(s.ret)>> \o code
  BY DEF CodeType, FunctionType, Ty
<1>3. SeqLike(given) /\ Len(given) = Len(s.args) /\ SeqLike(code) /\ Len(code) = Len(s.args)
  BY DEF SeqLike
<1>4. \A k \in 1 .. Len(s.args) : code[k] = LlvmType(s.args[k].type)
  OBVIOUS
<1> HIDE DEF given, code
<1>5. TypeOf(s).args[1] = s.ret
  BY <1>1, <1>3, Prefixed
<1>6. /\ CodeType(s).args[1] = LlvmType(s.ret)
      /\ \A i \in 2 .. Len(s.args) + 1 : CodeType(s).args[i] = code[i - 1]
  BY <1>2, <1>3, Prefixed
<1>7. ASSUME NEW k \in 1 .. Len(s.args) PROVE CodeType(s).args[k + 1] = LlvmType(s.args[k].type)
  <2>1. k + 1 \in 2 .. Len(s.args) + 1 /\ (k + 1) - 1 = k
    OBVIOUS
  <2> QED BY <1>4, <1>6, <2>1
<1> QED BY <1>1, <1>5, <1>6, <1>7

-----------------------------------------------------------------------------
(* What a step leaves of the functions there are: a function's name, type  *)
(* and parameters never change.                                            *)

SameHead(f, g) == g.name = f.name /\ g.type = f.type /\ g.params = f.params
HeadsKept ==
  /\ Len(mod) \in Nat /\ Len(mod') \in Nat /\ Len(mod') >= Len(mod)
  /\ \A n \in 1 .. Len(mod) : SameHead(mod[n], mod'[n])
  /\ \A n \in 1 .. Len(mod') : n > Len(mod) => mod'[n].name = "malloc"

LEMMA SameHeads ==
  ASSUME GenInv, mod' = mod PROVE HeadsKept
<1>1. Len(mod) \in Nat
  BY DEF GenInv, ModuleInv, SeqLike
<1>2. \A n \in 1 .. Len(mod) : ~(n > Len(mod))
  BY <1>1
<1> QED BY <1>1, <1>2 DEF HeadsKept, SameHead

LEMMA EditedHeads ==
  ASSUME GenInv, Open, NEW functions, Extends(functions),
         \A n \in 1 .. Len(functions) : n > Len(mod) => functions[n].name = "malloc",
         NEW g, SameHead(mod[fun], g), mod' = Replaced(functions, fun, g)
  PROVE  HeadsKept
<1>1. Len(mod) \in Nat /\ fun \in 1 .. Len(mod)
  BY DEF GenInv, ModuleInv, OpenInv, SeqLike
<1>2. /\ SeqLike(functions) /\ Len(functions) >= Len(mod) /\ Len(functions) \in Nat
      /\ \A n \in 1 .. Len(mod) : functions[n] = mod[n]
  BY DEF Extends, SeqLike
<1>3. fun \in 1 .. Len(functions)
  BY <1>1, <1>2
<1>4. /\ Len(mod') = Len(functions) /\ mod'[fun] = g
      /\ \A n \in 1 .. Len(functions) : n # fun => mod'[n] = functions[n]
  BY <1>2, <1>3, Updated
<1>5. ASSUME NEW n \in 1 .. Len(mod) PROVE SameHead(mod[n], mod'[n])
  <2>1. CASE n = fun
    BY <1>4, <2>1
  <2>2. CASE n # fun
    <3>1. n \in 1 .. Len(functions)
      BY <1>1, <1>2
    <3> QED BY <1>2, <1>4, <2>2, <3>1 DEF SameHead
  <2> QED BY <2>1, <2>2
<1>6. ASSUME NEW n \in 1 .. Len(mod'), n > Len(mod) PROVE mod'[n].name = "malloc"
  <2>1. n # fun /\ n \in 1 .. Len(functions)
    BY <1>1, <1>4, <1>6
  <2> QED BY <1>4, <1>6, <2>1
<1> QED BY <1>1, <1>2, <1>4, <1>5, <1>6 DEF HeadsKept

LEMMA GrownHead ==
  ASSUME NEW f, NEW blocks, NEW listed PROVE SameHead(f, Grown(f, blocks, listed))
BY DEF SameHead, Grown

\* The function being generated is a function.
LEMMA FunIsFunction ==
  ASSUME GenInv, Open
  PROVE  fun \in 1 .. Len(mod) /\ IsFunction(mod[fun]) /\ SeqLike(mod) /\ point \in Blocks(mod[fun])
<1>1. fun \in 1 .. Len(mod) /\ SeqLike(mod)
  BY DEF GenInv, OpenInv, ModuleInv
<1>2. PICK s : Opened(mod[fun], fun, point, frames, s)
  BY <1>1 DEF GenInv, ModuleInv
<1>3. SeqLike(frames)
  BY DEF GenInv, FramesInv
<1> QED BY <1>1, <1>2, <1>3, OpenedFacts

InsertedTo(fs, n, p, codes) == [fs EXCEPT ![n].blocks[p] = @ \o codes]

LEMMA InsertedIs ==
  ASSUME NEW fs, NEW n \in 1 .. Len(fs), IsFunction(fs[n]), NEW p, NEW codes
  PROVE  InsertedTo(fs, n, p, codes) =
           Replaced(fs, n, Grown(fs[n], WithCode(fs[n], p, codes), fs[n].listed))
BY Inserted DEF InsertedTo

LEMMA InsertedHeads ==
  ASSUME GenInv, Open, NEW functions, Extends(functions),
         \A n \in 1 .. Len(functions) : n > Len(mod) => functions[n].name = "malloc",
         NEW codes, mod' = [functions EXCEPT ![fun].blocks[point] = @ \o codes]
  PROVE  HeadsKept
<1>1. fun \in 1 .. Len(mod) /\ IsFunction(mod[fun])
  BY FunIsFunction
<1>2. functions[fun] = mod[fun] /\ fun \in 1 .. Len(functions)
  <2>1. Len(mod) \in Nat /\ Len(functions) \in Nat /\ Len(functions) >= Len(mod)
    BY DEF GenInv, ModuleInv, Extends, SeqLike
  <2> QED BY <1>1, <2>1 DEF Extends
<1> DEFINE g == Grown(mod[fun], WithCode(mod[fun], point, codes), mod[fun].listed)
<1>3. mod' = Replaced(functions, fun, g)
  <2>1. IsFunction(functions[fun]) /\ fun \in 1 .. Len(functions)
    BY <1>1, <1>2
  <2>2. mod' = InsertedTo(functions, fun, point, codes)
    BY DEF InsertedTo
  <2>3. InsertedTo(functions, fun, point, codes) =
          Replaced(functions, fun,
                   Grown(functions[fun], WithCode(functions[fun], point, codes), functions[fun].listed))
    BY <2>1, InsertedIs
  <2>4. functions[fun] = mod[fun]
    BY <1>2
  <2> QED BY <2>2, <2>3, <2>4
<1>4. SameHead(mod[fun], g)
  BY GrownHead
<1> HIDE DEF g
<1> QED BY <1>3, <1>4, EditedHeads

LEMMA NoNewFunction ==
  ASSUME GenInv PROVE Extends(mod) /\ \A n \in 1 .. Len(mod) : n > Len(mod) => mod[n].name = "malloc"
<1>1. Len(mod) \in Nat
  BY DEF GenInv, ModuleInv, SeqLike
<1> QED BY <1>1, SameExtends

LEMMA ProducedHeads ==
  ASSUME GenInv, Open, NEW op, NEW type, NEW args, Produce(op, type, args)
  PROVE  HeadsKept
<1> DEFINE codes == <<Instruction(op, type, args, <<>>, 0)>>
<1>1. mod' = [mod EXCEPT ![fun].blocks[point] = @ \o codes]
  BY DEF Produce, Insert
<1> HIDE DEF codes
<1> QED BY <1>1, NoNewFunction, InsertedHeads

LEMMA MallocIsNew ==
  ASSUME GenInv
  PROVE  \A n \in 1 .. Len(WithMalloc(mod)) : n > Len(mod) => WithMalloc(mod)[n].name = "malloc"
<1> DEFINE d == Declaration("malloc", FunctionType(Pointer(Int8), <<Int64>>), <<"">>)
<1>1. SeqLike(mod) /\ Len(mod) \in Nat
  BY DEF GenInv, ModuleInv, SeqLike
<1>2. WithMalloc(mod) = mod \/ WithMalloc(mod) = Append(mod, d)
  BY DEF WithMalloc
<1>3. d.name = "malloc"
  BY DEF Declaration
<1> HIDE DEF d
<1>4. Len(Append(mod, d)) = Len(mod) + 1 /\ Append(mod, d)[Len(mod) + 1] = d
  BY <1>1, Appended
<1>5. \A n \in 1 .. Len(mod) : ~(n > Len(mod))
  BY <1>1
<1>6. \A n \in 1 .. Len(mod) + 1 : n > Len(mod) => n = Len(mod) + 1
  BY <1>1
<1> QED BY <1>2, <1>3, <1>4, <1>5, <1>6

LEMMA VarHeads ==
  ASSUME GenInv, GenVar PROVE HeadsKept
<1>1. gen = "visit" /\ Open
  BY VisitingFacts DEF GenVar
<1>2. mod' = mod \/ \E codes : mod' = [mod EXCEPT ![fun].blocks[point] = @ \o codes]
  BY DEF GenVar, Insert, Failed, Halt, translation
<1> QED BY <1>1, <1>2, NoNewFunction, InsertedHeads, SameHeads

LEMMA ListHeads ==
  ASSUME GenInv, FinishList PROVE HeadsKept
<1>1. Open
  BY DEF FinishList, Building, GenInv, PhaseInv, Open
<1>2. mod' = mod \/ \E codes : mod' = [WithMalloc(mod) EXCEPT ![fun].blocks[point] = @ \o codes]
  BY DEF FinishList, AssertionFails, Failed, Halt, translation
<1> QED BY <1>1, <1>2, MallocExtends, MallocIsNew, InsertedHeads, SameHeads

LEMMA ConditionHeads ==
  ASSUME GenInv, IfCondition PROVE HeadsKept
<1>1. Open
  BY DEF IfCondition, Got, Open
<1>2. fun \in 1 .. Len(mod) /\ IsFunction(mod[fun]) /\ SeqLike(mod)
  BY <1>1, FunIsFunction
<1>3. PICK B, e : mod' = ConditionTo(mod, fun, B, e)
  BY DEF ConditionTo, IfCondition
<1>4. mod' = Replaced(mod, fun, Grown(mod[fun], B, mod[fun].listed \cup {e}))
  BY <1>2, <1>3, ConditionIs
<1>5. SameHead(mod[fun], Grown(mod[fun], B, mod[fun].listed \cup {e}))
  BY GrownHead
<1> QED BY <1>1, <1>4, <1>5, NoNewFunction, EditedHeads

LEMMA BranchHeads ==
  ASSUME GenInv, IfThen PROVE HeadsKept
<1>1. Open
  BY DEF IfThen, Got, Open
<1>2. fun \in 1 .. Len(mod) /\ IsFunction(mod[fun]) /\ SeqLike(mod) /\ point \in Blocks(mod[fun])
  BY <1>1, FunIsFunction
<1>3. PICK m, e : mod' = BranchedTo(mod, fun, point, m, e)
  BY DEF BranchedTo, IfThen, EndBranch
<1>4. mod' = Replaced(mod, fun, ThenPut(mod[fun], point, m, e))
  BY <1>2, <1>3, BranchIs
<1>5. SameHead(mod[fun], ThenPut(mod[fun], point, m, e))
  BY GrownHead DEF ThenPut
<1> QED BY <1>1, <1>4, <1>5, NoNewFunction, EditedHeads

LEMMA MergeHeads ==
  ASSUME GenInv, IfElse PROVE HeadsKept
<1>1. Open
  BY DEF IfElse, Got, Open
<1>2. fun \in 1 .. Len(mod) /\ IsFunction(mod[fun]) /\ SeqLike(mod) /\ point \in Blocks(mod[fun])
  BY <1>1, FunIsFunction
<1>3. PICK m, phi : mod' = MergedTo(mod, fun, point, m, phi)
  BY DEF MergedTo, IfElse
<1>4. mod' = Replaced(mod, fun, ElsePut(mod[fun], point, m, phi))
  BY <1>2, <1>3, MergeIs
<1>5. SameHead(mod[fun], ElsePut(mod[fun], point, m, phi))
  BY GrownHead DEF ElsePut
<1> QED BY <1>1, <1>4, <1>5, NoNewFunction, EditedHeads

LEMMA FinishHeads ==
  ASSUME GenInv, FinishFunction PROVE HeadsKept
<1> DEFINE g == WithReturn(mod[fun], point, value)
           h == SimplifiedTo(g)
           done == DoneTo(mod, fun, point, value)
<1>1. Open
  BY DEF FinishFunction, Open
<1>2. fun \in 1 .. Len(mod) /\ IsFunction(mod[fun]) /\ SeqLike(mod) /\ point \in Blocks(mod[fun])
  BY <1>1, FunIsFunction
<1>3. mod' = done \/ mod' = SimplifiedIn(done, fun)
  BY DEF FinishFunction, DoneTo, SimplifiedIn
<1>4. done = Replaced(mod, fun, g)
  BY <1>2, DoneIs
<1>5. SameHead(mod[fun], g) /\ SameHead(g, h)
  BY GrownHead DEF WithReturn, SimplifiedTo
<1>6. IsFunction(g)
  <2>1. PICK s : Opened(mod[fun], fun, point, <<>>, s)
    BY <1>1, <1>2 DEF FinishFunction, GenInv, ModuleInv
  <2>2. Computed(mod[fun], fun, value, {point})
    BY <1>1 DEF GenInv, OpenInv, FinishFunction
  <2>3. /\ g = Grown(mod[fun], WithCode(mod[fun], point, ReturnCode(value)), mod[fun].listed)
        /\ h = SimplifiedTo(g)
    BY DEF WithReturn
  <2> HIDE DEF g, h
  <2>4. Sound(g, fun)
    BY <1>2, <2>1, <2>2, <2>3, FinishEdit
  <2> QED BY <2>4 DEF Sound
<1> HIDE DEF g, done
<1>7. SimplifiedIn(done, fun) = Replaced(mod, fun, h)
  <2>1. fun \in 1 .. Len(done) /\ done[fun] = g
    BY <1>2, <1>4, Updated
  <2>2. SimplifiedIn(done, fun) = Replaced(done, fun, h)
    BY <1>6, <2>1, SimplifiedIs
  <2> HIDE DEF h
  <2> QED BY <1>2, <1>4, <2>2, ReplacedAgain
<1>8. SameHead(mod[fun], h)
  BY <1>5 DEF SameHead
<1> HIDE DEF h
<1> QED BY <1>1, <1>3, <1>4, <1>5, <1>7, <1>8, NoNewFunction, EditedHeads

\* Every step inside a function, and at its end.
Inside ==
  \/ GenLiteral \/ GenFunctionName \/ GenVar \/ GenKid \/ GenValue \/ StartList \/ FinishList
  \/ GenBinary \/ GenCall \/ FinishCall \/ FinishOperator
  \/ IfCondition \/ IfThen \/ IfElse \/ IfTooShort

LEMMA StartedSame ==
  ASSUME (\E entry : StartBuiltin(entry)) \/ AssertionFails(Failed) \/ (\E how : Halt(how))
           \/ (\E name : FindCallee(name))
  PROVE  mod' = mod
BY DEF StartBuiltin, AssertionFails, Failed, Halt, FindCallee, StartCall, translation

LEMMA InsideHeads ==
  ASSUME GenInv, Inside PROVE HeadsKept
<1>1. CASE GenLiteral \/ GenFunctionName \/ GenKid \/ GenValue \/ StartList \/ IfTooShort
  <2>1. mod' = mod
    BY <1>1 DEF GenLiteral, GenFunctionName, GenKid, GenValue, StartList, IfTooShort, Halt, translation
  <2> QED BY <2>1, SameHeads
<1>2. CASE GenBinary \/ GenCall
  <2>1. CASE GenBinary
    <3>1. PICK outcome \in getBuiltin(Node(Top.node).name, OperandTypes) :
            CASE outcome.kind = "found"   -> StartBuiltin(outcome.entry)
              [] outcome.kind = "missing" -> AssertionFails(Failed)
              [] outcome.kind = "crash"   -> Halt("crashed")
      BY <2>1 DEF GenBinary
    <3>2. outcome.kind \in {"found", "missing", "crash"}
      BY <3>1, LookupEnds
    <3>3. StartBuiltin(outcome.entry) \/ AssertionFails(Failed) \/ Halt("crashed")
      BY <3>1, <3>2
    <3> QED BY <3>3, StartedSame, SameHeads
  <2>2. CASE GenCall
    <3>1. (\E entry : StartBuiltin(entry)) \/ FindCallee(Node(Top.node).name) \/ Halt("crashed")
      BY <2>2 DEF GenCall
    <3> QED BY <3>1, StartedSame, SameHeads
  <2> QED BY <1>2, <2>1, <2>2
<1>3. CASE FinishCall \/ FinishOperator
  <2>1. Open
    BY <1>3 DEF FinishCall, FinishOperator, Building, GenInv, PhaseInv, Open
  <2>2. mod' = mod \/ \E op, type, args : Produce(op, type, args)
    BY <1>3 DEF FinishCall, FinishOperator, Halt, translation
  <2> QED BY <2>1, <2>2, ProducedHeads, SameHeads
<1> QED BY <1>1, <1>2, <1>3, VarHeads, ListHeads, ConditionHeads, BranchHeads, MergeHeads DEF Inside

-----------------------------------------------------------------------------
(* Names keep their meaning.                                               *)

LEMMA NamedKept ==
  ASSUME HeadsKept, NEW x
  PROVE  /\ FunctionsNamed(x) \subseteq FunctionsNamed(x)'
         /\ x # "malloc" => FunctionsNamed(x)' = FunctionsNamed(x)
<1>1. ASSUME NEW f \in FunctionsNamed(x) PROVE f \in FunctionsNamed(x)'
  BY DEF FunctionsNamed, HeadsKept, SameHead
<1>2. ASSUME NEW f \in FunctionsNamed(x)', x # "malloc" PROVE f \in FunctionsNamed(x)
  <2>1. f \in 1 .. Len(mod') /\ mod'[f].name = x
    BY DEF FunctionsNamed
  <2>2. f \in 1 .. Len(mod)
    BY <1>2, <2>1 DEF HeadsKept
  <2> QED BY <2>1, <2>2 DEF FunctionsNamed, HeadsKept, SameHead
<1> QED BY <1>1, <1>2

LEMMA MeansKept ==
  ASSUME UNCHANGED inputs, NEW f \in 1 .. Len(mod), SameHead(mod[f], mod'[f]), FunctionMeans(f),
         \A u \in 1 .. Declared : u \in 1 .. Declared'
  PROVE  FunctionMeans(f)'
<1>1. PICK u \in 1 .. Declared :
        /\ FirstNamed(u) /\ UnitName(u) = mod[f].name
        /\ mod[f].type = CodeType(Signature(u)) /\ mod[f].params = ArgumentNames(Signature(u).args)
  BY DEF FunctionMeans
<1>2. u \in 1 .. Declared'
  OBVIOUS
<1>3. FirstNamed(u)' /\ UnitName(u)' = UnitName(u) /\ Signature(u)' = Signature(u)
  BY <1>1 DEF FirstNamed, Before, UnitName, Signature, inputs
<1>4. mod'[f].name = mod[f].name /\ mod'[f].type = mod[f].type /\ mod'[f].params = mod[f].params
  BY DEF SameHead
<1>5. /\ FirstNamed(u)' /\ UnitName(u)' = mod'[f].name /\ mod'[f].type = CodeType(Signature(u)')
      /\ mod'[f].params = ArgumentNames(Signature(u)'.args)
  BY <1>1, <1>3, <1>4
<1> QED BY <1>2, <1>5, Zenon DEF FunctionMeans

LEMMA ModuleStays ==
  ASSUME HeadsKept, UNCHANGED inputs, Declared' = Declared, ModuleMeans
  PROVE  ModuleMeans'
<1>1. ASSUME NEW f \in 1 .. Len(mod'), mod'[f].name \notin {"", "malloc"} PROVE FunctionMeans(f)'
  <2>1. f \in 1 .. Len(mod)
    <3>1. Len(mod) \in Nat /\ Len(mod') \in Nat /\ (f > Len(mod) => mod'[f].name = "malloc")
      BY DEF HeadsKept
    <3>2. mod'[f].name # "malloc"
      BY <1>1
    <3> QED BY <3>1, <3>2
  <2>2. mod'[f].name = mod[f].name
    BY <2>1, Zenon DEF HeadsKept, SameHead
  <2>3. FunctionMeans(f)
    BY <1>1, <2>1, <2>2 DEF ModuleMeans
  <2>4. SameHead(mod[f], mod'[f])
    BY <2>1 DEF HeadsKept
  <2> QED BY <2>1, <2>3, <2>4, MeansKept
<1>2. ASSUME NEW u \in 1 .. Declared' PROVE FunctionsNamed(UnitName(u))' # {}
  <2>1. PICK x : x = UnitName(u)
    OBVIOUS
  <2>2. FunctionsNamed(x) # {}
    BY <2>1 DEF ModuleMeans
  <2>3. FunctionsNamed(x)' # {}
    BY <2>2, NamedKept
  <2>4. UnitName(u)' = x
    BY <2>1 DEF UnitName, inputs
  <2> QED BY <2>3, <2>4 DEF FunctionsNamed
<1> QED BY <1>1, <1>2 DEF ModuleMeans

LEMMA NamesStay ==
  ASSUME HeadsKept, UNCHANGED inputs, at' = at, named' = named, NamesMean,
         \A x \in DOMAIN Unit.variables : x # "malloc"
  PROVE  NamesMean'
<1>1. Unit' = Unit
  BY DEF Unit, inputs
<1> SUFFICES ASSUME NEW x \in DOMAIN Unit.variables
             PROVE  /\ \A f \in FunctionsNamed(x)' : \E u \in 1 .. Len(analyzed') :
                         Unit'.variables[x] = TypeOf(Signature(u)') /\ mod'[f].type = CodeType(Signature(u)')
                    /\ x \in DOMAIN named' /\ FunctionsNamed(x)' = {}
                         => named'[x].type = LlvmType(Unit'.variables[x])
  BY <1>1, Zenon DEF NamesMean
<1>2. FunctionsNamed(x)' = FunctionsNamed(x)
  BY NamedKept
<1>3. ASSUME NEW f \in FunctionsNamed(x)
      PROVE  \E u \in 1 .. Len(analyzed') :
               Unit'.variables[x] = TypeOf(Signature(u)') /\ mod'[f].type = CodeType(Signature(u)')
  <2>1. PICK u \in 1 .. Len(analyzed) :
          Unit.variables[x] = TypeOf(Signature(u)) /\ mod[f].type = CodeType(Signature(u))
    BY DEF NamesMean
  <2>2. mod'[f].type = mod[f].type
    BY DEF FunctionsNamed, HeadsKept, SameHead
  <2>3. u \in 1 .. Len(analyzed') /\ Signature(u)' = Signature(u)
    BY DEF inputs, Signature
  <2> QED BY <1>1, <2>1, <2>2, <2>3
<1>4. x \in DOMAIN named /\ FunctionsNamed(x) = {} => named[x].type = LlvmType(Unit.variables[x])
  BY DEF NamesMean
<1> QED BY <1>1, <1>2, <1>3, <1>4

\* No name in scope is in the way of malloc.
LEMMA ScopeNames ==
  ASSUME NEW T, Ready(T), NEW u \in 1 .. Len(analyzed), program.units[u].kind = "def",
         NEW x \in DOMAIN analyzed[u].variables
  PROVE  x \notin {"", "malloc"}
<1>1. FunctionChecked(T, u)
  BY DEF Ready, Checked
<1>2. \A v \in 1 .. Len(analyzed) : UnitName(v) \notin {"", "malloc"}
  BY DEF Ready, Clear
<1>3. \A k \in 1 .. Len(Signature(u).args) : Signature(u).args[k].name \notin {"", "malloc"}
  BY DEF Ready, Clear
<1>4. u \in Nat /\ Len(analyzed) \in Nat
  BY DEF Ready, Checked
<1>5. \A v \in 1 .. u - 1 : v \in 1 .. Len(analyzed)
  BY <1>4
<1> QED BY <1>1, <1>2, <1>3, <1>5 DEF FunctionChecked, MeansUnit, MeansParameter, MeansItself

-----------------------------------------------------------------------------
(* The calls on the stack.                                                 *)

\* An operator of the state before a step, applied to the calls after it.
LEMMA SameCalls ==
  ASSUME UNCHANGED inputs, at' = at, CallsHold(frames')
  PROVE  CallsHold(frames)'
<1>1. Unit' = Unit /\ program' = program
  BY DEF Unit, inputs
<1>2. \A n, v : HasType(n, v) => HasType(n, v)'
  BY <1>1 DEF HasType, expressionType
<1>3. Chained(frames)'
  BY <1>1 DEF CallsHold, Chained, Node
<1>4. ASSUME NEW i \in 1 .. Len(frames') PROVE FrameHolds(frames[i])'
  BY <1>1, <1>2 DEF CallsHold, FrameHolds, BuiltBy, Node, KidTypes, expressionType
<1> QED BY <1>3, <1>4 DEF CallsHold

\* A call goes on with its frame changed.
LEMMA CallsBecome ==
  ASSUME GenInv, frames # <<>>, CallsHold(frames), NEW fr, fr.node = Top.node, FrameHolds(fr)
  PROVE  CallsHold(<<fr>> \o Tail(frames))
<1> DEFINE s == <<fr>> \o Tail(frames)
<1>1. /\ Len(s) = Len(frames) /\ s[1] = fr /\ Top = frames[1] /\ Len(frames) \in Nat
      /\ \A i \in 2 .. Len(frames) : s[i] = frames[i]
  <2>1. /\ SeqLike(Tail(frames)) /\ Len(Tail(frames)) = Len(frames) - 1 /\ Top = frames[1]
        /\ \A i \in 1 .. Len(frames) - 1 : Tail(frames)[i] = frames[i + 1]
        /\ Len(frames) \in Nat
    BY StackFacts
  <2>2. /\ Len(s) = Len(Tail(frames)) + 1 /\ s[1] = fr
        /\ \A i \in 2 .. Len(Tail(frames)) + 1 : s[i] = Tail(frames)[i - 1]
    BY <2>1, Prefixed
  <2> HIDE DEF s
  <2>3. ASSUME NEW i \in 2 .. Len(frames) PROVE Tail(frames)[i - 1] = frames[i]
    <3>1. i - 1 \in 1 .. Len(frames) - 1 /\ (i - 1) + 1 = i
      BY <2>1
    <3> QED BY <2>1, <3>1
  <2> QED BY <2>1, <2>2, <2>3
<1> HIDE DEF s
<1>2. ASSUME NEW i \in 1 .. Len(s) PROVE s[i].node = frames[i].node /\ FrameHolds(s[i])
  <2>1. CASE i = 1
    BY <1>1, <2>1
  <2>2. CASE i # 1
    <3>1. i \in 2 .. Len(frames) /\ i \in 1 .. Len(frames)
      BY <1>1, <2>2
    <3> QED BY <1>1, <3>1 DEF CallsHold
  <2> QED BY <2>1, <2>2
<1>3. ASSUME NEW i \in 1 .. Len(s)
      PROVE  s[i].node = IF i = Len(s) THEN program.units[Unit.unit].body
                         ELSE Node(s[i + 1].node).kids[Len(s[i + 1].values) + 1]
  <2>1. i # Len(s) => s[i + 1] = frames[i + 1]
    <3>1. i # Len(s) => i + 1 \in 2 .. Len(frames)
      BY <1>1
    <3> QED BY <1>1, <3>1
  <2>2. i \in 1 .. Len(frames)
    BY <1>1
  <2>3. frames[i].node = IF i = Len(frames) THEN program.units[Unit.unit].body
                         ELSE Node(frames[i + 1].node).kids[Len(frames[i + 1].values) + 1]
    BY <2>2 DEF CallsHold, Chained
  <2> QED BY <1>1, <1>2, <2>1, <2>3
<1>4. CallsHold(s)
  BY <1>2, <1>3 DEF CallsHold, Chained
<1> QED BY <1>4 DEF s

\* It returns to the call that waits for it.
LEMMA CallsYield ==
  ASSUME GenInv, frames # <<>>, CallsHold(frames)
  PROVE  CallsHold(Tail(frames)) /\ Awaited(Tail(frames)) = Top.node
<1> DEFINE s == Tail(frames)
<1>1. /\ SeqLike(s) /\ Len(s) = Len(frames) - 1 /\ Top = frames[1]
      /\ \A i \in 1 .. Len(frames) - 1 : s[i] = frames[i + 1]
      /\ Len(frames) \in Nat /\ Len(frames) >= 1
  BY StackFacts
<1> HIDE DEF s
<1>2. ASSUME NEW i \in 1 .. Len(frames)
      PROVE  frames[i].node = IF i = Len(frames) THEN program.units[Unit.unit].body
                              ELSE Node(frames[i + 1].node).kids[Len(frames[i + 1].values) + 1]
  BY DEF CallsHold, Chained
<1>3. ASSUME NEW i \in 1 .. Len(s)
      PROVE  /\ s[i].node = IF i = Len(s) THEN program.units[Unit.unit].body
                            ELSE Node(s[i + 1].node).kids[Len(s[i + 1].values) + 1]
             /\ FrameHolds(s[i])
  <2>1. i + 1 \in 1 .. Len(frames) /\ i \in 1 .. Len(frames) - 1 /\ (i + 1 = Len(frames) <=> i = Len(s))
    BY <1>1
  <2>2. i # Len(s) => s[i + 1] = frames[(i + 1) + 1]
    <3>1. i # Len(s) => i + 1 \in 1 .. Len(frames) - 1
      BY <1>1
    <3> QED BY <1>1, <3>1
  <2>3. s[i] = frames[i + 1]
    BY <1>1, <2>1
  <2>4. FrameHolds(frames[i + 1])
    BY <2>1 DEF CallsHold
  <2> QED BY <1>2, <2>1, <2>2, <2>3, <2>4
<1>4. CallsHold(s)
  BY <1>3 DEF CallsHold, Chained
<1>5. Awaited(s) = Top.node
  <2>1. 1 \in 1 .. Len(frames)
    BY <1>1
  <2>2. CASE s = <<>>
    <3>1. Len(frames) = 1
      BY <1>1, <2>2
    <3> QED BY <1>1, <1>2, <2>1, <2>2, <3>1 DEF Awaited
  <2>3. CASE s # <<>>
    <3>1. Head(s) = s[1] /\ Len(s) >= 1
      BY <1>1, <2>3, Tails
    <3>2. Head(s) = frames[1 + 1] /\ 1 # Len(frames)
      BY <1>1, <3>1
    <3> QED BY <1>1, <1>2, <2>1, <2>3, <3>2 DEF Awaited
  <2> QED BY <2>2, <2>3
<1> QED BY <1>4, <1>5 DEF s

\* A call begins in front of one that waits for it.
LEMMA CallsKid ==
  ASSUME GenInv, frames # <<>>, CallsHold(frames), NEW fr,
         fr.node = Kids[Len(Top.values) + 1], FrameHolds(fr)
  PROVE  CallsHold(<<fr>> \o frames)
<1> DEFINE s == <<fr>> \o frames
<1>1. SeqLike(frames) /\ Len(frames) \in Nat /\ Len(frames) >= 1 /\ Top = frames[1]
  BY StackFacts
<1>2. /\ Len(s) = Len(frames) + 1 /\ s[1] = fr
      /\ \A i \in 2 .. Len(frames) + 1 : s[i] = frames[i - 1]
  BY <1>1, Prefixed
<1> HIDE DEF s
<1>3. ASSUME NEW i \in 1 .. Len(frames)
      PROVE  frames[i].node = IF i = Len(frames) THEN program.units[Unit.unit].body
                              ELSE Node(frames[i + 1].node).kids[Len(frames[i + 1].values) + 1]
  BY DEF CallsHold, Chained
<1>4. ASSUME NEW i \in 1 .. Len(s)
      PROVE  /\ s[i].node = IF i = Len(s) THEN program.units[Unit.unit].body
                            ELSE Node(s[i + 1].node).kids[Len(s[i + 1].values) + 1]
             /\ FrameHolds(s[i])
  <2>1. CASE i = 1
    <3>1. s[1 + 1] = Top /\ 1 # Len(s)
      BY <1>1, <1>2
    <3> QED BY <1>1, <1>2, <2>1, <3>1 DEF Kids
  <2>2. CASE i # 1
    <3>1. i - 1 \in 1 .. Len(frames) /\ i \in 2 .. Len(frames) + 1 /\ (i - 1 = Len(frames) <=> i = Len(s))
          /\ (i - 1) + 1 = i
      BY <1>1, <1>2, <2>2
    <3>2. i # Len(s) => s[i + 1] = frames[i]
      <4>1. i # Len(s) => i + 1 \in 2 .. Len(frames) + 1 /\ (i + 1) - 1 = i
        BY <1>1, <1>2
      <4> QED BY <1>2, <4>1
    <3>3. s[i] = frames[i - 1]
      BY <1>2, <3>1
    <3>4. FrameHolds(frames[i - 1])
      BY <3>1 DEF CallsHold
    <3>5. frames[i - 1].node = IF i - 1 = Len(frames) THEN program.units[Unit.unit].body
                              ELSE Node(frames[(i - 1) + 1].node).kids[Len(frames[(i - 1) + 1].values) + 1]
      BY <1>3, <3>1
    <3> QED BY <3>1, <3>2, <3>3, <3>4, <3>5
  <2> QED BY <2>1, <2>2
<1>5. CallsHold(s)
  BY <1>4 DEF CallsHold, Chained
<1> QED BY <1>5 DEF s

-----------------------------------------------------------------------------
(* Steps inside a function.                                                *)

\* The function being generated, and the expressions of it.
LEMMA Setting ==
  ASSUME NEW T, Ready(T), ValueInv, gen \in {"visit", "return"}
  PROVE  /\ at \in 1 .. Len(analyzed) /\ Unit.unit = at /\ program.units[at].kind = "def"
         /\ NamesMean /\ CallsHold(frames) /\ ModuleMeans /\ FunctionChecked(T, at)
<1>1. ModuleMeans /\ InFunction
  BY DEF ValueInv
<1> QED BY <1>1 DEF InFunction, Ready, Checked, Unit

LEMMA NodeFacts ==
  ASSUME NEW T, Ready(T), ValueInv, gen \in {"visit", "return"}, NEW n \in DOMAIN Unit.expressions
  PROVE  /\ NodeTyped(n, Unit.expressions, Unit.variables) /\ expressionType(n) \in T
         /\ Len(Node(n).kids) \in Nat
         /\ \A k \in 1 .. Len(Node(n).kids) : Node(n).kids[k] \in DOMAIN Unit.expressions
<1>1. FunctionChecked(T, at)
  BY Setting
<1> QED BY <1>1 DEF FunctionChecked, Unit, expressionType

LEMMA TopHolds ==
  ASSUME GenInv, frames # <<>>, CallsHold(frames)
  PROVE  FrameHolds(Top)
<1>1. 1 \in 1 .. Len(frames) /\ Top = frames[1]
  BY StackFacts
<1> QED BY <1>1 DEF CallsHold

\* The types of the operands.
LEMMA KidTypesFacts ==
  ASSUME NEW T, Ready(T), ValueInv, gen \in {"visit", "return"}, NEW n \in DOMAIN Unit.expressions
  PROVE  LET types == KidTypes(n, Unit.expressions)
         IN  /\ Len(types) = Len(Node(n).kids) /\ Len(types) \in Nat
             /\ \A i \in 1 .. Len(types) : types[i] \in T /\ types[i] = expressionType(Node(n).kids[i])
<1>1. /\ Len(Node(n).kids) \in Nat
      /\ \A k \in 1 .. Len(Node(n).kids) : Node(n).kids[k] \in DOMAIN Unit.expressions
  BY NodeFacts
<1>2. \A k \in 1 .. Len(Node(n).kids) : expressionType(Node(n).kids[k]) \in T
  BY <1>1, NodeFacts
<1> QED BY <1>1, <1>2 DEF KidTypes, expressionType

\* No step inside a function goes to another one.
LEMMA InsideKeeps ==
  ASSUME Inside PROVE at' = at /\ named' = named
<1>1. CASE GenBinary
  <2>1. PICK outcome \in getBuiltin(Node(Top.node).name, OperandTypes) :
          CASE outcome.kind = "found"   -> StartBuiltin(outcome.entry)
            [] outcome.kind = "missing" -> AssertionFails(Failed)
            [] outcome.kind = "crash"   -> Halt("crashed")
    BY <1>1 DEF GenBinary
  <2>2. outcome.kind \in {"found", "missing", "crash"}
    BY <2>1, LookupEnds
  <2>3. StartBuiltin(outcome.entry) \/ AssertionFails(Failed) \/ Halt("crashed")
    BY <2>1, <2>2
  <2> QED BY <2>3 DEF StartBuiltin, AssertionFails, Failed, Halt, translation
<1>2. CASE GenCall
  BY <1>2 DEF GenCall, StartBuiltin, FindCallee, StartCall, Failed, Halt, translation
<1>3. CASE FinishCall \/ FinishOperator \/ FinishList \/ GenVar
  BY <1>3 DEF FinishCall, FinishOperator, FinishList, GenVar, AssertionFails, Failed, Halt, translation
<1>4. CASE GenLiteral \/ GenFunctionName \/ GenKid \/ GenValue \/ StartList \/ IfTooShort
  BY <1>4 DEF GenLiteral, GenFunctionName, GenKid, GenValue, StartList, IfTooShort, Halt, translation
<1>5. CASE IfCondition \/ IfThen \/ IfElse
  BY <1>5 DEF IfCondition, IfThen, IfElse
<1> QED BY <1>1, <1>2, <1>3, <1>4, <1>5 DEF Inside

LEMMA HasTypeKept ==
  ASSUME UNCHANGED inputs, at' = at, HasType(Awaited(frames'), value')
  PROVE  HasType(Awaited(frames), value)'
BY DEF inputs, HasType, Awaited, expressionType, Unit, Node

\* The translation of a function goes on.
LEMMA ValueNext ==
  ASSUME NEW T, Ready(T), GenInv, ValueInv, gen \in {"visit", "return"}, Inside, UNCHANGED inputs,
         gen' # "unit", CallsHold(frames'), gen' = "return" => HasType(Awaited(frames'), value')
  PROVE  ValueInv'
<1>1. at' = at /\ named' = named /\ HeadsKept
  BY InsideKeeps, InsideHeads
<1>2. /\ at \in 1 .. Len(analyzed) /\ program.units[at].kind = "def"
      /\ NamesMean /\ ModuleMeans
  BY Setting
<1>3. CASE gen' \notin {"unit", "visit", "return"}
  BY <1>3 DEF ValueInv
<1>4. CASE gen' \in {"visit", "return"}
  <2>1. Declared' = Declared
    BY <1>1, <1>4 DEF Declared
  <2>2. ModuleMeans'
    BY <1>1, <1>2, <2>1, ModuleStays
  <2>3. \A x \in DOMAIN Unit.variables : x # "malloc"
    BY <1>2, ScopeNames DEF Unit
  <2>4. NamesMean'
    BY <1>1, <1>2, <2>3, NamesStay
  <2>5. CallsHold(frames)'
    BY <1>1, SameCalls
  <2>6. gen' = "return" => HasType(Awaited(frames), value)'
    BY <1>1, HasTypeKept
  <2>7. at' \in 1 .. Len(analyzed') /\ program'.units[at'].kind = "def"
    BY <1>1, <1>2 DEF inputs
  <2>8. InFunction'
    BY <2>4, <2>5, <2>6, <2>7, Zenon DEF InFunction
  <2> QED BY <2>2, <2>8 DEF ValueInv
<1> QED BY <1>3, <1>4

\* What the lemmas on the actions assume.
Going(T, N) ==
  /\ Ready(T) /\ GenInv /\ ValueInv /\ ShapeInv(N) /\ Expressions(N) /\ N \subseteq 1 .. Len(program.nodes)
  /\ gen \in {"visit", "return"} /\ UNCHANGED inputs /\ Inside

LEMMA TopSetting ==
  ASSUME NEW T, NEW N, Going(T, N), frames # <<>>
  PROVE  /\ FrameHolds(Top) /\ Top.node \in DOMAIN Unit.expressions /\ Top.node \in 1 .. Len(program.nodes)
         /\ NodeTyped(Top.node, Unit.expressions, Unit.variables) /\ expressionType(Top.node) \in T
         /\ Len(Kids) \in Nat /\ \A k \in 1 .. Len(Kids) : Kids[k] \in DOMAIN Unit.expressions
         /\ SeqLike(Top.values) /\ CallsHold(frames) /\ NamesMean
         /\ Top = [node |-> Top.node, how |-> Top.how, emits |-> Top.emits, type |-> Top.type,
                   callee |-> Top.callee, values |-> Top.values, blocks |-> Top.blocks]
<1>1. CallsHold(frames) /\ NamesMean
  BY Setting DEF Going
<1>2. FrameHolds(Top)
  BY <1>1, TopHolds DEF Going
<1>3. Top.node \in DOMAIN Unit.expressions
  BY <1>2 DEF FrameHolds
<1>4. /\ NodeTyped(Top.node, Unit.expressions, Unit.variables) /\ expressionType(Top.node) \in T
      /\ Len(Kids) \in Nat /\ \A k \in 1 .. Len(Kids) : Kids[k] \in DOMAIN Unit.expressions
  BY <1>3, NodeFacts DEF Going, Kids
<1>5. /\ Fits(N, Top) /\ SeqLike(Top.values)
      /\ Top = [node |-> Top.node, how |-> Top.how, emits |-> Top.emits, type |-> Top.type,
                callee |-> Top.callee, values |-> Top.values, blocks |-> Top.blocks]
  BY TopFits, ZenonT(60) DEF Going
<1>6. Top.node \in 1 .. Len(program.nodes)
  BY <1>5 DEF Fits, Going
<1> QED BY <1>1, <1>2, <1>3, <1>4, <1>5, <1>6

LEMMA ValueYield ==
  ASSUME NEW T, NEW N, Going(T, N), frames # <<>>, NEW v, Yield(v), HasType(Top.node, v)
  PROVE  ValueInv'
<1>1. CallsHold(Tail(frames)) /\ Awaited(Tail(frames)) = Top.node
  BY TopSetting, CallsYield DEF Going
<1>2. frames' = Tail(frames) /\ value' = v /\ gen' = "return"
  BY DEF Yield
<1>3. CallsHold(frames') /\ HasType(Awaited(frames'), value')
  BY <1>1, <1>2
<1> QED BY <1>2, <1>3, ValueNext DEF Going

LEMMA ValueBecome ==
  ASSUME NEW T, NEW N, Going(T, N), frames # <<>>, NEW fr, Become(fr), gen' = "visit",
         fr.node = Top.node, FrameHolds(fr)
  PROVE  ValueInv'
<1>1. CallsHold(<<fr>> \o Tail(frames))
  BY TopSetting, CallsBecome DEF Going
<1>2. CallsHold(frames')
  BY <1>1 DEF Become
<1> QED BY <1>2, ValueNext DEF Going

LEMMA ValueHalt ==
  ASSUME gen' \notin {"unit", "visit", "return"}
  PROVE  ValueInv'
BY DEF ValueInv

LEMMA ValueStops ==
  ASSUME AssertionFails(Failed) \/ Failed \/ Halt("crashed") \/ Halt("aborted") \/ Halt("undefined")
  PROVE  ValueInv'
<1>1. gen' \in {"aborted", "crashed", "error", "undefined"}
  BY DEF AssertionFails, Failed, Halt
<1> QED BY <1>1, ValueHalt

\* Visiting and building: there is a frame.
LEMMA FrameThere ==
  ASSUME GenInv, gen = "visit" \/ \E how : Got(how) PROVE frames # <<>>
BY DEF GenInv, PhaseInv, Got

LEMMA ValueLiteral ==
  ASSUME NEW T, NEW N, Going(T, N), GenLiteral PROVE ValueInv'
<1> DEFINE name == Node(Top.node).name
<1>1. gen = "visit" /\ Node(Top.node).kind = "literal" /\ Yield(LiteralValue(name))
  BY DEF GenLiteral, Visiting
<1>2. frames # <<>>
  BY <1>1, FrameThere DEF Going
<1>3. NodeTyped(Top.node, Unit.expressions, Unit.variables)
  BY <1>2, TopSetting
<1>4. LiteralTyped(name, expressionType(Top.node))
  BY <1>1, <1>3 DEF NodeTyped, expressionType
<1>5. LlvmType(Real) = Double /\ LlvmType(Integer) = Int64 /\ LlvmType(Boolean) = Bool
  BY NumbersLowered DEF Going, Ready
<1>6. LiteralValue(name).type = LlvmType(expressionType(Top.node))
  <2> DEFINE type == CASE name \in RealLiteral    -> Double
                      [] name \in IntegerLiteral -> Int64
                      [] name \in BooleanLiteral -> Bool
  <2>1. LiteralValue(name).type = type
    BY DEF LiteralValue, Constant, Value
  <2> HIDE DEF name
  <2>2. type = LlvmType(expressionType(Top.node))
    BY <1>4, <1>5, KindsDiffer DEF LiteralTyped, Literal
  <2> QED BY <2>1, <2>2
<1>7. HasType(Top.node, LiteralValue(name))
  BY <1>6 DEF HasType
<1> QED BY <1>1, <1>2, <1>7, ValueYield

\* What a function that is found for a name is.
LEMMA NameFound ==
  ASSUME NEW T, NEW N, Going(T, N), NEW x \in DOMAIN Unit.variables, NEW f \in FunctionsNamed(x)
  PROVE  \E u \in 1 .. Len(analyzed) : /\ Unit.variables[x] = TypeOf(Signature(u))
                                       /\ mod[f].type = CodeType(Signature(u))
                                       /\ Len(Signature(u).args) \in Nat
<1>1. NamesMean
  BY Setting DEF Going
<1> QED BY <1>1 DEF NamesMean, Going, Ready, Checked

LEMMA ValueFunctionName ==
  ASSUME NEW T, NEW N, Going(T, N), GenFunctionName PROVE ValueInv'
<1> DEFINE x == Node(Top.node).name
<1>1. gen = "visit" /\ Node(Top.node).kind \in {"var", "subscript"}
  BY DEF GenFunctionName, Visiting
<1>2. PICK f \in FunctionsNamed(x) : Yield(Address(f, mod[f].type))
  BY DEF GenFunctionName
<1>3. frames # <<>>
  BY <1>1, FrameThere DEF Going
<1>4. NameTyped(Node(Top.node), expressionType(Top.node), Unit.variables) /\ expressionType(Top.node) \in T
  BY <1>1, <1>3, TopSetting DEF NodeTyped, expressionType
<1>5. x \in DOMAIN Unit.variables
  BY <1>4 DEF NameTyped
<1>6. PICK u \in 1 .. Len(analyzed) : /\ Unit.variables[x] = TypeOf(Signature(u))
                                     /\ mod[f].type = CodeType(Signature(u))
                                     /\ Len(Signature(u).args) \in Nat
  BY <1>5, NameFound
<1>7. Address(f, mod[f].type).type = Pointer(CodeType(Signature(u)))
  BY <1>6 DEF Address, Value
<1>8. HasType(Top.node, Address(f, mod[f].type))
  <2>1. CASE Node(Top.node).kind = "var"
    <3>1. expressionType(Top.node) = TypeOf(Signature(u))
      BY <1>4, <1>6, <2>1 DEF NameTyped
    <3> QED BY <1>4, <1>6, <1>7, <3>1, FunctionLowered DEF HasType, Going, Ready
  <2>2. CASE Node(Top.node).kind = "subscript"
    <3>1. Unit.variables[x].name = "fun"
      BY <1>6, SignatureParts
    <3>2. expressionType(Top.node) = Null
      BY <1>4, <2>2, <3>1 DEF NameTyped
    <3> QED BY <3>2 DEF HasType, Going, Ready, Lowers
  <2> QED BY <1>1, <2>1, <2>2
<1> QED BY <1>2, <1>3, <1>8, ValueYield

LEMMA ValueVar ==
  ASSUME NEW T, NEW N, Going(T, N), GenVar PROVE ValueInv'
<1> DEFINE x == Node(Top.node).name
           item == subscriptedType(Unit.variables[x])
<1>1. gen = "visit" /\ Node(Top.node).kind \in {"var", "subscript"} /\ FunctionsNamed(x) = {}
  BY DEF GenVar, Visiting
<1>2. \/ Failed
      \/ x \in DOMAIN named /\ Node(Top.node).kind = "var" /\ Yield(named[x])
      \/ x \in DOMAIN named /\ Node(Top.node).kind = "subscript" /\ item # Null
           /\ Yield(Result(fun, point, Place + 1, LlvmType(item)))
  BY DEF GenVar
<1>3. frames # <<>>
  BY <1>1, FrameThere DEF Going
<1>4. NameTyped(Node(Top.node), expressionType(Top.node), Unit.variables) /\ NamesMean
  BY <1>1, <1>3, TopSetting DEF NodeTyped, expressionType
<1>5. x \in DOMAIN Unit.variables
  BY <1>4 DEF NameTyped
<1>6. CASE Failed
  BY <1>6, ValueStops
<1>7. CASE x \in DOMAIN named /\ Node(Top.node).kind = "var" /\ Yield(named[x])
  <2>1. expressionType(Top.node) = Unit.variables[x]
    BY <1>4, <1>7 DEF NameTyped
  <2>2. named[x].type = LlvmType(Unit.variables[x])
    BY <1>1, <1>4, <1>5, <1>7 DEF NamesMean
  <2>3. HasType(Top.node, named[x])
    BY <2>1, <2>2 DEF HasType
  <2> QED BY <1>3, <1>7, <2>3, ValueYield
<1>8. CASE Node(Top.node).kind = "subscript" /\ item # Null
             /\ Yield(Result(fun, point, Place + 1, LlvmType(item)))
  <2>1. Unit.variables[x].name = "list"
    BY <1>8 DEF subscriptedType
  <2>2. Unit.variables[x] = List(expressionType(Top.node))
    BY <1>4, <1>8, <2>1 DEF NameTyped
  <2>3. item = expressionType(Top.node)
    BY <2>1, <2>2 DEF subscriptedType, List, Type
  <2>4. Result(fun, point, Place + 1, LlvmType(item)).type = LlvmType(item)
    BY DEF Result, Value
  <2>5. HasType(Top.node, Result(fun, point, Place + 1, LlvmType(item)))
    BY <2>3, <2>4 DEF HasType
  <2> QED BY <1>3, <1>8, <2>5, ValueYield
<1> QED BY <1>2, <1>6, <1>7, <1>8

LEMMA ValueKid ==
  ASSUME NEW T, NEW N, Going(T, N), GenKid PROVE ValueInv'
<1> DEFINE fr == Start(Kids[Len(Top.values) + 1])
<1>1. gen = "visit" /\ gen' = "visit" /\ Len(Top.values) < Len(Kids) /\ frames' = <<fr>> \o frames
  BY DEF GenKid
<1>2. frames # <<>>
  BY <1>1, FrameThere DEF Going
<1>3. /\ Len(Kids) \in Nat /\ \A k \in 1 .. Len(Kids) : Kids[k] \in DOMAIN Unit.expressions
      /\ SeqLike(Top.values) /\ CallsHold(frames)
  BY <1>2, TopSetting
<1>4. Len(Top.values) \in Nat
  BY <1>3 DEF SeqLike
<1>5. Len(Top.values) + 1 \in 1 .. Len(Kids)
  BY <1>1, <1>3, <1>4
<1>6. fr.node = Kids[Len(Top.values) + 1] /\ fr.how = "visit" /\ fr.values = <<>>
  BY DEF Start
<1> HIDE DEF fr
<1>7. FrameHolds(fr)
  BY <1>3, <1>5, <1>6 DEF FrameHolds
<1>8. CallsHold(<<fr>> \o frames)
  BY <1>2, <1>3, <1>6, <1>7, CallsKid DEF Going
<1> QED BY <1>1, <1>8, ValueNext DEF Going

\* A value is collected in a frame that stays as it is otherwise.
LEMMA CollectedHolds ==
  ASSUME NEW T, NEW N, Going(T, N), frames # <<>>, gen = "return", NEW fr,
         fr.node = Top.node, fr.values = Collected, fr.how = Top.how, fr.emits = Top.emits,
         fr.type = Top.type
  PROVE  FrameHolds(fr)
<1>1. FrameHolds(Top) /\ SeqLike(Top.values)
  BY TopSetting
<1>2. HasType(Kids[Len(Top.values) + 1], value)
  <2>1. HasType(Awaited(frames), value)
    BY DEF Going, ValueInv, InFunction
  <2> QED BY <2>1 DEF Awaited, Kids, Top
<1>3. /\ Len(Collected) = Len(Top.values) + 1 /\ Collected[Len(Top.values) + 1] = value
      /\ \A k \in 1 .. Len(Top.values) : Collected[k] = Top.values[k]
      /\ Len(Top.values) \in Nat
  <2> DEFINE s == Top.values
  <2>1. SeqLike(s)
    BY <1>1
  <2> HIDE DEF s
  <2>2. /\ Len(Append(s, value)) = Len(s) + 1 /\ Append(s, value)[Len(s) + 1] = value
        /\ \A k \in 1 .. Len(s) : Append(s, value)[k] = s[k]
        /\ Len(s) \in Nat
    BY <2>1, Appended DEF SeqLike
  <2> QED BY <2>2 DEF s, Collected
<1>4. ASSUME NEW k \in 1 .. Len(fr.values) PROVE HasType(Node(fr.node).kids[k], fr.values[k])
  <2>1. CASE k \in 1 .. Len(Top.values)
    <3>1. HasType(Node(Top.node).kids[k], Top.values[k])
      BY <1>1, <2>1 DEF FrameHolds
    <3> QED BY <1>3, <2>1, <3>1
  <2>2. CASE k = Len(Top.values) + 1
    BY <1>2, <1>3, <2>2 DEF Kids
  <2> QED BY <1>3, <2>1, <2>2
<1> QED BY <1>1, <1>4 DEF FrameHolds, BuiltBy

LEMMA ValueValue ==
  ASSUME NEW T, NEW N, Going(T, N), GenValue PROVE ValueInv'
<1> DEFINE fr == [Top EXCEPT !.values = Append(@, value)]
<1>1. gen = "return" /\ frames # <<>> /\ Become(fr) /\ gen' = "visit"
  BY DEF GenValue, Got, Collect
<1>2. Top = [node |-> Top.node, how |-> Top.how, emits |-> Top.emits, type |-> Top.type,
             callee |-> Top.callee, values |-> Top.values, blocks |-> Top.blocks]
  BY <1>1, TopSetting
<1>3. /\ fr.node = Top.node /\ fr.how = Top.how /\ fr.emits = Top.emits /\ fr.type = Top.type
      /\ fr.values = Collected
  BY <1>2 DEF Collected
<1> HIDE DEF fr
<1>4. FrameHolds(fr)
  BY <1>1, <1>3, CollectedHolds
<1> QED BY <1>1, <1>3, <1>4, ValueBecome

LEMMA ValueStartList ==
  ASSUME NEW T, NEW N, Going(T, N), StartList PROVE ValueInv'
<1> DEFINE fr == [Top EXCEPT !.how = "list"]
<1>1. gen = "visit" /\ Become(fr) /\ gen' = "visit" /\ Node(Top.node).kind = "list"
  BY DEF StartList, Visiting
<1>2. frames # <<>>
  BY <1>1, FrameThere DEF Going
<1>3. /\ Top = [node |-> Top.node, how |-> Top.how, emits |-> Top.emits, type |-> Top.type,
                callee |-> Top.callee, values |-> Top.values, blocks |-> Top.blocks]
      /\ FrameHolds(Top)
  BY <1>2, TopSetting
<1>4. fr.node = Top.node /\ fr.how = "list" /\ fr.values = Top.values
  BY <1>3
<1> HIDE DEF fr
<1>5. FrameHolds(fr)
  BY <1>1, <1>3, <1>4 DEF FrameHolds
<1> QED BY <1>1, <1>2, <1>4, <1>5, ValueBecome

LEMMA ValueFinishList ==
  ASSUME NEW T, NEW N, Going(T, N), FinishList PROVE ValueInv'
<1> DEFINE item == expressionType(Kids[1])
<1>1. gen = "visit" /\ Top.how = "list"
  BY DEF FinishList, Building
<1>2. frames # <<>>
  BY <1>1, FrameThere DEF Going
<1>3. \/ AssertionFails(Halt("crashed")) \/ Failed
      \/ Kids # <<>> /\ Yield(Result(fun, point, Place, Pointer(LlvmType(item))))
  BY DEF FinishList
<1>4. /\ FrameHolds(Top) /\ NodeTyped(Top.node, Unit.expressions, Unit.variables)
      /\ expressionType(Top.node) \in T
  BY <1>2, TopSetting
<1>5. CASE AssertionFails(Halt("crashed")) \/ Failed
  BY <1>5, ValueStops DEF AssertionFails
<1>6. CASE Kids # <<>> /\ Yield(Result(fun, point, Place, Pointer(LlvmType(item))))
  <2>1. expressionType(Top.node) = List(item)
    BY <1>1, <1>4, <1>6 DEF FrameHolds, NodeTyped, Kids, expressionType
  <2>2. Result(fun, point, Place, Pointer(LlvmType(item))).type = Pointer(LlvmType(item))
    BY DEF Result, Value
  <2>3. HasType(Top.node, Result(fun, point, Place, Pointer(LlvmType(item))))
    BY <1>4, <2>1, <2>2, ListLowered DEF HasType, Going, Ready
  <2> QED BY <1>2, <1>6, <2>3, ValueYield
<1> QED BY <1>3, <1>5, <1>6

\* An operator is found in the table: the frame is that of its entry.
LEMMA ValueBuiltin ==
  ASSUME NEW T, NEW N, Going(T, N), frames # <<>>, gen = "visit", Node(Top.node).kind \in {"binary", "call"},
         NEW outcome \in getBuiltin(Node(Top.node).name, OperandTypes), outcome.kind = "found",
         StartBuiltin(outcome.entry)
  PROVE  ValueInv'
<1> DEFINE k == outcome.entry
           name == Node(Top.node).name
           types == KidTypes(Top.node, Unit.expressions)
<1>1. /\ k \in EntriesOf(name) /\ k \in 1 .. Len(Builtins)
      /\ "same" \in Matching(OperandTypes, Builtins[k].args)
  BY EntryFound
<1>2. OperandTypes = types
  BY DEF OperandTypes, KidTypes, Kids, expressionType
<1>3. /\ FrameHolds(Top) /\ Top.node \in DOMAIN Unit.expressions /\ Top.node \in 1 .. Len(program.nodes)
      /\ NodeTyped(Top.node, Unit.expressions, Unit.variables)
      /\ Top = [node |-> Top.node, how |-> Top.how, emits |-> Top.emits, type |-> Top.type,
                callee |-> Top.callee, values |-> Top.values, blocks |-> Top.blocks]
  BY TopSetting, ZenonT(60)
<1>4. Ready(T) /\ Lowers(T) /\ Clear
  BY DEF Going, Ready
<1>5. /\ Len(types) = Len(Kids) /\ Len(types) \in Nat
      /\ \A i \in 1 .. Len(types) : types[i] \in T
  BY <1>3, KidTypesFacts DEF Going, Kids
<1> HIDE DEF k, types
<1>6. Len(Kids) <= Len(Builtins[k].args)
  <2>1. CASE Node(Top.node).kind = "binary"
    <3>1. Len(Kids) = 2
      BY <1>3, <2>1 DEF NodeTyped, Kids
    <3>2. Len(Builtins[k].args) \in {2, 3}
      BY <1>1, TableFacts
    <3>3. \A m \in {2, 3} : 2 <= m
      OBVIOUS
    <3> QED BY <3>1, <3>2, <3>3, Zenon
  <2>2. CASE Node(Top.node).kind = "call"
    BY <1>1, <1>3, <1>4, <2>2 DEF Clear, Kids
  <2> QED BY <2>1, <2>2
<1>7. Agree(types, Builtins[k].args)
  BY <1>1, <1>2, <1>4, <1>5, SameAgree
<1>8. Len(Kids) = Len(Builtins[k].args) => expressionType(Top.node) = Builtins[k].ret
  <2>1. BuiltinTyped(name, types, expressionType(Top.node))
          \/ FunctionTyped(name, types, expressionType(Top.node), Unit.variables)
    BY <1>3 DEF NodeTyped, types, expressionType
  <2>2. BuiltinTyped(name, types, expressionType(Top.node))
          \/ \E v : FunctionTyped(name, types, expressionType(Top.node), v)
    BY <2>1, Zenon
  <2> SUFFICES ASSUME Len(Kids) = Len(Builtins[k].args) PROVE expressionType(Top.node) = Builtins[k].ret
    OBVIOUS
  <2>3. Len(types) = Len(Builtins[k].args) /\ "same" \in Matching(types, Builtins[k].args)
    BY <1>1, <1>2, <1>5
  <2>4. k \in EntriesOf(name) /\ Lowers(T) /\ Len(types) \in Nat /\ \A i \in 1 .. Len(types) : types[i] \in T
    BY <1>1, <1>4, <1>5
  <2> DEFINE type == expressionType(Top.node)
  <2>5. BuiltinTyped(name, types, type) \/ \E v : FunctionTyped(name, types, type, v)
    BY <2>2
  <2> HIDE DEF name, type
  <2>6. type = Builtins[k].ret
    BY <2>3, <2>4, <2>5, FoundIsTyped
  <2> QED BY <2>6 DEF type
<1>9. CASE BuildersOf(k) = {}
  BY <1>9, ValueStops DEF StartBuiltin, k
<1>10. CASE BuildersOf(k) # {}
  <2>1. PICK b \in BuildersOf(k) :
          /\ Become([Top EXCEPT !.how = IF b.op = "if" THEN "if" ELSE "operator", !.emits = b.emits])
          /\ gen' = "visit"
    BY <1>10 DEF StartBuiltin, k
  <2> DEFINE fr == [Top EXCEPT !.how = IF b.op = "if" THEN "if" ELSE "operator", !.emits = b.emits]
  <2>2. /\ fr.node = Top.node /\ fr.how = (IF b.op = "if" THEN "if" ELSE "operator")
        /\ fr.emits = b.emits /\ fr.values = Top.values
    BY <1>3
  <2>3. Become(fr) /\ gen' = "visit"
    BY <2>1
  <2> HIDE DEF fr
  <2>4. fr.emits = b.emits /\ (fr.how = "if" <=> b.op = "if")
    BY <2>2
  <2>5. BuiltBy(fr, k)
    BY <1>6, <1>7, <1>8, <2>2, <2>4 DEF BuiltBy, types, Kids
  <2>6. FrameHolds(fr)
    BY <1>1, <1>3, <2>2, <2>5 DEF FrameHolds
  <2> QED BY <2>2, <2>3, <2>6, ValueBecome
<1> QED BY <1>9, <1>10

LEMMA ValueBinary ==
  ASSUME NEW T, NEW N, Going(T, N), GenBinary PROVE ValueInv'
<1>1. gen = "visit" /\ Node(Top.node).kind = "binary"
  BY DEF GenBinary, Visiting
<1>2. frames # <<>>
  BY <1>1, FrameThere DEF Going
<1>3. PICK outcome \in getBuiltin(Node(Top.node).name, OperandTypes) :
        CASE outcome.kind = "found"   -> StartBuiltin(outcome.entry)
          [] outcome.kind = "missing" -> AssertionFails(Failed)
          [] outcome.kind = "crash"   -> Halt("crashed")
  BY DEF GenBinary
<1>4. outcome.kind \in {"found", "missing", "crash"}
  BY <1>3, LookupEnds
<1>5. CASE outcome.kind = "found"
  <2>1. StartBuiltin(outcome.entry)
    BY <1>3, <1>5
  <2> QED BY <1>1, <1>2, <1>3, <1>5, <2>1, ValueBuiltin
<1>6. CASE outcome.kind # "found"
  <2>1. AssertionFails(Failed) \/ Halt("crashed")
    BY <1>3, <1>4, <1>6
  <2> QED BY <2>1, ValueStops
<1> QED BY <1>5, <1>6

\* A call of something that is found behind its name returns what it is
\* recorded to return.
LEMMA ValueStartCall ==
  ASSUME NEW T, NEW N, Going(T, N), frames # <<>>, NEW callee, NEW type, StartCall(callee, type),
         gen = "visit", type = LlvmType(expressionType(Top.node))
  PROVE  ValueInv'
<1> DEFINE fr == [Top EXCEPT !.how = "call", !.callee = callee, !.type = type]
<1>1. Become(fr) /\ gen' = "visit"
  BY DEF StartCall
<1>2. /\ Top = [node |-> Top.node, how |-> Top.how, emits |-> Top.emits, type |-> Top.type,
                callee |-> Top.callee, values |-> Top.values, blocks |-> Top.blocks]
      /\ FrameHolds(Top)
  BY TopSetting
<1>3. fr.node = Top.node /\ fr.how = "call" /\ fr.type = type /\ fr.values = Top.values
  BY <1>2
<1> HIDE DEF fr
<1>4. FrameHolds(fr)
  BY <1>2, <1>3 DEF FrameHolds
<1> QED BY <1>1, <1>3, <1>4, ValueBecome

\* A call that is not in the table is of the function or the variable whose
\* type the analysis has looked at.
LEMMA ValueCallee ==
  ASSUME NEW T, NEW N, Going(T, N), frames # <<>>, gen = "visit", NEW name, FindCallee(name),
         name \in DOMAIN Unit.variables, expressionType(Top.node) = Unit.variables[name].args[1]
  PROVE  ValueInv'
<1>1. CASE \E f \in FunctionsNamed(name) : StartCall(Address(f, mod[f].type), ReturnTypeOf(mod[f]))
  <2>1. PICK f \in FunctionsNamed(name) : StartCall(Address(f, mod[f].type), ReturnTypeOf(mod[f]))
    BY <1>1
  <2>2. PICK u \in 1 .. Len(analyzed) : /\ Unit.variables[name] = TypeOf(Signature(u))
                                       /\ mod[f].type = CodeType(Signature(u))
                                       /\ Len(Signature(u).args) \in Nat
    BY NameFound
  <2>3. ReturnTypeOf(mod[f]) = LlvmType(expressionType(Top.node))
    BY <2>2, SignatureParts DEF ReturnTypeOf
  <2> QED BY <2>1, <2>3, ValueStartCall
<1>2. CASE StartCall(named[name], LlvmType(Unit.variables[name].args[1]))
  BY <1>2, ValueStartCall
<1>3. CASE Failed \/ Halt("undefined")
  BY <1>3, ValueStops
<1> QED BY <1>1, <1>2, <1>3 DEF FindCallee

LEMMA ValueCall ==
  ASSUME NEW T, NEW N, Going(T, N), GenCall PROVE ValueInv'
<1> DEFINE name == Node(Top.node).name
           types == KidTypes(Top.node, Unit.expressions)
           type == expressionType(Top.node)
<1>1. gen = "visit" /\ Node(Top.node).kind = "call"
  BY DEF GenCall, Visiting
<1>2. frames # <<>>
  BY <1>1, FrameThere DEF Going
<1>3. PICK outcome \in getBuiltin(name, OperandTypes) :
        \/ outcome.kind = "found" /\ StartBuiltin(outcome.entry)
        \/ outcome.kind = "missing" /\ FindCallee(name)
        \/ outcome.kind = "crash" /\ Halt("crashed")
  BY DEF GenCall
<1>4. CASE outcome.kind = "found" /\ StartBuiltin(outcome.entry)
  BY <1>1, <1>2, <1>3, <1>4, ValueBuiltin
<1>5. CASE outcome.kind = "missing" /\ FindCallee(name)
  <2>1. /\ Top.node \in DOMAIN Unit.expressions /\ Top.node \in 1 .. Len(program.nodes)
        /\ NodeTyped(Top.node, Unit.expressions, Unit.variables)
    BY <1>2, TopSetting
  <2>2. Lowers(T) /\ Clear
    BY DEF Going, Ready
  <2>3. Len(types) = Len(Kids) /\ Len(types) \in Nat
    BY <2>1, KidTypesFacts DEF Going, Kids
  <2>4. OperandTypes = types
    BY DEF OperandTypes, KidTypes, Kids, expressionType
  <2>5. BuiltinTyped(name, types, type) \/ FunctionTyped(name, types, type, Unit.variables)
    BY <1>1, <2>1 DEF NodeTyped, expressionType
  <2>6. ASSUME NEW k \in EntriesOf(name) PROVE ~Agree(types, Builtins[k].args)
    <3>1. "differ" \in Matching(types, Builtins[k].args)
      BY <1>3, <1>5, <2>4, EntriesTried
    <3>2. Len(types) <= Len(Builtins[k].args)
      BY <1>1, <2>1, <2>2, <2>3 DEF Clear, Kids
    <3>3. k \in 1 .. Len(Builtins)
      BY DEF EntriesOf
    <3> HIDE DEF types
    <3> QED BY <2>2, <2>3, <3>1, <3>2, <3>3, DifferDisagree
  <2>7. name \in DOMAIN Unit.variables /\ type = Unit.variables[name].args[1]
    BY <2>5, <2>6 DEF BuiltinTyped, FunctionTyped
  <2> QED BY <1>1, <1>2, <1>5, <2>7, ValueCallee
<1>6. CASE Halt("crashed")
  BY <1>6, ValueStops
<1> QED BY <1>3, <1>4, <1>5, <1>6

LEMMA ValueFinishCall ==
  ASSUME NEW T, NEW N, Going(T, N), FinishCall PROVE ValueInv'
<1>1. gen = "visit" /\ Top.how = "call" /\ Yield(Result(fun, point, Place, Top.type))
  BY DEF FinishCall, Building, Produce
<1>2. frames # <<>>
  BY <1>1, FrameThere DEF Going
<1>3. Top.type = LlvmType(expressionType(Top.node))
  BY <1>1, <1>2, TopSetting DEF FrameHolds
<1>4. HasType(Top.node, Result(fun, point, Place, Top.type))
  BY <1>3 DEF HasType, Result, Value
<1> QED BY <1>1, <1>2, <1>4, ValueYield

\* The entry that the frame of an operator was made for.
LEMMA FrameEntry ==
  ASSUME NEW T, NEW N, Going(T, N), frames # <<>>, Top.how \in {"operator", "if"}
  PROVE  \E k \in 1 .. Len(Builtins) :
           /\ BuiltBy(Top, k) /\ Len(Builtins[k].args) = IF Top.how = "if" THEN 3 ELSE 2
           /\ Builtins[k].ret = IF Top.how = "if" THEN IF Top.emits = "double" THEN Real ELSE Integer
                               ELSE IF Top.emits \in Comparing THEN Boolean ELSE Builtins[k].args[1]
<1>1. FrameHolds(Top)
  BY TopSetting
<1>2. PICK k \in EntriesOf(Node(Top.node).name) : BuiltBy(Top, k)
  BY <1>1 DEF FrameHolds
<1>3. k \in 1 .. Len(Builtins)
  BY DEF EntriesOf
<1>4. PICK b \in BuildersOf(k) : Top.emits = b.emits /\ (Top.how = "if" <=> b.op = "if")
  BY <1>2 DEF BuiltBy
<1>5. /\ b.op = Builtins[k].op
      /\ b.op = "if" => Builtins[k].ret = IF b.emits = "double" THEN Real ELSE Integer
      /\ b.op # "if" => Builtins[k].ret = IF b.emits \in Comparing THEN Boolean ELSE Builtins[k].args[1]
  BY <1>3, BuilderFacts
<1>6. Len(Builtins[k].args) = IF Builtins[k].op = "if" THEN 3 ELSE 2
  BY <1>3, TableFacts
<1>7. Len(Builtins[k].args) = IF Top.how = "if" THEN 3 ELSE 2
  BY <1>4, <1>5, <1>6
<1>8. Builtins[k].ret = IF Top.how = "if" THEN IF Top.emits = "double" THEN Real ELSE Integer
                        ELSE IF Top.emits \in Comparing THEN Boolean ELSE Builtins[k].args[1]
  BY <1>4, <1>5
<1> QED BY <1>2, <1>3, <1>7, <1>8

LEMMA ValueFinishOperator ==
  ASSUME NEW T, NEW N, Going(T, N), FinishOperator PROVE ValueInv'
<1> DEFINE type == IF Top.emits \in Comparing THEN Bool ELSE Top.values[1].type
<1>1. gen = "visit" /\ Top.how = "operator" /\ Len(Top.values) = Len(Kids)
  BY DEF FinishOperator, Building
<1>2. frames # <<>>
  BY <1>1, FrameThere DEF Going
<1>3. Halt("undefined") \/ (Len(Top.values) >= 2 /\ Yield(Result(fun, point, Place, type)))
  BY DEF FinishOperator, Produce, Comparing
<1>4. CASE Halt("undefined")
  BY <1>4, ValueStops
<1>5. CASE Len(Top.values) >= 2 /\ Yield(Result(fun, point, Place, type))
  <2>1. PICK k \in 1 .. Len(Builtins) :
           /\ BuiltBy(Top, k) /\ Len(Builtins[k].args) = 2
           /\ Builtins[k].ret = IF Top.emits \in Comparing THEN Boolean ELSE Builtins[k].args[1]
    BY <1>1, <1>2, FrameEntry
  <2>2. FrameHolds(Top) /\ Len(Kids) \in Nat /\ Top.node \in DOMAIN Unit.expressions
    BY <1>2, TopSetting
  <2>3. /\ Agree(KidTypes(Top.node, Unit.expressions), Builtins[k].args)
        /\ Len(Kids) <= Len(Builtins[k].args)
        /\ Len(Kids) = Len(Builtins[k].args) => expressionType(Top.node) = Builtins[k].ret
    BY <2>1 DEF BuiltBy, Kids
  <2>4. Len(Kids) = 2
    <3>1. Len(Kids) <= 2
      BY <2>1, <2>3
    <3>2. Len(Kids) >= 2
      BY <1>1, <1>5
    <3>3. \A n \in Nat : n <= 2 /\ n >= 2 => n = 2
      OBVIOUS
    <3> QED BY <2>2, <3>1, <3>2, <3>3, Zenon
  <2>5. expressionType(Top.node) = Builtins[k].ret
    BY <2>1, <2>3, <2>4
  <2>6. /\ LlvmType(Boolean) = Bool /\ \A t \in {Real, Integer, Boolean} : ~HasNull(t)
    BY NumbersLowered DEF Going, Ready, Lowers
  <2>7. Builtins[k].args[1] \in {Real, Integer, Boolean}
    BY <2>1, TableFacts
  <2>8. Top.values[1].type = LlvmType(Builtins[k].args[1])
    <3>1. 1 \in 1 .. Len(Top.values) /\ 1 \in 1 .. Len(Kids)
      BY <1>1, <2>4
    <3>2. HasType(Kids[1], Top.values[1])
      BY <2>2, <3>1 DEF FrameHolds, Kids
    <3>3. /\ 1 \in 1 .. Len(KidTypes(Top.node, Unit.expressions))
          /\ KidTypes(Top.node, Unit.expressions)[1] = expressionType(Kids[1])
      BY <3>1, <2>2 DEF KidTypes, Kids, expressionType
    <3>4. 1 <= Len(Builtins[k].args)
      BY <2>1
    <3>5. expressionType(Kids[1]) = Builtins[k].args[1]
      BY <2>3, <3>3, <3>4 DEF Agree
    <3> QED BY <2>6, <2>7, <3>2, <3>5 DEF HasType
  <2>9. type = LlvmType(expressionType(Top.node))
    BY <2>1, <2>5, <2>6, <2>8
  <2>10. HasType(Top.node, Result(fun, point, Place, type))
    BY <2>9 DEF HasType, Result, Value
  <2> QED BY <1>2, <1>5, <2>10, ValueYield
<1> QED BY <1>3, <1>4, <1>5

LEMMA ValueIf ==
  ASSUME NEW T, NEW N, Going(T, N), IfCondition \/ IfThen PROVE ValueInv'
<1>1. gen = "return" /\ frames # <<>> /\ gen' = "visit"
  BY DEF IfCondition, IfThen, Got
<1>2. Top = [node |-> Top.node, how |-> Top.how, emits |-> Top.emits, type |-> Top.type,
             callee |-> Top.callee, values |-> Top.values, blocks |-> Top.blocks]
  BY <1>1, TopSetting
<1>3. ASSUME NEW fr, Become(fr), fr.node = Top.node, fr.how = Top.how, fr.emits = Top.emits,
             fr.type = Top.type, fr.values = Collected
      PROVE  ValueInv'
  <2>1. FrameHolds(fr)
    BY <1>1, <1>3, CollectedHolds
  <2> QED BY <1>1, <1>3, <2>1, ValueBecome
<1>4. CASE IfCondition
  <2>1. PICK blocks : Become([Top EXCEPT !.values = Collected, !.blocks = blocks])
    BY <1>4 DEF IfCondition
  <2> DEFINE fr == [Top EXCEPT !.values = Collected, !.blocks = blocks]
  <2>2. /\ fr.node = Top.node /\ fr.how = Top.how /\ fr.emits = Top.emits /\ fr.type = Top.type
        /\ fr.values = Collected
    BY <1>2
  <2>3. Become(fr)
    BY <2>1
  <2> HIDE DEF fr
  <2> QED BY <1>3, <2>2, <2>3
<1>5. CASE IfThen
  <2> DEFINE fr == [Top EXCEPT !.values = Collected, !.blocks[1] = point]
  <2>1. Become(fr)
    BY <1>5 DEF IfThen
  <2>2. /\ fr.node = Top.node /\ fr.how = Top.how /\ fr.emits = Top.emits /\ fr.type = Top.type
        /\ fr.values = Collected
    BY <1>2
  <2> HIDE DEF fr
  <2> QED BY <1>3, <2>1, <2>2
<1> QED BY <1>4, <1>5

LEMMA ValueIfElse ==
  ASSUME NEW T, NEW N, Going(T, N), IfElse PROVE ValueInv'
<1> DEFINE type == IF Top.emits = "double" THEN Double ELSE Int64
<1>1. /\ gen = "return" /\ frames # <<>> /\ Top.how = "if" /\ Len(Top.values) = 2
      /\ Yield(Result(fun, Top.blocks[3], 1, type))
  BY DEF IfElse, Got
<1>2. PICK k \in 1 .. Len(Builtins) :
         /\ BuiltBy(Top, k) /\ Len(Builtins[k].args) = 3
         /\ Builtins[k].ret = IF Top.emits = "double" THEN Real ELSE Integer
  BY <1>1, FrameEntry
<1>3. /\ Len(Kids) <= 3
      /\ Len(Kids) = 3 => expressionType(Top.node) = Builtins[k].ret
  BY <1>2 DEF BuiltBy, Kids
<1>4. Waits(Top)
  BY <1>1 DEF Going, ShapeInv, FramesFit
<1>5. Len(Kids) \in Nat
  BY <1>1, TopSetting
<1>6. Len(Kids) = 3
  <2>1. Len(Top.values) < Len(Kids)
    BY <1>4 DEF Waits, Kids
  <2>2. 2 < Len(Kids)
    BY <1>1, <2>1
  <2>3. \A n \in Nat : 2 < n /\ n <= 3 => n = 3
    OBVIOUS
  <2> QED BY <1>3, <1>5, <2>2, <2>3, Zenon
<1>7. LlvmType(Real) = Double /\ LlvmType(Integer) = Int64
  BY NumbersLowered DEF Going, Ready
<1>8. type = LlvmType(expressionType(Top.node))
  BY <1>2, <1>3, <1>6, <1>7
<1>9. HasType(Top.node, Result(fun, Top.blocks[3], 1, type))
  BY <1>8 DEF HasType, Result, Value
<1> QED BY <1>1, <1>9, ValueYield

LEMMA ValueInside ==
  ASSUME NEW T, NEW N, Going(T, N) PROVE ValueInv'
<1>1. CASE IfTooShort
  BY <1>1, ValueStops DEF IfTooShort
<1> QED BY <1>1, ValueLiteral, ValueFunctionName, ValueVar, ValueKid, ValueValue, ValueStartList,
           ValueFinishList, ValueBinary, ValueCall, ValueFinishCall, ValueFinishOperator, ValueIf,
           ValueIfElse DEF Going, Inside

-----------------------------------------------------------------------------
(* The units one after the other.                                          *)

LEMMA FirstOnes ==
  ASSUME NEW u \in Nat, NEW v \in Nat, u >= 1, v >= 1, FirstNamed(u), FirstNamed(v), UnitName(u) = UnitName(v)
  PROVE  u = v
<1>1. ~(u < v)
  BY DEF FirstNamed, Before
<1>2. ~(v < u)
  BY DEF FirstNamed, Before
<1> QED BY <1>1, <1>2

\* The unit that is reached.
LEMMA AtUnitFacts ==
  ASSUME NEW T, Ready(T), GenInv, ValueInv, gen = "unit", at \in 1 .. Len(analyzed)
  PROVE  /\ ModuleMeans /\ Declared = at - 1 /\ at \in Nat /\ at >= 1 /\ Len(mod) \in Nat /\ SeqLike(mod)
         /\ Unit.sig = Signature(at) /\ Signature(at).name = UnitName(at) /\ Unit.unit = at
         /\ UnitName(at) \notin {"", "malloc"} /\ Len(Signature(at).args) \in Nat
<1>1. ModuleMeans /\ Declared = at - 1
  BY DEF ValueInv, Declared
<1>2. SeqLike(mod) /\ Len(mod) \in Nat
  BY DEF GenInv, ModuleInv, SeqLike
<1>3. at \in Nat /\ at >= 1
  BY DEF Ready, Checked
<1> QED BY <1>1, <1>2, <1>3 DEF Ready, Checked, Clear, Signature, Unit

\* A unit adds at most its own function to the module, which is there then.
LEMMA UnitMeans ==
  ASSUME NEW T, Ready(T), GenInv, ValueInv, gen = "unit", at \in 1 .. Len(analyzed), UNCHANGED inputs,
         Declared' = at, Len(mod') \in Nat, Len(mod') >= Len(mod),
         \A n \in 1 .. Len(mod) : SameHead(mod[n], mod'[n]),
         \A n \in 1 .. Len(mod') : n > Len(mod) => SameHead(Created(Unit.sig), mod'[n]),
         \E f \in 1 .. Len(mod') : mod'[f].name = UnitName(at)
  PROVE  ModuleMeans'
<1>1. /\ ModuleMeans /\ Declared = at - 1 /\ at \in Nat /\ at >= 1 /\ Len(mod) \in Nat
      /\ Unit.sig = Signature(at) /\ Signature(at).name = UnitName(at)
  BY AtUnitFacts
<1>2. ASSUME NEW f \in 1 .. Len(mod), mod'[f].name \notin {"", "malloc"} PROVE FunctionMeans(f)'
  <2>1. SameHead(mod[f], mod'[f])
    OBVIOUS
  <2>2. FunctionMeans(f)
    BY <1>1, <1>2, <2>1 DEF ModuleMeans, SameHead
  <2>3. \A u \in 1 .. Declared : u \in 1 .. Declared'
    BY <1>1
  <2> QED BY <2>1, <2>2, <2>3, MeansKept
<1>3. ASSUME NEW f \in 1 .. Len(mod'), f > Len(mod), mod'[f].name \notin {"", "malloc"}
      PROVE  FunctionMeans(f)'
  <2> DEFINE s == Signature(at)
  <2>1. SameHead(Created(s), mod'[f])
    BY <1>1, <1>3
  <2>2. /\ Created(s).name = (IF FunctionsNamed(UnitName(at)) = {} THEN UnitName(at) ELSE "")
        /\ Created(s).type = CodeType(s) /\ Created(s).params = ArgumentNames(s.args)
    BY <1>1 DEF Created, Declaration, CodeType
  <2>3. /\ FunctionsNamed(UnitName(at)) = {} /\ mod'[f].name = UnitName(at)
        /\ mod'[f].type = CodeType(s) /\ mod'[f].params = ArgumentNames(s.args)
    BY <1>3, <2>1, <2>2 DEF SameHead
  <2>4. FirstNamed(at)
    <3> SUFFICES ASSUME NEW v \in 1 .. at - 1, UnitName(v) = UnitName(at) PROVE FALSE
      BY DEF FirstNamed, Before
    <3>1. FunctionsNamed(UnitName(v)) # {}
      BY <1>1 DEF ModuleMeans
    <3> QED BY <2>3, <3>1
  <2>5. PICK u : u = at
    OBVIOUS
  <2>6. u \in 1 .. Declared'
    BY <1>1, <2>5
  <2>7. FirstNamed(u)' /\ UnitName(u)' = UnitName(u) /\ Signature(u)' = Signature(u)
    BY <2>4, <2>5 DEF FirstNamed, Before, UnitName, Signature, inputs
  <2>8. /\ FirstNamed(u)' /\ UnitName(u)' = mod'[f].name /\ mod'[f].type = CodeType(Signature(u)')
        /\ mod'[f].params = ArgumentNames(Signature(u)'.args)
    BY <2>3, <2>5, <2>7
  <2> QED BY <2>6, <2>8, Zenon DEF FunctionMeans
<1>4. ASSUME NEW u \in 1 .. Declared' PROVE FunctionsNamed(UnitName(u))' # {}
  <2>1. UnitName(u)' = UnitName(u)
    BY DEF UnitName, inputs
  <2>2. CASE u \in 1 .. Declared
    <3>1. PICK f : f \in FunctionsNamed(UnitName(u))
      BY <1>1, <2>2 DEF ModuleMeans
    <3>2. f \in 1 .. Len(mod) /\ mod[f].name = UnitName(u)
      BY <3>1 DEF FunctionsNamed
    <3>3. f \in 1 .. Len(mod') /\ mod'[f].name = UnitName(u)
      BY <1>1, <3>2 DEF SameHead
    <3> QED BY <2>1, <3>3 DEF FunctionsNamed
  <2>3. CASE u = at
    BY <2>1, <2>3 DEF FunctionsNamed
  <2> QED BY <1>1, <2>2, <2>3
<1>5. ASSUME NEW f \in 1 .. Len(mod'), mod'[f].name \notin {"", "malloc"} PROVE FunctionMeans(f)'
  <2>1. f \in 1 .. Len(mod) \/ f > Len(mod)
    BY <1>1
  <2> QED BY <1>2, <1>3, <1>5, <2>1
<1> QED BY <1>4, <1>5 DEF ModuleMeans

LEMMA ValueExtern ==
  ASSUME NEW T, Ready(T), GenInv, ValueInv, at \in Nat, at >= 1, UNCHANGED inputs, GenExtern PROVE ValueInv'
<1>1. gen = "unit" /\ at \in 1 .. Len(analyzed)
  BY DEF GenExtern, AtUnit, Ready, Checked
<1>2. CASE AssertionFails(Halt("crashed"))
  BY <1>2, ValueStops DEF AssertionFails
<1>3. CASE mod' = Append(mod, Created(Unit.sig)) /\ at' = at + 1 /\ gen' = gen
  <2> DEFINE new == Created(Unit.sig)
  <2>1. /\ Len(mod) \in Nat /\ SeqLike(mod) /\ Unit.sig = Signature(at) /\ Signature(at).name = UnitName(at)
        /\ at \in Nat
    BY <1>1, AtUnitFacts
  <2>2. new.name = IF FunctionsNamed(UnitName(at)) = {} THEN UnitName(at) ELSE ""
    BY <2>1 DEF Created, Declaration
  <2> HIDE DEF new
  <2>3. mod' = Append(mod, new)
    BY <1>3 DEF new
  <2>4. /\ Len(mod') = Len(mod) + 1 /\ mod'[Len(mod) + 1] = new
        /\ \A n \in 1 .. Len(mod) : mod'[n] = mod[n]
    BY <2>1, <2>3, Appended
  <2>5. \A n \in 1 .. Len(mod') : n > Len(mod) => mod'[n] = new
    <3>1. \A n \in 1 .. Len(mod) + 1 : n > Len(mod) => n = Len(mod) + 1
      BY <2>1
    <3> QED BY <2>4, <3>1
  <2>6. \E f \in 1 .. Len(mod') : mod'[f].name = UnitName(at)
    <3>1. CASE FunctionsNamed(UnitName(at)) = {}
      <4>1. Len(mod) + 1 \in 1 .. Len(mod')
        BY <2>1, <2>4
      <4> QED BY <2>2, <2>4, <3>1, <4>1
    <3>2. CASE FunctionsNamed(UnitName(at)) # {}
      <4>1. PICK f \in 1 .. Len(mod) : mod[f].name = UnitName(at)
        BY <3>2 DEF FunctionsNamed
      <4>2. f \in 1 .. Len(mod')
        BY <2>1, <2>4
      <4> QED BY <2>4, <4>1, <4>2
    <3> QED BY <3>1, <3>2
  <2>7. Declared' = at
    BY <1>1, <1>3, <2>1 DEF Declared
  <2>8. \A n \in 1 .. Len(mod) : SameHead(mod[n], mod'[n])
    BY <2>4 DEF SameHead
  <2>9. \A n \in 1 .. Len(mod') : n > Len(mod) => SameHead(Created(Unit.sig), mod'[n])
    BY <2>5 DEF SameHead, new
  <2>10. Len(mod') \in Nat /\ Len(mod') >= Len(mod)
    BY <2>1, <2>4
  <2>11. ModuleMeans'
    BY <1>1, <2>6, <2>7, <2>8, <2>9, <2>10, UnitMeans
  <2> QED BY <1>1, <1>3, <2>11 DEF ValueInv
<1> QED BY <1>2, <1>3 DEF GenExtern

LEMMA ValueFinish ==
  ASSUME NEW T, Ready(T), GenInv, ValueInv, at \in Nat, UNCHANGED inputs, FinishFunction PROVE ValueInv'
<1>1. gen = "return" /\ (gen' = "undefined" \/ (gen' = "unit" /\ at' = at + 1))
  BY DEF FinishFunction
<1>2. CASE gen' = "undefined"
  BY <1>2, ValueHalt
<1>3. CASE gen' = "unit" /\ at' = at + 1
  <2>1. Declared = at /\ Declared' = at
    BY <1>1, <1>3 DEF Declared
  <2>2. ModuleMeans
    BY <1>1 DEF ValueInv
  <2>3. ModuleMeans'
    BY <2>1, <2>2, FinishHeads, ModuleStays
  <2> QED BY <1>3, <2>3 DEF ValueInv
<1> QED BY <1>1, <1>2, <1>3

\* The parameters of a function are named as its arguments are, but for a
\* second argument with a name.
LEMMA ArgumentsNamed ==
  ASSUME NEW args, Len(args) \in Nat,
         \A i, j, n \in 1 .. Len(args) : args[i].name # Renamed(args[j].name, n)
  PROVE  /\ Len(ArgumentNames(args)) = Len(args)
         /\ \A i, k \in 1 .. Len(args) : (\A j \in 1 .. k - 1 : args[j].name # args[k].name)
              => (ArgumentNames(args)[i] = args[k].name <=> i = k)
<1> DEFINE Twins(i) == {j \in 1 .. i - 1 : args[j].name = args[i].name}
           names == [i \in 1 .. Len(args) |->
                       IF Twins(i) = {} THEN args[i].name ELSE Renamed(args[i].name, Cardinality(Twins(i)))]
<1>1. ArgumentNames(args) = names
  BY DEF ArgumentNames
<1>2. Len(names) = Len(args)
  OBVIOUS
<1>3. ASSUME NEW i \in 1 .. Len(args), NEW k \in 1 .. Len(args), names[i] = args[k].name,
             \A j \in 1 .. k - 1 : args[j].name # args[k].name
      PROVE  i = k
  <2>1. Twins(i) = {}
    <3> SUFFICES ASSUME Twins(i) # {} PROVE FALSE
      OBVIOUS
    <3> DEFINE n == Cardinality(Twins(i))
    <3>1. IsFiniteSet(1 .. i - 1) /\ Cardinality(1 .. i - 1) <= Len(args)
      <4>1. 1 \in Int /\ i - 1 \in Int
        OBVIOUS
      <4>2. IsFiniteSet(1 .. i - 1) /\ Cardinality(1 .. i - 1) = IF 1 > i - 1 THEN 0 ELSE (i - 1) - 1 + 1
        BY <4>1, FS_Interval
      <4> QED BY <4>2
    <3>2. IsFiniteSet(Twins(i)) /\ Cardinality(Twins(i)) <= Cardinality(1 .. i - 1)
      <4>1. Twins(i) \in SUBSET (1 .. i - 1)
        OBVIOUS
      <4> QED BY <3>1, <4>1, FS_Subset
    <3>3. n \in Nat /\ n # 0
      <4> HIDE DEF Twins
      <4> QED BY <3>2, FS_CardinalityType, FS_EmptySet
    <3>4. Cardinality(1 .. i - 1) \in Nat
      BY <3>1, FS_CardinalityType
    <3>5. n \in 1 .. Len(args)
      BY <3>1, <3>2, <3>3, <3>4
    <3>6. names[i] = Renamed(args[i].name, n)
      OBVIOUS
    <3> HIDE DEF n, names
    <3> QED BY <1>3, <3>5, <3>6
  <2>2. args[i].name = args[k].name
    BY <1>3, <2>1
  <2>3. ~(i < k)
    BY <1>3, <2>2
  <2>4. ~(k < i)
    <3> SUFFICES ASSUME k < i PROVE FALSE
      OBVIOUS
    <3>1. k \in Twins(i)
      BY <2>2
    <3> QED BY <2>1, <3>1
  <2> QED BY <2>3, <2>4
<1>4. ASSUME NEW k \in 1 .. Len(args), \A j \in 1 .. k - 1 : args[j].name # args[k].name
      PROVE  names[k] = args[k].name
  <2>1. Twins(k) = {}
    BY <1>4
  <2> QED BY <2>1
<1> HIDE DEF names
<1> QED BY <1>1, <1>2, <1>3, <1>4

\* A parameter has the type of the first argument with its name.
LEMMA ParameterTyped ==
  ASSUME NEW args, Len(args) \in Nat,
         \A i, j, n \in 1 .. Len(args) : args[i].name # Renamed(args[j].name, n),
         NEW functions, NEW f, functions[f].params = ArgumentNames(args),
         \A i \in 1 .. Len(args) : functions[f].type.args[i + 1] = LlvmType(args[i].type),
         NEW k \in 1 .. Len(args), \A j \in 1 .. k - 1 : args[j].name # args[k].name
  PROVE  ParameterValue(functions, f, args[k].name).type = LlvmType(args[k].type)
<1> DEFINE x == args[k].name
           params == functions[f].params
           i == CHOOSE i \in 1 .. Len(params) : params[i] = x
<1>1. Len(params) = Len(args) /\ \A j \in 1 .. Len(args) : params[j] = x <=> j = k
  <2>1. /\ Len(ArgumentNames(args)) = Len(args)
        /\ \A h, m \in 1 .. Len(args) : (\A j \in 1 .. m - 1 : args[j].name # args[m].name)
             => (ArgumentNames(args)[h] = args[m].name <=> h = m)
    BY ArgumentsNamed, ZenonT(60)
  <2>2. \A h \in 1 .. Len(args) : ArgumentNames(args)[h] = args[k].name <=> h = k
    BY <2>1, Zenon
  <2>3. params = ArgumentNames(args)
    OBVIOUS
  <2> HIDE DEF params
  <2> QED BY <2>1, <2>2, <2>3
<1>2. i = k
  <2> HIDE DEF x, params
  <2>1. \E j \in 1 .. Len(params) : params[j] = x
    BY <1>1
  <2>2. i \in 1 .. Len(params) /\ params[i] = x
    BY <2>1
  <2> QED BY <1>1, <2>2
<1>3. ParameterValue(functions, f, x) = Argument(f, i, functions[f].type.args[i + 1])
  BY DEF ParameterValue
<1>4. Argument(f, i, functions[f].type.args[i + 1]).type = functions[f].type.args[i + 1]
  BY DEF Argument, Value
<1> HIDE DEF i
<1>5. functions[f].type.args[i + 1] = LlvmType(args[k].type)
  BY <1>2
<1> QED BY <1>3, <1>4, <1>5

\* What a function is known by once its unit has been reached.
LEMMA MeansNow ==
  ASSUME UNCHANGED inputs, Declared' = at, ModuleMeans', NEW f \in 1 .. Len(mod'),
         mod'[f].name \notin {"", "malloc"}
  PROVE  \E u \in 1 .. at : /\ FirstNamed(u) /\ UnitName(u) = mod'[f].name
                            /\ mod'[f].type = CodeType(Signature(u))
                            /\ mod'[f].params = ArgumentNames(Signature(u).args)
<1>1. FunctionMeans(f)'
  BY DEF ModuleMeans
<1>2. \A u : (FirstNamed(u)' <=> FirstNamed(u)) /\ UnitName(u)' = UnitName(u) /\ Signature(u)' = Signature(u)
  BY DEF FirstNamed, Before, UnitName, Signature, inputs
<1> QED BY <1>1, <1>2, Zenon DEF FunctionMeans

LEMMA UpTo ==
  ASSUME NEW n \in Nat, NEW a \in 1 .. n
  PROVE  /\ a \in Nat /\ a >= 1 /\ a \in 1 .. a /\ \A w \in 1 .. a - 1 : w \in 1 .. a /\ w \in Nat /\ w >= 1
         /\ \A u \in 1 .. a : u \in Nat /\ u >= 1 /\ u \in 1 .. n /\ (u # a => u \in 1 .. a - 1 /\ u < a)
OBVIOUS

\* The names of a function when it is entered.
LEMMA NamesEntered ==
  ASSUME NEW T, Ready(T), at \in 1 .. Len(analyzed), program.units[at].kind = "def", UNCHANGED inputs,
         at' = at, Declared' = at, ModuleMeans', NEW functions, NEW f \in 1 .. Len(mod'),
         mod'[f].name = UnitName(at), SameHead(functions[f], mod'[f]),
         named' = [x \in ParameterNames(functions, f) |-> ParameterValue(functions, f, x)]
  PROVE  NamesMean'
<1> DEFINE v == Unit.variables
           args == Signature(at).args
<1>0. /\ at \in Nat /\ at >= 1 /\ at \in 1 .. at
      /\ \A w \in 1 .. at - 1 : w \in 1 .. at /\ w \in Nat /\ w >= 1
      /\ \A u \in 1 .. at : u \in Nat /\ u >= 1 /\ u \in 1 .. Len(analyzed) /\ (u # at => u \in 1 .. at - 1 /\ u < at)
  <2>1. Len(analyzed) \in Nat
    BY DEF Ready, Checked
  <2> QED BY <2>1, UpTo
<1>1. /\ Unit' = Unit /\ Unit = analyzed[at] /\ Len(args) \in Nat
      /\ UnitName(at) \notin {"", "malloc"} /\ FunctionChecked(T, at) /\ Clear
  <2>1. Ready(T) /\ at' = at
    OBVIOUS
  <2>2. Unit' = Unit /\ Unit = analyzed[at]
    BY <2>1 DEF Unit, inputs
  <2> QED BY <2>1, <2>2, Zenon DEF Ready, Checked, Clear
<1>2. \A u : UnitName(u)' = UnitName(u) /\ Signature(u)' = Signature(u)
  BY DEF UnitName, Signature, inputs
<1>3. \A k \in 1 .. Len(args) :
        /\ args[k].name # UnitName(at)
        /\ \A j, n \in 1 .. Len(args) : args[k].name # Renamed(args[j].name, n)
  BY <1>1 DEF Clear
<1>4. \A x \in DOMAIN v : MeansUnit(at, x, v[x]) \/ MeansParameter(at, x, v[x]) \/ MeansItself(at, x, v[x])
  BY <1>1 DEF FunctionChecked
<1>5. ASSUME NEW x \in DOMAIN v, NEW g \in FunctionsNamed(x)'
      PROVE  \E u \in 1 .. Len(analyzed) : v[x] = TypeOf(Signature(u)) /\ mod'[g].type = CodeType(Signature(u))
  <2>1. g \in 1 .. Len(mod') /\ mod'[g].name = x
    BY DEF FunctionsNamed
  <2>2. x \notin {"", "malloc"}
    BY <1>1, ScopeNames
  <2>3. PICK u \in 1 .. at : /\ FirstNamed(u) /\ UnitName(u) = x /\ mod'[g].type = CodeType(Signature(u))
    BY <2>1, <2>2, MeansNow
  <2>4. u \in Nat /\ u >= 1 /\ u \in 1 .. Len(analyzed)
    BY <1>0, Zenon
  <2>5. ASSUME NEW w \in 1 .. at - 1, FirstNamed(w), UnitName(w) = x PROVE w = u
    <3>1. w \in Nat /\ w >= 1
      BY <1>0, Zenon
    <3> QED BY <2>3, <2>4, <2>5, <3>1, FirstOnes
  <2>6. ~Before(at, x) => u = at
    <3>1. u # at => u \in 1 .. at - 1
      BY <1>0, Zenon
    <3> QED BY <2>3, <3>1 DEF Before
  <2>7. CASE MeansUnit(at, x, v[x])
    <3>1. v[x] = TypeOf(Signature(u))
      BY <2>5, <2>7 DEF MeansUnit
    <3> QED BY <2>3, <2>4, <3>1
  <2>8. CASE MeansParameter(at, x, v[x])
    <3>1. x # UnitName(at) /\ u = at
      BY <1>3, <2>6, <2>8 DEF MeansParameter
    <3> QED BY <2>3, <3>1
  <2>9. CASE MeansItself(at, x, v[x])
    <3>1. v[x] = TypeOf(Signature(u))
      BY <2>6, <2>9 DEF MeansItself
    <3> QED BY <2>3, <2>4, <3>1
  <2> QED BY <1>4, <2>7, <2>8, <2>9
<1>6. ASSUME NEW x \in DOMAIN v, x \in DOMAIN named', FunctionsNamed(x)' = {}
      PROVE  named'[x].type = LlvmType(v[x])
  <2>1. ~Before(at, x) /\ x # UnitName(at)
    <3>1. ASSUME NEW u \in 1 .. at PROVE UnitName(u) # x
      <4>1. FunctionsNamed(UnitName(u))' # {}
        BY DEF ModuleMeans
      <4>2. UnitName(u)' = UnitName(u)
        BY <1>2
      <4> QED BY <1>6, <4>1, <4>2 DEF FunctionsNamed
    <3>2. \A w \in 1 .. at - 1 : w \in 1 .. at
      BY <1>0, Zenon
    <3>3. at \in 1 .. at
      BY <1>0, Zenon
    <3> QED BY <3>1, <3>2, <3>3 DEF Before
  <2>2. MeansParameter(at, x, v[x])
    <3>1. ~MeansUnit(at, x, v[x]) /\ ~MeansItself(at, x, v[x])
      BY <2>1 DEF MeansUnit, MeansItself, Before
    <3> QED BY <1>4, <3>1
  <2>3. PICK k \in 1 .. Len(args) : /\ args[k].name = x /\ v[x] = args[k].type
                                    /\ \A j \in 1 .. k - 1 : args[j].name # x
    BY <2>2 DEF MeansParameter
  <2>4. PICK w \in 1 .. at : /\ FirstNamed(w) /\ UnitName(w) = mod'[f].name
                            /\ mod'[f].type = CodeType(Signature(w))
                            /\ mod'[f].params = ArgumentNames(Signature(w).args)
    BY <1>1, MeansNow
  <2>5. Signature(w).args = args
    <3>1. CASE w = at
      BY <3>1
    <3>2. CASE w # at
      <4>1. w < at /\ w \in 1 .. Len(analyzed)
        BY <1>0, <3>2, Zenon
      <4> QED BY <1>1, <2>4, <4>1 DEF Clear
    <3> QED BY <3>1, <3>2
  <2>6. /\ functions[f].params = ArgumentNames(args)
        /\ \A i \in 1 .. Len(args) : functions[f].type.args[i + 1] = LlvmType(args[i].type)
    <3>1. functions[f].type = CodeType(Signature(w)) /\ functions[f].params = ArgumentNames(args)
      BY <2>4, <2>5 DEF SameHead
    <3>2. \A i \in 1 .. Len(Signature(w).args) : CodeType(Signature(w)).args[i + 1] = LlvmType(Signature(w).args[i].type)
      BY <1>1, <2>5, SignatureParts
    <3> QED BY <2>5, <3>1, <3>2
  <2>7. \A i, j, n \in 1 .. Len(args) : args[i].name # Renamed(args[j].name, n)
    BY <1>3
  <2>8. \A j \in 1 .. k - 1 : args[j].name # args[k].name
    BY <2>3
  <2>9. named'[x] = ParameterValue(functions, f, x)
    BY <1>6
  <2> HIDE DEF args, v
  <2>10. ParameterValue(functions, f, args[k].name).type = LlvmType(args[k].type)
    BY <1>1, <2>6, <2>7, <2>8, ParameterTyped
  <2> QED BY <2>3, <2>9, <2>10
<1>7. analyzed' = analyzed
  BY DEF inputs
<1> HIDE DEF v
<1>8. \A x \in DOMAIN v :
        /\ \A g \in FunctionsNamed(x)' : \E u \in 1 .. Len(analyzed') :
             v[x] = TypeOf(Signature(u)') /\ mod'[g].type = CodeType(Signature(u)')
        /\ x \in DOMAIN named' /\ FunctionsNamed(x)' = {} => named'[x].type = LlvmType(v[x])
  BY <1>2, <1>5, <1>6, <1>7
<1>9. Unit'.variables = v
  BY <1>1 DEF v
<1> QED BY <1>8, <1>9, Zenon DEF NamesMean

\* A definition begins in a function, there already or just added.
LEMMA EnteredHeads ==
  ASSUME GenInv, NEW functions, Extends(functions), NEW f \in 1 .. Len(functions), EnterFunction(functions, f)
  PROVE  /\ Len(mod') = Len(functions) /\ \A n \in 1 .. Len(functions) : SameHead(functions[n], mod'[n])
         /\ Len(functions) \in Nat /\ Len(functions) >= Len(mod)
         /\ \A n \in 1 .. Len(mod) : functions[n] = mod[n]
<1> DEFINE old == functions[f]
           new == EnterPut(old)
<1>1. /\ SeqLike(functions) /\ Len(functions) \in Nat /\ Len(functions) >= Len(mod)
      /\ \A n \in 1 .. Len(mod) : functions[n] = mod[n]
  BY DEF Extends, SeqLike
<1>2. IsFunction(old)
  <2>1. CASE f \in 1 .. Len(mod)
    <3>1. f # fun \/ ~Open \/ (Open /\ f = fun)
      OBVIOUS
    <3>2. CASE Open /\ f = fun
      BY <1>1, <3>2, FunIsFunction
    <3>3. CASE ~(Open /\ f = fun)
      BY <1>1, <2>1, <3>3 DEF GenInv, ModuleInv, Untouched, Sound
    <3> QED BY <3>2, <3>3
  <2>2. CASE f \notin 1 .. Len(mod)
    <3>1. Len(mod) \in Nat
      BY DEF GenInv, ModuleInv, SeqLike
    <3>2. f > Len(mod)
      BY <1>1, <2>2, <3>1
    <3> QED BY <3>2 DEF Extends, Fresh, Sound
  <2> QED BY <2>1, <2>2
<1>3. mod' = EnteredTo(functions, f, Len(functions[f].blocks) + 1)
  BY DEF EnterFunction, EnteredTo
<1>4. mod' = Replaced(functions, f, new)
  BY <1>2, <1>3, EnteredIs
<1>5. SameHead(old, new)
  BY DEF EnterPut, SameHead
<1> HIDE DEF new
<1>6. /\ Len(mod') = Len(functions) /\ mod'[f] = new
      /\ \A n \in 1 .. Len(functions) : n # f => mod'[n] = functions[n]
  BY <1>1, <1>4, Updated
<1>7. \A n \in 1 .. Len(functions) : SameHead(functions[n], mod'[n])
  BY <1>5, <1>6 DEF SameHead
<1> QED BY <1>1, <1>6, <1>7

LEMMA ValueEnter ==
  ASSUME NEW T, Ready(T), GenInv, ValueInv, gen = "unit", at \in 1 .. Len(analyzed), UNCHANGED inputs,
         program.units[at].kind = "def", at' = at,
         NEW functions, Extends(functions), NEW f \in 1 .. Len(functions), EnterFunction(functions, f),
         \A n \in 1 .. Len(functions) : n > Len(mod) => functions[n] = Created(Unit.sig),
         functions[f].name = UnitName(at)
  PROVE  ValueInv'
<1> DEFINE body == program.units[Unit.unit].body
<1>1. /\ Len(mod') = Len(functions) /\ \A n \in 1 .. Len(functions) : SameHead(functions[n], mod'[n])
      /\ Len(functions) \in Nat /\ Len(functions) >= Len(mod)
      /\ \A n \in 1 .. Len(mod) : functions[n] = mod[n]
  BY EnteredHeads
<1>2. /\ named' = [x \in ParameterNames(functions, f) |-> ParameterValue(functions, f, x)]
      /\ frames' = <<Start(body)>> /\ gen' = "visit"
  BY DEF EnterFunction
<1>3. Declared' = at
  BY <1>2 DEF Declared
<1>4. \A n \in 1 .. Len(mod) : SameHead(mod[n], mod'[n])
  <2>1. Len(mod) \in Nat
    BY AtUnitFacts
  <2>2. \A n \in 1 .. Len(mod) : n \in 1 .. Len(functions)
    BY <1>1, <2>1
  <2> QED BY <1>1, <2>2
<1>5. \A n \in 1 .. Len(mod') : n > Len(mod) => SameHead(Created(Unit.sig), mod'[n])
  BY <1>1
<1>6. f \in 1 .. Len(mod') /\ mod'[f].name = UnitName(at) /\ SameHead(functions[f], mod'[f])
  BY <1>1 DEF SameHead
<1>7. ModuleMeans'
  BY <1>1, <1>3, <1>4, <1>5, <1>6, UnitMeans
<1>8. NamesMean'
  BY <1>2, <1>3, <1>6, <1>7, NamesEntered
<1>9. CallsHold(frames')
  <2>1. body \in DOMAIN Unit.expressions
    BY AtUnitFacts DEF Ready, Checked, FunctionChecked, Unit
  <2>2. Start(body).node = body /\ Start(body).how = "visit" /\ Start(body).values = <<>>
    BY DEF Start
  <2>3. FrameHolds(Start(body))
    BY <2>1, <2>2 DEF FrameHolds
  <2>4. Len(frames') = 1 /\ frames'[1] = Start(body)
    BY <1>2
  <2>5. \A i \in 1 .. Len(frames') : i = 1
    BY <2>4
  <2> QED BY <2>2, <2>3, <2>4, <2>5 DEF CallsHold, Chained
<1>10. CallsHold(frames)'
  BY <1>9, SameCalls
<1>11. at' \in 1 .. Len(analyzed') /\ program'.units[at'].kind = "def"
  BY DEF inputs
<1>12. InFunction'
  BY <1>2, <1>8, <1>10, <1>11 DEF InFunction
<1> QED BY <1>7, <1>12 DEF ValueInv

LEMMA ValueFunction ==
  ASSUME NEW T, Ready(T), GenInv, ValueInv, at \in Nat, at >= 1, UNCHANGED inputs, GenFunction
  PROVE  ValueInv'
<1>1. gen = "unit" /\ at \in 1 .. Len(analyzed) /\ program.units[Unit.unit].kind = "def"
  BY DEF GenFunction, AtUnit, Ready, Checked
<1>2. /\ Unit.unit = at /\ Unit.sig.name = UnitName(at) /\ Len(mod) \in Nat /\ SeqLike(mod)
  BY <1>1, AtUnitFacts
<1>3. CASE Halt("crashed")
  BY <1>3, ValueStops
<1>4. CASE /\ FunctionsNamed(Unit.sig.name) = {} /\ at' = at
           /\ EnterFunction(Append(mod, Created(Unit.sig)), Len(mod) + 1)
  <2> DEFINE new == Created(Unit.sig)
             functions == Append(mod, new)
  <2>1. Extends(functions) /\ Len(functions) = Len(mod) + 1
    BY AddedExtends DEF Created
  <2>2. new.name = UnitName(at)
    BY <1>2, <1>4 DEF Created, Declaration
  <2>3. EnterFunction(functions, Len(mod) + 1)
    BY <1>4
  <2> HIDE DEF new
  <2>4. functions[Len(mod) + 1] = new
    BY <1>2, Appended
  <2>5. \A n \in 1 .. Len(functions) : n > Len(mod) => functions[n] = new
    <3>1. \A n \in 1 .. Len(mod) + 1 : n > Len(mod) => n = Len(mod) + 1
      BY <1>2
    <3> QED BY <2>1, <2>4, <3>1
  <2>6. Len(mod) + 1 \in 1 .. Len(functions)
    BY <1>2, <2>1
  <2>7. \A n \in 1 .. Len(functions) : n > Len(mod) => functions[n] = Created(Unit.sig)
    BY <2>5 DEF new
  <2> HIDE DEF functions
  <2> QED BY <1>1, <1>2, <1>4, <2>1, <2>2, <2>3, <2>4, <2>6, <2>7, ValueEnter
<1>5. CASE at' = at /\ \E f \in FunctionsNamed(Unit.sig.name) : EnterFunction(mod, f)
  <2>1. PICK f \in FunctionsNamed(Unit.sig.name) : EnterFunction(mod, f)
    BY <1>5
  <2>2. f \in 1 .. Len(mod) /\ mod[f].name = UnitName(at)
    BY <1>2 DEF FunctionsNamed
  <2>3. \A n \in 1 .. Len(mod) : ~(n > Len(mod))
    BY <1>2
  <2> QED BY <1>1, <1>2, <1>5, <2>1, <2>2, <2>3, SameExtends, ValueEnter
<1> QED BY <1>3, <1>4, <1>5 DEF GenFunction

\* The invariant of the code generator, step by step.
LEMMA ValueGoesOn ==
  ASSUME NEW T, NEW N, Ready(T), GenInv, ShapeInv(N), Expressions(N), N \subseteq 1 .. Len(program.nodes),
         ValueInv, GenNext
  PROVE  ValueInv'
<1>1. UNCHANGED inputs /\ at \in Nat /\ at >= 1
  BY DEF GenNext, ShapeInv, Expressions
<1>2. CASE Inside
  <2>1. gen \in {"visit", "return"}
    BY <1>2 DEF Inside, GenLiteral, GenFunctionName, GenVar, GenKid, GenValue, StartList, FinishList,
                GenBinary, GenCall, FinishCall, FinishOperator, IfCondition, IfThen, IfElse, IfTooShort,
                Visiting, Building, Got
  <2> QED BY <1>1, <1>2, <2>1, ValueInside DEF Going
<1>3. CASE GenExtern \/ GenFunction \/ FinishFunction
  BY <1>1, <1>3, ValueExtern, ValueFunction, ValueFinish
<1>4. CASE NothingToRun \/ SymbolNotFound \/ RunLast
  <2>1. gen' \notin {"unit", "visit", "return"}
    <3>1. CASE NothingToRun
      BY <3>1 DEF NothingToRun
    <3>2. CASE SymbolNotFound
      BY <3>2 DEF SymbolNotFound
    <3>3. CASE RunLast
      BY <3>3 DEF RunLast
    <3> QED BY <1>4, <3>1, <3>2, <3>3
  <2> QED BY <2>1, ValueHalt
<1>5. \/ Inside \/ GenExtern \/ GenFunction \/ FinishFunction
      \/ NothingToRun \/ SymbolNotFound \/ RunLast
  BY DEF GenNext, Inside
<1> QED BY <1>2, <1>3, <1>4, <1>5

LEMMA ValueStutter ==
  ASSUME ValueInv, UNCHANGED <<inputs, genvars>>
  PROVE  ValueInv'
<1>1. UNCHANGED <<program, build, analyzed, gen, at, mod, fun, point, named, frames, value, lastfn, tp>>
  BY DEF inputs, genvars, translation, chosen
<1>2. /\ Declared' = Declared /\ Unit' = Unit /\ program' = program /\ analyzed' = analyzed
      /\ gen' = gen /\ at' = at /\ mod' = mod
  BY <1>1 DEF Declared, Unit
<1>3. ASSUME ModuleMeans PROVE ModuleMeans'
  <2>1. \A f : FunctionMeans(f) => FunctionMeans(f)'
    BY <1>2 DEF FunctionMeans, FirstNamed, Before, UnitName, Signature
  <2>2. \A u : FunctionsNamed(UnitName(u))' = FunctionsNamed(UnitName(u))
    BY <1>2 DEF FunctionsNamed, UnitName
  <2> QED BY <1>2, <1>3, <2>1, <2>2 DEF ModuleMeans
<1>4. ASSUME NamesMean PROVE NamesMean'
  <2>1. \A x : FunctionsNamed(x)' = FunctionsNamed(x)
    BY <1>2 DEF FunctionsNamed
  <2>2. \A u : Signature(u)' = Signature(u)
    BY <1>2 DEF Signature
  <2> QED BY <1>1, <1>2, <1>4, <2>1, <2>2 DEF NamesMean
<1>5. ASSUME InFunction PROVE InFunction'
  <2>1. CallsHold(frames)'
    BY <1>1, <1>5, SameCalls DEF InFunction, inputs
  <2>2. gen' = "return" => HasType(Awaited(frames), value)'
    BY <1>1, <1>5, HasTypeKept DEF InFunction, inputs
  <2> QED BY <1>2, <1>4, <1>5, <2>1, <2>2 DEF InFunction
<1> QED BY <1>2, <1>3, <1>5 DEF ValueInv

\* Nothing has been generated at first.
LEMMA ValueInit ==
  ASSUME gen = "unit", at = 1, mod = <<>>
  PROVE  ValueInv
<1>1. Len(mod) = 0 /\ Declared = 0
  BY DEF Declared
<1> QED BY <1>1 DEF ValueInv, ModuleMeans

\* What the invariant says of a value.
LEMMA ValueIsTyped ==
  ASSUME ValueInv, gen = "return"
  PROVE  HasType(Awaited(frames), value)
BY DEF ValueInv, InFunction
=============================================================================
