---------------------------- MODULE CodegenProofs ----------------------------
(***************************************************************************)
(* The code generator builds sound control flow graphs, one function at a  *)
(* time, and never changes what a call of a complete function runs.        *)
(***************************************************************************)
EXTENDS Codegen, IrProofs

\* A function is under construction.
Open == frames # <<>> \/ gen = "return"

\* The module: the function under construction is in progress, the others
\* are closed, and reached but for one that the verifier rejected.
Untouched(n) ==
  /\ Sound(mod[n], n) /\ Closed(mod[n])
  /\ mod[n].blocks # <<>> /\ ~(gen = "undefined" /\ n = fun) => Reached(mod[n])
ModuleInv ==
  /\ SeqLike(mod)
  /\ \A n \in 1 .. Len(mod) :
       IF Open /\ n = fun
       THEN \E s \in Blocks(mod[n]) : Opened(mod[n], n, point, frames, s)
       ELSE Untouched(n)

IsActive(frame) ==
  IsFrame(frame) /\ (frame.how = "operator" => frame.emits \notin Terminators \cup {"phi"})
FramesInv == SeqLike(frames) /\ \A i \in 1 .. Len(frames) : IsActive(frames[i])

OpenInv ==
  Open =>
    /\ fun \in 1 .. Len(mod)
    /\ \A x \in DOMAIN named : Fixed(fun, named[x])
    /\ gen = "return" => Computed(mod[fun], fun, value, {point})

PhaseInv == (gen = "visit" => frames # <<>>) /\ (gen = "unit" => frames = <<>>)

GenInv == ModuleInv /\ FramesInv /\ OpenInv /\ PhaseInv

\* No function loses what it runs.
AllFrozen == \A n \in 1 .. Len(mod) : Frozen(mod[n], mod'[n])

LEMMA FrozenRefl == ASSUME NEW f PROVE Frozen(f, f)
BY DEF Frozen

LEMMA InitHolds ==
  ASSUME GenInit PROVE GenInv
<1>1. mod = <<>> /\ frames = <<>> /\ gen = "unit"
  BY DEF GenInit
<1>2. SeqLike(mod) /\ SeqLike(frames) /\ Len(mod) = 0 /\ Len(frames) = 0 /\ ~Open
  BY <1>1 DEF SeqLike, Open
<1> QED BY <1>1, <1>2 DEF GenInv, ModuleInv, FramesInv, OpenInv, PhaseInv

-----------------------------------------------------------------------------
(* Steps inside a function, and steps that end the translation.            *)

\* A declaration that a step may add.
Fresh(f, n) == Sound(f, n) /\ Closed(f) /\ f.blocks = <<>>

LEMMA DeclarationIsFresh ==
  ASSUME NEW name, NEW type, NEW params, NEW n
  PROVE  Fresh(Declaration(name, type, params), n)
<1> DEFINE f == Declaration(name, type, params)
<1>1. /\ f = [name |-> f.name, type |-> f.type, params |-> f.params, blocks |-> f.blocks,
              entry |-> f.entry, listed |-> f.listed]
      /\ f.blocks = <<>> /\ f.listed = {} /\ f.entry = 0
  BY DEF Declaration
<1> HIDE DEF f
<1>2. Blocks(f) = {} /\ SeqLike(f.blocks)
  BY <1>1 DEF Blocks, SeqLike
<1> QED BY <1>1, <1>2 DEF Fresh, Sound, IsFunction, Closed, UsesSound, InOrder, f

LEMMA InsideStep ==
  ASSUME GenInv, Open, fun' = fun, named' = named,
         gen' = "return" \/ (gen' = "visit" /\ frames' # <<>>),
         SeqLike(mod'), Len(mod') >= Len(mod),
         \A n \in 1 .. Len(mod) : n # fun => mod'[n] = mod[n],
         \A n \in 1 .. Len(mod') : n > Len(mod) => Fresh(mod'[n], n),
         NEW s, Opened(mod'[fun], fun, point', frames', s), Frozen(mod[fun], mod'[fun]),
         SeqLike(frames'), \A i \in 1 .. Len(frames') : IsActive(frames'[i]),
         gen' = "return" => Computed(mod'[fun], fun, value', {point'})
  PROVE  GenInv' /\ AllFrozen
<1>1. Len(mod) \in Nat /\ Len(mod') \in Nat
  BY DEF GenInv, ModuleInv, SeqLike
<1>2. fun \in 1 .. Len(mod) /\ fun \in 1 .. Len(mod')
  BY <1>1 DEF GenInv, OpenInv
<1>3. Open'
  BY DEF Open
<1>4. s \in Blocks(mod'[fun])
  BY OpenedFacts
<1>5. ASSUME NEW n \in 1 .. Len(mod'), n # fun PROVE Untouched(n)'
  <2>1. CASE n > Len(mod)
    <3>1. Fresh(mod'[n], n)
      BY <2>1
    <3> QED BY <3>1 DEF Fresh, Untouched
  <2>2. CASE n <= Len(mod)
    <3>1. n \in 1 .. Len(mod) /\ mod'[n] = mod[n]
      BY <1>1, <1>5, <2>2
    <3>2. Untouched(n)
      BY <1>5, <3>1 DEF GenInv, ModuleInv
    <3> QED BY <1>5, <3>1, <3>2 DEF Untouched
  <2> QED BY <1>1, <2>1, <2>2
<1>6. ModuleInv'
  BY <1>2, <1>3, <1>4, <1>5 DEF ModuleInv
<1>7. FramesInv' /\ PhaseInv'
  BY DEF FramesInv, PhaseInv
<1>8. OpenInv'
  BY <1>2 DEF GenInv, OpenInv
<1>9. AllFrozen
  BY FrozenRefl DEF AllFrozen
<1> QED BY <1>6, <1>7, <1>8, <1>9 DEF GenInv

\* The module stays as it is, and so does the function.
LEMMA SameModule ==
  ASSUME GenInv, Open, UNCHANGED translation,
         gen' = "return" \/ (gen' = "visit" /\ frames' # <<>>),
         NEW s, Opened(mod[fun], fun, point, frames', s),
         SeqLike(frames'), \A i \in 1 .. Len(frames') : IsActive(frames'[i]),
         gen' = "return" => Computed(mod[fun], fun, value', {point})
  PROVE  GenInv' /\ AllFrozen
<1>1. mod' = mod /\ fun' = fun /\ point' = point /\ named' = named
  BY DEF translation
<1>2. SeqLike(mod) /\ Len(mod) \in Nat
  BY DEF GenInv, ModuleInv, SeqLike
<1>3. \A n \in 1 .. Len(mod) : ~(n > Len(mod))
  BY <1>2
<1>4. Frozen(mod[fun], mod'[fun])
  BY <1>1, FrozenRefl
<1>5. Opened(mod'[fun], fun, point', frames', s) /\ (gen' = "return" => Computed(mod'[fun], fun, value', {point'}))
  BY <1>1
<1>6. Len(mod') >= Len(mod)
  BY <1>1, <1>2
<1> QED BY <1>1, <1>2, <1>3, <1>4, <1>5, <1>6, InsideStep

\* The translation is given up.
Given(how) == how \in {"error", "aborted", "crashed", "undefined"}

LEMMA HaltStep ==
  ASSUME GenInv, NEW how, Given(how), Halt(how), gen \in {"unit", "visit"}
  PROVE  GenInv' /\ AllFrozen
<1>1. /\ mod' = mod /\ fun' = fun /\ point' = point /\ named' = named /\ frames' = frames /\ gen' = how
      /\ value' = value
  BY DEF Halt, translation
<1>2. gen' \notin {"unit", "visit", "return"}
  BY <1>1 DEF Given
<1>3. Open' <=> Open
  <2>1. gen # "return" /\ gen' # "return"
    BY <1>2
  <2> QED BY <1>1, <2>1 DEF Open
<1>4. FramesInv' /\ PhaseInv' /\ OpenInv'
  BY <1>1, <1>2, <1>3 DEF GenInv, FramesInv, PhaseInv, OpenInv
<1>5. ModuleInv'
  <2>1. SeqLike(mod')
    BY <1>1 DEF GenInv, ModuleInv
  <2>2. ASSUME NEW n \in 1 .. Len(mod)
        PROVE  IF Open /\ n = fun
               THEN \E s \in Blocks(mod[n]) : Opened(mod[n], n, point, frames, s)
               ELSE Untouched(n)'
    <3>1. gen # "undefined"
      OBVIOUS
    <3> QED BY <1>1, <3>1 DEF GenInv, ModuleInv, Untouched
  <2> QED BY <1>1, <1>3, <2>1, <2>2 DEF ModuleInv
<1>6. AllFrozen
  BY <1>1, FrozenRefl DEF AllFrozen
<1> QED BY <1>4, <1>5, <1>6 DEF GenInv

LEMMA FailedStep ==
  ASSUME GenInv, Failed, gen \in {"unit", "visit"}
  PROVE  GenInv' /\ AllFrozen
<1>1. PICK how \in {"error", "undefined"} : Halt(how)
  BY DEF Failed
<1> QED BY <1>1, HaltStep DEF Given

-----------------------------------------------------------------------------
(* Calls of codegen(Expr) that begin, go on and return.                    *)

LEMMA TopFacts ==
  ASSUME GenInv, frames # <<>>
  PROVE  /\ SeqLike(Tail(frames)) /\ frames = <<Top>> \o Tail(frames) /\ IsActive(Top)
         /\ \A i \in 1 .. Len(Tail(frames)) : IsActive(Tail(frames)[i])
         /\ Open /\ fun \in 1 .. Len(mod)
         /\ \E s : Opened(mod[fun], fun, point, <<Top>> \o Tail(frames), s)
<1>1. SeqLike(frames) /\ \A i \in 1 .. Len(frames) : IsActive(frames[i])
  BY DEF GenInv, FramesInv
<1>2. /\ SeqLike(Tail(frames)) /\ Len(Tail(frames)) = Len(frames) - 1 /\ Len(frames) >= 1
      /\ \A i \in 1 .. Len(frames) - 1 : Tail(frames)[i] = frames[i + 1]
      /\ frames = <<frames[1]>> \o Tail(frames) /\ Head(frames) = frames[1]
  BY <1>1, Tails
<1>3. Len(frames) \in Nat
  BY <1>1 DEF SeqLike
<1>4. IsActive(Top) /\ Top = frames[1]
  BY <1>1, <1>2, <1>3 DEF Top
<1>5. \A i \in 1 .. Len(Tail(frames)) : IsActive(Tail(frames)[i])
  <2> TAKE i \in 1 .. Len(Tail(frames))
  <2>1. i \in 1 .. Len(frames) - 1 /\ i + 1 \in 1 .. Len(frames)
    BY <1>2, <1>3
  <2> QED BY <1>1, <1>2, <2>1
<1>6. Open /\ fun \in 1 .. Len(mod)
  BY DEF GenInv, OpenInv, Open
<1>7. \E s : Opened(mod[fun], fun, point, frames, s)
  BY <1>6 DEF GenInv, ModuleInv
<1> QED BY <1>2, <1>4, <1>5, <1>6, <1>7

LEMMA ActiveFrames ==
  ASSUME NEW fr, NEW rest, SeqLike(rest), IsActive(fr), \A i \in 1 .. Len(rest) : IsActive(rest[i])
  PROVE  /\ SeqLike(<<fr>> \o rest) /\ <<fr>> \o rest # <<>>
         /\ \A i \in 1 .. Len(<<fr>> \o rest) : IsActive((<<fr>> \o rest)[i])
<1> DEFINE gs == <<fr>> \o rest
<1>1. /\ SeqLike(gs) /\ Len(gs) = Len(rest) + 1 /\ gs[1] = fr
      /\ \A i \in 2 .. Len(rest) + 1 : gs[i] = rest[i - 1]
  BY Prefixed
<1>2. Len(rest) \in Nat
  BY DEF SeqLike
<1> HIDE DEF gs
<1>3. \A i \in 1 .. Len(gs) : IsActive(gs[i])
  <2> TAKE i \in 1 .. Len(gs)
  <2>1. i = 1 \/ (i \in 2 .. Len(rest) + 1 /\ i - 1 \in 1 .. Len(rest))
    BY <1>1, <1>2
  <2> QED BY <1>1, <2>1
<1>4. gs # <<>>
  BY <1>1, <1>2
<1> QED BY <1>1, <1>3, <1>4 DEF gs

\* The innermost call returns a value that can be used.
LEMMA ReturnStep ==
  ASSUME GenInv, frames # <<>>, Top.how # "if", NEW v, Yield(v), UNCHANGED translation,
         Computed(mod[fun], fun, v, {point})
  PROVE  GenInv' /\ AllFrozen
<1>1. PICK s : Opened(mod[fun], fun, point, <<Top>> \o Tail(frames), s)
  BY TopFacts
<1>2. SeqLike(Tail(frames)) /\ Open /\ \A i \in 1 .. Len(Tail(frames)) : IsActive(Tail(frames)[i])
  BY TopFacts
<1>3. Opened(mod[fun], fun, point, Tail(frames), s)
  BY <1>1, <1>2, PushFrame
<1>4. gen' = "return" /\ value' = v /\ frames' = Tail(frames)
  BY DEF Yield
<1> QED BY <1>2, <1>3, <1>4, SameModule

\* It goes on with its frame changed.
LEMMA GoOn ==
  ASSUME GenInv, frames # <<>>, NEW fr, IsActive(fr),
         Top.how = "if" => Len(Top.values) = 0, fr.how = "if" => Len(fr.values) = 0,
         ValuesAt(mod[fun], fun, Top, {point}) => ValuesAt(mod[fun], fun, fr, {point}),
         Become(fr), gen' = "visit", UNCHANGED translation
  PROVE  GenInv' /\ AllFrozen
<1>1. PICK s : Opened(mod[fun], fun, point, <<Top>> \o Tail(frames), s)
  BY TopFacts
<1>2. SeqLike(Tail(frames)) /\ Open /\ \A i \in 1 .. Len(Tail(frames)) : IsActive(Tail(frames)[i])
  BY TopFacts
<1>3. Opened(mod[fun], fun, point, Tail(frames), s) /\ ValuesAt(mod[fun], fun, Top, {point})
  BY <1>1, <1>2, PushFrame
<1>4. ValuesAt(mod[fun], fun, fr, {point})
  BY <1>3
<1>5. Opened(mod[fun], fun, point, <<fr>> \o Tail(frames), s)
  BY <1>2, <1>3, <1>4, PushFrame
<1>6. /\ SeqLike(<<fr>> \o Tail(frames)) /\ <<fr>> \o Tail(frames) # <<>>
      /\ \A i \in 1 .. Len(<<fr>> \o Tail(frames)) : IsActive((<<fr>> \o Tail(frames))[i])
  BY <1>2, ActiveFrames
<1>7. frames' = <<fr>> \o Tail(frames)
  BY DEF Become
<1> QED BY <1>2, <1>5, <1>6, <1>7, SameModule

\* What the active call is.
LEMMA VisitingFacts ==
  ASSUME GenInv, NEW kinds, Visiting(kinds)
  PROVE  gen = "visit" /\ frames # <<>> /\ Top.how = "visit" /\ Open /\ fun \in 1 .. Len(mod)
<1>1. gen = "visit" /\ Top.how = "visit"
  BY DEF Visiting
<1>2. frames # <<>>
  BY <1>1 DEF GenInv, PhaseInv
<1> QED BY <1>1, <1>2 DEF Open, GenInv, OpenInv

LEMMA LiteralStep ==
  ASSUME GenInv, GenLiteral PROVE GenInv' /\ AllFrozen
<1>1. frames # <<>> /\ Top.how = "visit"
  BY VisitingFacts DEF GenLiteral
<1> DEFINE v == LiteralValue(Node(Top.node).name)
<1>2. Fixed(fun, v)
  BY DEF LiteralValue, Constant, Value, Fixed
<1>3. Yield(v) /\ UNCHANGED translation
  BY DEF GenLiteral
<1> HIDE DEF v
<1>4. Computed(mod[fun], fun, v, {point})
  BY <1>2, FixedComputed
<1> QED BY <1>1, <1>3, <1>4, ReturnStep

LEMMA FunctionNameStep ==
  ASSUME GenInv, GenFunctionName PROVE GenInv' /\ AllFrozen
<1>1. frames # <<>> /\ Top.how = "visit"
  BY VisitingFacts DEF GenFunctionName
<1>2. PICK f \in FunctionsNamed(Node(Top.node).name) : Yield(Address(f, mod[f].type))
  BY DEF GenFunctionName
<1> DEFINE v == Address(f, mod[f].type)
<1>3. Fixed(fun, v)
  BY DEF Address, Value, Fixed
<1>4. Yield(v) /\ UNCHANGED translation
  BY <1>2 DEF GenFunctionName
<1> HIDE DEF v
<1>5. Computed(mod[fun], fun, v, {point})
  BY <1>3, FixedComputed
<1> QED BY <1>1, <1>4, <1>5, ReturnStep

LEMMA StartIsActive ==
  ASSUME NEW n
  PROVE  /\ IsActive(Start(n)) /\ Start(n).how = "visit" /\ Start(n).values = <<>>
         /\ \A f, k, places : ValuesAt(f, k, Start(n), places) /\ Fixed(k, Start(n).callee)
<1>1. SeqLike(<<>>)
  BY DEF SeqLike
<1>2. /\ Start(n).how = "visit" /\ Start(n).values = <<>> /\ Start(n).blocks = <<>>
      /\ Start(n).callee = NoValue
  BY DEF Start
<1>3. \A k : Fixed(k, NoValue)
  BY DEF Fixed, NoValue, Constant, Value
<1>4. IsActive(Start(n))
  BY <1>1, <1>2 DEF IsActive, IsFrame, Start
<1>5. \A f, k, places : ValuesAt(f, k, Start(n), places)
  BY <1>2, <1>3 DEF ValuesAt
<1> QED BY <1>2, <1>3, <1>4, <1>5

LEMMA KidStep ==
  ASSUME GenInv, GenKid PROVE GenInv' /\ AllFrozen
<1>1. gen = "visit" /\ gen' = "visit" /\ UNCHANGED translation /\ frames # <<>>
  BY DEF GenKid, GenInv, PhaseInv
<1> DEFINE fr == Start(Kids[Len(Top.values) + 1])
<1>2. frames' = <<fr>> \o frames
  BY DEF GenKid
<1>3. /\ IsActive(fr) /\ fr.how = "visit"
      /\ \A f, k, places : ValuesAt(f, k, fr, places)
  BY StartIsActive
<1> HIDE DEF fr
<1>4. SeqLike(frames) /\ \A i \in 1 .. Len(frames) : IsActive(frames[i])
  BY DEF GenInv, FramesInv
<1>5. Open /\ frames = <<Top>> \o Tail(frames)
  BY <1>1, TopFacts
<1>6. PICK s : Opened(mod[fun], fun, point, <<Top>> \o Tail(frames), s)
  BY <1>1, TopFacts
<1>7. Opened(mod[fun], fun, point, frames, s)
  BY <1>5, <1>6
<1>8. Opened(mod[fun], fun, point, <<fr>> \o frames, s)
  BY <1>3, <1>4, <1>7, PushFrame
<1>9. /\ SeqLike(<<fr>> \o frames) /\ <<fr>> \o frames # <<>>
      /\ \A i \in 1 .. Len(<<fr>> \o frames) : IsActive((<<fr>> \o frames)[i])
  BY <1>3, <1>4, ActiveFrames
<1>10. frames' # <<>> /\ SeqLike(frames') /\ \A i \in 1 .. Len(frames') : IsActive(frames'[i])
  BY <1>2, <1>9
<1>11. Opened(mod[fun], fun, point, frames', s)
  BY <1>2, <1>8
<1>12. gen' # "return"
  BY <1>1
<1> QED BY <1>1, <1>5, <1>10, <1>11, <1>12, SameModule

LEMMA ValueStep ==
  ASSUME GenInv, GenValue PROVE GenInv' /\ AllFrozen
<1>1. gen = "return" /\ frames # <<>> /\ Top.how \in {"list", "operator", "call"}
  BY DEF GenValue, Got
<1> DEFINE fr == [Top EXCEPT !.values = Append(@, value)]
<1>2. Become(fr) /\ gen' = "visit" /\ UNCHANGED translation
  BY DEF GenValue, Collect
<1>3. IsActive(Top) /\ Open /\ Computed(mod[fun], fun, value, {point})
  BY <1>1, TopFacts DEF GenInv, OpenInv
<1>4. SeqLike(Top.values)
  BY <1>3 DEF IsActive, IsFrame
<1> DEFINE vs == Append(Top.values, value)
<1>5. /\ SeqLike(vs) /\ Len(vs) = Len(Top.values) + 1
      /\ \A i \in 1 .. Len(Top.values) : vs[i] = Top.values[i]
      /\ vs[Len(Top.values) + 1] = value
  BY <1>4, Appended
<1>6. /\ fr.how = Top.how /\ fr.emits = Top.emits /\ fr.callee = Top.callee /\ fr.blocks = Top.blocks
      /\ fr.values = vs
      /\ fr = [node |-> fr.node, how |-> fr.how, emits |-> fr.emits, type |-> fr.type,
               callee |-> fr.callee, values |-> fr.values, blocks |-> fr.blocks]
  BY <1>3 DEF IsActive, IsFrame
<1> HIDE DEF fr, vs
<1>7. IsActive(fr)
  BY <1>1, <1>3, <1>5, <1>6 DEF IsActive, IsFrame
<1>8. ASSUME ValuesAt(mod[fun], fun, Top, {point}) PROVE ValuesAt(mod[fun], fun, fr, {point})
  <2>1. Fixed(fun, fr.callee) /\ \A k \in 1 .. Len(Top.values) : Computed(mod[fun], fun, Top.values[k], {point})
    BY <1>1, <1>6, <1>8 DEF ValuesAt
  <2>2. ASSUME NEW k \in 1 .. Len(vs) PROVE Computed(mod[fun], fun, vs[k], {point})
    <3>1. k \in 1 .. Len(Top.values) \/ k = Len(Top.values) + 1
      BY <1>4, <1>5 DEF SeqLike
    <3> QED BY <1>3, <1>5, <2>1, <3>1
  <2> QED BY <1>1, <1>6, <2>1, <2>2 DEF ValuesAt
<1>9. Top.how # "if" /\ fr.how # "if"
  BY <1>1, <1>6
<1> QED BY <1>1, <1>2, <1>7, <1>8, <1>9, GoOn

\* A call that has no values yet takes up another part of its work.
LEMMA BeginStep ==
  ASSUME GenInv, gen = "visit", frames # <<>>, Top.how = "visit", NEW fr, Become(fr),
         UNCHANGED <<gen, translation>>,
         fr = [node |-> fr.node, how |-> fr.how, emits |-> fr.emits, type |-> fr.type,
               callee |-> fr.callee, values |-> fr.values, blocks |-> fr.blocks],
         fr.values = Top.values, fr.blocks = Top.blocks,
         fr.how \in {"list", "call", "if"} \/ (fr.how = "operator" /\ fr.emits \notin Terminators \cup {"phi"}),
         fr.callee = Top.callee \/ Fixed(fun, fr.callee)
  PROVE  GenInv' /\ AllFrozen
<1>1. IsActive(Top)
  BY TopFacts
<1>2. Top.values = <<>> /\ Top.blocks = <<>>
  BY <1>1 DEF IsActive, IsFrame
<1>3. SeqLike(<<>>) /\ Len(<<>>) = 0
  BY DEF SeqLike
<1>4. IsFrame(fr)
  BY <1>2, <1>3 DEF IsFrame
<1>5. IsActive(fr)
  BY <1>4 DEF IsActive
<1>6. ASSUME ValuesAt(mod[fun], fun, Top, {point}) PROVE ValuesAt(mod[fun], fun, fr, {point})
  <2>1. Fixed(fun, fr.callee)
    BY <1>6 DEF ValuesAt
  <2>2. Len(fr.values) = 0
    BY <1>2
  <2> QED BY <2>1, <2>2 DEF ValuesAt
<1>7. gen' = "visit" /\ UNCHANGED translation /\ Len(fr.values) = 0
  BY <1>2
<1> QED BY <1>5, <1>6, <1>7, GoOn

LEMMA StartListStep ==
  ASSUME GenInv, StartList PROVE GenInv' /\ AllFrozen
<1>1. gen = "visit" /\ frames # <<>> /\ Top.how = "visit"
  BY VisitingFacts DEF StartList
<1>2. IsActive(Top)
  BY <1>1, TopFacts
<1> DEFINE fr == [Top EXCEPT !.how = "list"]
<1>3. Become(fr) /\ UNCHANGED <<gen, translation>>
  BY DEF StartList
<1>4. /\ fr = [node |-> fr.node, how |-> fr.how, emits |-> fr.emits, type |-> fr.type,
               callee |-> fr.callee, values |-> fr.values, blocks |-> fr.blocks]
      /\ fr.values = Top.values /\ fr.blocks = Top.blocks /\ fr.how = "list" /\ fr.callee = Top.callee
  BY <1>2 DEF IsActive, IsFrame
<1> HIDE DEF fr
<1> QED BY <1>1, <1>3, <1>4, BeginStep

LEMMA BuildersAreStraight ==
  ASSUME NEW b \in Builders PROVE b.emits \notin Terminators \cup {"phi"}
BY DEF Builders, Builder, Terminators

\* Frames with some of what they keep changed.
LEMMA OperatorFrame ==
  ASSUME NEW t, IsFrame(t), NEW how, NEW emits
  PROVE  [t EXCEPT !.how = how, !.emits = emits] =
           [node |-> t.node, how |-> how, emits |-> emits, type |-> t.type,
            callee |-> t.callee, values |-> t.values, blocks |-> t.blocks]
<1> DEFINE r == [node |-> t.node, how |-> t.how, emits |-> t.emits, type |-> t.type,
                 callee |-> t.callee, values |-> t.values, blocks |-> t.blocks]
<1>1. t = r
  BY DEF IsFrame
<1> DEFINE u == [r EXCEPT !.how = how]
<1>2. u = [node |-> t.node, how |-> how, emits |-> t.emits, type |-> t.type,
           callee |-> t.callee, values |-> t.values, blocks |-> t.blocks]
  OBVIOUS
<1> HIDE DEF u
<1>3. [u EXCEPT !.emits = emits] =
        [node |-> t.node, how |-> how, emits |-> emits, type |-> t.type,
         callee |-> t.callee, values |-> t.values, blocks |-> t.blocks]
  BY <1>2
<1>4. [r EXCEPT !.how = how, !.emits = emits] = [u EXCEPT !.emits = emits]
  BY DEF u
<1> QED BY <1>1, <1>3, <1>4

LEMMA CallFrame ==
  ASSUME NEW t, IsFrame(t), NEW how, NEW callee, NEW type
  PROVE  [t EXCEPT !.how = how, !.callee = callee, !.type = type] =
           [node |-> t.node, how |-> how, emits |-> t.emits, type |-> type,
            callee |-> callee, values |-> t.values, blocks |-> t.blocks]
<1> DEFINE r == [node |-> t.node, how |-> t.how, emits |-> t.emits, type |-> t.type,
                 callee |-> t.callee, values |-> t.values, blocks |-> t.blocks]
<1>1. t = r
  BY DEF IsFrame
<1> DEFINE u == [r EXCEPT !.how = how]
           w == [u EXCEPT !.callee = callee]
<1>2. u = [node |-> t.node, how |-> how, emits |-> t.emits, type |-> t.type,
           callee |-> t.callee, values |-> t.values, blocks |-> t.blocks]
  OBVIOUS
<1> HIDE DEF u
<1>3. w = [node |-> t.node, how |-> how, emits |-> t.emits, type |-> t.type,
           callee |-> callee, values |-> t.values, blocks |-> t.blocks]
  BY <1>2
<1> HIDE DEF w
<1>4. [w EXCEPT !.type = type] =
        [node |-> t.node, how |-> how, emits |-> t.emits, type |-> type,
         callee |-> callee, values |-> t.values, blocks |-> t.blocks]
  BY <1>3
<1>5. [r EXCEPT !.how = how, !.callee = callee, !.type = type] = [w EXCEPT !.type = type]
  BY DEF u, w
<1> QED BY <1>1, <1>4, <1>5

LEMMA StartBuiltinStep ==
  ASSUME GenInv, gen = "visit", Top.how = "visit", NEW entry, StartBuiltin(entry)
  PROVE  GenInv' /\ AllFrozen
<1>1. frames # <<>>
  BY DEF GenInv, PhaseInv
<1>2. CASE BuildersOf(entry) = {}
  <2>1. Failed
    BY <1>2 DEF StartBuiltin
  <2> QED BY <2>1, FailedStep
<1>3. CASE BuildersOf(entry) # {}
  <2>1. PICK b \in BuildersOf(entry) :
          /\ Become([Top EXCEPT !.how = IF b.op = "if" THEN "if" ELSE "operator",
                                !.emits = b.emits])
          /\ UNCHANGED <<gen, at, translation, value, chosen>>
    BY <1>3 DEF StartBuiltin
  <2>2. b.emits \notin Terminators \cup {"phi"}
    BY <2>1, BuildersAreStraight DEF BuildersOf
  <2>3. IsActive(Top)
    BY <1>1, TopFacts
  <2> DEFINE fr == [Top EXCEPT !.how = IF b.op = "if" THEN "if" ELSE "operator", !.emits = b.emits]
  <2>4. /\ fr = [node |-> fr.node, how |-> fr.how, emits |-> fr.emits, type |-> fr.type,
                 callee |-> fr.callee, values |-> fr.values, blocks |-> fr.blocks]
        /\ fr.values = Top.values /\ fr.blocks = Top.blocks /\ fr.callee = Top.callee
        /\ fr.how \in {"if", "operator"} /\ fr.emits = b.emits
    <3> DEFINE how == IF b.op = "if" THEN "if" ELSE "operator"
               record == [node |-> Top.node, how |-> how, emits |-> b.emits, type |-> Top.type,
                          callee |-> Top.callee, values |-> Top.values, blocks |-> Top.blocks]
    <3>1. IsFrame(Top)
      BY <2>3 DEF IsActive
    <3>2. fr = record
      BY <3>1, OperatorFrame
    <3> HIDE DEF fr
    <3> QED BY <3>2
  <2>5. Become(fr) /\ UNCHANGED <<gen, translation>>
    BY <2>1
  <2> HIDE DEF fr
  <2>6. fr.how \in {"list", "call", "if"} \/ (fr.how = "operator" /\ fr.emits \notin Terminators \cup {"phi"})
    BY <2>2, <2>4
  <2> QED BY <1>1, <2>4, <2>5, <2>6, BeginStep
<1> QED BY <1>2, <1>3

LEMMA AssertionStep ==
  ASSUME GenInv, gen = "visit", AssertionFails(Failed)
  PROVE  GenInv' /\ AllFrozen
<1>1. Halt("aborted") \/ Failed
  BY DEF AssertionFails
<1> QED BY <1>1, HaltStep, FailedStep DEF Given

LEMMA LookupEnds ==
  ASSUME NEW op, NEW operands, NEW outcome \in getBuiltin(op, operands)
  PROVE  outcome.kind \in {"found", "missing", "crash"}
<1>1. \A type, entry : Found(type, entry).kind = "found"
  BY DEF Found, Outcome
<1>2. Missing.kind = "missing" /\ Crash.kind = "crash"
  BY DEF Missing, Crash, Outcome
<1>3. \/ \E k : outcome = Found(Builtins[k].ret, k)
      \/ outcome = Crash \/ outcome = Missing
  BY DEF getBuiltin
<1> QED BY <1>1, <1>2, <1>3

LEMMA BinaryStep ==
  ASSUME GenInv, GenBinary PROVE GenInv' /\ AllFrozen
<1>1. gen = "visit" /\ Top.how = "visit"
  BY VisitingFacts DEF GenBinary
<1>2. PICK outcome \in getBuiltin(Node(Top.node).name, OperandTypes) :
        CASE outcome.kind = "found"   -> StartBuiltin(outcome.entry)
          [] outcome.kind = "missing" -> AssertionFails(Failed)
          [] outcome.kind = "crash"   -> Halt("crashed")
  BY DEF GenBinary
<1>3. outcome.kind \in {"found", "missing", "crash"}
  BY <1>2, LookupEnds
<1>4. CASE outcome.kind = "found"
  BY <1>1, <1>2, <1>4, StartBuiltinStep
<1>5. CASE outcome.kind = "missing"
  BY <1>1, <1>2, <1>5, AssertionStep
<1>6. CASE outcome.kind = "crash"
  <2>1. Halt("crashed")
    BY <1>2, <1>6
  <2> QED BY <1>1, <2>1, HaltStep DEF Given
<1> QED BY <1>3, <1>4, <1>5, <1>6

LEMMA StartCallStep ==
  ASSUME GenInv, gen = "visit", Top.how = "visit", NEW callee, NEW type, StartCall(callee, type),
         Fixed(fun, callee)
  PROVE  GenInv' /\ AllFrozen
<1>1. frames # <<>>
  BY DEF GenInv, PhaseInv
<1>2. IsActive(Top)
  BY <1>1, TopFacts
<1> DEFINE fr == [Top EXCEPT !.how = "call", !.callee = callee, !.type = type]
<1>3. Become(fr) /\ UNCHANGED <<gen, translation>>
  BY DEF StartCall
<1>4. /\ fr = [node |-> fr.node, how |-> fr.how, emits |-> fr.emits, type |-> fr.type,
               callee |-> fr.callee, values |-> fr.values, blocks |-> fr.blocks]
      /\ fr.values = Top.values /\ fr.blocks = Top.blocks /\ fr.how = "call" /\ fr.callee = callee
  <2>1. IsFrame(Top)
    BY <1>2 DEF IsActive
  <2>2. fr = [node |-> Top.node, how |-> "call", emits |-> Top.emits, type |-> type,
              callee |-> callee, values |-> Top.values, blocks |-> Top.blocks]
    BY <2>1, CallFrame
  <2> HIDE DEF fr
  <2> QED BY <2>2
<1> HIDE DEF fr
<1>5. Fixed(fun, fr.callee)
  BY <1>4
<1> QED BY <1>1, <1>3, <1>4, <1>5, BeginStep

LEMMA FindCalleeStep ==
  ASSUME GenInv, gen = "visit", Top.how = "visit", NEW name, FindCallee(name)
  PROVE  GenInv' /\ AllFrozen
<1>1. frames # <<>>
  BY DEF GenInv, PhaseInv
<1>2. \A f : Fixed(fun, Address(f, mod[f].type))
  BY DEF Address, Value, Fixed
<1>3. \A x \in DOMAIN named : Fixed(fun, named[x])
  BY <1>1 DEF GenInv, OpenInv, Open
<1>4. CASE \E f : StartCall(Address(f, mod[f].type), ReturnTypeOf(mod[f]))
  BY <1>2, <1>4, StartCallStep
<1>5. CASE Failed
  BY <1>5, FailedStep
<1>6. CASE name \in DOMAIN named \cap DOMAIN Unit.variables /\ Halt("undefined")
  BY <1>6, HaltStep DEF Given
<1>7. CASE /\ name \in DOMAIN named \cap DOMAIN Unit.variables
           /\ StartCall(named[name], LlvmType(Unit.variables[name].args[1]))
  BY <1>3, <1>7, StartCallStep
<1> QED BY <1>4, <1>5, <1>6, <1>7 DEF FindCallee

LEMMA CallStep ==
  ASSUME GenInv, GenCall PROVE GenInv' /\ AllFrozen
<1>1. gen = "visit" /\ Top.how = "visit"
  BY VisitingFacts DEF GenCall
<1>2. PICK outcome \in getBuiltin(Node(Top.node).name, OperandTypes) :
        \/ outcome.kind = "found" /\ StartBuiltin(outcome.entry)
        \/ outcome.kind = "missing" /\ FindCallee(Node(Top.node).name)
        \/ outcome.kind = "crash" /\ Halt("crashed")
  BY DEF GenCall
<1>3. CASE StartBuiltin(outcome.entry)
  BY <1>1, <1>3, StartBuiltinStep
<1>4. CASE FindCallee(Node(Top.node).name)
  BY <1>1, <1>4, FindCalleeStep
<1>5. CASE Halt("crashed")
  BY <1>1, <1>5, HaltStep DEF Given
<1> QED BY <1>2, <1>3, <1>4, <1>5

-----------------------------------------------------------------------------
(* Code put at the insertion point.                                        *)

LEMMA Inserted ==
  ASSUME NEW fs, NEW n \in 1 .. Len(fs), IsFunction(fs[n]), NEW p, NEW codes
  PROVE  [fs EXCEPT ![n].blocks[p] = @ \o codes] =
           Replaced(fs, n, Grown(fs[n], WithCode(fs[n], p, codes), fs[n].listed))
<1> DEFINE f == fs[n]
           B == [f.blocks EXCEPT ![p] = @ \o codes]
<1>1. [fs EXCEPT ![n].blocks[p] = @ \o codes] = [fs EXCEPT ![n] = [f EXCEPT !.blocks = B]]
  OBVIOUS
<1>2. f = [name |-> f.name, type |-> f.type, params |-> f.params, blocks |-> f.blocks,
           entry |-> f.entry, listed |-> f.listed]
  BY DEF IsFunction
<1>3. B = WithCode(f, p, codes)
  BY DEF WithCode
<1> HIDE DEF f, B
<1>4. [f EXCEPT !.blocks = B] = Grown(f, B, f.listed)
  BY <1>2 DEF Grown
<1> QED BY <1>1, <1>3, <1>4 DEF Replaced, f

\* Operands are values that can be used at the insertion point, or results
\* of the code before them.
Supplied(f, n, p, codes) ==
  \A i \in 1 .. Len(codes) :
    /\ codes[i].op \notin Terminators \cup {"phi"}
    /\ \A k \in 1 .. Len(codes[i].args) :
         \/ Computed(f, n, codes[i].args[k], {p})
         \/ \E j \in 1 .. i - 1 : \E type : codes[i].args[k] = Result(n, p, Len(f.blocks[p]) + j, type)

LEMMA SuppliedUsable ==
  ASSUME NEW f, NEW g, NEW n, NEW p, NEW codes, CodePut(f, g, p, codes, {}, {}),
         Supplied(f, n, p, codes),
         NEW i \in 1 .. Len(codes), NEW k \in 1 .. Len(codes[i].args)
  PROVE  Usable(g, n, codes[i], k, p, Len(f.blocks[p]) + i)
<1>1. codes[i].op # "phi" /\ Len(codes) \in Nat
  BY DEF Supplied, CodePut, SeqLike
<1>2. CASE Computed(f, n, codes[i].args[k], {p})
  BY <1>1, <1>2, OperandUsable
<1>3. CASE \E j \in 1 .. i - 1 : \E type : codes[i].args[k] = Result(n, p, Len(f.blocks[p]) + j, type)
  <2>1. PICK j \in 1 .. i - 1 : \E type : codes[i].args[k] = Result(n, p, Len(f.blocks[p]) + j, type)
    BY <1>3
  <2>2. PICK type : codes[i].args[k] = Result(n, p, Len(f.blocks[p]) + j, type)
    BY <2>1
  <2>3. j \in 1 .. Len(codes) /\ j < i
    BY <1>1, <2>1
  <2> QED BY <1>1, <2>2, <2>3, ResultUsable
<1> QED BY <1>2, <1>3 DEF Supplied

\* The modules a step may put code into: declarations may have been added.
Extends(functions) ==
  /\ SeqLike(functions) /\ Len(functions) >= Len(mod)
  /\ \A n \in 1 .. Len(mod) : functions[n] = mod[n]
  /\ \A n \in 1 .. Len(functions) : n > Len(mod) => Fresh(functions[n], n)

LEMMA SameExtends ==
  ASSUME GenInv PROVE Extends(mod)
<1>1. SeqLike(mod) /\ Len(mod) \in Nat
  BY DEF GenInv, ModuleInv, SeqLike
<1> QED BY <1>1 DEF Extends

\* What an edit of the function leaves of the module.
LEMMA ChangedModule ==
  ASSUME GenInv, Open, NEW functions, Extends(functions), NEW g, mod' = Replaced(functions, fun, g)
  PROVE  /\ SeqLike(mod') /\ Len(mod') >= Len(mod) /\ mod'[fun] = g
         /\ \A n \in 1 .. Len(mod) : n # fun => mod'[n] = mod[n]
         /\ \A n \in 1 .. Len(mod') : n > Len(mod) => Fresh(mod'[n], n)
<1>1. fun \in 1 .. Len(mod) /\ Len(mod) \in Nat
  BY DEF GenInv, OpenInv, ModuleInv, SeqLike
<1>2. SeqLike(functions) /\ Len(functions) >= Len(mod) /\ Len(functions) \in Nat
  BY DEF Extends, SeqLike
<1>3. fun \in 1 .. Len(functions)
  BY <1>1, <1>2
<1>4. /\ SeqLike(mod') /\ Len(mod') = Len(functions) /\ mod'[fun] = g
      /\ \A n \in 1 .. Len(functions) : n # fun => mod'[n] = functions[n]
  BY <1>2, <1>3, Updated
<1>5. \A n \in 1 .. Len(mod) : n # fun => mod'[n] = mod[n]
  BY <1>1, <1>2, <1>4 DEF Extends
<1>6. \A n \in 1 .. Len(mod') : n > Len(mod) => Fresh(mod'[n], n)
  <2> SUFFICES ASSUME NEW n \in 1 .. Len(mod'), n > Len(mod) PROVE Fresh(mod'[n], n)
    OBVIOUS
  <2>1. n # fun /\ n \in 1 .. Len(functions)
    BY <1>1, <1>4
  <2> QED BY <1>4, <2>1 DEF Extends
<1> QED BY <1>2, <1>4, <1>5, <1>6

LEMMA InsertStep ==
  ASSUME GenInv, frames # <<>>, Top.how # "if", NEW functions, Extends(functions),
         NEW codes, SeqLike(codes), Len(codes) > 0, Supplied(mod[fun], fun, point, codes),
         mod' = [functions EXCEPT ![fun].blocks[point] = @ \o codes],
         NEW j \in 1 .. Len(codes), NEW type,
         Yield(Result(fun, point, Len(mod[fun].blocks[point]) + j, type)),
         UNCHANGED <<fun, point, named>>
  PROVE  GenInv' /\ AllFrozen
<1>1. PICK s : Opened(mod[fun], fun, point, <<Top>> \o Tail(frames), s)
  BY TopFacts
<1>2. /\ SeqLike(Tail(frames)) /\ Open /\ \A i \in 1 .. Len(Tail(frames)) : IsActive(Tail(frames)[i])
      /\ fun \in 1 .. Len(mod)
  BY TopFacts
<1>3. Opened(mod[fun], fun, point, Tail(frames), s)
  BY <1>1, <1>2, PushFrame
<1> DEFINE f == mod[fun]
           g == Grown(f, WithCode(f, point, codes), f.listed)
           v == Result(fun, point, Len(f.blocks[point]) + j, type)
<1>4. functions[fun] = f /\ fun \in 1 .. Len(functions) /\ IsFunction(f)
  <2>1. Len(mod) \in Nat /\ Len(functions) \in Nat /\ Len(functions) >= Len(mod)
    BY DEF GenInv, ModuleInv, Extends, SeqLike
  <2> QED BY <1>2, <1>3, <2>1, OpenedFacts DEF Extends
<1>5. mod' = Replaced(functions, fun, g)
  <2>1. [functions EXCEPT ![fun].blocks[point] = @ \o codes] =
          Replaced(functions, fun,
                   Grown(functions[fun], WithCode(functions[fun], point, codes), functions[fun].listed))
    <3>1. IsFunction(functions[fun]) /\ fun \in 1 .. Len(functions)
      BY <1>4
    <3> HIDE DEF f, g, v
    <3> QED BY <3>1, Inserted
  <2>2. functions[fun] = f
    BY <1>4
  <2> HIDE DEF f
  <2> QED BY <2>1, <2>2
<1>6. gen' = "return" /\ value' = v /\ frames' = Tail(frames)
  BY DEF Yield
<1>7. Opened(f, fun, point, Tail(frames), s) /\ Supplied(f, fun, point, codes)
  BY <1>3
<1> HIDE DEF f, v
<1>8. Len(codes) \in Nat /\ codes[Len(codes)].op \notin Terminators
  BY <1>7 DEF SeqLike, Supplied
<1>9. CodePut(f, g, point, codes, {}, {}) /\ Len(g.blocks) = Len(f.blocks) /\ g.listed = f.listed
  BY <1>7, <1>8, StraightPut
<1> HIDE DEF g
<1>10. /\ \A i \in 1 .. Len(codes) : codes[i].op \notin Terminators \cup {"phi"}
       /\ \A i \in 1 .. Len(codes) : \A k \in 1 .. Len(codes[i].args) :
            Usable(g, fun, codes[i], k, point, Len(f.blocks[point]) + i)
  BY <1>7, <1>9, SuppliedUsable DEF Supplied
<1>11. /\ Opened(g, fun, point, Tail(frames), s) /\ Frozen(f, g)
       /\ \A i \in 1 .. Len(codes) : \A t :
            Computed(g, fun, Result(fun, point, Len(f.blocks[point]) + i, t), {point})
  BY <1>2, <1>7, <1>9, <1>10, StraightEdit
<1>12. Computed(g, fun, v, {point})
  BY <1>11 DEF v
<1>13. /\ SeqLike(mod') /\ Len(mod') >= Len(mod) /\ mod'[fun] = g
       /\ \A n \in 1 .. Len(mod) : n # fun => mod'[n] = mod[n]
       /\ \A n \in 1 .. Len(mod') : n > Len(mod) => Fresh(mod'[n], n)
  BY <1>2, <1>5, ChangedModule
<1>14. Opened(mod'[fun], fun, point', frames', s) /\ Frozen(mod[fun], mod'[fun])
  BY <1>6, <1>11, <1>13 DEF f
<1>15. Computed(mod'[fun], fun, value', {point'})
  BY <1>6, <1>12, <1>13
<1>16. SeqLike(frames') /\ \A i \in 1 .. Len(frames') : IsActive(frames'[i])
  BY <1>2, <1>6
<1> QED BY <1>2, <1>6, <1>13, <1>14, <1>15, <1>16, InsideStep

LEMMA TopValues ==
  ASSUME GenInv, frames # <<>>, Top.how # "if"
  PROVE  /\ IsActive(Top) /\ SeqLike(Top.values)
         /\ Computed(mod[fun], fun, Top.callee, {point})
         /\ \A k \in 1 .. Len(Top.values) : Computed(mod[fun], fun, Top.values[k], {point})
<1>1. PICK s : Opened(mod[fun], fun, point, <<Top>> \o Tail(frames), s)
  BY TopFacts
<1>2. SeqLike(Tail(frames)) /\ IsActive(Top)
  BY TopFacts
<1>3. ValuesAt(mod[fun], fun, Top, {point})
  BY <1>1, <1>2, PushFrame
<1>4. Computed(mod[fun], fun, Top.callee, {point})
  BY <1>3, FixedComputed DEF ValuesAt
<1> QED BY <1>2, <1>3, <1>4 DEF ValuesAt, IsActive, IsFrame

LEMMA ProduceStep ==
  ASSUME GenInv, frames # <<>>, Top.how # "if", NEW op, op \notin Terminators \cup {"phi"},
         NEW type, NEW args, \A k \in 1 .. Len(args) : Computed(mod[fun], fun, args[k], {point}),
         Produce(op, type, args), UNCHANGED <<fun, point, named>>
  PROVE  GenInv' /\ AllFrozen
<1> DEFINE code == Instruction(op, type, args, <<>>, 0)
           codes == <<code>>
<1>1. code.op = op /\ code.args = args
  BY DEF Instruction
<1>2. /\ mod' = [mod EXCEPT ![fun].blocks[point] = @ \o codes]
      /\ Yield(Result(fun, point, Len(mod[fun].blocks[point]) + 1, type))
  BY DEF Produce, Insert, Place
<1> HIDE DEF code
<1>3. SeqLike(codes) /\ Len(codes) = 1 /\ codes[1] = code
  BY DEF SeqLike
<1> HIDE DEF codes
<1>4. Supplied(mod[fun], fun, point, codes)
  <2>1. \A i \in 1 .. Len(codes) : codes[i] = code
    BY <1>3
  <2> QED BY <1>1, <2>1 DEF Supplied
<1>5. Len(codes) > 0 /\ 1 \in 1 .. Len(codes)
  BY <1>3
<1>6. Extends(mod)
  BY SameExtends
<1> QED BY <1>2, <1>3, <1>4, <1>5, <1>6, InsertStep

LEMMA FinishCallStep ==
  ASSUME GenInv, FinishCall PROVE GenInv' /\ AllFrozen
<1>1. gen = "visit" /\ Top.how = "call" /\ frames # <<>>
  BY DEF FinishCall, Building, GenInv, PhaseInv
<1> DEFINE args == <<Top.callee>> \o Top.values
<1>2. Produce("call", Top.type, args) /\ UNCHANGED <<fun, point, named>>
  BY DEF FinishCall
<1>3. /\ SeqLike(Top.values) /\ Computed(mod[fun], fun, Top.callee, {point})
      /\ \A k \in 1 .. Len(Top.values) : Computed(mod[fun], fun, Top.values[k], {point})
  BY <1>1, TopValues
<1>4. /\ Len(args) = Len(Top.values) + 1 /\ args[1] = Top.callee
      /\ \A i \in 2 .. Len(Top.values) + 1 : args[i] = Top.values[i - 1]
  BY <1>3, Prefixed
<1> HIDE DEF args
<1>5. Len(Top.values) \in Nat
  BY <1>3 DEF SeqLike
<1>6. ASSUME NEW k \in 1 .. Len(args) PROVE Computed(mod[fun], fun, args[k], {point})
  <2>1. k = 1 \/ (k \in 2 .. Len(Top.values) + 1 /\ k - 1 \in 1 .. Len(Top.values))
    BY <1>4, <1>5
  <2> QED BY <1>3, <1>4, <2>1
<1>7. "call" \notin Terminators \cup {"phi"}
  BY DEF Terminators
<1> QED BY <1>1, <1>2, <1>6, <1>7, ProduceStep

LEMMA FinishOperatorStep ==
  ASSUME GenInv, FinishOperator PROVE GenInv' /\ AllFrozen
<1>1. gen = "visit" /\ Top.how = "operator" /\ frames # <<>>
  BY DEF FinishOperator, Building, GenInv, PhaseInv
<1>2. CASE Halt("undefined")
  BY <1>1, <1>2, HaltStep DEF Given
<1>3. CASE Len(Top.values) >= 2 /\ ~Halt("undefined")
  <2> DEFINE type == IF Top.emits \in {"fult", "fugt", "ult", "ugt"} THEN Bool
                     ELSE Top.values[1].type
             args == <<Top.values[1], Top.values[2]>>
  <2>1. Produce(Top.emits, type, args) /\ UNCHANGED <<fun, point, named>>
    BY <1>3 DEF FinishOperator
  <2>2. /\ SeqLike(Top.values) /\ IsActive(Top)
        /\ \A k \in 1 .. Len(Top.values) : Computed(mod[fun], fun, Top.values[k], {point})
    BY <1>1, TopValues
  <2>3. Len(args) = 2 /\ args[1] = Top.values[1] /\ args[2] = Top.values[2]
    OBVIOUS
  <2>4. 1 \in 1 .. Len(Top.values) /\ 2 \in 1 .. Len(Top.values)
    BY <1>3, <2>2 DEF SeqLike
  <2> HIDE DEF args, type
  <2>5. ASSUME NEW k \in 1 .. Len(args) PROVE Computed(mod[fun], fun, args[k], {point})
    <3>1. Computed(mod[fun], fun, Top.values[1], {point}) /\ Computed(mod[fun], fun, Top.values[2], {point})
      BY <2>2, <2>4
    <3>2. k = 1 \/ k = 2
      BY <2>3
    <3>3. CASE k = 1
      BY <2>3, <3>1, <3>3
    <3>4. CASE k = 2
      BY <2>3, <3>1, <3>4
    <3> QED BY <3>2, <3>3, <3>4
  <2>6. Top.emits \notin Terminators \cup {"phi"}
    BY <1>1, <2>2 DEF IsActive
  <2> QED BY <1>1, <2>1, <2>5, <2>6, ProduceStep
<1> QED BY <1>2, <1>3 DEF FinishOperator

LEMMA TwoSupplied ==
  ASSUME NEW f, NEW n, NEW p, NEW codes, Len(codes) = 2,
         codes[1].op \notin Terminators \cup {"phi"}, codes[2].op \notin Terminators \cup {"phi"},
         Len(codes[1].args) = 1, Computed(f, n, codes[1].args[1], {p}),
         Len(codes[2].args) = 1,
         NEW type, codes[2].args[1] = Result(n, p, Len(f.blocks[p]) + 1, type)
  PROVE  Supplied(f, n, p, codes)
<1>1. ASSUME NEW i \in 1 .. Len(codes), NEW m \in 1 .. Len(codes[i].args)
      PROVE  \/ Computed(f, n, codes[i].args[m], {p})
             \/ \E j \in 1 .. i - 1 : \E t : codes[i].args[m] = Result(n, p, Len(f.blocks[p]) + j, t)
  <2>1. i = 1 \/ i = 2
    OBVIOUS
  <2>2. m = 1
    <3>1. codes[i] = codes[1] \/ codes[i] = codes[2]
      BY <2>1
    <3>2. Len(codes[i].args) = 1
      BY <3>1
    <3>3. m \in 1 .. Len(codes[i].args)
      BY <1>1
    <3> QED BY <3>2, <3>3
  <2>3. CASE i = 1
    BY <2>2, <2>3
  <2>4. CASE i = 2
    <3>1. 1 \in 1 .. i - 1
      BY <2>4
    <3> QED BY <2>2, <2>4, <3>1
  <2> QED BY <2>1, <2>3, <2>4
<1>2. \A i \in 1 .. Len(codes) : codes[i].op \notin Terminators \cup {"phi"}
  <2> TAKE i \in 1 .. Len(codes)
  <2>1. i = 1 \/ i = 2
    OBVIOUS
  <2> QED BY <2>1
<1> QED BY <1>1, <1>2 DEF Supplied

\* The element of a list: its address, and what is there.
LEMMA SubscriptSupplied ==
  ASSUME NEW f, NEW n, NEW p, NEW v, Fixed(n, v), NEW type, NEW k, NEW to,
         NEW codes,
         codes = <<Instruction("gep", to, <<v>>, <<>>, k),
                   Instruction("load", type, <<Result(n, p, Len(f.blocks[p]) + 1, v.type)>>, <<>>, 0)>>
  PROVE  SeqLike(codes) /\ Len(codes) = 2 /\ Supplied(f, n, p, codes)
<1> DEFINE r == Result(n, p, Len(f.blocks[p]) + 1, v.type)
<1>1. /\ Len(codes) = 2 /\ SeqLike(codes)
      /\ codes[1] = Instruction("gep", to, <<v>>, <<>>, k)
      /\ codes[2] = Instruction("load", type, <<r>>, <<>>, 0)
  BY DEF SeqLike
<1>2. /\ codes[1].op = "gep" /\ codes[1].args = <<v>>
      /\ codes[2].op = "load" /\ codes[2].args = <<r>>
  BY <1>1 DEF Instruction
<1> HIDE DEF r
<1>3. /\ Len(codes[1].args) = 1 /\ codes[1].args[1] = v
      /\ Len(codes[2].args) = 1 /\ codes[2].args[1] = r
  BY <1>2
<1>4. Computed(f, n, codes[1].args[1], {p})
  BY <1>3, FixedComputed
<1>5. codes[1].op \notin Terminators \cup {"phi"} /\ codes[2].op \notin Terminators \cup {"phi"}
  BY <1>2 DEF Terminators
<1>6. codes[2].args[1] = Result(n, p, Len(f.blocks[p]) + 1, v.type)
  BY <1>3 DEF r
<1>7. Supplied(f, n, p, codes)
  BY <1>1, <1>3, <1>4, <1>5, <1>6, TwoSupplied
<1> QED BY <1>1, <1>7

LEMMA VarStep ==
  ASSUME GenInv, GenVar PROVE GenInv' /\ AllFrozen
<1>1. gen = "visit" /\ Top.how = "visit" /\ frames # <<>> /\ Open
  BY VisitingFacts DEF GenVar
<1> DEFINE x == Node(Top.node).name
           item == subscriptedType(Unit.variables[x])
           type == LlvmType(item)
           codes == <<Instruction("gep", Pointer(type), <<named[x]>>, <<>>, Subscript(Node(Top.node).index)),
                      Instruction("load", type,
                        <<Result(fun, point, Len(mod[fun].blocks[point]) + 1, named[x].type)>>, <<>>, 0)>>
<1>2. \/ Failed
      \/ /\ x \in DOMAIN named /\ Yield(named[x]) /\ UNCHANGED translation
      \/ /\ x \in DOMAIN named
         /\ mod' = [mod EXCEPT ![fun].blocks[point] = @ \o codes]
         /\ Yield(Result(fun, point, Len(mod[fun].blocks[point]) + 1 + 1, type))
         /\ UNCHANGED <<fun, point, named>>
  BY DEF GenVar, Insert, Place
<1>3. CASE Failed
  BY <1>1, <1>3, FailedStep
<1>4. CASE x \in DOMAIN named /\ Yield(named[x]) /\ UNCHANGED translation
  <2>1. Fixed(fun, named[x])
    BY <1>1, <1>4 DEF GenInv, OpenInv
  <2>2. Computed(mod[fun], fun, named[x], {point})
    BY <2>1, FixedComputed
  <2> HIDE DEF x
  <2> QED BY <1>1, <1>4, <2>2, ReturnStep
<1>5. CASE /\ x \in DOMAIN named
           /\ mod' = [mod EXCEPT ![fun].blocks[point] = @ \o codes]
           /\ Yield(Result(fun, point, Len(mod[fun].blocks[point]) + 1 + 1, type))
           /\ UNCHANGED <<fun, point, named>>
  <2>1. Fixed(fun, named[x])
    BY <1>1, <1>5 DEF GenInv, OpenInv
  <2> HIDE DEF x, item, type
  <2>2. SeqLike(codes) /\ Len(codes) = 2 /\ Supplied(mod[fun], fun, point, codes)
    BY <2>1, SubscriptSupplied
  <2> HIDE DEF codes
  <2>3. Len(mod[fun].blocks[point]) \in Nat
    <3>1. PICK s : Opened(mod[fun], fun, point, <<Top>> \o Tail(frames), s)
      BY <1>1, TopFacts
    <3> QED BY <3>1, OpenedFacts DEF IsFunction, SeqLike
  <2>4. Yield(Result(fun, point, Len(mod[fun].blocks[point]) + 2, type))
    <3>1. Len(mod[fun].blocks[point]) + 1 + 1 = Len(mod[fun].blocks[point]) + 2
      BY <2>3
    <3> QED BY <1>5, <3>1
  <2>5. Len(codes) > 0 /\ 2 \in 1 .. Len(codes) /\ Top.how # "if"
    BY <1>1, <2>2
  <2>6. Extends(mod)
    BY SameExtends
  <2> QED BY <1>1, <1>5, <2>2, <2>4, <2>5, <2>6, InsertStep
<1> QED BY <1>2, <1>3, <1>4, <1>5

LEMMA MallocExtends ==
  ASSUME GenInv PROVE Extends(WithMalloc(mod))
<1> DEFINE d == Declaration("malloc", FunctionType(Pointer(Int8), <<Int64>>), <<"">>)
<1>1. SeqLike(mod) /\ Len(mod) \in Nat
  BY DEF GenInv, ModuleInv, SeqLike
<1>2. Fresh(d, Len(mod) + 1)
  BY DeclarationIsFresh
<1>3. WithMalloc(mod) = mod \/ WithMalloc(mod) = Append(mod, d)
  BY DEF WithMalloc
<1> HIDE DEF d
<1>4. /\ SeqLike(Append(mod, d)) /\ Len(Append(mod, d)) = Len(mod) + 1
      /\ \A i \in 1 .. Len(mod) : Append(mod, d)[i] = mod[i]
      /\ Append(mod, d)[Len(mod) + 1] = d
  BY <1>1, Appended
<1>5. \A n \in 1 .. Len(mod) + 1 : n > Len(mod) => n = Len(mod) + 1
  BY <1>1
<1>6. Extends(Append(mod, d))
  BY <1>1, <1>2, <1>4, <1>5 DEF Extends
<1> QED BY <1>3, <1>6, SameExtends

\* The code of a list: the room for it, then for each element its address
\* and the instruction that stores it.
ElementAddress(item, i) ==
  Instruction("gep", Pointer(item), <<Result(fun, point, Place, Pointer(item))>>, <<>>, i - 1)
ElementStore(item, values, i) ==
  Instruction("store", item, <<values[i], Result(fun, point, Place + 2 * i - 1, Pointer(item))>>, <<>>, 0)

LEMMA ListCodeIs ==
  ASSUME NEW functions, NEW item, NEW values, SeqLike(values),
         NEW codes, codes = ListCode(functions, item, values)
  PROVE  /\ SeqLike(codes) /\ Len(codes) = 2 * Len(values) + 1
         /\ codes[1] = MallocCode(functions, item, Len(values))
         /\ \A i \in 1 .. Len(values) :
              codes[2 * i] = ElementAddress(item, i) /\ codes[2 * i + 1] = ElementStore(item, values, i)
<1> DEFINE Element(i) == <<ElementAddress(item, i), ElementStore(item, values, i)>>
           rest == [k \in 1 .. 2 * Len(values) |-> Element((k + 1) \div 2)[2 - (k % 2)]]
           first == MallocCode(functions, item, Len(values))
<1>1. codes = <<first>> \o rest
  BY DEF ListCode, ElementAddress, ElementStore
<1>2. Len(values) \in Nat /\ 2 * Len(values) \in Nat
  BY DEF SeqLike
<1>3. SeqLike(rest) /\ Len(rest) = 2 * Len(values)
  <2> DEFINE E(k) == Element((k + 1) \div 2)[2 - (k % 2)]
  <2> HIDE DEF E
  <2>1. SeqLike([k \in 1 .. 2 * Len(values) |-> E(k)])
    BY <1>2 DEF SeqLike
  <2>2. Len([k \in 1 .. 2 * Len(values) |-> E(k)]) = 2 * Len(values)
    BY <1>2
  <2> QED BY <2>1, <2>2 DEF E
<1>4. \A i : Element(i)[1] = ElementAddress(item, i) /\ Element(i)[2] = ElementStore(item, values, i)
  OBVIOUS
<1>5. ASSUME NEW i \in 1 .. Len(values)
      PROVE  rest[2 * i - 1] = ElementAddress(item, i) /\ rest[2 * i] = ElementStore(item, values, i)
  <2>1. /\ 2 * i - 1 \in 1 .. 2 * Len(values) /\ 2 * i \in 1 .. 2 * Len(values)
        /\ ((2 * i - 1) + 1) \div 2 = i /\ (2 * i + 1) \div 2 = i
        /\ (2 * i - 1) % 2 = 1 /\ (2 * i) % 2 = 0
    BY <1>2
  <2> HIDE DEF Element
  <2>2. rest[2 * i - 1] = Element(i)[2 - 1] /\ rest[2 * i] = Element(i)[2 - 0]
    BY <2>1
  <2> HIDE DEF rest
  <2>3. 2 - 1 = 1 /\ 2 - 0 = 2
    OBVIOUS
  <2> QED BY <1>4, <2>2, <2>3
<1> HIDE DEF rest, first
<1>6. /\ SeqLike(codes) /\ Len(codes) = 2 * Len(values) + 1 /\ codes[1] = first
      /\ \A i \in 2 .. 2 * Len(values) + 1 : codes[i] = rest[i - 1]
  BY <1>1, <1>3, Prefixed
<1>7. ASSUME NEW i \in 1 .. Len(values)
      PROVE  codes[2 * i] = ElementAddress(item, i) /\ codes[2 * i + 1] = ElementStore(item, values, i)
  <2>1. /\ 2 * i \in 2 .. 2 * Len(values) + 1 /\ 2 * i + 1 \in 2 .. 2 * Len(values) + 1
        /\ (2 * i + 1) - 1 = 2 * i
    BY <1>2
  <2> QED BY <1>5, <1>6, <2>1
<1> QED BY <1>6, <1>7 DEF first

\* How much the block of the insertion point holds.
Here == Len(mod[fun].blocks[point])

LEMMA ElementsSupplied ==
  ASSUME NEW item, NEW values, NEW m \in Nat,
         Here \in Nat
  PROVE  /\ ElementAddress(item, m).op = "gep" /\ Len(ElementAddress(item, m).args) = 1
         /\ ElementAddress(item, m).args[1] = Result(fun, point, Here + 1, Pointer(item))
         /\ ElementStore(item, values, m).op = "store" /\ Len(ElementStore(item, values, m).args) = 2
         /\ ElementStore(item, values, m).args[1] = values[m]
         /\ ElementStore(item, values, m).args[2] = Result(fun, point, Here + 2 * m, Pointer(item))
<1> DEFINE R(i) == Result(fun, point, i, Pointer(item))
<1>1. Place = Here + 1 /\ Place + 2 * m - 1 = Here + 2 * m
  <2>1. Place = Here + 1
    BY DEF Place, Here
  <2>2. (Here + 1) + 2 * m - 1 = Here + 2 * m
    OBVIOUS
  <2> QED BY <2>1, <2>2
<1>2. /\ ElementAddress(item, m).op = "gep" /\ ElementAddress(item, m).args = <<R(Place)>>
      /\ ElementStore(item, values, m).op = "store"
      /\ ElementStore(item, values, m).args = <<values[m], R(Place + 2 * m - 1)>>
  BY DEF ElementAddress, ElementStore, Instruction
<1>3. /\ ElementAddress(item, m).args = <<R(Here + 1)>>
      /\ ElementStore(item, values, m).args = <<values[m], R(Here + 2 * m)>>
  <2> HIDE DEF R
  <2> QED BY <1>1, <1>2
<1> HIDE DEF R
<1>4. /\ Len(ElementAddress(item, m).args) = 1 /\ ElementAddress(item, m).args[1] = R(Here + 1)
      /\ Len(ElementStore(item, values, m).args) = 2 /\ ElementStore(item, values, m).args[1] = values[m]
      /\ ElementStore(item, values, m).args[2] = R(Here + 2 * m)
  BY <1>3
<1> QED BY <1>2, <1>4 DEF R

LEMMA ListSupplied ==
  ASSUME NEW functions, NEW item, NEW values, SeqLike(values),
         Here \in Nat,
         \A k \in 1 .. Len(values) : Computed(mod[fun], fun, values[k], {point}),
         NEW codes, codes = ListCode(functions, item, values)
  PROVE  Supplied(mod[fun], fun, point, codes)
<1> DEFINE R(i) == Result(fun, point, i, Pointer(item))
           malloc == CHOOSE f \in 1 .. Len(functions) : functions[f].name = "malloc"
           a == Address(malloc, functions[malloc].type)
           first == MallocCode(functions, item, Len(values))
<1>1. /\ Len(codes) = 2 * Len(values) + 1 /\ codes[1] = first
      /\ \A i \in 1 .. Len(values) :
           codes[2 * i] = ElementAddress(item, i) /\ codes[2 * i + 1] = ElementStore(item, values, i)
  BY ListCodeIs
<1>2. Fixed(fun, a)
  BY DEF Address, Value, Fixed
<1>3. first.op = "malloc" /\ first.args = <<a>>
  BY DEF MallocCode, Instruction
<1> HIDE DEF a, first, R
<1>4. first.op = "malloc" /\ Len(first.args) = 1 /\ first.args[1] = a /\ Computed(mod[fun], fun, a, {point})
  BY <1>2, <1>3, FixedComputed
<1>5. Len(values) \in Nat
  BY DEF SeqLike
<1>6. ASSUME NEW i \in 1 .. Len(codes)
      PROVE  /\ codes[i].op \notin Terminators \cup {"phi"}
             /\ \A k \in 1 .. Len(codes[i].args) :
                  \/ Computed(mod[fun], fun, codes[i].args[k], {point})
                  \/ \E j \in 1 .. i - 1 : \E type : codes[i].args[k] = Result(fun, point, Here + j, type)
  <2>1. \/ i = 1
        \/ \E m \in 1 .. Len(values) : i = 2 * m
        \/ \E m \in 1 .. Len(values) : i = 2 * m + 1
    <3>1. i \in 1 .. 2 * Len(values) + 1
      BY <1>1
    <3>2. i % 2 = 0 => i \div 2 \in 1 .. Len(values) /\ i = 2 * (i \div 2)
      BY <1>5, <3>1
    <3>3. i % 2 = 1 /\ i # 1 => i \div 2 \in 1 .. Len(values) /\ i = 2 * (i \div 2) + 1
      BY <1>5, <3>1
    <3>4. i % 2 = 0 \/ i % 2 = 1
      BY <3>1
    <3> QED BY <3>2, <3>3, <3>4
  <2> DEFINE c == codes[i]
  <2>2. SUFFICES /\ c.op \notin Terminators \cup {"phi"}
                 /\ \A k \in 1 .. Len(c.args) :
                      \/ Computed(mod[fun], fun, c.args[k], {point})
                      \/ \E j \in 1 .. i - 1 : \E type : c.args[k] = Result(fun, point, Here + j, type)
    OBVIOUS
  <2>3. CASE i = 1
    <3>1. c = first
      BY <1>1, <2>3
    <3> HIDE DEF c
    <3>2. \A k \in 1 .. Len(c.args) : c.args[k] = a
      BY <1>4, <3>1
    <3>3. c.op \notin Terminators \cup {"phi"}
      BY <1>4, <3>1 DEF Terminators
    <3> QED BY <1>4, <3>2, <3>3
  <2>4. ASSUME NEW m \in 1 .. Len(values), i = 2 * m
        PROVE  /\ c.op \notin Terminators \cup {"phi"}
               /\ \A k \in 1 .. Len(c.args) :
                    \E j \in 1 .. i - 1 : \E type : c.args[k] = Result(fun, point, Here + j, type)
    <3>1. c = ElementAddress(item, m) /\ m \in Nat /\ 1 \in 1 .. i - 1
      BY <1>1, <1>5, <2>4
    <3> HIDE DEF c
    <3>2. /\ ElementAddress(item, m).op = "gep" /\ Len(ElementAddress(item, m).args) = 1
          /\ ElementAddress(item, m).args[1] = Result(fun, point, Here + 1, Pointer(item))
      BY <3>1, ElementsSupplied
    <3>3. c.op = "gep" /\ Len(c.args) = 1 /\ c.args[1] = R(Here + 1)
      BY <3>1, <3>2 DEF R
    <3>4. \A k \in 1 .. Len(c.args) : c.args[k] = R(Here + 1)
      BY <3>3
    <3>5. \E j \in 1 .. i - 1 : \E type : R(Here + 1) = Result(fun, point, Here + j, type)
      BY <3>1 DEF R
    <3>6. c.op \notin Terminators \cup {"phi"}
      BY <3>3 DEF Terminators
    <3> QED BY <3>4, <3>5, <3>6
  <2>5. ASSUME NEW m \in 1 .. Len(values), i = 2 * m + 1
        PROVE  /\ c.op \notin Terminators \cup {"phi"}
               /\ \A k \in 1 .. Len(c.args) :
                    \/ Computed(mod[fun], fun, c.args[k], {point})
                    \/ \E j \in 1 .. i - 1 : \E type : c.args[k] = Result(fun, point, Here + j, type)
    <3>1. c = ElementStore(item, values, m) /\ m \in Nat /\ 2 * m \in 1 .. i - 1
      BY <1>1, <1>5, <2>5
    <3> HIDE DEF c
    <3>2. /\ ElementStore(item, values, m).op = "store" /\ Len(ElementStore(item, values, m).args) = 2
          /\ ElementStore(item, values, m).args[1] = values[m]
          /\ ElementStore(item, values, m).args[2] = Result(fun, point, Here + 2 * m, Pointer(item))
      BY <3>1, ElementsSupplied
    <3>3. c.op = "store" /\ Len(c.args) = 2 /\ c.args[1] = values[m] /\ c.args[2] = R(Here + 2 * m)
      BY <3>1, <3>2 DEF R
    <3>4. ASSUME NEW k \in 1 .. Len(c.args) PROVE c.args[k] = values[m] \/ c.args[k] = R(Here + 2 * m)
      <4>1. k = 1 \/ k = 2
        BY <3>3
      <4> QED BY <3>3, <4>1
    <3>5. \E j \in 1 .. i - 1 : \E type : R(Here + 2 * m) = Result(fun, point, Here + j, type)
      BY <3>1 DEF R
    <3>6. Computed(mod[fun], fun, values[m], {point})
      OBVIOUS
    <3>7. c.op \notin Terminators \cup {"phi"}
      BY <3>3 DEF Terminators
    <3> QED BY <3>4, <3>5, <3>6, <3>7
  <2> QED BY <2>1, <2>3, <2>4, <2>5
<1>7. ASSUME NEW i \in 1 .. Len(codes)
      PROVE  /\ codes[i].op \notin Terminators \cup {"phi"}
             /\ \A k \in 1 .. Len(codes[i].args) :
                  \/ Computed(mod[fun], fun, codes[i].args[k], {point})
                  \/ \E j \in 1 .. i - 1 : \E type :
                       codes[i].args[k] = Result(fun, point, Len(mod[fun].blocks[point]) + j, type)
  BY <1>6 DEF Here
<1> QED BY <1>7 DEF Supplied

LEMMA FinishListStep ==
  ASSUME GenInv, FinishList PROVE GenInv' /\ AllFrozen
<1>1. gen = "visit" /\ Top.how = "list" /\ frames # <<>>
  BY DEF FinishList, Building, GenInv, PhaseInv
<1> DEFINE item == LlvmType(expressionType(Kids[1]))
           functions == WithMalloc(mod)
           codes == ListCode(functions, item, Top.values)
<1>2. \/ Halt("aborted") \/ Halt("crashed") \/ Failed
      \/ /\ mod' = [functions EXCEPT ![fun].blocks[point] = @ \o codes]
         /\ Yield(Result(fun, point, Place, Pointer(item)))
         /\ UNCHANGED <<fun, point, named>>
  BY DEF FinishList, AssertionFails
<1>3. CASE Halt("aborted") \/ Halt("crashed")
  BY <1>1, <1>3, HaltStep DEF Given
<1>4. CASE Failed
  BY <1>1, <1>4, FailedStep
<1>5. CASE /\ mod' = [functions EXCEPT ![fun].blocks[point] = @ \o codes]
           /\ Yield(Result(fun, point, Place, Pointer(item)))
           /\ UNCHANGED <<fun, point, named>>
  <2>1. Extends(functions)
    BY MallocExtends
  <2>2. /\ SeqLike(Top.values)
        /\ \A k \in 1 .. Len(Top.values) : Computed(mod[fun], fun, Top.values[k], {point})
    BY <1>1, TopValues
  <2>3. Here \in Nat
    <3>1. PICK s : Opened(mod[fun], fun, point, <<Top>> \o Tail(frames), s)
      BY <1>1, TopFacts
    <3> QED BY <3>1, OpenedFacts DEF IsFunction, SeqLike, Here
  <2>4. Yield(Result(fun, point, Len(mod[fun].blocks[point]) + 1, Pointer(item)))
    BY <1>5 DEF Place
  <2>5. codes = ListCode(functions, item, Top.values)
    OBVIOUS
  <2> HIDE DEF functions, item, codes
  <2>6. SeqLike(codes) /\ Len(codes) = 2 * Len(Top.values) + 1
    BY <2>2, <2>5, ListCodeIs
  <2>7. Len(codes) > 0 /\ 1 \in 1 .. Len(codes)
    BY <2>2, <2>6 DEF SeqLike
  <2>8. Supplied(mod[fun], fun, point, codes)
    BY <2>2, <2>3, <2>5, ListSupplied
  <2>9. Top.how # "if"
    BY <1>1
  <2> QED BY <1>1, <1>5, <2>1, <2>4, <2>6, <2>7, <2>8, <2>9, InsertStep
<1> QED BY <1>2, <1>3, <1>4, <1>5

-----------------------------------------------------------------------------
(* The branches of an if.                                                  *)

LEMMA ReplacedAgain ==
  ASSUME NEW s, NEW n \in 1 .. Len(s), SeqLike(s), NEW a, NEW b
  PROVE  Replaced(Replaced(s, n, a), n, b) = Replaced(s, n, b)
<1> DEFINE t == Replaced(s, n, a)
<1>1. /\ SeqLike(t) /\ Len(t) = Len(s)
      /\ \A i \in 1 .. Len(s) : i # n => t[i] = s[i]
  BY Updated
<1> HIDE DEF t
<1>2. /\ SeqLike(Replaced(t, n, b)) /\ Len(Replaced(t, n, b)) = Len(s) /\ Replaced(t, n, b)[n] = b
      /\ \A i \in 1 .. Len(s) : i # n => Replaced(t, n, b)[i] = t[i]
  BY <1>1, Updated
<1>3. /\ SeqLike(Replaced(s, n, b)) /\ Len(Replaced(s, n, b)) = Len(s) /\ Replaced(s, n, b)[n] = b
      /\ \A i \in 1 .. Len(s) : i # n => Replaced(s, n, b)[i] = s[i]
  BY Updated
<1>4. \A i \in 1 .. Len(s) : Replaced(t, n, b)[i] = Replaced(s, n, b)[i]
  BY <1>1, <1>2, <1>3
<1>5. Replaced(t, n, b) = [i \in 1 .. Len(s) |-> Replaced(t, n, b)[i]]
  BY <1>2 DEF SeqLike
<1>6. Replaced(s, n, b) = [i \in 1 .. Len(s) |-> Replaced(s, n, b)[i]]
  BY <1>3 DEF SeqLike
<1>7. Replaced(t, n, b) = Replaced(s, n, b)
  BY <1>4, <1>5, <1>6
<1> QED BY <1>7 DEF t

LEMMA GrownAgain ==
  ASSUME NEW f, NEW A, NEW B, NEW L, NEW M
  PROVE  /\ Grown(Grown(f, A, L), B, M) = Grown(f, B, M)
         /\ Grown(f, A, L).blocks = A /\ Grown(f, A, L).listed = L
BY DEF Grown

\* What the steps assign to the function under construction.
BlocksTo(fs, n, B) == [fs EXCEPT ![n].blocks = B]
ListedTo(fs, n, M) == [fs EXCEPT ![n].listed = M]
ConditionTo(fs, n, B, e) == [fs EXCEPT ![n].blocks = B, ![n].listed = @ \cup {e}]
BranchedTo(fs, n, p, m, e) ==
  [fs EXCEPT ![n].blocks[p] = Append(@, Instruction("br", Bool, <<>>, <<m>>, 0)),
             ![n].listed = @ \cup {e}]
MergedTo(fs, n, p, m, phi) ==
  [fs EXCEPT ![n].blocks[p] = Append(@, Instruction("br", Bool, <<>>, <<m>>, 0)),
             ![n].blocks[m] = <<phi>>, ![n].listed = @ \cup {m}]

LEMMA BlocksSet ==
  ASSUME NEW fs, NEW n \in 1 .. Len(fs), NEW f, NEW A, NEW L, fs[n] = Grown(f, A, L), NEW B
  PROVE  BlocksTo(fs, n, B) = Replaced(fs, n, Grown(f, B, L))
<1>1. [fs EXCEPT ![n].blocks = B] = [fs EXCEPT ![n] = [fs[n] EXCEPT !.blocks = B]]
  OBVIOUS
<1>2. [Grown(f, A, L) EXCEPT !.blocks = B] = Grown(f, B, L)
  BY DEF Grown
<1> QED BY <1>1, <1>2 DEF Replaced, BlocksTo

LEMMA ListedSet ==
  ASSUME NEW fs, NEW n \in 1 .. Len(fs), NEW f, NEW A, NEW L, fs[n] = Grown(f, A, L), NEW M
  PROVE  ListedTo(fs, n, M) = Replaced(fs, n, Grown(f, A, M))
<1>1. [fs EXCEPT ![n].listed = M] = [fs EXCEPT ![n] = [fs[n] EXCEPT !.listed = M]]
  OBVIOUS
<1>2. [Grown(f, A, L) EXCEPT !.listed = M] = Grown(f, A, M)
  BY DEF Grown
<1> QED BY <1>1, <1>2 DEF Replaced, ListedTo

LEMMA BothSet ==
  ASSUME NEW fs, NEW n \in 1 .. Len(fs), SeqLike(fs), IsFunction(fs[n]), NEW B, NEW M
  PROVE  ListedTo(BlocksTo(fs, n, B), n, M) = Replaced(fs, n, Grown(fs[n], B, M))
<1> DEFINE f == fs[n]
           fs1 == BlocksTo(fs, n, B)
<1>1. fs[n] = Grown(f, f.blocks, f.listed)
  BY DEF IsFunction, Grown
<1> HIDE DEF f
<1>2. fs1 = Replaced(fs, n, Grown(f, B, f.listed))
  BY <1>1, BlocksSet
<1> HIDE DEF fs1
<1>3. fs1[n] = Grown(f, B, f.listed) /\ n \in 1 .. Len(fs1)
  BY <1>2, Updated
<1>4. ListedTo(fs1, n, M) = Replaced(fs1, n, Grown(f, B, M))
  BY <1>3, ListedSet
<1>5. ListedTo(fs1, n, M) = Replaced(fs, n, Grown(f, B, M))
  BY <1>2, <1>4, ReplacedAgain
<1> QED BY <1>5 DEF f, fs1

LEMMA ConditionIs ==
  ASSUME NEW fs, NEW n \in 1 .. Len(fs), SeqLike(fs), IsFunction(fs[n]), NEW B, NEW e
  PROVE  ConditionTo(fs, n, B, e) =
           Replaced(fs, n, Grown(fs[n], B, fs[n].listed \cup {e}))
<1>1. ConditionTo(fs, n, B, e) = ListedTo(BlocksTo(fs, n, B), n, fs[n].listed \cup {e})
  BY DEF ListedTo, BlocksTo, ConditionTo
<1>2. ListedTo(BlocksTo(fs, n, B), n, fs[n].listed \cup {e}) =
        Replaced(fs, n, Grown(fs[n], B, fs[n].listed \cup {e}))
  BY BothSet
<1> QED BY <1>1, <1>2

LEMMA BranchIs ==
  ASSUME NEW fs, NEW n \in 1 .. Len(fs), SeqLike(fs), IsFunction(fs[n]),
         NEW p \in Blocks(fs[n]), NEW m, NEW e
  PROVE  BranchedTo(fs, n, p, m, e) = Replaced(fs, n, ThenPut(fs[n], p, m, e))
<1> DEFINE code == Instruction("br", Bool, <<>>, <<m>>, 0)
           B == [fs[n].blocks EXCEPT ![p] = Append(@, code)]
<1>1. BranchedTo(fs, n, p, m, e) = ListedTo(BlocksTo(fs, n, B), n, fs[n].listed \cup {e})
  BY DEF ListedTo, BlocksTo, BranchedTo
<1> HIDE DEF code
<1>2. Append(fs[n].blocks[p], code) = fs[n].blocks[p] \o <<code>>
  BY AppendIsConcat DEF IsFunction
<1>3. B = WithCode(fs[n], p, <<code>>)
  BY <1>2 DEF WithCode
<1> HIDE DEF B
<1>4. ListedTo(BlocksTo(fs, n, B), n, fs[n].listed \cup {e}) =
        Replaced(fs, n, Grown(fs[n], B, fs[n].listed \cup {e}))
  BY BothSet
<1> QED BY <1>1, <1>3, <1>4 DEF ThenPut, BranchCode, code

LEMMA MergeIs ==
  ASSUME NEW fs, NEW n \in 1 .. Len(fs), SeqLike(fs), IsFunction(fs[n]),
         NEW p \in Blocks(fs[n]), NEW m, NEW phi
  PROVE  MergedTo(fs, n, p, m, phi) = Replaced(fs, n, ElsePut(fs[n], p, m, phi))
<1> DEFINE code == Instruction("br", Bool, <<>>, <<m>>, 0)
           B == [fs[n].blocks EXCEPT ![p] = Append(@, code)]
           C == [B EXCEPT ![m] = <<phi>>]
<1>1. MergedTo(fs, n, p, m, phi) = ListedTo(BlocksTo(fs, n, C), n, fs[n].listed \cup {m})
  BY DEF ListedTo, BlocksTo, MergedTo
<1> HIDE DEF code
<1>2. Append(fs[n].blocks[p], code) = fs[n].blocks[p] \o <<code>>
  BY AppendIsConcat DEF IsFunction
<1>3. B = WithCode(fs[n], p, <<code>>)
  BY <1>2 DEF WithCode
<1>4. C = [WithCode(fs[n], p, <<code>>) EXCEPT ![m] = <<phi>>]
  BY <1>3
<1> HIDE DEF C
<1>5. ListedTo(BlocksTo(fs, n, C), n, fs[n].listed \cup {m}) =
        Replaced(fs, n, Grown(fs[n], C, fs[n].listed \cup {m}))
  BY BothSet
<1> QED BY <1>1, <1>4, <1>5 DEF ElsePut, BranchCode, code

\* The step of an if whose edit keeps the function sound.
LEMMA BranchStep ==
  ASSUME GenInv, frames # <<>>, fun' = fun, named' = named,
         NEW g, mod' = Replaced(mod, fun, g), Frozen(mod[fun], g),
         gen' = "return" \/ (gen' = "visit" /\ frames' # <<>>),
         NEW s, Opened(g, fun, point', frames', s),
         SeqLike(frames'), \A i \in 1 .. Len(frames') : IsActive(frames'[i]),
         gen' = "return" => Computed(g, fun, value', {point'})
  PROVE  GenInv' /\ AllFrozen
<1>1. Open
  BY DEF Open
<1>2. Extends(mod)
  BY SameExtends
<1>3. /\ SeqLike(mod') /\ Len(mod') >= Len(mod) /\ mod'[fun] = g
      /\ \A n \in 1 .. Len(mod) : n # fun => mod'[n] = mod[n]
      /\ \A n \in 1 .. Len(mod') : n > Len(mod) => Fresh(mod'[n], n)
  BY <1>1, <1>2, ChangedModule
<1>4. /\ Opened(mod'[fun], fun, point', frames', s) /\ Frozen(mod[fun], mod'[fun])
      /\ gen' = "return" => Computed(mod'[fun], fun, value', {point'})
  BY <1>3
<1> QED BY <1>1, <1>3, <1>4, InsideStep

LEMMA IfFrame ==
  ASSUME NEW t, IsFrame(t), NEW values, NEW blocks
  PROVE  [t EXCEPT !.values = values, !.blocks = blocks] =
           [node |-> t.node, how |-> t.how, emits |-> t.emits, type |-> t.type,
            callee |-> t.callee, values |-> values, blocks |-> blocks]
<1> DEFINE r == [node |-> t.node, how |-> t.how, emits |-> t.emits, type |-> t.type,
                 callee |-> t.callee, values |-> t.values, blocks |-> t.blocks]
<1>1. t = r
  BY DEF IsFrame
<1> DEFINE u == [r EXCEPT !.values = values]
<1>2. u = [node |-> t.node, how |-> t.how, emits |-> t.emits, type |-> t.type,
           callee |-> t.callee, values |-> values, blocks |-> t.blocks]
  OBVIOUS
<1> HIDE DEF u
<1>3. [u EXCEPT !.blocks = blocks] =
        [node |-> t.node, how |-> t.how, emits |-> t.emits, type |-> t.type,
         callee |-> t.callee, values |-> values, blocks |-> blocks]
  BY <1>2
<1>4. [r EXCEPT !.values = values, !.blocks = blocks] = [u EXCEPT !.blocks = blocks]
  BY DEF u
<1> QED BY <1>1, <1>3, <1>4

\* A frame of an if that has collected a value.
IfFrameOf(t, v, blocks) == [t EXCEPT !.values = Append(t.values, v), !.blocks = blocks]

LEMMA IfFrameFacts ==
  ASSUME NEW t, IsActive(t), t.how = "if", NEW v, NEW blocks, SeqLike(blocks), Len(blocks) = 3
  PROVE  /\ IsActive(IfFrameOf(t, v, blocks)) /\ IfFrameOf(t, v, blocks).how = "if"
         /\ IfFrameOf(t, v, blocks).callee = t.callee /\ IfFrameOf(t, v, blocks).blocks = blocks
         /\ Len(t.values) \in Nat /\ Len(IfFrameOf(t, v, blocks).values) = Len(t.values) + 1
         /\ IfFrameOf(t, v, blocks).values[Len(t.values) + 1] = v
<1> DEFINE vs == Append(t.values, v)
<1>1. IsFrame(t) /\ SeqLike(t.values) /\ Len(t.values) \in Nat
  BY DEF IsActive, IsFrame, SeqLike
<1>2. SeqLike(vs) /\ Len(vs) = Len(t.values) + 1 /\ vs[Len(t.values) + 1] = v
  BY <1>1, Appended
<1> DEFINE fr == IfFrameOf(t, v, blocks)
           r == [node |-> t.node, how |-> t.how, emits |-> t.emits, type |-> t.type,
                 callee |-> t.callee, values |-> vs, blocks |-> blocks]
<1>3. IfFrameOf(t, v, blocks) = [t EXCEPT !.values = vs, !.blocks = blocks]
  BY DEF IfFrameOf
<1> HIDE DEF vs
<1>4. IfFrameOf(t, v, blocks) = [node |-> t.node, how |-> t.how, emits |-> t.emits, type |-> t.type,
            callee |-> t.callee, values |-> vs, blocks |-> blocks]
  BY <1>1, <1>3, IfFrame
<1>5. /\ fr.how = "if" /\ fr.callee = t.callee /\ fr.values = vs /\ fr.blocks = blocks
      /\ fr = [node |-> fr.node, how |-> fr.how, emits |-> fr.emits, type |-> fr.type,
               callee |-> fr.callee, values |-> fr.values, blocks |-> fr.blocks]
  <2>1. /\ r.how = t.how /\ r.callee = t.callee /\ r.values = vs /\ r.blocks = blocks
        /\ r = [node |-> r.node, how |-> r.how, emits |-> r.emits, type |-> r.type,
                callee |-> r.callee, values |-> r.values, blocks |-> r.blocks]
    OBVIOUS
  <2>2. fr = r
    BY <1>4
  <2> HIDE DEF r, fr
  <2> QED BY <2>1, <2>2
<1> HIDE DEF fr
<1>6. fr.values # <<>>
  BY <1>1, <1>2, <1>5
<1>7. IsFrame(fr)
  BY <1>2, <1>5, <1>6 DEF IsFrame
<1>8. IsActive(fr)
  BY <1>5, <1>7 DEF IsActive
<1> QED BY <1>1, <1>2, <1>5, <1>8 DEF fr

LEMMA IfConditionStep ==
  ASSUME GenInv, IfCondition PROVE GenInv' /\ AllFrozen
<1>1. gen = "return" /\ frames # <<>> /\ Top.how = "if" /\ Len(Top.values) = 0 /\ gen' = "visit"
  BY DEF IfCondition, Got
<1>2. PICK s : Opened(mod[fun], fun, point, <<Top>> \o Tail(frames), s)
  BY <1>1, TopFacts
<1>3. /\ SeqLike(Tail(frames)) /\ Open /\ \A i \in 1 .. Len(Tail(frames)) : IsActive(Tail(frames)[i])
      /\ fun \in 1 .. Len(mod) /\ IsActive(Top)
  BY <1>1, TopFacts
<1>4. Computed(mod[fun], fun, value, {point})
  BY <1>1, <1>3 DEF GenInv, OpenInv
<1> DEFINE f == mod[fun]
           new == Len(f.blocks)
           bs == <<new + 1, new + 2, new + 3>>
           fr == IfFrameOf(Top, value, bs)
           B == WithCode(f, point, ConditionCode(f, fun, point, value)) \o <<<<>>, <<>>, <<>>>>
           g == ConditionPut(f, fun, point, value)
<1>5. mod' = ConditionTo(mod, fun, B, new + 1)
  BY DEF ConditionTo, IfCondition, WithCode, ConditionCode, Place
<1>6. /\ frames' = <<fr>> \o Tail(frames) /\ point' = new + 1 /\ fun' = fun /\ named' = named
  BY DEF IfCondition, Become, Collected, IfFrameOf
<1>7. IsFunction(mod[fun]) /\ SeqLike(mod)
  BY <1>2, OpenedFacts DEF GenInv, ModuleInv
<1>8. mod' = Replaced(mod, fun, g)
  <2>1. ConditionTo(mod, fun, B, new + 1) =
          Replaced(mod, fun, Grown(mod[fun], B, mod[fun].listed \cup {new + 1}))
    <3> HIDE DEF B, new, f, g
    <3> QED BY <1>3, <1>7, ConditionIs
  <2>2. g = Grown(mod[fun], B, mod[fun].listed \cup {new + 1})
    BY DEF ConditionPut
  <2> HIDE DEF B, g, new, f
  <2> QED BY <1>5, <2>1, <2>2
<1>9. SeqLike(bs) /\ Len(bs) = 3
  BY DEF SeqLike
<1> HIDE DEF bs
<1>10. /\ IsActive(fr) /\ fr.how = "if" /\ fr.callee = Top.callee /\ fr.blocks = bs
       /\ Len(fr.values) = 1
  <2>1. /\ IsActive(fr) /\ fr.how = "if" /\ fr.callee = Top.callee /\ fr.blocks = bs
        /\ Len(fr.values) = Len(Top.values) + 1
    <3>1. IsActive(Top) /\ Top.how = "if" /\ SeqLike(bs) /\ Len(bs) = 3
      BY <1>1, <1>3, <1>9
    <3> HIDE DEF f, g, B, new, fr
    <3>2. /\ IsActive(IfFrameOf(Top, value, bs)) /\ IfFrameOf(Top, value, bs).how = "if"
          /\ IfFrameOf(Top, value, bs).callee = Top.callee /\ IfFrameOf(Top, value, bs).blocks = bs
          /\ Len(Top.values) \in Nat /\ Len(IfFrameOf(Top, value, bs).values) = Len(Top.values) + 1
          /\ IfFrameOf(Top, value, bs).values[Len(Top.values) + 1] = value
      BY <3>1, IfFrameFacts
    <3> QED BY <3>2 DEF fr
  <2> QED BY <1>1, <2>1
<1>11. fr.blocks = <<new + 1, new + 2, new + 3>>
  BY <1>10 DEF bs
<1> HIDE DEF fr
<1>12. Opened(f, fun, point, <<Top>> \o Tail(frames), s) /\ Computed(f, fun, value, {point})
  BY <1>2, <1>4
<1> HIDE DEF f
<1>13. g = ConditionPut(f, fun, point, value) /\ new = Len(f.blocks)
  OBVIOUS
<1> HIDE DEF g, new
<1>14. Opened(g, fun, new + 1, <<fr>> \o Tail(frames), s) /\ Frozen(f, g)
  BY <1>1, <1>3, <1>10, <1>11, <1>12, <1>13, ConditionEdit
<1>15. /\ SeqLike(<<fr>> \o Tail(frames)) /\ <<fr>> \o Tail(frames) # <<>>
       /\ \A i \in 1 .. Len(<<fr>> \o Tail(frames)) : IsActive((<<fr>> \o Tail(frames))[i])
  BY <1>3, <1>10, ActiveFrames
<1>16. /\ SeqLike(frames') /\ frames' # <<>> /\ \A i \in 1 .. Len(frames') : IsActive(frames'[i])
       /\ Opened(g, fun, point', frames', s)
  BY <1>6, <1>14, <1>15
<1>17. gen' # "return" /\ Frozen(mod[fun], g)
  BY <1>1, <1>14 DEF f
<1> QED BY <1>1, <1>6, <1>8, <1>16, <1>17, BranchStep

LEMMA IfThenStep ==
  ASSUME GenInv, IfThen PROVE GenInv' /\ AllFrozen
<1>1. gen = "return" /\ frames # <<>> /\ Top.how = "if" /\ Len(Top.values) = 1 /\ gen' = "visit"
  BY DEF IfThen, Got
<1>2. PICK s : Opened(mod[fun], fun, point, <<Top>> \o Tail(frames), s)
  BY <1>1, TopFacts
<1>3. /\ SeqLike(Tail(frames)) /\ Open /\ \A i \in 1 .. Len(Tail(frames)) : IsActive(Tail(frames)[i])
      /\ fun \in 1 .. Len(mod) /\ IsActive(Top)
  BY <1>1, TopFacts
<1>4. Computed(mod[fun], fun, value, {point})
  BY <1>1, <1>3 DEF GenInv, OpenInv
<1> DEFINE f == mod[fun]
           m == Top.blocks[3]
           e == Top.blocks[2]
           bs == Replaced(Top.blocks, 1, point)
           fr == IfFrameOf(Top, value, bs)
           g == ThenPut(f, point, m, e)
<1>5. mod' = BranchedTo(mod, fun, point, m, e)
  BY DEF BranchedTo, IfThen, EndBranch
<1>6. /\ frames' = <<fr>> \o Tail(frames) /\ point' = e /\ fun' = fun /\ named' = named
  <2>1. fr = [Top EXCEPT !.values = Collected, !.blocks[1] = point]
    BY DEF IfFrameOf, Collected, Replaced
  <2> QED BY <2>1 DEF IfThen, EndBranch, Become
<1>7. IsFunction(mod[fun]) /\ SeqLike(mod) /\ point \in Blocks(mod[fun])
  BY <1>2, OpenedFacts DEF GenInv, ModuleInv
<1>8. mod' = Replaced(mod, fun, g)
  <2>1. BranchedTo(mod, fun, point, m, e) = Replaced(mod, fun, ThenPut(mod[fun], point, m, e))
    <3> HIDE DEF e, m, f, g, fr, bs
    <3> QED BY <1>3, <1>7, BranchIs
  <2> QED BY <1>5, <2>1
<1>9. SeqLike(bs) /\ Len(bs) = 3 /\ bs[1] = point /\ bs[3] = m
  <2>1. SeqLike(Top.blocks) /\ Len(Top.blocks) = 3
    <3>1. Top.values # <<>>
      BY <1>1
    <3> QED BY <1>1, <1>3, <3>1 DEF IsActive, IsFrame
  <2>2. 1 \in 1 .. Len(Top.blocks) /\ 3 \in 1 .. Len(Top.blocks) /\ 3 # 1
    BY <2>1
  <2> QED BY <2>1, <2>2, Updated
<1> HIDE DEF bs
<1>10. /\ IsActive(fr) /\ fr.how = "if" /\ fr.callee = Top.callee
       /\ Len(fr.values) = 2 /\ fr.values[2] = value /\ fr.blocks[1] = point /\ fr.blocks[3] = m
  <2>1. IsActive(Top) /\ Top.how = "if" /\ SeqLike(bs) /\ Len(bs) = 3
    BY <1>1, <1>3, <1>9
  <2> HIDE DEF f, g, fr, m
  <2>2. /\ IsActive(IfFrameOf(Top, value, bs)) /\ IfFrameOf(Top, value, bs).how = "if"
        /\ IfFrameOf(Top, value, bs).callee = Top.callee /\ IfFrameOf(Top, value, bs).blocks = bs
        /\ Len(Top.values) \in Nat /\ Len(IfFrameOf(Top, value, bs).values) = Len(Top.values) + 1
        /\ IfFrameOf(Top, value, bs).values[Len(Top.values) + 1] = value
    BY <2>1, IfFrameFacts
  <2>3. Len(Top.values) + 1 = 2
    BY <1>1
  <2> QED BY <1>9, <2>2, <2>3 DEF fr
<1> HIDE DEF fr
<1>11. Opened(f, fun, point, <<Top>> \o Tail(frames), s) /\ Computed(f, fun, value, {point})
  BY <1>2, <1>4
<1> HIDE DEF f
<1>12. g = ThenPut(f, point, m, e) /\ m = Top.blocks[3] /\ e = Top.blocks[2]
  OBVIOUS
<1> HIDE DEF g, m, e
<1>13. Opened(g, fun, e, <<fr>> \o Tail(frames), s) /\ Frozen(f, g)
  BY <1>1, <1>3, <1>10, <1>11, <1>12, ThenEdit
<1>14. /\ SeqLike(<<fr>> \o Tail(frames)) /\ <<fr>> \o Tail(frames) # <<>>
       /\ \A i \in 1 .. Len(<<fr>> \o Tail(frames)) : IsActive((<<fr>> \o Tail(frames))[i])
  BY <1>3, <1>10, ActiveFrames
<1>15. /\ SeqLike(frames') /\ frames' # <<>> /\ \A i \in 1 .. Len(frames') : IsActive(frames'[i])
       /\ Opened(g, fun, point', frames', s)
  BY <1>6, <1>13, <1>14
<1>16. gen' # "return" /\ Frozen(mod[fun], g)
  BY <1>1, <1>13 DEF f
<1> QED BY <1>1, <1>6, <1>8, <1>15, <1>16, BranchStep

LEMMA IfElseStep ==
  ASSUME GenInv, IfElse PROVE GenInv' /\ AllFrozen
<1>1. gen = "return" /\ frames # <<>> /\ Top.how = "if" /\ Len(Top.values) = 2
  BY DEF IfElse, Got
<1>2. PICK s : Opened(mod[fun], fun, point, <<Top>> \o Tail(frames), s)
  BY <1>1, TopFacts
<1>3. /\ SeqLike(Tail(frames)) /\ Open /\ \A i \in 1 .. Len(Tail(frames)) : IsActive(Tail(frames)[i])
      /\ fun \in 1 .. Len(mod)
  BY <1>1, TopFacts
<1>4. Computed(mod[fun], fun, value, {point})
  BY <1>1, <1>3 DEF GenInv, OpenInv
<1> DEFINE f == mod[fun]
           m == Top.blocks[3]
           a == Top.values[2]
           t == Top.blocks[1]
           type == IF Top.emits = "double" THEN Double ELSE Int64
           phi == Merged(type, a, value, t, point)
           g == ElsePut(f, point, m, phi)
           v == Result(fun, m, 1, type)
<1>5. mod' = MergedTo(mod, fun, point, m, phi)
  BY DEF MergedTo, IfElse, Merged
<1>6. /\ gen' = "return" /\ value' = v /\ frames' = Tail(frames) /\ point' = m
      /\ fun' = fun /\ named' = named
  BY DEF IfElse, Yield
<1>7. IsFunction(mod[fun]) /\ SeqLike(mod) /\ point \in Blocks(mod[fun])
  BY <1>2, OpenedFacts DEF GenInv, ModuleInv
<1>8. mod' = Replaced(mod, fun, g)
  <2>1. MergedTo(mod, fun, point, m, phi) = Replaced(mod, fun, ElsePut(mod[fun], point, m, phi))
    <3> HIDE DEF m, phi, f, g, v, type, a, t
    <3> QED BY <1>3, <1>7, MergeIs
  <2> QED BY <1>5, <2>1
<1>9. Opened(f, fun, point, <<Top>> \o Tail(frames), s) /\ Computed(f, fun, value, {point})
  BY <1>2, <1>4
<1> HIDE DEF f, type
<1>10. /\ g = ElsePut(f, point, m, Merged(type, a, value, t, point))
       /\ m = Top.blocks[3] /\ a = Top.values[2] /\ t = Top.blocks[1]
  OBVIOUS
<1> HIDE DEF g, m, a, t
<1>11. /\ Opened(g, fun, m, Tail(frames), s) /\ Frozen(f, g)
       /\ Computed(g, fun, Result(fun, m, 1, type), {m})
  BY <1>1, <1>3, <1>9, <1>10, ElseEdit
<1>12. Computed(g, fun, v, {m})
  BY <1>11
<1> HIDE DEF v
<1>13. /\ SeqLike(frames') /\ \A i \in 1 .. Len(frames') : IsActive(frames'[i])
       /\ Opened(g, fun, point', frames', s) /\ Computed(g, fun, value', {point'})
  BY <1>3, <1>6, <1>11, <1>12
<1>14. Frozen(mod[fun], g)
  BY <1>11 DEF f
<1> QED BY <1>1, <1>6, <1>8, <1>13, <1>14, BranchStep

LEMMA IfTooShortStep ==
  ASSUME GenInv, IfTooShort PROVE GenInv' /\ AllFrozen
<1>1. Halt("undefined") /\ gen = "visit"
  BY DEF IfTooShort, Building
<1> QED BY <1>1, HaltStep DEF Given

-----------------------------------------------------------------------------
(* Between the functions.                                                  *)

LEMMA UnitStep ==
  ASSUME GenInv, gen = "unit", gen' \notin {"visit", "return"}, frames' = frames, Extends(mod')
  PROVE  GenInv' /\ AllFrozen
<1>1. frames = <<>> /\ ~Open /\ ~Open'
  BY DEF GenInv, PhaseInv, Open
<1>2. Len(mod) \in Nat /\ Len(mod') \in Nat /\ SeqLike(mod')
  BY DEF GenInv, ModuleInv, Extends, SeqLike
<1>3. ASSUME NEW n \in 1 .. Len(mod') PROVE Untouched(n)'
  <2>1. CASE n > Len(mod)
    <3>1. Fresh(mod'[n], n)
      BY <2>1 DEF Extends
    <3> QED BY <3>1 DEF Fresh, Untouched
  <2>2. CASE n <= Len(mod)
    <3>1. n \in 1 .. Len(mod) /\ mod'[n] = mod[n]
      BY <1>2, <1>3, <2>2 DEF Extends
    <3>2. Untouched(n)
      BY <1>1, <3>1 DEF GenInv, ModuleInv
    <3> QED BY <3>1, <3>2 DEF Untouched
  <2> QED BY <1>2, <2>1, <2>2
<1>4. ModuleInv'
  BY <1>1, <1>2, <1>3 DEF ModuleInv
<1>5. FramesInv' /\ OpenInv' /\ PhaseInv'
  BY <1>1 DEF GenInv, FramesInv, OpenInv, PhaseInv
<1>6. AllFrozen
  BY FrozenRefl DEF AllFrozen, Extends
<1> QED BY <1>4, <1>5, <1>6 DEF GenInv

LEMMA AddedExtends ==
  ASSUME GenInv, NEW name, NEW type, NEW params
  PROVE  /\ Extends(Append(mod, Declaration(name, type, params)))
         /\ Len(Append(mod, Declaration(name, type, params))) = Len(mod) + 1
<1> DEFINE d == Declaration(name, type, params)
<1>1. SeqLike(mod) /\ Len(mod) \in Nat
  BY DEF GenInv, ModuleInv, SeqLike
<1>2. Fresh(d, Len(mod) + 1)
  BY DeclarationIsFresh
<1> HIDE DEF d
<1>3. /\ SeqLike(Append(mod, d)) /\ Len(Append(mod, d)) = Len(mod) + 1
      /\ \A i \in 1 .. Len(mod) : Append(mod, d)[i] = mod[i]
      /\ Append(mod, d)[Len(mod) + 1] = d
  BY <1>1, Appended
<1>4. \A n \in 1 .. Len(mod) + 1 : n > Len(mod) => n = Len(mod) + 1
  BY <1>1
<1>5. Extends(Append(mod, d))
  BY <1>1, <1>2, <1>3, <1>4 DEF Extends
<1> QED BY <1>3, <1>5 DEF d

LEMMA ExternStep ==
  ASSUME GenInv, GenExtern PROVE GenInv' /\ AllFrozen
<1>1. gen = "unit"
  BY DEF GenExtern, AtUnit
<1>2. CASE Halt("aborted") \/ Halt("crashed")
  BY <1>1, <1>2, HaltStep DEF Given
<1>3. CASE mod' = Append(mod, Created(Unit.sig)) /\ UNCHANGED <<gen, frames>>
  <2>1. Extends(Append(mod, Created(Unit.sig)))
    BY AddedExtends DEF Created
  <2>2. Extends(mod') /\ gen' \notin {"visit", "return"} /\ frames' = frames
    BY <1>1, <1>3, <2>1
  <2> QED BY <1>1, <2>2, UnitStep
<1> QED BY <1>2, <1>3 DEF GenExtern, AssertionFails

LEMMA EndStep ==
  ASSUME GenInv, NothingToRun \/ SymbolNotFound \/ RunLast PROVE GenInv' /\ AllFrozen
<1>1. gen = "unit" /\ UNCHANGED <<translation, frames>>
  BY DEF NothingToRun, SymbolNotFound, RunLast, AtEnd
<1>2. gen' \notin {"visit", "return"}
  <2>1. CASE NothingToRun
    BY <2>1 DEF NothingToRun
  <2>2. CASE SymbolNotFound
    BY <2>2 DEF SymbolNotFound
  <2>3. CASE RunLast
    BY <2>3 DEF RunLast
  <2> QED BY <2>1, <2>2, <2>3
<1>3. mod' = mod /\ frames' = frames
  BY <1>1 DEF translation
<1>4. Extends(mod')
  BY <1>3, SameExtends
<1> QED BY <1>1, <1>2, <1>3, <1>4, UnitStep

\* Entered(fs, n) is the module after a definition has begun in function n.
EnteredTo(fs, n, block) ==
  [fs EXCEPT ![n].blocks = Append(@, <<>>), ![n].listed = @ \cup {block},
             ![n].entry = IF @ = 0 THEN block ELSE @]

FieldsTo(f, B, L, e) == [[[f EXCEPT !.blocks = B] EXCEPT !.listed = L] EXCEPT !.entry = e]

LEMMA FieldsSet ==
  ASSUME NEW f, IsFunction(f), NEW B, NEW L, NEW e
  PROVE  FieldsTo(f, B, L, e) = [name |-> f.name, type |-> f.type, params |-> f.params, blocks |-> B,
                                 entry |-> e, listed |-> L]
<1> DEFINE name == f.name
           type == f.type
           params == f.params
           f1 == [f EXCEPT !.blocks = B]
           f2 == [f1 EXCEPT !.listed = L]
<1>1. f = [name |-> name, type |-> type, params |-> params, blocks |-> f.blocks,
           entry |-> f.entry, listed |-> f.listed]
  BY DEF IsFunction
<1>2. PICK blocks, entry, listed :
        f = [name |-> name, type |-> type, params |-> params, blocks |-> blocks,
             entry |-> entry, listed |-> listed]
  BY <1>1
<1> HIDE DEF name, type, params
<1>3. f1 = [name |-> name, type |-> type, params |-> params, blocks |-> B,
            entry |-> entry, listed |-> listed]
  BY <1>2
<1> HIDE DEF f1
<1>4. f2 = [name |-> name, type |-> type, params |-> params, blocks |-> B,
            entry |-> entry, listed |-> L]
  BY <1>3
<1> HIDE DEF f2
<1>5. [f2 EXCEPT !.entry = e] =
        [name |-> name, type |-> type, params |-> params, blocks |-> B, entry |-> e, listed |-> L]
  BY <1>4
<1> QED BY <1>5 DEF FieldsTo, f1, f2, name, type, params

LEMMA EnteredIs ==
  ASSUME NEW fs, NEW n \in 1 .. Len(fs), IsFunction(fs[n])
  PROVE  EnteredTo(fs, n, Len(fs[n].blocks) + 1) = Replaced(fs, n, EnterPut(fs[n]))
<1> DEFINE f == fs[n]
           block == Len(f.blocks) + 1
           B == Append(f.blocks, <<>>)
           L == f.listed \cup {block}
           entry == IF f.entry = 0 THEN block ELSE f.entry
           g == FieldsTo(f, B, L, entry)
<1>1. EnteredTo(fs, n, block) = [fs EXCEPT ![n] = g]
  BY DEF EnteredTo, FieldsTo
<1>2. EnterPut(f) = [name |-> f.name, type |-> f.type, params |-> f.params,
                     blocks |-> B, entry |-> entry, listed |-> L]
  BY DEF EnterPut
<1>3. IsFunction(f)
  OBVIOUS
<1> HIDE DEF f, block, B, L, entry
<1>4. g = [name |-> f.name, type |-> f.type, params |-> f.params,
           blocks |-> B, entry |-> entry, listed |-> L]
  BY <1>3, FieldsSet
<1> HIDE DEF g
<1>5. g = EnterPut(f)
  BY <1>2, <1>4
<1> QED BY <1>1, <1>5 DEF Replaced, f, block

LEMMA EnterStep ==
  ASSUME GenInv, gen = "unit", NEW functions, Extends(functions), NEW f \in 1 .. Len(functions),
         EnterFunction(functions, f)
  PROVE  GenInv' /\ AllFrozen
<1> DEFINE old == functions[f]
           block == Len(old.blocks) + 1
           new == EnterPut(old)
<1>1. frames = <<>> /\ ~Open /\ gen # "undefined" /\ Len(mod) \in Nat /\ Len(functions) \in Nat
  BY DEF GenInv, PhaseInv, Open, ModuleInv, Extends, SeqLike
<1>2. PICK n : frames' = <<Start(n)>> /\ gen' = "visit" /\ fun' = f /\ point' = block
  BY DEF EnterFunction
<1>3. \A i \in 1 .. Len(functions) :
        /\ Sound(functions[i], i) /\ Closed(functions[i])
        /\ functions[i].blocks # <<>> => Reached(functions[i])
  <2> TAKE i \in 1 .. Len(functions)
  <2>1. CASE i > Len(mod)
    <3>1. Fresh(functions[i], i)
      BY <2>1 DEF Extends
    <3> QED BY <3>1 DEF Fresh
  <2>2. CASE i <= Len(mod)
    <3>1. i \in 1 .. Len(mod) /\ functions[i] = mod[i]
      BY <1>1, <2>2 DEF Extends
    <3>2. Untouched(i)
      BY <1>1, <3>1 DEF GenInv, ModuleInv
    <3> QED BY <1>1, <3>1, <3>2 DEF Untouched
  <2> QED BY <1>1, <2>1, <2>2
<1>4. mod' = Replaced(functions, f, new)
  <2>1. mod' = EnteredTo(functions, f, block)
    BY DEF EnterFunction, EnteredTo
  <2>2. IsFunction(functions[f])
    BY <1>3 DEF Sound
  <2>3. EnteredTo(functions, f, block) = Replaced(functions, f, new)
    BY <2>2, EnteredIs
  <2> QED BY <2>1, <2>3
<1>5. Sound(old, f) /\ Closed(old) /\ (old.blocks # <<>> => Reached(old))
  BY <1>3
<1> HIDE DEF old
<1>6. block = Len(old.blocks) + 1 /\ new = EnterPut(old)
  OBVIOUS
<1> HIDE DEF block, new
<1>7. /\ IsActive(Start(n)) /\ Start(n).how = "visit" /\ Start(n).values = <<>>
      /\ Fixed(f, Start(n).callee)
  BY StartIsActive
<1>8. /\ Len(frames') = 1 /\ frames'[1] = Start(n) /\ SeqLike(frames')
      /\ \A i \in 1 .. Len(frames') : IsActive(frames'[i])
  BY <1>2, <1>7 DEF SeqLike
<1>9. frames'[1].how = "visit" /\ frames'[1].values = <<>> /\ Fixed(f, frames'[1].callee)
  BY <1>7, <1>8
<1>10. Opened(new, f, block, frames', block) /\ Frozen(old, new)
  BY <1>5, <1>6, <1>8, <1>9, EnterEdit
<1>11. SeqLike(functions)
  BY DEF Extends
<1>12. /\ SeqLike(mod') /\ Len(mod') = Len(functions) /\ mod'[f] = new
       /\ \A i \in 1 .. Len(functions) : i # f => mod'[i] = functions[i]
  BY <1>4, <1>11, Updated
<1>13. Open' /\ fun' \in 1 .. Len(mod')
  BY <1>2, <1>12 DEF Open
<1>14. \E s \in Blocks(mod'[f]) : Opened(mod'[f], f, point', frames', s)
  <2>1. block \in Blocks(new)
    BY <1>10, OpenedFacts
  <2> QED BY <1>2, <1>10, <1>12, <2>1
<1>15. ASSUME NEW i \in 1 .. Len(mod'), i # f PROVE Untouched(i)'
  <2>1. i \in 1 .. Len(functions) /\ mod'[i] = functions[i]
    BY <1>12, <1>15
  <2>2. Sound(mod'[i], i) /\ Closed(mod'[i]) /\ (mod'[i].blocks # <<>> => Reached(mod'[i]))
    BY <1>3, <2>1
  <2> QED BY <2>2 DEF Untouched
<1>16. ModuleInv'
  BY <1>2, <1>12, <1>13, <1>14, <1>15 DEF ModuleInv
<1>17. FramesInv' /\ PhaseInv'
  BY <1>2, <1>8 DEF FramesInv, PhaseInv
<1>18. \A x \in DOMAIN named' : Fixed(f, named'[x])
  <2>1. named' = [x \in ParameterNames(functions, f) |-> ParameterValue(functions, f, x)]
    BY DEF EnterFunction
  <2>2. \A x : Fixed(f, ParameterValue(functions, f, x))
    BY DEF ParameterValue, Argument, Value, Fixed
  <2> QED BY <2>1, <2>2
<1>19. OpenInv'
  BY <1>2, <1>13, <1>18 DEF OpenInv
<1>20. AllFrozen
  <2>1. ASSUME NEW i \in 1 .. Len(mod) PROVE Frozen(mod[i], mod'[i])
    <3>1. i \in 1 .. Len(functions) /\ functions[i] = mod[i]
      BY <1>1 DEF Extends
    <3>2. CASE i = f
      <4>1. mod[i] = old
        BY <3>1, <3>2 DEF old
      <4> QED BY <1>10, <1>12, <3>2, <4>1
    <3>3. CASE i # f
      <4>1. mod'[i] = mod[i]
        BY <1>12, <3>1, <3>3
      <4> QED BY <4>1, FrozenRefl
    <3> QED BY <3>2, <3>3
  <2> QED BY <2>1 DEF AllFrozen
<1> QED BY <1>16, <1>17, <1>19, <1>20 DEF GenInv

LEMMA FunctionStep ==
  ASSUME GenInv, GenFunction PROVE GenInv' /\ AllFrozen
<1>1. gen = "unit"
  BY DEF GenFunction, AtUnit
<1>2. CASE Halt("crashed")
  BY <1>1, <1>2, HaltStep DEF Given
<1>3. CASE EnterFunction(Append(mod, Created(Unit.sig)), Len(mod) + 1)
  <2>1. /\ Extends(Append(mod, Created(Unit.sig)))
        /\ Len(Append(mod, Created(Unit.sig))) = Len(mod) + 1
    BY AddedExtends DEF Created
  <2>2. Len(mod) \in Nat
    BY DEF GenInv, ModuleInv, SeqLike
  <2>3. Len(mod) + 1 \in 1 .. Len(Append(mod, Created(Unit.sig)))
    BY <2>1, <2>2
  <2> QED BY <1>1, <1>3, <2>1, <2>3, EnterStep
<1>4. CASE \E f \in FunctionsNamed(Unit.sig.name) : EnterFunction(mod, f)
  <2>1. PICK f \in FunctionsNamed(Unit.sig.name) : EnterFunction(mod, f)
    BY <1>4
  <2>2. f \in 1 .. Len(mod)
    BY DEF FunctionsNamed
  <2>3. Extends(mod)
    BY SameExtends
  <2> QED BY <1>1, <2>1, <2>2, <2>3, EnterStep
<1> QED BY <1>2, <1>3, <1>4 DEF GenFunction

\* The end of a definition: the code with the return, and without the blocks
\* that control cannot reach.
DoneTo(fs, n, p, v) ==
  [fs EXCEPT ![n].blocks[p] = Append(@, Instruction("ret", v.type, <<v>>, <<>>, 0))]
SimplifiedIn(fs, n) == [fs EXCEPT ![n] = Simplified(@)]
WithReturn(f, p, v) == Grown(f, WithCode(f, p, ReturnCode(v)), f.listed)

LEMMA DoneIs ==
  ASSUME NEW fs, NEW n \in 1 .. Len(fs), IsFunction(fs[n]), NEW p \in Blocks(fs[n]), NEW v
  PROVE  DoneTo(fs, n, p, v) = Replaced(fs, n, WithReturn(fs[n], p, v))
<1> DEFINE code == Instruction("ret", v.type, <<v>>, <<>>, 0)
           s == fs[n].blocks[p]
<1>1. SeqLike(s)
  BY DEF IsFunction
<1>2. Append(s, code) = s \o <<code>>
  <2> HIDE DEF s, code
  <2> QED BY <1>1, AppendIsConcat
<1>3. DoneTo(fs, n, p, v) = [fs EXCEPT ![n].blocks[p] = @ \o ReturnCode(v)]
  <2>1. DoneTo(fs, n, p, v) = [fs EXCEPT ![n].blocks[p] = Append(s, code)]
    BY DEF DoneTo
  <2>2. [fs EXCEPT ![n].blocks[p] = @ \o ReturnCode(v)] = [fs EXCEPT ![n].blocks[p] = s \o <<code>>]
    BY DEF ReturnCode
  <2> QED BY <1>2, <2>1, <2>2
<1> QED BY <1>3, Inserted DEF WithReturn

LEMMA SimplifiedIs ==
  ASSUME NEW fs, NEW n \in 1 .. Len(fs), IsFunction(fs[n])
  PROVE  SimplifiedIn(fs, n) = Replaced(fs, n, SimplifiedTo(fs[n]))
<1> DEFINE g == fs[n]
           L == g.listed \cap Reachable(g)
<1>1. SimplifiedIn(fs, n) = [fs EXCEPT ![n] = [g EXCEPT !.listed = L]]
  BY DEF SimplifiedIn, Simplified
<1>2. g = [name |-> g.name, type |-> g.type, params |-> g.params, blocks |-> g.blocks,
           entry |-> g.entry, listed |-> g.listed]
  BY DEF IsFunction
<1>3. SimplifiedTo(g) = Grown(g, g.blocks, L)
  BY DEF SimplifiedTo
<1> HIDE DEF g, L
<1>4. [g EXCEPT !.listed = L] = Grown(g, g.blocks, L)
  BY <1>2 DEF Grown
<1> QED BY <1>1, <1>3, <1>4 DEF Replaced, g

\* No function is under construction any more.
LEMMA ClosingStep ==
  ASSUME GenInv, gen = "return", frames = <<>>, frames' = frames, fun' = fun,
         gen' \notin {"visit", "return"}, NEW g, mod' = Replaced(mod, fun, g),
         Sound(g, fun), Closed(g), gen' # "undefined" => Reached(g), Frozen(mod[fun], g)
  PROVE  GenInv' /\ AllFrozen
<1>1. fun \in 1 .. Len(mod) /\ SeqLike(mod) /\ Open /\ ~Open'
  BY DEF GenInv, OpenInv, ModuleInv, Open
<1>2. /\ SeqLike(mod') /\ Len(mod') = Len(mod) /\ mod'[fun] = g
      /\ \A n \in 1 .. Len(mod) : n # fun => mod'[n] = mod[n]
  BY <1>1, Updated
<1>3. ASSUME NEW n \in 1 .. Len(mod') PROVE Untouched(n)'
  <2>1. CASE n = fun
    BY <1>2, <2>1 DEF Untouched
  <2>2. CASE n # fun
    <3>1. n \in 1 .. Len(mod) /\ mod'[n] = mod[n]
      BY <1>2, <2>2
    <3>2. Untouched(n)
      BY <2>2, <3>1 DEF GenInv, ModuleInv
    <3> QED BY <2>2, <3>1, <3>2 DEF Untouched
  <2> QED BY <2>1, <2>2
<1>4. ModuleInv'
  BY <1>1, <1>2, <1>3 DEF ModuleInv
<1>5. FramesInv' /\ OpenInv' /\ PhaseInv'
  BY <1>1 DEF GenInv, FramesInv, OpenInv, PhaseInv
<1>6. AllFrozen
  <2>1. ASSUME NEW n \in 1 .. Len(mod) PROVE Frozen(mod[n], mod'[n])
    <3>1. CASE n = fun
      BY <1>2, <3>1
    <3>2. CASE n # fun
      BY <1>2, <3>2, FrozenRefl
    <3> QED BY <3>1, <3>2
  <2> QED BY <2>1 DEF AllFrozen
<1> QED BY <1>4, <1>5, <1>6 DEF GenInv

LEMMA FinishStep ==
  ASSUME GenInv, FinishFunction PROVE GenInv' /\ AllFrozen
<1> DEFINE f == mod[fun]
           g == WithReturn(f, point, value)
           h == SimplifiedTo(g)
           done == DoneTo(mod, fun, point, value)
<1>1. gen = "return" /\ frames = <<>> /\ frames' = frames /\ fun' = fun
  BY DEF FinishFunction
<1>2. \/ gen' = "undefined" /\ mod' = done
      \/ gen' = "unit" /\ mod' = SimplifiedIn(done, fun)
  BY DEF FinishFunction, DoneTo, SimplifiedIn
<1>3. fun \in 1 .. Len(mod) /\ SeqLike(mod) /\ Open /\ Computed(f, fun, value, {point})
  BY <1>1 DEF GenInv, OpenInv, ModuleInv, Open
<1>4. PICK s : Opened(f, fun, point, <<>>, s)
  BY <1>1, <1>3 DEF GenInv, ModuleInv
<1>5. IsFunction(f) /\ point \in Blocks(f)
  BY <1>4, OpenedFacts
<1>6. done = Replaced(mod, fun, g)
  BY <1>3, <1>5, DoneIs
<1> HIDE DEF f, done
<1>7. /\ Sound(g, fun) /\ Closed(g) /\ Frozen(f, g)
      /\ Sound(h, fun) /\ Closed(h) /\ Reached(h) /\ Frozen(f, h)
  <2>1. g = Grown(f, WithCode(f, point, ReturnCode(value)), f.listed)
    BY DEF WithReturn
  <2>2. h = SimplifiedTo(g)
    OBVIOUS
  <2> HIDE DEF g, h
  <2> QED BY <1>3, <1>4, <2>1, <2>2, FinishEdit
<1> HIDE DEF g
<1>8. SimplifiedIn(done, fun) = Replaced(mod, fun, h)
  <2>1. fun \in 1 .. Len(done) /\ done[fun] = g
    BY <1>3, <1>6, Updated
  <2>2. IsFunction(g)
    BY <1>7 DEF Sound
  <2>3. SimplifiedIn(done, fun) = Replaced(done, fun, h)
    BY <2>1, <2>2, SimplifiedIs
  <2> HIDE DEF h
  <2> QED BY <1>3, <1>6, <2>3, ReplacedAgain
<1> HIDE DEF h
<1>9. CASE gen' = "undefined" /\ mod' = done
  <2>1. mod' = Replaced(mod, fun, g) /\ Frozen(mod[fun], g) /\ gen' \notin {"visit", "return"}
    BY <1>6, <1>7, <1>9 DEF f
  <2>2. gen' # "undefined" => Reached(g)
    BY <1>9
  <2> QED BY <1>1, <1>7, <2>1, <2>2, ClosingStep
<1>10. CASE gen' = "unit" /\ mod' = SimplifiedIn(done, fun)
  <2>1. mod' = Replaced(mod, fun, h) /\ Frozen(mod[fun], h) /\ gen' \notin {"visit", "return"}
    BY <1>7, <1>8, <1>10 DEF f
  <2> QED BY <1>1, <1>7, <2>1, ClosingStep
<1> QED BY <1>2, <1>9, <1>10

-----------------------------------------------------------------------------
(* Every step.                                                             *)

LEMMA NextHolds ==
  ASSUME GenInv, GenNext PROVE GenInv' /\ AllFrozen
<1>1. CASE GenExtern \/ GenFunction \/ FinishFunction
  BY <1>1, ExternStep, FunctionStep, FinishStep
<1>2. CASE GenLiteral \/ GenFunctionName \/ GenVar
  BY <1>2, LiteralStep, FunctionNameStep, VarStep
<1>3. CASE GenKid \/ GenValue
  BY <1>3, KidStep, ValueStep
<1>4. CASE StartList \/ FinishList
  BY <1>4, StartListStep, FinishListStep
<1>5. CASE GenBinary \/ GenCall \/ FinishCall \/ FinishOperator
  BY <1>5, BinaryStep, CallStep, FinishCallStep, FinishOperatorStep
<1>6. CASE IfCondition \/ IfThen \/ IfElse \/ IfTooShort
  BY <1>6, IfConditionStep, IfThenStep, IfElseStep, IfTooShortStep
<1>7. CASE NothingToRun \/ SymbolNotFound \/ RunLast
  BY <1>7, EndStep
<1> QED BY <1>1, <1>2, <1>3, <1>4, <1>5, <1>6, <1>7 DEF GenNext

LEMMA StutterHolds ==
  ASSUME GenInv, UNCHANGED genvars PROVE GenInv' /\ AllFrozen
<1>1. /\ gen' = gen /\ mod' = mod /\ fun' = fun /\ point' = point /\ named' = named
      /\ frames' = frames /\ value' = value
  BY DEF genvars, translation
<1>2. Open' <=> Open
  BY <1>1 DEF Open
<1>3. FramesInv' /\ PhaseInv' /\ OpenInv'
  BY <1>1, <1>2 DEF GenInv, FramesInv, PhaseInv, OpenInv
<1>4. ModuleInv'
  BY <1>1, <1>2 DEF GenInv, ModuleInv, Untouched
<1>5. AllFrozen
  BY <1>1, FrozenRefl DEF AllFrozen
<1> QED BY <1>3, <1>4, <1>5 DEF GenInv

LEMMA SoundIsStructured ==
  ASSUME NEW n, Sound(mod[n], n), Closed(mod[n]), Complete(mod[n])
  PROVE  WellStructured(mod, n)
<1> DEFINE f == mod[n]
<1>1. /\ f.listed \subseteq Blocks(f) /\ f.listed # {} /\ InOrder(f) /\ UsesSound(f, n)
      /\ \A b \in f.listed : PhiMatches(f, b)
      /\ \A b \in Blocks(f) : Len(f.blocks[b]) \in Nat
  BY DEF Sound, Complete, IsFunction, SeqLike
<1>2. \A b \in f.listed : Terminated(f, b) /\ Successors(f, b) \subseteq f.listed
  BY DEF Closed
<1>3. f.blocks # <<>>
  BY <1>1 DEF Blocks
<1>4. Reachable(f) \subseteq Blocks(f)
  <2>1. Graph(f)
    BY <1>3 DEF Sound
  <2> QED BY <2>1, ReachableIsClosed DEF Reachable
<1> HIDE DEF f
<1>5. BlocksEnd(f)
  <2> SUFFICES ASSUME NEW b \in f.listed
               PROVE  \A i \in 1 .. Len(f.blocks[b]) - 1 : f.blocks[b][i].op \notin Terminators
    BY <1>2 DEF BlocksEnd
  <2> TAKE i \in 1 .. Len(f.blocks[b]) - 1
  <2>1. b \in Blocks(f) /\ Len(f.blocks[b]) \in Nat
    BY <1>1
  <2>2. i \in 1 .. Len(f.blocks[b]) /\ i # Len(f.blocks[b])
    BY <2>1
  <2> QED BY <1>1, <2>1, <2>2 DEF InOrder
<1>6. PhisMatch(f)
  <2> SUFFICES ASSUME NEW b \in f.listed, NEW i \in 1 .. Len(f.blocks[b]), f.blocks[b][i].op = "phi"
               PROVE  LET phi == f.blocks[b][i]
                      IN  /\ \A j \in 1 .. i : f.blocks[b][j].op = "phi"
                          /\ Elements(phi.to) = Predecessors(f, b)
                          /\ \A j, k \in 1 .. Len(phi.to) : phi.to[j] = phi.to[k] => j = k
    BY DEF PhisMatch
  <2>1. b \in Blocks(f) /\ Len(f.blocks[b]) \in Nat /\ PhiMatches(f, b)
    BY <1>1
  <2>2. i = 1
    BY <1>1, <2>1 DEF InOrder
  <2>3. f.blocks[b] # <<>>
    BY <2>1, <2>2
  <2> QED BY <2>1, <2>2, <2>3 DEF PhiMatches
<1>7. UsesComputed(mod, n)
  <2> SUFFICES ASSUME NEW b \in Reachable(f), NEW i \in 1 .. Len(f.blocks[b]),
                      NEW k \in 1 .. Len(f.blocks[b][i].args)
               PROVE  LET code == f.blocks[b][i]
                          v == code.args[k]
                      IN  /\ v.kind \in {"argument", "result"} => v.of = n
                          /\ v.kind = "result" =>
                               IF code.op = "phi"
                               THEN ComputedBefore(f, v, code.to[k], Len(f.blocks[code.to[k]]))
                               ELSE ComputedBefore(f, v, b, i)
    BY DEF UsesComputed, f
  <2>1. Usable(f, n, f.blocks[b][i], k, b, i)
    BY <1>1, <1>4 DEF UsesSound
  <2> QED BY <2>1 DEF Usable
<1> QED BY <1>5, <1>6, <1>7 DEF WellStructured, f

\* What is finished has a sound control flow graph.
LEMMA FinishedIsStructured ==
  ASSUME GenInv, NEW n \in 1 .. Len(mod), Complete(mod[n]), Open => n # fun
  PROVE  WellStructured(mod, n)
<1>1. Untouched(n)
  BY DEF GenInv, ModuleInv
<1> QED BY <1>1, SoundIsStructured DEF Untouched

-----------------------------------------------------------------------------
(* Each operand is generated once, in order: what is on the stack are      *)
(* expressions of a set N that operands do not leave, and each waits for   *)
(* the operand that the frame in front of it is at.                        *)

Expressions(N) ==
  /\ \A n \in N : /\ Len(Node(n).kids) \in Nat
                  /\ \A k \in 1 .. Len(Node(n).kids) : Node(n).kids[k] \in N
  /\ Len(analyzed) \in Nat
  /\ at <= Len(analyzed) /\ program.units[Unit.unit].kind = "def"
       => program.units[Unit.unit].body \in N

Fits(N, frame) == frame.node \in N /\ Len(frame.values) \in 0 .. Len(Node(frame.node).kids)
Waits(frame) == frame.how # "visit" /\ Len(frame.values) < Len(Node(frame.node).kids)

Points == {"unit", "visit", "return", "run", "done", "error", "aborted", "crashed", "undefined"}

FramesFit(N) ==
  /\ \A i \in 1 .. Len(frames) : Fits(N, frames[i])
  /\ \A i \in 2 .. Len(frames) : Waits(frames[i])
  /\ gen = "return" /\ frames # <<>> => Waits(Top)

ShapeInv(N) ==
  /\ gen \in Points
  /\ at \in 1 .. Len(analyzed) + 1
  /\ Open => at <= Len(analyzed)
  /\ FramesFit(N)

LEMMA ShapeInit ==
  ASSUME GenInit, NEW N, Expressions(N) PROVE ShapeInv(N)
<1>1. gen = "unit" /\ at = 1 /\ frames = <<>> /\ Len(frames) = 0 /\ Len(analyzed) \in Nat
  BY DEF GenInit, Expressions
<1>2. FramesFit(N)
  BY <1>1 DEF FramesFit
<1> QED BY <1>1, <1>2 DEF ShapeInv, Points, Open

\* The active calls as sequences.
LEMMA StackFacts ==
  ASSUME GenInv, frames # <<>>
  PROVE  /\ SeqLike(frames) /\ Len(frames) \in Nat /\ Len(frames) >= 1 /\ Top = frames[1]
         /\ SeqLike(Tail(frames)) /\ Len(Tail(frames)) = Len(frames) - 1
         /\ \A i \in 1 .. Len(frames) - 1 : Tail(frames)[i] = frames[i + 1]
<1>1. SeqLike(frames)
  BY DEF GenInv, FramesInv
<1>2. /\ SeqLike(Tail(frames)) /\ Len(Tail(frames)) = Len(frames) - 1 /\ Len(frames) >= 1
      /\ \A i \in 1 .. Len(frames) - 1 : Tail(frames)[i] = frames[i + 1]
      /\ Head(frames) = frames[1]
  BY <1>1, Tails
<1>3. Len(frames) \in Nat
  BY <1>1 DEF SeqLike
<1> QED BY <1>1, <1>2, <1>3 DEF Top

LEMMA FitNext ==
  ASSUME NEW N, UNCHANGED inputs,
         \A i \in 1 .. Len(frames') : Fits(N, frames'[i]),
         \A i \in 2 .. Len(frames') : Waits(frames'[i]),
         gen' = "return" /\ frames' # <<>> => Waits(Head(frames'))
  PROVE  FramesFit(N)'
BY DEF FramesFit, Fits, Waits, Node, Top, inputs

\* No call begins, goes on or returns.
LEMMA FitUnchanged ==
  ASSUME NEW N, ShapeInv(N), frames' = frames, gen' # "return", UNCHANGED inputs
  PROVE  FramesFit(N)'
BY DEF ShapeInv, FramesFit, Fits, Waits, Node, inputs

\* A call goes on with its frame changed.
LEMMA FitBecome ==
  ASSUME NEW N, ShapeInv(N), GenInv, frames # <<>>, UNCHANGED inputs, gen' # "return",
         NEW fr, Become(fr), Fits(N, fr)
  PROVE  FramesFit(N)'
<1>1. /\ SeqLike(Tail(frames)) /\ Len(Tail(frames)) = Len(frames) - 1
      /\ \A i \in 1 .. Len(frames) - 1 : Tail(frames)[i] = frames[i + 1]
      /\ Len(frames) \in Nat
  BY StackFacts
<1>2. /\ frames' = <<fr>> \o Tail(frames)
  BY DEF Become
<1>3. /\ Len(frames') = Len(frames) /\ frames'[1] = fr
      /\ \A i \in 2 .. Len(frames) : frames'[i] = frames[i]
  <2>1. /\ Len(frames') = Len(Tail(frames)) + 1 /\ frames'[1] = fr
        /\ \A i \in 2 .. Len(Tail(frames)) + 1 : frames'[i] = Tail(frames)[i - 1]
    BY <1>1, <1>2, Prefixed
  <2>2. ASSUME NEW i \in 2 .. Len(frames) PROVE Tail(frames)[i - 1] = frames[i]
    <3>1. i - 1 \in 1 .. Len(frames) - 1 /\ (i - 1) + 1 = i
      BY <1>1
    <3> QED BY <1>1, <3>1
  <2> QED BY <1>1, <2>1, <2>2
<1>5. ASSUME NEW i \in 1 .. Len(frames) PROVE Fits(N, frames'[i])
  <2>1. i = 1 \/ i \in 2 .. Len(frames)
    BY <1>1
  <2>2. Fits(N, frames[i])
    BY DEF ShapeInv, FramesFit
  <2> QED BY <1>3, <2>1, <2>2
<1>6. \A i \in 2 .. Len(frames) : Waits(frames'[i])
  BY <1>3 DEF ShapeInv, FramesFit
<1> QED BY <1>1, <1>3, <1>5, <1>6, FitNext

\* It returns: the call behind it waits for its value.
LEMMA FitYield ==
  ASSUME NEW N, ShapeInv(N), GenInv, frames # <<>>, UNCHANGED inputs, NEW v, Yield(v)
  PROVE  FramesFit(N)'
<1>1. /\ Len(Tail(frames)) = Len(frames) - 1 /\ SeqLike(Tail(frames))
      /\ \A i \in 1 .. Len(frames) - 1 : Tail(frames)[i] = frames[i + 1]
      /\ Len(frames) \in Nat
  BY StackFacts
<1>2. frames' = Tail(frames)
  BY DEF Yield
<1>3. ASSUME NEW i \in 1 .. Len(frames') PROVE Fits(N, frames'[i]) /\ Waits(frames'[i])
  <2>1. /\ frames'[i] = frames[i + 1]
        /\ i + 1 \in 1 .. Len(frames) /\ i + 1 \in 2 .. Len(frames)
    BY <1>1, <1>2
  <2>2. Fits(N, frames[i + 1]) /\ Waits(frames[i + 1])
    BY <2>1 DEF ShapeInv, FramesFit
  <2> QED BY <2>1, <2>2
<1>4. ASSUME frames' # <<>> PROVE Waits(Head(frames'))
  <2>1. SeqLike(frames') /\ Len(frames') \in Nat
    BY <1>1, <1>2 DEF SeqLike
  <2>2. Head(frames') = frames'[1] /\ Len(frames') >= 1
    BY <1>4, <2>1, Tails
  <2>3. 1 \in 1 .. Len(frames')
    BY <2>1, <2>2
  <2> QED BY <1>3, <2>2, <2>3
<1>5. \A i \in 2 .. Len(frames') : i \in 1 .. Len(frames')
  OBVIOUS
<1> QED BY <1>3, <1>4, <1>5, FitNext

\* A new call begins in front of one that waits for it.
LEMMA FitKid ==
  ASSUME NEW N, ShapeInv(N), GenInv, Expressions(N), GenKid, UNCHANGED inputs
  PROVE  FramesFit(N)'
<1> DEFINE fr == Start(Kids[Len(Top.values) + 1])
<1>1. gen = "visit" /\ gen' = "visit" /\ frames # <<>> /\ Waits(Top)
  BY DEF GenKid, GenInv, PhaseInv, Waits, Kids
<1>2. SeqLike(frames) /\ Len(frames) \in Nat /\ Len(frames) >= 1 /\ Top = frames[1]
  BY <1>1, StackFacts
<1>3. frames' = <<fr>> \o frames
  BY DEF GenKid
<1>4. Fits(N, Top)
  <2>1. 1 \in 1 .. Len(frames)
    BY <1>2
  <2> QED BY <1>2, <2>1 DEF ShapeInv, FramesFit
<1>5. Fits(N, fr)
  <2>1. Top.node \in N /\ Len(Top.values) \in Nat /\ Len(Top.values) < Len(Kids) /\ Len(Kids) \in Nat
    BY <1>1, <1>4 DEF Fits, Waits, Kids, Expressions
  <2>2. Len(Top.values) + 1 \in 1 .. Len(Node(Top.node).kids)
    BY <2>1 DEF Kids
  <2>3. Kids[Len(Top.values) + 1] \in N
    BY <2>1, <2>2 DEF Expressions, Kids
  <2>4. fr.node = Kids[Len(Top.values) + 1] /\ fr.values = <<>>
    BY DEF Start
  <2>5. Len(Node(fr.node).kids) \in Nat
    BY <2>3, <2>4 DEF Expressions
  <2> QED BY <2>3, <2>4, <2>5 DEF Fits
<1> HIDE DEF fr
<1>6. /\ Len(frames') = Len(frames) + 1 /\ frames'[1] = fr
      /\ \A i \in 2 .. Len(frames) + 1 : frames'[i] = frames[i - 1]
  BY <1>2, <1>3, Prefixed
<1>7. ASSUME NEW i \in 1 .. Len(frames') PROVE Fits(N, frames'[i]) /\ (i \in 2 .. Len(frames') => Waits(frames'[i]))
  <2>1. CASE i = 1
    BY <1>5, <1>6, <2>1
  <2>2. CASE i = 2
    BY <1>1, <1>2, <1>4, <1>6, <2>2
  <2>3. CASE i # 1 /\ i # 2
    <3>1. i \in 2 .. Len(frames) + 1 /\ i - 1 \in 1 .. Len(frames) /\ i - 1 \in 2 .. Len(frames)
      BY <1>2, <1>6, <2>3
    <3>2. frames'[i] = frames[i - 1] /\ Fits(N, frames[i - 1]) /\ Waits(frames[i - 1])
      BY <1>6, <3>1 DEF ShapeInv, FramesFit
    <3> QED BY <3>2
  <2> QED BY <2>1, <2>2, <2>3
<1>8. \A i \in 2 .. Len(frames') : i \in 1 .. Len(frames')
  OBVIOUS
<1> QED BY <1>1, <1>7, <1>8, FitNext

\* A definition begins with a call for its body.
LEMMA FitEnter ==
  ASSUME NEW N, ShapeInv(N), Expressions(N), NEW functions, NEW f, EnterFunction(functions, f),
         AtUnit("def"), UNCHANGED inputs
  PROVE  FramesFit(N)'
<1> DEFINE body == program.units[Unit.unit].body
<1>1. frames' = <<Start(body)>> /\ gen' = "visit"
  BY DEF EnterFunction
<1>2. body \in N
  <2>1. at <= Len(analyzed) /\ program.units[Unit.unit].kind = "def"
    BY DEF AtUnit
  <2> QED BY <2>1 DEF Expressions
<1>3. Start(body).node = body /\ Start(body).values = <<>> /\ Len(Start(body).values) = 0
  BY DEF Start
<1>4. Len(Node(body).kids) \in Nat
  BY <1>2 DEF Expressions
<1>5. Fits(N, Start(body))
  BY <1>2, <1>3, <1>4 DEF Fits
<1>6. Len(frames') = 1 /\ frames'[1] = Start(body)
  BY <1>1
<1> HIDE DEF body
<1>7. \A i \in 1 .. 1 : i = 1
  OBVIOUS
<1>8. \A i \in 1 .. Len(frames') : Fits(N, frames'[i])
  BY <1>5, <1>6, <1>7
<1>9. \A i \in 2 .. Len(frames') : Waits(frames'[i])
  BY <1>6
<1>10. gen' # "return"
  BY <1>1
<1> QED BY <1>8, <1>9, <1>10, FitNext

\* A step keeps it, and goes to the next unit with no call left.
ShapeKept(N) == ShapeInv(N)' /\ (at' = at \/ frames' = <<>>)

LEMMA ShapeNext ==
  ASSUME NEW N, ShapeInv(N), Expressions(N), UNCHANGED inputs, FramesFit(N)', gen' \in Points,
         at' = at, Open' => at <= Len(analyzed)
  PROVE  ShapeKept(N)
BY DEF ShapeInv, ShapeKept, inputs

LEMMA ShapeHalt ==
  ASSUME NEW N, ShapeInv(N), Expressions(N), UNCHANGED inputs,
         gen' \in Points \ {"return"}, UNCHANGED <<at, frames>>
  PROVE  ShapeKept(N)
<1>1. FramesFit(N)'
  BY FitUnchanged
<1>2. Open' => at <= Len(analyzed)
  BY DEF Open, ShapeInv
<1> QED BY <1>1, <1>2, ShapeNext

LEMMA ShapeFailed ==
  ASSUME NEW N, ShapeInv(N), Expressions(N), UNCHANGED inputs, Failed
  PROVE  ShapeKept(N)
<1>1. PICK how \in {"error", "undefined"} : Halt(how)
  BY DEF Failed
<1> QED BY <1>1, ShapeHalt DEF Halt, Points

LEMMA ShapeYield ==
  ASSUME NEW N, ShapeInv(N), Expressions(N), UNCHANGED inputs, GenInv, frames # <<>>,
         NEW v, Yield(v), at' = at
  PROVE  ShapeKept(N)
<1>1. FramesFit(N)'
  BY FitYield
<1>2. gen' \in Points /\ at <= Len(analyzed)
  BY DEF Yield, Points, ShapeInv, Open
<1> QED BY <1>1, <1>2, ShapeNext

LEMMA ShapeBecome ==
  ASSUME NEW N, ShapeInv(N), Expressions(N), UNCHANGED inputs, GenInv, frames # <<>>,
         NEW fr, Become(fr), Fits(N, fr), gen' = "visit", at' = at
  PROVE  ShapeKept(N)
<1>1. FramesFit(N)'
  BY FitBecome
<1>2. gen' \in Points /\ at <= Len(analyzed)
  BY DEF Points, ShapeInv, Open
<1> QED BY <1>1, <1>2, ShapeNext

\* The frame in front, and what fits as well as it does.
LEMMA TopFits ==
  ASSUME NEW N, ShapeInv(N), Expressions(N), GenInv, frames # <<>>
  PROVE  /\ Fits(N, Top) /\ Len(Kids) \in Nat /\ SeqLike(Top.values)
         /\ Top = [node |-> Top.node, how |-> Top.how, emits |-> Top.emits, type |-> Top.type,
                   callee |-> Top.callee, values |-> Top.values, blocks |-> Top.blocks]
<1>1. 1 \in 1 .. Len(frames) /\ Top = frames[1]
  <2>1. Len(frames) \in Nat /\ Len(frames) >= 1 /\ Top = frames[1]
    BY StackFacts
  <2> QED BY <2>1
<1>2. Fits(N, Top)
  BY <1>1 DEF ShapeInv, FramesFit
<1>3. IsFrame(Top)
  BY <1>1 DEF GenInv, FramesInv, IsActive
<1>4. Len(Kids) \in Nat
  BY <1>2 DEF Fits, Expressions, Kids
<1> QED BY <1>2, <1>3, <1>4 DEF IsFrame

LEMMA SameFits ==
  ASSUME NEW N, ShapeInv(N), Expressions(N), GenInv, frames # <<>>,
         NEW fr, fr.node = Top.node, fr.values = Top.values
  PROVE  Fits(N, fr)
<1>1. Fits(N, Top)
  BY TopFits
<1> QED BY <1>1 DEF Fits

\* The value that was waited for is collected.
LEMMA CollectedFits ==
  ASSUME NEW N, ShapeInv(N), Expressions(N), GenInv, frames # <<>>, gen = "return",
         NEW fr, fr.node = Top.node, fr.values = Collected
  PROVE  Fits(N, fr)
<1>1. Fits(N, Top) /\ Len(Kids) \in Nat /\ SeqLike(Top.values)
  BY TopFits
<1>2. Waits(Top)
  BY DEF ShapeInv, FramesFit
<1>3. Len(Collected) = Len(Top.values) + 1 /\ Len(Top.values) \in Nat
  <2> DEFINE s == Top.values
  <2>1. SeqLike(s)
    BY <1>1
  <2> HIDE DEF s
  <2>2. Len(Append(s, value)) = Len(s) + 1 /\ Len(s) \in Nat
    BY <2>1, Appended DEF SeqLike
  <2> QED BY <2>2 DEF s, Collected
<1> QED BY <1>1, <1>2, <1>3 DEF Fits, Waits, Kids

LEMMA ShapeUnits ==
  ASSUME NEW N, ShapeInv(N), Expressions(N), UNCHANGED inputs, GenInv, GenExtern \/ GenFunction
  PROVE  ShapeKept(N)
<1>1. gen = "unit" /\ at <= Len(analyzed) /\ Len(analyzed) \in Nat /\ at \in Nat
  BY DEF GenExtern, GenFunction, AtUnit, Expressions, ShapeInv
<1>2. CASE Halt("aborted") \/ Halt("crashed")
  BY <1>2, ShapeHalt DEF Halt, Points
<1>3. CASE UNCHANGED <<gen, frames>> /\ at' = at + 1
  <2>1. FramesFit(N)'
    BY <1>1, <1>3, FitUnchanged
  <2>2. ~Open'
    BY <1>1, <1>3 DEF Open, GenInv, PhaseInv
  <2>3. frames' = <<>>
    BY <1>1, <1>3 DEF GenInv, PhaseInv
  <2> QED BY <1>1, <1>3, <2>1, <2>2, <2>3 DEF ShapeInv, ShapeKept, inputs
<1>4. CASE AtUnit("def") /\ UNCHANGED at /\ \E functions, f : EnterFunction(functions, f)
  <2>1. FramesFit(N)'
    BY <1>4, FitEnter
  <2>2. gen' \in Points
    BY <1>4 DEF EnterFunction, Points
  <2> QED BY <1>1, <1>4, <2>1, <2>2, ShapeNext
<1>5. CASE GenExtern
  BY <1>2, <1>3, <1>5 DEF GenExtern, AssertionFails
<1>6. CASE GenFunction
  BY <1>2, <1>4, <1>6 DEF GenFunction
<1> QED BY <1>5, <1>6

LEMMA ShapeFinish ==
  ASSUME NEW N, ShapeInv(N), Expressions(N), UNCHANGED inputs, GenInv, FinishFunction
  PROVE  ShapeKept(N)
<1>1. /\ gen = "return" /\ frames = <<>> /\ frames' = frames
      /\ (gen' = "undefined" /\ at' = at) \/ (gen' = "unit" /\ at' = at + 1)
  BY DEF FinishFunction
<1>2. FramesFit(N)'
  BY <1>1, FitUnchanged
<1>3. at \in Nat /\ at >= 1 /\ at <= Len(analyzed) /\ Len(analyzed) \in Nat
  BY <1>1 DEF ShapeInv, Open, Expressions
<1>4. ~Open' /\ gen' \in Points
  BY <1>1 DEF Open, Points
<1>5. at' \in 1 .. Len(analyzed) + 1
  BY <1>1, <1>3
<1> QED BY <1>1, <1>2, <1>4, <1>5 DEF ShapeInv, ShapeKept, inputs

LEMMA ShapeLeaf ==
  ASSUME NEW N, ShapeInv(N), Expressions(N), UNCHANGED inputs, GenInv,
         GenLiteral \/ GenFunctionName \/ GenVar
  PROVE  ShapeKept(N)
<1>1. frames # <<>>
  BY VisitingFacts DEF GenLiteral, GenFunctionName, GenVar
<1>2. CASE Failed
  BY <1>2, ShapeFailed
<1>3. CASE at' = at /\ \E v : Yield(v)
  BY <1>1, <1>3, ShapeYield
<1>4. CASE GenLiteral
  BY <1>3, <1>4 DEF GenLiteral
<1>5. CASE GenFunctionName
  BY <1>3, <1>5 DEF GenFunctionName
<1>6. CASE GenVar
  BY <1>2, <1>3, <1>6 DEF GenVar
<1> QED BY <1>4, <1>5, <1>6

LEMMA ShapeOperands ==
  ASSUME NEW N, ShapeInv(N), Expressions(N), UNCHANGED inputs, GenInv, GenKid \/ GenValue
  PROVE  ShapeKept(N)
<1>1. CASE GenKid
  <2>1. FramesFit(N)'
    BY <1>1, FitKid
  <2>2. gen = "visit" /\ gen' = gen /\ at' = at
    BY <1>1 DEF GenKid
  <2>3. Open /\ gen' \in Points
    BY <2>2 DEF GenInv, PhaseInv, Open, Points
  <2> QED BY <2>1, <2>2, <2>3, ShapeNext DEF ShapeInv
<1>2. CASE GenValue
  <2> DEFINE fr == [Top EXCEPT !.values = Append(@, value)]
  <2>1. frames # <<>> /\ gen = "return" /\ gen' = "visit" /\ at' = at
    BY <1>2 DEF GenValue, Got, Collect
  <2>2. Become(fr)
    BY <1>2 DEF GenValue, Collect
  <2>3. fr.node = Top.node /\ fr.values = Collected
    BY <2>1, TopFits DEF Collected
  <2> HIDE DEF fr
  <2>4. Fits(N, fr)
    BY <2>1, <2>3, CollectedFits
  <2> QED BY <2>1, <2>2, <2>4, ShapeBecome
<1> QED BY <1>1, <1>2

LEMMA ShapeBegin ==
  ASSUME NEW N, ShapeInv(N), Expressions(N), UNCHANGED inputs, GenInv, gen = "visit",
         gen' = gen, at' = at, NEW fr, Become(fr), fr.node = Top.node, fr.values = Top.values
  PROVE  ShapeKept(N)
<1>1. frames # <<>>
  BY DEF GenInv, PhaseInv
<1>2. Fits(N, fr)
  BY <1>1, SameFits
<1> QED BY <1>1, <1>2, ShapeBecome

LEMMA ShapeBuiltin ==
  ASSUME NEW N, ShapeInv(N), Expressions(N), UNCHANGED inputs, GenInv, gen = "visit",
         NEW entry, StartBuiltin(entry)
  PROVE  ShapeKept(N)
<1>1. CASE Failed
  BY <1>1, ShapeFailed
<1>2. CASE BuildersOf(entry) # {}
  <2>1. PICK how, emits : /\ Become([Top EXCEPT !.how = how, !.emits = emits])
                          /\ UNCHANGED <<gen, at>>
    BY <1>2 DEF StartBuiltin
  <2> DEFINE fr == [Top EXCEPT !.how = how, !.emits = emits]
  <2>2. frames # <<>>
    BY DEF GenInv, PhaseInv
  <2>3. fr.node = Top.node /\ fr.values = Top.values
    BY <2>2, TopFits
  <2>4. Become(fr)
    BY <2>1
  <2> HIDE DEF fr
  <2> QED BY <2>1, <2>3, <2>4, ShapeBegin
<1> QED BY <1>1, <1>2 DEF StartBuiltin

LEMMA ShapeStartCall ==
  ASSUME NEW N, ShapeInv(N), Expressions(N), UNCHANGED inputs, GenInv, gen = "visit",
         NEW callee, NEW type, StartCall(callee, type)
  PROVE  ShapeKept(N)
<1> DEFINE fr == [Top EXCEPT !.how = "call", !.callee = callee, !.type = type]
<1>1. frames # <<>>
  BY DEF GenInv, PhaseInv
<1>2. fr.node = Top.node /\ fr.values = Top.values
  BY <1>1, TopFits
<1>3. Become(fr) /\ gen' = gen /\ at' = at
  BY DEF StartCall
<1> HIDE DEF fr
<1> QED BY <1>2, <1>3, ShapeBegin

LEMMA ShapeCallee ==
  ASSUME NEW N, ShapeInv(N), Expressions(N), UNCHANGED inputs, GenInv, gen = "visit",
         NEW name, FindCallee(name)
  PROVE  ShapeKept(N)
<1>1. Failed \/ Halt("undefined") \/ \E callee, type : StartCall(callee, type)
  BY DEF FindCallee
<1>2. CASE Halt("undefined")
  BY <1>2, ShapeHalt DEF Halt, Points
<1> QED BY <1>1, <1>2, ShapeFailed, ShapeStartCall

LEMMA ShapeOperators ==
  ASSUME NEW N, ShapeInv(N), Expressions(N), UNCHANGED inputs, GenInv,
         StartList \/ GenBinary \/ GenCall
  PROVE  ShapeKept(N)
<1>1. gen = "visit" /\ frames # <<>>
  BY VisitingFacts DEF StartList, GenBinary, GenCall
<1>2. CASE StartList
  <2> DEFINE fr == [Top EXCEPT !.how = "list"]
  <2>1. Become(fr) /\ gen' = gen /\ at' = at
    BY <1>2 DEF StartList
  <2>2. fr.node = Top.node /\ fr.values = Top.values
    BY <1>1, TopFits
  <2> HIDE DEF fr
  <2> QED BY <1>1, <2>1, <2>2, ShapeBegin
<1>3. CASE \E entry : StartBuiltin(entry)
  BY <1>1, <1>3, ShapeBuiltin
<1>4. CASE Halt("crashed") \/ Halt("aborted")
  BY <1>4, ShapeHalt DEF Halt, Points
<1>5. CASE GenBinary
  <2>1. PICK outcome \in getBuiltin(Node(Top.node).name, OperandTypes) :
          CASE outcome.kind = "found"   -> StartBuiltin(outcome.entry)
            [] outcome.kind = "missing" -> AssertionFails(Failed)
            [] outcome.kind = "crash"   -> Halt("crashed")
    BY <1>5 DEF GenBinary
  <2>2. outcome.kind \in {"found", "missing", "crash"}
    BY <2>1, LookupEnds
  <2>3. StartBuiltin(outcome.entry) \/ Failed \/ Halt("aborted") \/ Halt("crashed")
    BY <2>1, <2>2 DEF AssertionFails
  <2> QED BY <1>3, <1>4, <2>3, ShapeFailed
<1>6. CASE GenCall
  <2>1. \/ \E entry : StartBuiltin(entry)
        \/ FindCallee(Node(Top.node).name)
        \/ Halt("crashed")
    BY <1>6 DEF GenCall
  <2> QED BY <1>1, <1>3, <1>4, <2>1, ShapeCallee
<1> QED BY <1>2, <1>5, <1>6

LEMMA ShapeProduce ==
  ASSUME NEW N, ShapeInv(N), Expressions(N), UNCHANGED inputs, GenInv,
         FinishList \/ FinishCall \/ FinishOperator
  PROVE  ShapeKept(N)
<1>1. frames # <<>>
  BY DEF FinishList, FinishCall, FinishOperator, Building, GenInv, PhaseInv
<1>2. CASE Failed
  BY <1>2, ShapeFailed
<1>3. CASE at' = at /\ \E v : Yield(v)
  BY <1>1, <1>3, ShapeYield
<1>4. CASE \E how \in {"aborted", "crashed", "undefined"} : Halt(how)
  BY <1>4, ShapeHalt DEF Halt, Points
<1>5. CASE FinishList
  BY <1>2, <1>3, <1>4, <1>5 DEF FinishList, AssertionFails
<1>6. CASE FinishCall
  BY <1>3, <1>6 DEF FinishCall, Produce
<1>7. CASE FinishOperator
  BY <1>3, <1>4, <1>7 DEF FinishOperator, Produce
<1> QED BY <1>5, <1>6, <1>7

LEMMA ShapeIf ==
  ASSUME NEW N, ShapeInv(N), Expressions(N), UNCHANGED inputs, GenInv,
         IfCondition \/ IfThen \/ IfElse \/ IfTooShort
  PROVE  ShapeKept(N)
<1>1. CASE IfTooShort
  BY <1>1, ShapeHalt DEF IfTooShort, Halt, Points
<1>2. CASE IfElse
  <2>1. frames # <<>> /\ at' = at /\ \E v : Yield(v)
    BY <1>2 DEF IfElse, Got
  <2> QED BY <2>1, ShapeYield
<1>3. CASE IfCondition \/ IfThen
  <2>1. frames # <<>> /\ gen = "return" /\ gen' = "visit" /\ at' = at
    BY <1>3 DEF IfCondition, IfThen, Got
  <2>2. PICK fr : Become(fr) /\ fr.node = Top.node /\ fr.values = Collected
    <3>1. Top = [node |-> Top.node, how |-> Top.how, emits |-> Top.emits, type |-> Top.type,
                 callee |-> Top.callee, values |-> Top.values, blocks |-> Top.blocks]
      BY <2>1, TopFits
    <3>2. CASE IfCondition
      <4>1. PICK blocks : Become([Top EXCEPT !.values = Collected, !.blocks = blocks])
        BY <3>2 DEF IfCondition
      <4>2. /\ [Top EXCEPT !.values = Collected, !.blocks = blocks].node = Top.node
            /\ [Top EXCEPT !.values = Collected, !.blocks = blocks].values = Collected
        BY <3>1
      <4> QED BY <4>1, <4>2
    <3>3. CASE IfThen
      <4> DEFINE fr == [Top EXCEPT !.values = Collected, !.blocks[1] = point]
      <4>1. Become(fr)
        BY <3>3 DEF IfThen
      <4>2. fr.node = Top.node /\ fr.values = Collected
        BY <3>1
      <4> HIDE DEF fr
      <4> QED BY <4>1, <4>2
    <3> QED BY <1>3, <3>2, <3>3
  <2>3. Fits(N, fr)
    BY <2>1, <2>2, CollectedFits
  <2> QED BY <2>1, <2>2, <2>3, ShapeBecome
<1> QED BY <1>1, <1>2, <1>3

LEMMA ShapeEnd ==
  ASSUME NEW N, ShapeInv(N), Expressions(N), UNCHANGED inputs, GenInv,
         NothingToRun \/ SymbolNotFound \/ RunLast
  PROVE  ShapeKept(N)
<1>1. gen' \in {"done", "error", "crashed", "run", "undefined"}
  <2>1. CASE NothingToRun \/ SymbolNotFound
    BY <2>1 DEF NothingToRun, SymbolNotFound
  <2>2. CASE RunLast
    BY <2>2 DEF RunLast
  <2> QED BY <2>1, <2>2
<1>2. UNCHANGED <<at, frames>>
  BY DEF NothingToRun, SymbolNotFound, RunLast
<1> QED BY <1>1, <1>2, ShapeHalt DEF Points

LEMMA ShapeStep ==
  ASSUME NEW N, ShapeInv(N), Expressions(N), GenInv, GenNext
  PROVE  ShapeKept(N)
<1>1. UNCHANGED inputs
  BY DEF GenNext
<1>2. CASE GenExtern \/ GenFunction \/ FinishFunction
  BY <1>1, <1>2, ShapeUnits, ShapeFinish
<1>3. CASE GenLiteral \/ GenFunctionName \/ GenVar
  BY <1>1, <1>3, ShapeLeaf
<1>4. CASE GenKid \/ GenValue
  BY <1>1, <1>4, ShapeOperands
<1>5. CASE StartList \/ GenBinary \/ GenCall
  BY <1>1, <1>5, ShapeOperators
<1>6. CASE FinishList \/ FinishCall \/ FinishOperator
  BY <1>1, <1>6, ShapeProduce
<1>7. CASE IfCondition \/ IfThen \/ IfElse \/ IfTooShort
  BY <1>1, <1>7, ShapeIf
<1>8. CASE NothingToRun \/ SymbolNotFound \/ RunLast
  BY <1>1, <1>8, ShapeEnd
<1> QED BY <1>2, <1>3, <1>4, <1>5, <1>6, <1>7, <1>8 DEF GenNext

LEMMA ShapeStutter ==
  ASSUME NEW N, ShapeInv(N), UNCHANGED genvars, UNCHANGED inputs
  PROVE  ShapeInv(N)'
BY DEF ShapeInv, FramesFit, Fits, Waits, Node, Top, Open, inputs, genvars, translation
=============================================================================
