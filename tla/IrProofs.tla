------------------------------ MODULE IrProofs ------------------------------
(***************************************************************************)
(* Control flow graphs under construction: what can be reached, which      *)
(* values can be used where, and what the edits of the code generator do   *)
(* to both.  CodegenProofs puts them together.                             *)
(***************************************************************************)
EXTENDS Ir, FiniteSetTheorems, NaturalsInduction, WellFoundedInduction, TLAPS

-----------------------------------------------------------------------------
(* What can be reached.                                                    *)

\* A set of natural numbers has a least element.
LEMMA LeastNumber ==
  ASSUME NEW X, X \subseteq Nat, X # {}
  PROVE  \E x \in X : \A y \in X : x <= y
<1> DEFINE less == {x \in Nat \X Nat : x[1] < x[2]}
<1>1. IsWellFoundedOn(less, Nat)
  BY NatLessThanWellFounded DEF OpToRel
<1>2. PICK x \in X : \A y \in X : ~(<<y, x>> \in less)
  BY <1>1, WFMin
<1>3. \A y \in X : y \in Nat /\ ~(y < x) /\ x \in Nat
  BY <1>2
<1> QED BY <1>2, <1>3

\* One round of the search: what is known, and what can be entered from it.
Round(f, avoided, B) == (UNION {{b} \cup Successors(f, b) : b \in B}) \ avoided
Rounds(f, avoided, n, V) ==
  V = [k \in 0 .. n |-> IF k = 0 THEN {f.entry} \ avoided ELSE Round(f, avoided, V[k - 1])]

\* The search of ReachableAvoiding can be carried out.
LEMMA RoundsExist ==
  ASSUME NEW f, NEW A, NEW n \in Nat
  PROVE  \E V : Rounds(f, A, n, V)
<1> DEFINE Bad == {k \in Nat : ~\E V : Rounds(f, A, k, V)}
<1> SUFFICES ASSUME Bad # {} PROVE FALSE
  OBVIOUS
<1>1. PICK m \in Bad : \A k \in Bad : m <= k
  BY LeastNumber
<1>2. m # 0
  <2> DEFINE V == [k \in 0 .. 0 |-> {f.entry} \ A]
  <2>1. Rounds(f, A, 0, V)
    BY DEF Rounds
  <2> QED BY <1>1, <2>1
<1>3. m - 1 \in Nat /\ m - 1 \notin Bad
  BY <1>1, <1>2
<1>4. PICK V : Rounds(f, A, m - 1, V)
  BY <1>3
<1> DEFINE W == [k \in 0 .. m |-> IF k < m THEN V[k] ELSE Round(f, A, V[m - 1])]
<1>5. ASSUME NEW k \in 0 .. m
      PROVE  W[k] = IF k = 0 THEN {f.entry} \ A ELSE Round(f, A, W[k - 1])
  <2>1. CASE k = m
    BY <2>1, <1>1, <1>2
  <2>2. CASE k # m
    <3>1. k \in 0 .. m - 1 /\ W[k] = V[k] /\ (k # 0 => W[k - 1] = V[k - 1])
      BY <2>2, <1>1, <1>2
    <3>2. V[k] = IF k = 0 THEN {f.entry} \ A ELSE Round(f, A, V[k - 1])
      BY <3>1, <1>4 DEF Rounds
    <3> QED BY <3>1, <3>2
  <2> QED BY <2>1, <2>2
<1>6. Rounds(f, A, m, W)
  BY <1>5 DEF Rounds
<1> QED BY <1>1, <1>6

LEMMA ReachableRounds ==
  ASSUME NEW f, NEW A, Len(f.blocks) \in Nat
  PROVE  \E V : /\ Rounds(f, A, Len(f.blocks), V)
                /\ ReachableAvoiding(f, A) = V[Len(f.blocks)]
<1> DEFINE n == Len(f.blocks)
<1>1. \E V : Rounds(f, A, n, V)
  BY RoundsExist
<1>2. Rounds(f, A, n, CHOOSE V : Rounds(f, A, n, V))
  BY <1>1
<1>3. ReachableAvoiding(f, A) = (CHOOSE V : Rounds(f, A, n, V))[n]
  BY DEF ReachableAvoiding, Rounds, Round
<1> QED BY <1>2, <1>3

Blocks(f) == 1 .. Len(f.blocks)
\* Control goes from one block of the function to another.
Graph(f) ==
  /\ Len(f.blocks) \in Nat
  /\ f.entry \in Blocks(f)
  /\ \A b \in Blocks(f) : Successors(f, b) \subseteq Blocks(f)

\* What can be reached is in every set that control does not leave.
LEMMA ReachableIsLeast ==
  ASSUME NEW f, NEW A, NEW S, Len(f.blocks) \in Nat,
         f.entry \in S \cup A,
         \A b \in S : Successors(f, b) \subseteq S \cup A
  PROVE  ReachableAvoiding(f, A) \subseteq S
<1> DEFINE n == Len(f.blocks)
<1>1. PICK V : Rounds(f, A, n, V) /\ ReachableAvoiding(f, A) = V[n]
  BY ReachableRounds
<1>2. \A k \in 0 .. n : V[k] = IF k = 0 THEN {f.entry} \ A ELSE Round(f, A, V[k - 1])
  BY <1>1 DEF Rounds
<1> DEFINE Bad == {k \in Nat : k \in 0 .. n /\ ~(V[k] \subseteq S)}
<1>3. Bad = {}
  <2> SUFFICES ASSUME Bad # {} PROVE FALSE
    OBVIOUS
  <2>1. PICK m \in Bad : \A k \in Bad : m <= k
    BY LeastNumber
  <2>2. m # 0
    BY <1>2, <2>1
  <2>3. m - 1 \in 0 .. n /\ V[m - 1] \subseteq S
    BY <2>1, <2>2
  <2>4. V[m] = Round(f, A, V[m - 1])
    BY <1>2, <2>1, <2>2
  <2>5. V[m] \subseteq S
    BY <2>3, <2>4 DEF Round
  <2> QED BY <2>1, <2>5
<1>4. n \in 0 .. n
  OBVIOUS
<1> QED BY <1>1, <1>3, <1>4

\* Control does not leave what can be reached.
LEMMA ReachableIsClosed ==
  ASSUME NEW f, NEW A, Graph(f)
  PROVE  /\ ReachableAvoiding(f, A) \subseteq Blocks(f) \ A
         /\ f.entry \in ReachableAvoiding(f, A) \cup A
         /\ \A b \in ReachableAvoiding(f, A) :
              Successors(f, b) \subseteq ReachableAvoiding(f, A) \cup A
<1> DEFINE n == Len(f.blocks)
<1>n. n \in Nat
  BY DEF Graph
<1>1. PICK V : Rounds(f, A, n, V) /\ ReachableAvoiding(f, A) = V[n]
  BY <1>n, ReachableRounds
<1>2. /\ V[0] = {f.entry} \ A
      /\ \A k \in 0 .. n : k # 0 => V[k] = Round(f, A, V[k - 1])
  <2>1. V = [k \in 0 .. n |-> IF k = 0 THEN {f.entry} \ A ELSE Round(f, A, V[k - 1])]
    BY <1>1 DEF Rounds
  <2> HIDE DEF n
  <2>2. 0 \in 0 .. n
    BY <1>n
  <2>3. \A k \in 0 .. n : V[k] = IF k = 0 THEN {f.entry} \ A ELSE Round(f, A, V[k - 1])
    BY <2>1
  <2> QED BY <2>2, <2>3
<1> HIDE DEF n
\* Rounds stay in the function, and lose nothing.
<1> DEFINE Out == {k \in Nat : k \in 0 .. n /\ ~(V[k] \subseteq Blocks(f) \ A)}
<1>3. Out = {}
  <2> SUFFICES ASSUME Out # {} PROVE FALSE
    OBVIOUS
  <2>1. PICK m \in Out : \A k \in Out : m <= k
    BY LeastNumber
  <2>2. m # 0
    BY <1>2, <2>1 DEF Graph
  <2>3. m - 1 \in 0 .. n /\ V[m - 1] \subseteq Blocks(f) \ A
    BY <2>1, <2>2, <1>n
  <2>4. V[m] = Round(f, A, V[m - 1])
    BY <1>2, <2>1, <2>2
  <2>5. V[m] \subseteq Blocks(f) \ A
    BY <2>3, <2>4 DEF Round, Graph
  <2> QED BY <2>1, <2>5
<1>4. \A k \in 0 .. n : V[k] \subseteq Blocks(f) \ A
  BY <1>3
<1>5. \A k \in 0 .. n : V[k] \subseteq Round(f, A, V[k])
  BY <1>4 DEF Round
<1> SUFFICES ASSUME Round(f, A, V[n]) # V[n] PROVE FALSE
  <2>1. Round(f, A, V[n]) = V[n] =>
          \A b \in V[n] : Successors(f, b) \subseteq V[n] \cup A
    BY DEF Round
  <2> DEFINE Lost == {k \in Nat : k \in 0 .. n /\ f.entry \notin V[k] \cup A}
  <2>2. Lost = {}
    <3> SUFFICES ASSUME Lost # {} PROVE FALSE
      OBVIOUS
    <3>1. PICK m \in Lost : \A k \in Lost : m <= k
      BY LeastNumber
    <3>2. m # 0
      BY <1>2, <3>1
    <3>3. m - 1 \in 0 .. n /\ f.entry \in V[m - 1] \cup A
      BY <3>1, <3>2, <1>n
    <3>4. V[m] = Round(f, A, V[m - 1]) /\ V[m - 1] \subseteq Round(f, A, V[m - 1])
      BY <1>2, <1>5, <3>1, <3>2, <3>3
    <3> QED BY <3>1, <3>3, <3>4
  <2>3. n \in 0 .. n
    BY <1>n
  <2> QED BY <1>1, <1>4, <2>1, <2>2, <2>3
\* As long as the last round finds something new, each one does.
<1> DEFINE Still == {d \in Nat : d \in 0 .. n /\ Round(f, A, V[n - d]) = V[n - d]}
<1>6. Still = {}
  <2> SUFFICES ASSUME Still # {} PROVE FALSE
    OBVIOUS
  <2>1. PICK d \in Still : \A e \in Still : d <= e
    BY LeastNumber
  <2>2. d # 0
    BY <2>1, <1>n
  <2>3. /\ d - 1 \in 0 .. n /\ n - (d - 1) \in 0 .. n /\ n - (d - 1) # 0
        /\ (n - (d - 1)) - 1 = n - d
    BY <2>1, <2>2, <1>n
  <2>4. V[n - (d - 1)] = V[n - d]
    BY <1>2, <2>1, <2>3
  <2>5. d - 1 \in Still
    BY <2>1, <2>3, <2>4
  <2> QED BY <2>1, <2>3, <2>5
<1>7. \A k \in 0 .. n : Round(f, A, V[k]) # V[k]
  <2> TAKE k \in 0 .. n
  <2>1. n - k \in 0 .. n /\ n - (n - k) = k
    BY <1>n
  <2> QED BY <1>6, <2>1
\* So each round has more blocks than the one before it.
<1>8. \A k \in 0 .. n : IsFiniteSet(V[k])
  <2>1. IsFiniteSet(Blocks(f))
    BY FS_Interval DEF Blocks, Graph
  <2> QED BY <1>4, <2>1, FS_Subset
<1> DEFINE Few == {k \in Nat : k \in 0 .. n /\ ~(Cardinality(V[k]) >= k + 1)}
<1>9. Few = {}
  <2> SUFFICES ASSUME Few # {} PROVE FALSE
    OBVIOUS
  <2>1. PICK m \in Few : \A k \in Few : m <= k
    BY LeastNumber
  <2>2. m # 0
    <3>1. ~(f.entry \in A)
      <4>1. 0 \in 0 .. n
        BY <1>n
      <4>2. Round(f, A, V[0]) # V[0]
        BY <1>7, <4>1
      <4> QED BY <4>2, <1>2 DEF Round
    <3>2. V[0] = {f.entry}
      BY <3>1, <1>2
    <3>3. Cardinality(V[0]) = 1
      BY <3>2, FS_Singleton
    <3> QED BY <2>1, <3>3
  <2>3. m - 1 \in 0 .. n /\ m \in 0 .. n /\ Cardinality(V[m - 1]) >= m
    BY <2>1, <2>2, <1>n
  <2>4. V[m - 1] \subseteq V[m] /\ V[m - 1] # V[m]
    BY <2>2, <2>3, <1>2, <1>5, <1>7
  <2>5. Cardinality(V[m - 1]) < Cardinality(V[m])
    <3>1. IsFiniteSet(V[m]) /\ V[m - 1] \in SUBSET V[m]
      BY <1>8, <2>3, <2>4
    <3>2. /\ Cardinality(V[m - 1]) <= Cardinality(V[m])
          /\ Cardinality(V[m]) = Cardinality(V[m - 1]) => V[m] = V[m - 1]
      BY <3>1, FS_Subset
    <3>3. Cardinality(V[m - 1]) \in Nat /\ Cardinality(V[m]) \in Nat
      BY <1>8, <2>3, FS_CardinalityType
    <3> QED BY <2>4, <3>2, <3>3
  <2>6. Cardinality(V[m - 1]) \in Nat /\ Cardinality(V[m]) \in Nat
    BY <1>8, <2>3, FS_CardinalityType
  <2> QED BY <2>1, <2>3, <2>5, <2>6
<1>10. n \in 0 .. n /\ Cardinality(V[n]) >= n + 1
  BY <1>9, <1>n
<1>11. IsFiniteSet(Blocks(f)) /\ Cardinality(Blocks(f)) = n
  BY <1>n, FS_Interval DEF Blocks, n
<1>12. Cardinality(V[n]) <= n /\ Cardinality(V[n]) \in Nat
  BY <1>4, <1>8, <1>10, <1>11, FS_Subset, FS_CardinalityType
<1> QED BY <1>10, <1>12, <1>n

-----------------------------------------------------------------------------
SeqLike(s) == Len(s) \in Nat /\ s = [i \in 1 .. Len(s) |-> s[i]]

IsFunction(f) ==
  /\ f = [name |-> f.name, type |-> f.type, params |-> f.params, blocks |-> f.blocks,
          entry |-> f.entry, listed |-> f.listed]
  /\ SeqLike(f.blocks)
  /\ \A b \in Blocks(f) : SeqLike(f.blocks[b])

\* The k-th operand of the i-th instruction of block b can be used there.
Usable(f, n, code, k, b, i) ==
  LET v == code.args[k]
      phi == code.op = "phi"
      place == IF phi THEN code.to[k] ELSE b
  IN  /\ v.kind \in {"argument", "result"} => v.of = n
      /\ v.kind = "result" =>
           /\ v.block \in Blocks(f) /\ v.at \in Nat
           /\ phi => place \in Blocks(f) /\ f.blocks[place] # <<>>
           /\ ComputedBefore(f, v, place, IF phi THEN Len(f.blocks[place]) ELSE i)

UsesSound(f, n) ==
  \A b \in Blocks(f) : \A i \in 1 .. Len(f.blocks[b]) :
    \A k \in 1 .. Len(f.blocks[b][i].args) : Usable(f, n, f.blocks[b][i], k, b, i)

\* A terminator is the last instruction of a block, and a phi the first.
InOrder(f) ==
  \A b \in Blocks(f) : \A i \in 1 .. Len(f.blocks[b]) :
    /\ f.blocks[b][i].op \in Terminators => i = Len(f.blocks[b])
    /\ f.blocks[b][i].op = "phi" => i = 1

PhiMatches(f, b) ==
  LET to == f.blocks[b][1].to
  IN  f.blocks[b] # <<>> /\ f.blocks[b][1].op = "phi" =>
        /\ Elements(to) = Predecessors(f, b)
        /\ \A j, k \in 1 .. Len(to) : to[j] = to[k] => j = k

Sound(f, n) ==
  /\ IsFunction(f)
  /\ f.listed \subseteq Blocks(f)
  /\ f.blocks = <<>> => f.entry = 0
  /\ f.blocks # <<>> => f.entry \in f.listed /\ Graph(f)
  /\ UsesSound(f, n)
  /\ InOrder(f)
  /\ \A b \in f.listed : PhiMatches(f, b)

\* Control stays in a function that is not being generated, and reaches all
\* of it once the passes have run.
Closed(f) == \A b \in f.listed : Terminated(f, b) /\ Successors(f, b) \subseteq f.listed
Reached(f) == f.listed \subseteq Reachable(f)

\* The blocks of an if that have been made but are not in the function yet.
Pending(frame) ==
  IF frame.how # "if" THEN {}
  ELSE IF Len(frame.values) = 1 THEN {frame.blocks[2], frame.blocks[3]}
  ELSE IF Len(frame.values) = 2 THEN {frame.blocks[3]}
  ELSE {}
PendingTo(fs, i) == UNION {Pending(fs[j]) : j \in 1 .. i}

BlocksInto(f, b) == {a \in Blocks(f) : b \in Successors(f, a)}

IfSound(f, s, p, frame) ==
  /\ Len(frame.values) \in 0 .. 2
  /\ \A b \in Pending(frame) : b \in Blocks(f) \ f.listed /\ b > s /\ f.blocks[b] = <<>>
  /\ Len(frame.values) = 1 =>
       /\ frame.blocks[2] # frame.blocks[3]
       /\ BlocksInto(f, frame.blocks[3]) = {}
       /\ f.entry = s => frame.blocks[2] \in Reachable(f)
  /\ Len(frame.values) = 2 =>
       /\ frame.blocks[1] \in f.listed \ {p}
       /\ BlocksInto(f, frame.blocks[3]) = {frame.blocks[1]}

IsFrame(frame) ==
  /\ frame = [node |-> frame.node, how |-> frame.how, emits |-> frame.emits, type |-> frame.type,
              callee |-> frame.callee, values |-> frame.values, blocks |-> frame.blocks]
  /\ SeqLike(frame.values) /\ SeqLike(frame.blocks)
  /\ frame.how \in {"visit", "if"} /\ frame.values = <<>> => frame.blocks = <<>>
  /\ frame.how = "visit" => frame.values = <<>>
  /\ frame.how = "if" /\ frame.values # <<>> => Len(frame.blocks) = 3

\* The function under construction: the blocks from s on are of this
\* definition, and p is where the next instruction goes.
OpenAt(f, p, fs, s) ==
  /\ f.entry \in 1 .. s /\ s \in Blocks(f)
  /\ p \in f.listed /\ p >= s /\ ~Terminated(f, p)
  /\ \A b \in f.listed \ {p} :
       Terminated(f, b) /\ Successors(f, b) \subseteq f.listed \cup PendingTo(fs, Len(fs))
  /\ \A b \in Blocks(f) : b < s => Successors(f, b) \subseteq 1 .. s - 1
  /\ \A b \in Blocks(f) : b >= s => \A x \in Successors(f, b) : x > s
  /\ \A b \in f.listed : b < s \/ f.entry = s => b \in Reachable(f)
  /\ \A i \in 1 .. Len(fs) : fs[i].how = "if" => IfSound(f, s, p, fs[i])
  /\ \A i, j \in 1 .. Len(fs) : i # j => Pending(fs[i]) \cap Pending(fs[j]) = {}

\* A value that can be used at the end of each of some blocks.
Computed(f, n, v, places) ==
  /\ v.kind \in {"argument", "result"} => v.of = n
  /\ v.kind = "result" =>
       /\ v.block \in Blocks(f) /\ v.at \in 1 .. Len(f.blocks[v.block])
       /\ \A b \in places : Dominates(f, v.block, b)

Fixed(n, v) == v.kind # "result" /\ (v.kind = "argument" => v.of = n)

FrameValues(f, n, p, fs, i) ==
  /\ Fixed(n, fs[i].callee)
  /\ fs[i].how # "if" =>
       \A k \in 1 .. Len(fs[i].values) : Computed(f, n, fs[i].values[k], {p} \cup PendingTo(fs, i - 1))
  /\ fs[i].how = "if" /\ Len(fs[i].values) = 2 =>
       /\ Computed(f, n, fs[i].values[2], {fs[i].blocks[1]})
       /\ fs[i].values[2].kind = "result" /\ fs[i].values[2].block = fs[i].blocks[1] =>
            fs[i].values[2].at < Len(f.blocks[fs[i].blocks[1]])

-----------------------------------------------------------------------------
\* What an instruction at the end of block p does to the graph: it may lead
\* to some blocks that control does not leave yet, and to new ones.
Edited(f, g, p, X) ==
  /\ Graph(f) /\ g.entry = f.entry
  /\ Len(g.blocks) \in Nat /\ Len(f.blocks) <= Len(g.blocks)
  /\ p \in Blocks(f) \ X /\ Successors(f, p) = {}
  /\ Successors(g, p) = X /\ X \subseteq Blocks(g)
  /\ \A b \in Blocks(f) \ {p} : Successors(g, b) = Successors(f, b)
  /\ \A x \in X \cap Blocks(f) : Successors(f, x) = {}
  /\ \A b \in Blocks(g) \ Blocks(f) : Successors(g, b) = {}

LEMMA EditGraph ==
  ASSUME NEW f, NEW g, NEW p, NEW X, Edited(f, g, p, X)
  PROVE  Graph(g) /\ Blocks(f) \subseteq Blocks(g)
<1>1. Len(f.blocks) \in Nat /\ Len(g.blocks) \in Nat /\ Len(f.blocks) <= Len(g.blocks)
  BY DEF Edited, Graph
<1>2. Blocks(f) \subseteq Blocks(g)
  BY <1>1 DEF Blocks
<1>3. \A b \in Blocks(g) : Successors(g, b) \subseteq Blocks(g)
  BY <1>2 DEF Edited, Graph
<1> QED BY <1>1, <1>2, <1>3 DEF Edited, Graph

\* What was reached still is; what is reached besides are those blocks, if
\* the block itself was reached.
LEMMA EditReaches ==
  ASSUME NEW f, NEW g, NEW p, NEW X, Edited(f, g, p, X), NEW A
  PROVE  /\ ReachableAvoiding(f, A) \subseteq ReachableAvoiding(g, A)
         /\ ReachableAvoiding(g, A) \subseteq ReachableAvoiding(f, A) \cup X
         /\ p \notin ReachableAvoiding(f, A) =>
              ReachableAvoiding(g, A) = ReachableAvoiding(f, A)
<1> DEFINE F == ReachableAvoiding(f, A)
           G == ReachableAvoiding(g, A)
<1>1. Graph(f) /\ Graph(g) /\ Blocks(f) \subseteq Blocks(g) /\ g.entry = f.entry
  BY EditGraph DEF Edited
<1>2. F \subseteq Blocks(f) /\ f.entry \in F \cup A /\ \A b \in F : Successors(f, b) \subseteq F \cup A
  BY <1>1, ReachableIsClosed
<1>3. f.entry \in G \cup A /\ \A b \in G : Successors(g, b) \subseteq G \cup A
  BY <1>1, ReachableIsClosed
<1>4. Len(f.blocks) \in Nat /\ Len(g.blocks) \in Nat
  BY DEF Edited, Graph
<1>e. Edited(f, g, p, X)
  OBVIOUS
<1> HIDE DEF F, G
<1>5. F \subseteq G
  <2> DEFINE S == F \cap G
  <2>1. f.entry \in S \cup A
    BY <1>2, <1>3
  <2>2. \A b \in S : Successors(f, b) \subseteq S \cup A
    <3> SUFFICES ASSUME NEW b \in S PROVE Successors(f, b) \subseteq S \cup A
      OBVIOUS
    <3>1. b = p \/ Successors(f, b) = Successors(g, b)
      BY <1>2, <1>e DEF Edited
    <3>2. b = p => Successors(f, b) = {}
      BY <1>e DEF Edited
    <3> QED BY <3>1, <3>2, <1>2, <1>3
  <2> HIDE DEF S
  <2>3. F \subseteq S
    BY <1>4, <2>1, <2>2, ReachableIsLeast DEF F
  <2> QED BY <2>3 DEF S
<1>6. G \subseteq F \cup X
  <2> DEFINE S == F \cup X
  <2>1. g.entry \in S \cup A
    BY <1>1, <1>2
  <2>2. \A b \in S : Successors(g, b) \subseteq S \cup A
    <3> SUFFICES ASSUME NEW b \in S PROVE Successors(g, b) \subseteq S \cup A
      OBVIOUS
    <3>1. CASE b \in F
      <4>1. b = p \/ Successors(g, b) = Successors(f, b)
        BY <1>2, <3>1, <1>e DEF Edited
      <4>2. b = p => Successors(g, b) = X
        BY <1>e DEF Edited
      <4> QED BY <4>1, <4>2, <3>1, <1>2
    <3>2. CASE b \in X
      <4>1. b \in Blocks(g) /\ b # p
        BY <3>2, <1>e DEF Edited
      <4>2. Successors(g, b) = {}
        BY <3>2, <4>1, <1>e DEF Edited
      <4> QED BY <4>2
    <3> QED BY <3>1, <3>2
  <2> HIDE DEF S
  <2>3. G \subseteq S
    BY <1>4, <2>1, <2>2, ReachableIsLeast DEF G
  <2> QED BY <2>3 DEF S
<1>7. ASSUME p \notin F PROVE G \subseteq F
  <2>1. \A b \in F : Successors(g, b) = Successors(f, b)
    BY <1>2, <1>7, <1>e DEF Edited
  <2>2. \A b \in F : Successors(g, b) \subseteq F \cup A
    BY <2>1, <1>2
  <2>3. g.entry \in F \cup A
    BY <1>1, <1>2
  <2> QED BY <1>4, <2>2, <2>3, ReachableIsLeast DEF G
<1> QED BY <1>5, <1>6, <1>7 DEF F, G

\* Code that is there stays where it is, and what control may be led to has
\* none yet.
Kept(f, g, X) ==
  /\ \A b \in Blocks(f) : /\ SeqLike(f.blocks[b]) /\ SeqLike(g.blocks[b])
                          /\ Len(f.blocks[b]) <= Len(g.blocks[b])
                          /\ \A i \in 1 .. Len(f.blocks[b]) : g.blocks[b][i] = f.blocks[b][i]
  /\ \A x \in X \cap Blocks(f) : f.blocks[x] = <<>>

\* A value dominates what it dominated, but for those blocks.
LEMMA EditDominates ==
  ASSUME NEW f, NEW g, NEW p, NEW X, Edited(f, g, p, X), NEW a \in Blocks(f)
  PROVE  /\ \A b \in Blocks(f) \ X : Dominates(f, a, b) => Dominates(g, a, b)
         /\ Dominates(f, a, p) =>
              /\ \A b \in Blocks(f) : Dominates(f, a, b) => Dominates(g, a, b)
              /\ \A b \in Blocks(g) \ Blocks(f) : Dominates(g, a, b)
<1>1. /\ ReachableAvoiding(g, {a}) \subseteq ReachableAvoiding(f, {a}) \cup X
      /\ p \notin ReachableAvoiding(f, {a}) => ReachableAvoiding(g, {a}) = ReachableAvoiding(f, {a})
  BY EditReaches
<1>2. ReachableAvoiding(f, {a}) \subseteq Blocks(f)
  BY ReachableIsClosed DEF Edited
<1> QED BY <1>1, <1>2 DEF Dominates

LEMMA EditComputed ==
  ASSUME NEW f, NEW g, NEW p, NEW X, Edited(f, g, p, X), Kept(f, g, X),
         NEW n, NEW v, NEW B, B \subseteq Blocks(f), Computed(f, n, v, B)
  PROVE  /\ B \cap X = {} => Computed(g, n, v, B)
         /\ p \in B => Computed(g, n, v, B \cup (Blocks(g) \ Blocks(f)))
<1> SUFFICES ASSUME v.kind = "result"
             PROVE  /\ B \cap X = {} => Computed(g, n, v, B)
                    /\ p \in B => Computed(g, n, v, B \cup (Blocks(g) \ Blocks(f)))
  BY DEF Computed
<1> DEFINE a == v.block
<1>1. /\ v.kind \in {"argument", "result"} => v.of = n
      /\ a \in Blocks(f) /\ v.at \in 1 .. Len(f.blocks[a])
      /\ \A b \in B : Dominates(f, a, b)
  BY DEF Computed
<1>2. Blocks(f) \subseteq Blocks(g)
  BY EditGraph
<1>3. a \in Blocks(g) /\ v.at \in 1 .. Len(g.blocks[a])
  <2>1. Len(f.blocks[a]) <= Len(g.blocks[a]) /\ Len(f.blocks[a]) \in Nat /\ Len(g.blocks[a]) \in Nat
    BY <1>1 DEF Kept, SeqLike
  <2> HIDE DEF a
  <2>2. v.at \in 1 .. Len(g.blocks[a])
    BY <1>1, <2>1
  <2> QED BY <1>1, <1>2, <2>2
<1>4. /\ \A b \in Blocks(f) \ X : Dominates(f, a, b) => Dominates(g, a, b)
      /\ Dominates(f, a, p) =>
           /\ \A b \in Blocks(f) : Dominates(f, a, b) => Dominates(g, a, b)
           /\ \A b \in Blocks(g) \ Blocks(f) : Dominates(g, a, b)
  BY <1>1, EditDominates
<1>5. ASSUME B \cap X = {} PROVE \A b \in B : Dominates(g, a, b)
  BY <1>1, <1>4, <1>5
<1>6. ASSUME p \in B PROVE \A b \in B \cup (Blocks(g) \ Blocks(f)) : Dominates(g, a, b)
  BY <1>1, <1>4, <1>6
<1> QED BY <1>1, <1>3, <1>5, <1>6 DEF Computed

LEMMA EditBefore ==
  ASSUME NEW f, NEW g, NEW p, NEW X, Edited(f, g, p, X),
         NEW v, v.block \in Blocks(f), v.at \in Nat,
         NEW place \in Blocks(f) \ X, NEW i \in Int, NEW j \in Int, i <= j,
         ComputedBefore(f, v, place, i)
  PROVE  ComputedBefore(g, v, place, j)
<1> DEFINE a == v.block
           at == v.at
<1>1. \A b \in Blocks(f) \ X : Dominates(f, a, b) => Dominates(g, a, b)
  BY EditDominates
<1>2. Dominates(f, a, place) => Dominates(g, a, place)
  BY <1>1
<1>3. at < i => at < j
  <2>1. at \in Int
    OBVIOUS
  <2> HIDE DEF at
  <2> QED BY <2>1
<1> QED BY <1>2, <1>3 DEF ComputedBefore

\* The lengths compared below, away from the facts about graphs.
LEMMA NatFacts ==
  /\ \A x \in Nat : x \in Int
  /\ \A x, y \in Nat : x <= y /\ x # 0 => y # 0
OBVIOUS

LEMMA EditUses ==
  ASSUME NEW f, NEW g, NEW p, NEW X, Edited(f, g, p, X), Kept(f, g, X), NEW n,
         NEW b \in Blocks(f), NEW i \in 1 .. Len(f.blocks[b]), NEW k,
         Usable(f, n, f.blocks[b][i], k, b, i)
  PROVE  Usable(g, n, g.blocks[b][i], k, b, i)
<1> DEFINE code == f.blocks[b][i]
           v == code.args[k]
           phi == code.op = "phi"
           place == IF phi THEN code.to[k] ELSE b
<1>1. g.blocks[b][i] = code
  BY DEF Kept
<1> SUFFICES ASSUME v.kind = "result" PROVE Usable(g, n, code, k, b, i)
  BY <1>1 DEF Usable
<1>2. /\ v.of = n /\ v.at \in Nat /\ v.block \in Blocks(f)
      /\ phi => place \in Blocks(f) /\ f.blocks[place] # <<>>
      /\ ComputedBefore(f, v, place, IF phi THEN Len(f.blocks[place]) ELSE i)
  BY DEF Usable
<1>3. f.blocks[b] # <<>>
  <2>1. Len(f.blocks[b]) # 0
    BY DEF Kept, SeqLike
  <2> QED BY <2>1
<1>4. place \in Blocks(f) \ X
  BY <1>2, <1>3 DEF Kept
<1>5. Blocks(f) \subseteq Blocks(g)
  BY EditGraph
<1>6. phi => Len(f.blocks[place]) \in Nat /\ Len(g.blocks[place]) \in Nat /\ Len(f.blocks[place]) <= Len(g.blocks[place])
  BY <1>4 DEF Kept, SeqLike
<1>7. phi => g.blocks[place] # <<>>
  <2>1. SUFFICES ASSUME phi PROVE Len(g.blocks[place]) # 0
    OBVIOUS
  <2>2. f.blocks[place] # <<>>
    BY <1>2, <2>1
  <2>3. Len(f.blocks[place]) # 0
    BY <1>6, <2>1, <2>2
  <2> QED BY Zenon, <1>6, <2>1, <2>3, NatFacts
<1> DEFINE end(h) == IF phi THEN Len(h.blocks[place]) ELSE i
<1>8. end(f) \in Int /\ end(g) \in Int /\ end(f) <= end(g)
  <2>1. i \in Int
    OBVIOUS
  <2>2. CASE phi
    <3>1. end(f) = Len(f.blocks[place]) /\ end(g) = Len(g.blocks[place])
      BY <2>2
    <3>2. /\ Len(f.blocks[place]) \in Nat /\ Len(g.blocks[place]) \in Nat
          /\ Len(f.blocks[place]) <= Len(g.blocks[place])
      BY Zenon, <1>6, <2>2
    <3> DEFINE m == Len(f.blocks[place])
               n2 == Len(g.blocks[place])
    <3> HIDE DEF end, m, n2
    <3>3. m \in Nat /\ n2 \in Nat /\ m <= n2
      BY Zenon, <3>2 DEF m, n2
    <3>4. m \in Int /\ n2 \in Int
      BY Zenon, <3>3, NatFacts
    <3> QED BY Zenon, <3>1, <3>3, <3>4 DEF m, n2
  <2>3. CASE ~phi
    <3>1. end(f) = i /\ end(g) = i
      BY <2>3
    <3> HIDE DEF end
    <3> QED BY <3>1, <2>1
  <2> QED BY <2>2, <2>3
<1> HIDE DEF v, place, end
<1>10. ComputedBefore(f, v, place, end(f)) => ComputedBefore(g, v, place, end(g))
  BY <1>2, <1>4, <1>8, EditBefore
<1>11. ComputedBefore(f, v, place, end(f))
  BY <1>2 DEF end
<1>12. ComputedBefore(g, v, place, end(g))
  BY <1>10, <1>11
<1>13. phi => place \in Blocks(g)
  BY <1>4, <1>5
<1> QED BY <1>2, <1>5, <1>7, <1>12, <1>13 DEF Usable, v, place, end

-----------------------------------------------------------------------------
(* Sequences, and how the edits are made.                                  *)

LEMMA SeqLikeIsSeq ==
  ASSUME NEW s, SeqLike(s)
  PROVE  s \in Seq({s[i] : i \in 1 .. Len(s)})
BY DEF SeqLike

LEMMA SeqIsSeqLike ==
  ASSUME NEW S, NEW s \in Seq(S)
  PROVE  SeqLike(s)
BY DEF SeqLike

LEMMA Concatenated ==
  ASSUME NEW s, NEW t, SeqLike(s), SeqLike(t)
  PROVE  /\ SeqLike(s \o t) /\ Len(s \o t) = Len(s) + Len(t)
         /\ \A i \in 1 .. Len(s) : (s \o t)[i] = s[i]
         /\ \A i \in 1 .. Len(t) : (s \o t)[Len(s) + i] = t[i]
<1> DEFINE S == {s[i] : i \in 1 .. Len(s)} \cup {t[i] : i \in 1 .. Len(t)}
<1>1. s \in Seq(S) /\ t \in Seq(S)
  <2>1. s \in Seq({s[i] : i \in 1 .. Len(s)}) /\ t \in Seq({t[i] : i \in 1 .. Len(t)})
    BY SeqLikeIsSeq
  <2> QED BY <2>1
<1> HIDE DEF S
<1>2. s \o t \in Seq(S) /\ Len(s \o t) = Len(s) + Len(t)
  BY <1>1
<1>3. SeqLike(s \o t)
  BY <1>2, SeqIsSeqLike
<1> QED BY <1>1, <1>2, <1>3

LEMMA Appended ==
  ASSUME NEW s, NEW e, SeqLike(s)
  PROVE  /\ SeqLike(Append(s, e)) /\ Len(Append(s, e)) = Len(s) + 1
         /\ \A i \in 1 .. Len(s) : Append(s, e)[i] = s[i]
         /\ Append(s, e)[Len(s) + 1] = e
<1> DEFINE S == {s[i] : i \in 1 .. Len(s)} \cup {e}
<1>1. s \in Seq(S)
  <2>1. s \in Seq({s[i] : i \in 1 .. Len(s)})
    BY SeqLikeIsSeq
  <2> QED BY <2>1
<1> HIDE DEF S
<1>2. e \in S
  BY DEF S
<1>3. Append(s, e) \in Seq(S) /\ Len(Append(s, e)) = Len(s) + 1
  BY <1>1, <1>2
<1>4. SeqLike(Append(s, e))
  BY <1>3, SeqIsSeqLike
<1>5. \A i \in 1 .. Len(s) : Append(s, e)[i] = s[i]
  BY <1>1, <1>2
<1>6. Append(s, e)[Len(s) + 1] = e
  BY <1>1, <1>2
<1> QED BY <1>3, <1>4, <1>5, <1>6

LEMMA Prefixed ==
  ASSUME NEW e, NEW s, SeqLike(s)
  PROVE  /\ SeqLike(<<e>> \o s) /\ Len(<<e>> \o s) = Len(s) + 1
         /\ (<<e>> \o s)[1] = e
         /\ \A i \in 2 .. Len(s) + 1 : (<<e>> \o s)[i] = s[i - 1]
<1>1. SeqLike(<<e>>) /\ Len(<<e>>) = 1 /\ <<e>>[1] = e
  BY DEF SeqLike
<1> DEFINE t == <<e>>
           r == t \o s
<1>2. /\ SeqLike(r) /\ Len(r) = Len(t) + Len(s)
      /\ \A i \in 1 .. Len(t) : r[i] = t[i]
      /\ \A i \in 1 .. Len(s) : r[Len(t) + i] = s[i]
  BY <1>1, Concatenated
<1>3. Len(s) \in Nat
  BY DEF SeqLike
<1> HIDE DEF r
<1>4. \A i \in 2 .. Len(s) + 1 : r[i] = s[i - 1]
  <2> TAKE i \in 2 .. Len(s) + 1
  <2>1. i - 1 \in 1 .. Len(s) /\ Len(t) + (i - 1) = i
    BY <1>1, <1>3
  <2> QED BY <1>2, <2>1
<1> QED BY <1>1, <1>2, <1>3, <1>4 DEF r

LEMMA Tails ==
  ASSUME NEW s, SeqLike(s), s # <<>>
  PROVE  /\ SeqLike(Tail(s)) /\ Len(Tail(s)) = Len(s) - 1 /\ Len(s) >= 1
         /\ \A i \in 1 .. Len(s) - 1 : Tail(s)[i] = s[i + 1]
         /\ s = <<s[1]>> \o Tail(s) /\ Head(s) = s[1]
<1> DEFINE S == {s[i] : i \in 1 .. Len(s)}
<1>1. s \in Seq(S)
  BY SeqLikeIsSeq
<1> HIDE DEF S
<1>2. Tail(s) \in Seq(S) /\ Len(Tail(s)) = Len(s) - 1 /\ Len(s) >= 1
  BY <1>1
<1>3. SeqLike(Tail(s))
  BY <1>2, SeqIsSeqLike
<1>4. \A i \in 1 .. Len(s) - 1 : Tail(s)[i] = s[i + 1]
  BY <1>1, <1>2
<1>5. Head(s) = s[1] /\ s[1] \in S
  BY <1>1, <1>2
<1>6. s = <<s[1]>> \o Tail(s)
  BY <1>1, <1>2, <1>5
<1> QED BY <1>2, <1>3, <1>4, <1>5, <1>6

\* Code is put at the end of block p, which had no end, and leads to X; the
\* blocks of M get an instruction that leads nowhere, new ones none.
CodePut(f, g, p, codes, M, X) ==
  /\ IsFunction(f) /\ Graph(f) /\ IsFunction(g)
  /\ g.entry = f.entry /\ Len(f.blocks) <= Len(g.blocks)
  /\ p \in Blocks(f) /\ ~Terminated(f, p)
  /\ SeqLike(codes) /\ Len(codes) > 0 /\ g.blocks[p] = f.blocks[p] \o codes
  /\ M \subseteq Blocks(f) \ {p}
  /\ \A m \in M : f.blocks[m] = <<>> /\ Len(g.blocks[m]) = 1 /\ ~Terminated(g, m)
  /\ \A b \in Blocks(f) \ (M \cup {p}) : g.blocks[b] = f.blocks[b]
  /\ \A b \in Blocks(g) \ Blocks(f) : g.blocks[b] = <<>>
  /\ X = IF codes[Len(codes)].op \in Terminators THEN Elements(codes[Len(codes)].to) ELSE {}
  /\ X \subseteq Blocks(g) \ {p}
  /\ \A x \in X \cap Blocks(f) : f.blocks[x] = <<>>

LEMMA CodeEdit ==
  ASSUME NEW f, NEW g, NEW p, NEW codes, NEW M, NEW X, CodePut(f, g, p, codes, M, X)
  PROVE  /\ Edited(f, g, p, X) /\ Kept(f, g, X)
         /\ Terminated(g, p) <=> codes[Len(codes)].op \in Terminators
<1> USE DEF CodePut
<1> DEFINE old == f.blocks[p]
           new == g.blocks[p]
<1>1. Len(f.blocks) \in Nat /\ Len(g.blocks) \in Nat /\ Blocks(f) \subseteq Blocks(g)
  BY DEF IsFunction, SeqLike, Blocks
<1>2. SeqLike(old) /\ SeqLike(new)
  BY <1>1 DEF IsFunction
<1>3. /\ Len(new) = Len(old) + Len(codes)
      /\ \A i \in 1 .. Len(old) : new[i] = old[i]
      /\ \A i \in 1 .. Len(codes) : new[Len(old) + i] = codes[i]
  BY <1>2, Concatenated
<1>4. Len(old) \in Nat /\ Len(codes) \in Nat /\ Len(new) \in Nat /\ Len(new) > 0
  BY <1>2, <1>3 DEF SeqLike
<1>5. new[Len(new)] = codes[Len(codes)] /\ new # <<>>
  <2> HIDE DEF new, old
  <2>1. Len(codes) \in 1 .. Len(codes) /\ Len(new) = Len(old) + Len(codes)
    BY <1>3, <1>4
  <2> QED BY <1>3, <1>4, <2>1
<1>6. Terminated(g, p) <=> codes[Len(codes)].op \in Terminators
  BY <1>5 DEF Terminated
<1>7. Successors(g, p) = X
  BY <1>5, <1>6 DEF Successors
<1>8. Successors(f, p) = {}
  BY DEF Successors
<1>9. ASSUME NEW b \in Blocks(f) \ {p} PROVE Successors(g, b) = Successors(f, b)
  <2>1. CASE b \in M
    BY <2>1 DEF Successors, Terminated
  <2>2. CASE b \notin M
    BY <2>2 DEF Successors, Terminated
  <2> QED BY <2>1, <2>2
<1>10. \A b \in Blocks(g) \ Blocks(f) : Successors(g, b) = {}
  BY DEF Successors, Terminated
<1>11. \A x \in X \cap Blocks(f) : Successors(f, x) = {}
  BY DEF Successors, Terminated
<1>12. Edited(f, g, p, X)
  BY <1>1, <1>7, <1>8, <1>9, <1>10, <1>11 DEF Edited
<1>13. ASSUME NEW b \in Blocks(f)
       PROVE  /\ SeqLike(f.blocks[b]) /\ SeqLike(g.blocks[b])
              /\ Len(f.blocks[b]) <= Len(g.blocks[b])
              /\ \A i \in 1 .. Len(f.blocks[b]) : g.blocks[b][i] = f.blocks[b][i]
  <2>1. SeqLike(f.blocks[b]) /\ SeqLike(g.blocks[b])
    BY <1>1 DEF IsFunction
  <2>2. Len(f.blocks[b]) \in Nat /\ Len(g.blocks[b]) \in Nat
    BY <2>1 DEF SeqLike
  <2>3. CASE b = p
    <3> HIDE DEF new, old
    <3>1. Len(old) <= Len(new)
      BY <1>3, <1>4
    <3> QED BY <1>3, <2>1, <2>3, <3>1 DEF new, old
  <2>4. CASE b \in M
    <3>1. f.blocks[b] = <<>>
      BY <2>4
    <3> QED BY <2>1, <2>2, <3>1
  <2>5. CASE b \notin M \cup {p}
    BY <2>1, <2>2, <2>5
  <2> QED BY <2>3, <2>4, <2>5
<1> QED BY <1>6, <1>12, <1>13 DEF Kept

-----------------------------------------------------------------------------
(* The function under construction.                                        *)

InProgress(f, n, p, fs, s) ==
  OpenAt(f, p, fs, s) /\ \A i \in 1 .. Len(fs) : FrameValues(f, n, p, fs, i)

LEMMA PendingOfPrefixed ==
  ASSUME NEW fr, NEW rest, SeqLike(rest), NEW i \in 0 .. Len(rest)
  PROVE  PendingTo(<<fr>> \o rest, i + 1) = Pending(fr) \cup PendingTo(rest, i)
<1> DEFINE gs == <<fr>> \o rest
<1>1. gs[1] = fr /\ \A j \in 2 .. Len(rest) + 1 : gs[j] = rest[j - 1]
  BY Prefixed
<1>2. Len(rest) \in Nat
  BY DEF SeqLike
<1> HIDE DEF gs
<1>3. PendingTo(gs, i + 1) \subseteq Pending(fr) \cup PendingTo(rest, i)
  <2> SUFFICES ASSUME NEW b \in PendingTo(gs, i + 1) PROVE b \in Pending(fr) \cup PendingTo(rest, i)
    OBVIOUS
  <2>1. PICK j \in 1 .. i + 1 : b \in Pending(gs[j])
    BY DEF PendingTo
  <2>2. CASE j = 1
    BY <1>1, <2>1, <2>2
  <2>3. CASE j # 1
    <3>1. j - 1 \in 1 .. i /\ gs[j] = rest[j - 1]
      BY <1>1, <1>2, <2>1, <2>3
    <3> QED BY <2>1, <3>1 DEF PendingTo
  <2> QED BY <2>2, <2>3
<1>4. Pending(fr) \subseteq PendingTo(gs, i + 1)
  <2>1. 1 \in 1 .. i + 1
    BY <1>2
  <2> QED BY <1>1, <2>1 DEF PendingTo
<1>5. PendingTo(rest, i) \subseteq PendingTo(gs, i + 1)
  <2> SUFFICES ASSUME NEW b \in PendingTo(rest, i) PROVE b \in PendingTo(gs, i + 1)
    OBVIOUS
  <2>1. PICK j \in 1 .. i : b \in Pending(rest[j])
    BY DEF PendingTo
  <2>2. j + 1 \in 1 .. i + 1 /\ j + 1 \in 2 .. Len(rest) + 1 /\ (j + 1) - 1 = j
    BY <1>2, <2>1
  <2>3. gs[j + 1] = rest[j]
    BY <1>1, <2>2
  <2> QED BY <2>1, <2>2, <2>3 DEF PendingTo
<1> QED BY <1>3, <1>4, <1>5 DEF gs

\* Frames that wait for no block come and go.
LEMMA FramesPrefixed ==
  ASSUME NEW f, NEW n, NEW p, NEW fr, NEW rest, NEW s, SeqLike(rest), Pending(fr) = {}
  PROVE  InProgress(f, n, p, <<fr>> \o rest, s) <=>
           /\ InProgress(f, n, p, rest, s)
           /\ FrameValues(f, n, p, <<fr>> \o rest, 1)
           /\ fr.how = "if" => IfSound(f, s, p, fr)
<1> DEFINE gs == <<fr>> \o rest
           m == Len(rest)
<1>1. /\ Len(gs) = m + 1 /\ gs[1] = fr
      /\ \A j \in 2 .. m + 1 : gs[j] = rest[j - 1]
  BY Prefixed
<1>2. m \in Nat
  BY DEF SeqLike
<1>3. \A i \in 0 .. m : PendingTo(gs, i + 1) = PendingTo(rest, i)
  <2> TAKE i \in 0 .. m
  <2>1. PendingTo(<<fr>> \o rest, i + 1) = Pending(fr) \cup PendingTo(rest, i)
    BY PendingOfPrefixed
  <2> QED BY <2>1
<1>p. Pending(fr) = {}
  OBVIOUS
<1> HIDE DEF gs, m
<1>4. \A j \in 1 .. m : j + 1 \in 2 .. m + 1 /\ j + 1 \in 1 .. m + 1 /\ (j + 1) - 1 = j /\ gs[j + 1] = rest[j]
  BY <1>1, <1>2
<1>5. \A i \in 1 .. m + 1 : i = 1 \/ (i - 1 \in 1 .. m /\ gs[i] = rest[i - 1])
  BY <1>1, <1>2
<1>6. PendingTo(gs, m + 1) = PendingTo(rest, m)
  BY <1>2, <1>3
<1>7. (\A i \in 1 .. m + 1 : gs[i].how = "if" => IfSound(f, s, p, gs[i])) <=>
        /\ \A i \in 1 .. m : rest[i].how = "if" => IfSound(f, s, p, rest[i])
        /\ fr.how = "if" => IfSound(f, s, p, fr)
  <2>1. 1 \in 1 .. m + 1
    BY <1>2
  <2> QED BY <1>1, <1>4, <1>5, <2>1
<1>8. (\A i, j \in 1 .. m + 1 : i # j => Pending(gs[i]) \cap Pending(gs[j]) = {}) <=>
        (\A i, j \in 1 .. m : i # j => Pending(rest[i]) \cap Pending(rest[j]) = {})
  <2>1. ASSUME \A i, j \in 1 .. m + 1 : i # j => Pending(gs[i]) \cap Pending(gs[j]) = {},
               NEW i \in 1 .. m, NEW j \in 1 .. m, i # j
        PROVE  Pending(rest[i]) \cap Pending(rest[j]) = {}
    <3>1. i + 1 # j + 1
      BY <2>1
    <3> QED BY <1>4, <2>1, <3>1
  <2>2. ASSUME \A i, j \in 1 .. m : i # j => Pending(rest[i]) \cap Pending(rest[j]) = {},
               NEW i \in 1 .. m + 1, NEW j \in 1 .. m + 1, i # j
        PROVE  Pending(gs[i]) \cap Pending(gs[j]) = {}
    <3>1. CASE i = 1 \/ j = 1
      BY <3>1, <1>1, <1>p
    <3>2. CASE i # 1 /\ j # 1
      <4>1. i - 1 # j - 1
        BY <2>2
      <4> QED BY <1>5, <2>2, <3>2, <4>1
    <3> QED BY <3>1, <3>2
  <2> QED BY <2>1, <2>2
<1>9. OpenAt(f, p, gs, s) <=> OpenAt(f, p, rest, s) /\ (fr.how = "if" => IfSound(f, s, p, fr))
  BY <1>1, <1>6, <1>7, <1>8 DEF OpenAt, m
<1>10. ASSUME NEW i \in 1 .. m
       PROVE  FrameValues(f, n, p, gs, i + 1) <=> FrameValues(f, n, p, rest, i)
  <2>1. i - 1 \in 0 .. m /\ (i - 1) + 1 = (i + 1) - 1
    BY <1>2
  <2>2. PendingTo(gs, (i + 1) - 1) = PendingTo(rest, i - 1)
    BY <1>3, <2>1
  <2>3. gs[i + 1] = rest[i]
    BY <1>4
  <2> QED BY <2>2, <2>3 DEF FrameValues
<1>11. (\A i \in 1 .. m + 1 : FrameValues(f, n, p, gs, i)) <=>
         (\A i \in 1 .. m : FrameValues(f, n, p, rest, i)) /\ FrameValues(f, n, p, gs, 1)
  <2>1. 1 \in 1 .. m + 1 /\ \A i \in 1 .. m + 1 : i = 1 \/ (i - 1 \in 1 .. m /\ (i - 1) + 1 = i)
    BY <1>2
  <2>2. \A i \in 1 .. m : i + 1 \in 1 .. m + 1
    BY <1>2
  <2> QED BY <1>10, <2>1, <2>2
<1> QED BY <1>1, <1>9, <1>11 DEF InProgress, gs, m

-----------------------------------------------------------------------------
(* Code that is put at the end of a block keeps the function sound.        *)

Straight(codes) ==
  \A i \in 1 .. Len(codes) :
    /\ codes[i].op \in Terminators => i = Len(codes)
    /\ codes[i].op # "phi"

\* The code of the block before and after.
LEMMA CodeAtEnd ==
  ASSUME NEW f, NEW g, NEW p, NEW codes, NEW M, NEW X, CodePut(f, g, p, codes, M, X)
  PROVE  /\ Len(f.blocks[p]) \in Nat /\ Len(codes) \in Nat
         /\ Len(g.blocks[p]) = Len(f.blocks[p]) + Len(codes)
         /\ \A i \in 1 .. Len(f.blocks[p]) : g.blocks[p][i] = f.blocks[p][i]
         /\ \A i \in 1 .. Len(codes) : g.blocks[p][Len(f.blocks[p]) + i] = codes[i]
<1>1. SeqLike(f.blocks[p]) /\ SeqLike(codes) /\ g.blocks[p] = f.blocks[p] \o codes
  BY DEF CodePut, IsFunction
<1>2. /\ Len(g.blocks[p]) = Len(f.blocks[p]) + Len(codes)
      /\ \A i \in 1 .. Len(f.blocks[p]) : g.blocks[p][i] = f.blocks[p][i]
      /\ \A i \in 1 .. Len(codes) : g.blocks[p][Len(f.blocks[p]) + i] = codes[i]
  <2> DEFINE s == f.blocks[p]
  <2>1. /\ Len(s \o codes) = Len(s) + Len(codes)
        /\ \A i \in 1 .. Len(s) : (s \o codes)[i] = s[i]
        /\ \A i \in 1 .. Len(codes) : (s \o codes)[Len(s) + i] = codes[i]
    BY <1>1, Concatenated
  <2> QED BY <1>1, <2>1
<1> QED BY <1>1, <1>2 DEF SeqLike

LEMMA CodeInOrder ==
  ASSUME NEW f, NEW g, NEW p, NEW codes, NEW M, NEW X, CodePut(f, g, p, codes, M, X),
         InOrder(f), Straight(codes)
  PROVE  InOrder(g)
<1> SUFFICES ASSUME NEW b \in Blocks(g), NEW i \in 1 .. Len(g.blocks[b])
             PROVE  /\ g.blocks[b][i].op \in Terminators => i = Len(g.blocks[b])
                    /\ g.blocks[b][i].op = "phi" => i = 1
  BY DEF InOrder
<1>1. CASE b = p
  <2> DEFINE l == Len(f.blocks[p])
             m == Len(codes)
  <2>1. /\ l \in Nat /\ m \in Nat /\ Len(g.blocks[p]) = l + m
        /\ \A j \in 1 .. l : g.blocks[p][j] = f.blocks[p][j]
        /\ \A j \in 1 .. m : g.blocks[p][l + j] = codes[j]
    BY CodeAtEnd
  <2>2. p \in Blocks(f) /\ ~Terminated(f, p) /\ m > 0 /\ SeqLike(f.blocks[p])
    BY DEF CodePut, IsFunction
  <2>3. CASE i <= l
    <3>1. i \in 1 .. l /\ g.blocks[b][i] = f.blocks[p][i]
      BY <1>1, <2>1, <2>3
    <3>2. /\ f.blocks[p][i].op \in Terminators => i = l
          /\ f.blocks[p][i].op = "phi" => i = 1
      BY <2>2, <3>1 DEF InOrder
    <3>3. l # 0 /\ f.blocks[p] # <<>>
      BY <2>1, <3>1 DEF SeqLike
    <3>4. ~(f.blocks[p][l].op \in Terminators)
      BY <2>2, <3>3 DEF Terminated
    <3> QED BY <3>1, <3>2, <3>4
  <2>4. CASE i > l
    <3> HIDE DEF l, m
    <3>1. i - l \in 1 .. m /\ l + (i - l) = i /\ (i - l = m => i = l + m)
      BY <1>1, <2>1, <2>4
    <3>2. g.blocks[b][i] = codes[i - l]
      BY <1>1, <2>1, <3>1
    <3>3. /\ codes[i - l].op \in Terminators => i - l = m
          /\ codes[i - l].op # "phi"
      BY <3>1 DEF Straight, m
    <3> QED BY <1>1, <2>1, <3>1, <3>2, <3>3
  <2>5. i \in Int /\ l \in Int
    BY <1>1, <2>1
  <2> QED BY <2>3, <2>4, <2>5
<1>2. CASE b \in M
  <2>1. Len(g.blocks[b]) = 1
    BY <1>2 DEF CodePut
  <2> QED BY <2>1
<1>3. CASE b \in Blocks(f) \ (M \cup {p})
  <2>1. g.blocks[b] = f.blocks[b]
    BY <1>3 DEF CodePut
  <2> QED BY <1>3, <2>1 DEF InOrder
<1>4. CASE b \notin Blocks(f)
  <2>1. g.blocks[b] = <<>>
    BY <1>4 DEF CodePut
  <2> QED BY <2>1
<1>5. M \subseteq Blocks(f) /\ p \in Blocks(f)
  BY DEF CodePut
<1> QED BY <1>1, <1>2, <1>3, <1>4, <1>5

\* The phis that are there keep the blocks that lead to them.
LEMMA CodePhis ==
  ASSUME NEW f, NEW g, NEW p, NEW codes, NEW M, NEW X, CodePut(f, g, p, codes, M, X),
         Straight(codes), f.listed \subseteq Blocks(f), f.listed \subseteq g.listed,
         g.listed \subseteq Blocks(g), p \in f.listed,
         \A a \in g.listed \ f.listed : a \in Blocks(f) => f.blocks[a] = <<>>,
         X \cap f.listed = {}, M \cap f.listed = {},
         NEW b \in f.listed, PhiMatches(f, b)
  PROVE  PhiMatches(g, b)
<1>1. Edited(f, g, p, X) /\ Kept(f, g, X)
  BY CodeEdit
<1>2. ASSUME NEW a \in g.listed PROVE b \in Successors(g, a) <=> a \in f.listed /\ b \in Successors(f, a)
  <2>1. CASE a = p
    <3>1. Successors(g, a) = X /\ Successors(f, a) = {}
      BY <1>1, <2>1 DEF Edited
    <3> QED BY <3>1
  <2>2. CASE a \in f.listed \ {p}
    <3>1. Successors(g, a) = Successors(f, a)
      BY <1>1, <2>2 DEF Edited
    <3> QED BY <2>2, <3>1
  <2>3. CASE a \notin f.listed
    <3>1. a \in Blocks(f) => Successors(f, a) = {}
      BY <2>3 DEF Successors, Terminated
    <3>2. a \in Blocks(g) /\ a # p
      BY <2>3
    <3>3. Successors(g, a) = {}
      BY <1>1, <3>1, <3>2 DEF Edited
    <3> QED BY <2>3, <3>3
  <2> QED BY <2>1, <2>2, <2>3
<1>3. Predecessors(g, b) = Predecessors(f, b)
  BY <1>2 DEF Predecessors
<1>4. SeqLike(f.blocks[b]) /\ SeqLike(g.blocks[b])
  BY <1>1 DEF Kept
<1>5. CASE f.blocks[b] # <<>>
  <2>1. 1 \in 1 .. Len(f.blocks[b])
    BY <1>4, <1>5 DEF SeqLike
  <2>2. g.blocks[b][1] = f.blocks[b][1]
    BY <1>1, <2>1 DEF Kept
  <2> QED BY <1>3, <1>5, <2>2 DEF PhiMatches
<1>6. CASE f.blocks[b] = <<>> /\ b = p
  <2>1. Len(f.blocks[p]) = 0 /\ Len(codes) \in Nat /\ Len(codes) > 0
    BY <1>6, CodeAtEnd DEF CodePut
  <2>2. 1 \in 1 .. Len(codes)
    BY <2>1
  <2>3. g.blocks[p][0 + 1] = codes[1]
    BY <2>1, <2>2, CodeAtEnd
  <2>4. g.blocks[p][1].op # "phi"
    BY <2>2, <2>3 DEF Straight
  <2> QED BY <1>6, <2>4 DEF PhiMatches
<1>7. CASE f.blocks[b] = <<>> /\ b # p
  <2>1. g.blocks[b] = f.blocks[b]
    BY <1>7 DEF CodePut
  <2> QED BY <1>7, <2>1 DEF PhiMatches
<1> QED BY <1>5, <1>6, <1>7

LEMMA CodeSound ==
  ASSUME NEW f, NEW g, NEW p, NEW codes, NEW M, NEW X, CodePut(f, g, p, codes, M, X),
         NEW n, Sound(f, n), Straight(codes),
         f.listed \subseteq g.listed, g.listed \subseteq Blocks(g), p \in f.listed,
         \A a \in g.listed \ f.listed : a \in Blocks(f) => f.blocks[a] = <<>>,
         X \cap f.listed = {}, M \cap f.listed = {},
         \A i \in 1 .. Len(codes) : \A k \in 1 .. Len(codes[i].args) :
           Usable(g, n, codes[i], k, p, Len(f.blocks[p]) + i),
         \A m \in M : \A k \in 1 .. Len(g.blocks[m][1].args) : Usable(g, n, g.blocks[m][1], k, m, 1),
         \A b \in g.listed \ f.listed : PhiMatches(g, b)
  PROVE  Sound(g, n)
<1>1. Edited(f, g, p, X) /\ Kept(f, g, X)
  BY CodeEdit
<1>2. /\ IsFunction(f) /\ f.listed \subseteq Blocks(f) /\ InOrder(f) /\ UsesSound(f, n)
      /\ \A b \in f.listed : PhiMatches(f, b)
  BY DEF Sound
<1>3. InOrder(g)
  BY <1>2, CodeInOrder
<1>4. \A b \in g.listed : PhiMatches(g, b)
  BY <1>2, CodePhis
<1>5. ASSUME NEW b \in Blocks(g), NEW i \in 1 .. Len(g.blocks[b]),
             NEW k \in 1 .. Len(g.blocks[b][i].args)
      PROVE  Usable(g, n, g.blocks[b][i], k, b, i)
  <2>1. CASE b \in Blocks(f) /\ i \in 1 .. Len(f.blocks[b])
    <3>1. g.blocks[b][i] = f.blocks[b][i]
      BY <1>1, <2>1 DEF Kept
    <3>2. Usable(f, n, f.blocks[b][i], k, b, i)
      BY <1>2, <2>1, <3>1, <1>5 DEF UsesSound
    <3> QED BY <1>1, <2>1, <3>2, EditUses
  <2>2. CASE b = p /\ i \notin 1 .. Len(f.blocks[b])
    <3> DEFINE l == Len(f.blocks[p])
               m == Len(codes)
    <3>1. /\ l \in Nat /\ m \in Nat /\ Len(g.blocks[p]) = l + m
          /\ \A j \in 1 .. m : g.blocks[p][l + j] = codes[j]
      BY CodeAtEnd
    <3>2. i - l \in 1 .. m /\ l + (i - l) = i
      <4> HIDE DEF l, m
      <4>1. i \in 1 .. l + m /\ i \notin 1 .. l
        BY <2>2, <3>1 DEF l
      <4> QED BY <3>1, <4>1
    <3>3. g.blocks[b][i] = codes[i - l]
      BY <2>2, <3>1, <3>2
    <3>4. k \in 1 .. Len(codes[i - l].args)
      BY <1>5, <3>3
    <3>5. Usable(g, n, codes[i - l], k, p, l + (i - l))
      BY <3>2, <3>4
    <3> QED BY <2>2, <3>2, <3>3, <3>5
  <2>3. CASE b \in M
    <3>1. i = 1
      BY <2>3, <1>5 DEF CodePut
    <3> QED BY <1>5, <2>3, <3>1
  <2>4. CASE b \in Blocks(f) \ (M \cup {p}) /\ i \notin 1 .. Len(f.blocks[b])
    <3>1. g.blocks[b] = f.blocks[b]
      BY <2>4 DEF CodePut
    <3> QED BY <1>5, <2>4, <3>1
  <2>5. CASE b \notin Blocks(f)
    <3>1. g.blocks[b] = <<>>
      BY <2>5 DEF CodePut
    <3> QED BY <1>5, <3>1
  <2> QED BY <2>1, <2>2, <2>3, <2>4, <2>5
<1>6. UsesSound(g, n)
  BY <1>5 DEF UsesSound
<1>7. Graph(g) /\ g.entry = f.entry
  BY <1>1, EditGraph DEF Edited
<1>8. f.blocks # <<>>
  <2>1. p \in Blocks(f)
    BY DEF CodePut
  <2> QED BY <2>1 DEF Blocks
<1>9. f.entry \in f.listed
  BY <1>8 DEF Sound
<1>10. g.blocks # <<>>
  <2>1. p \in Blocks(g)
    BY <1>2
  <2> QED BY <2>1 DEF Blocks
<1>11. IsFunction(g)
  BY DEF CodePut
<1> QED BY <1>3, <1>4, <1>6, <1>7, <1>9, <1>10, <1>11 DEF Sound

-----------------------------------------------------------------------------
(* Code that stays in the block.                                           *)

LEMMA PendingFacts ==
  ASSUME NEW f, NEW p, NEW fs, NEW s, OpenAt(f, p, fs, s), Len(fs) \in Nat,
         NEW i \in 0 .. Len(fs), NEW b \in PendingTo(fs, i)
  PROVE  b \in Blocks(f) /\ b \notin f.listed /\ b > s /\ f.blocks[b] = <<>> /\ b # p
<1>1. PICK j \in 1 .. i : b \in Pending(fs[j])
  BY DEF PendingTo
<1>2. j \in 1 .. Len(fs) /\ fs[j].how = "if"
  BY <1>1 DEF Pending
<1>3. IfSound(f, s, p, fs[j]) /\ p \in f.listed
  BY <1>2 DEF OpenAt
<1> QED BY <1>1, <1>3 DEF IfSound

LEMMA StraightCode ==
  ASSUME NEW f, NEW g, NEW p, NEW codes, NEW n, NEW fs, NEW s,
         CodePut(f, g, p, codes, {}, {}), codes[Len(codes)].op \notin Terminators,
         Len(g.blocks) = Len(f.blocks), g.listed = f.listed, f.listed \subseteq Blocks(f),
         SeqLike(fs), InProgress(f, n, p, fs, s)
  PROVE  InProgress(g, n, p, fs, s)
<1>1. Edited(f, g, p, {}) /\ Kept(f, g, {}) /\ ~Terminated(g, p)
  BY CodeEdit
<1>2. OpenAt(f, p, fs, s) /\ Len(fs) \in Nat /\ \A i \in 1 .. Len(fs) : FrameValues(f, n, p, fs, i)
  BY DEF InProgress, SeqLike
<1>3. Blocks(g) = Blocks(f) /\ g.entry = f.entry
  BY <1>1 DEF Blocks, Edited
<1>4. \A b \in Blocks(f) \ {p} : g.blocks[b] = f.blocks[b]
  BY DEF CodePut
<1>5. \A b \in Blocks(f) : Successors(g, b) = Successors(f, b)
  BY <1>1 DEF Edited
<1>6. \A b \in Blocks(f) \ {p} : Terminated(g, b) <=> Terminated(f, b)
  BY <1>4 DEF Terminated
<1>7. Reachable(g) = Reachable(f)
  <2>1. /\ ReachableAvoiding(f, {}) \subseteq ReachableAvoiding(g, {})
        /\ ReachableAvoiding(g, {}) \subseteq ReachableAvoiding(f, {}) \cup {}
    BY <1>1, EditReaches
  <2> QED BY <2>1 DEF Reachable
<1>8. \A b : BlocksInto(g, b) = BlocksInto(f, b)
  BY <1>3, <1>5 DEF BlocksInto
<1>9. ASSUME NEW i \in 1 .. Len(fs), fs[i].how = "if" PROVE IfSound(g, s, p, fs[i])
  <2>1. IfSound(f, s, p, fs[i]) /\ p \in f.listed
    BY <1>2, <1>9 DEF OpenAt
  <2>2. \A b \in Pending(fs[i]) : b \in Blocks(f) \ f.listed /\ b > s /\ f.blocks[b] = <<>>
    BY <2>1 DEF IfSound
  <2>3. \A b \in Pending(fs[i]) : b \in Blocks(g) \ g.listed /\ b > s /\ g.blocks[b] = <<>>
    BY <1>3, <1>4, <2>1, <2>2
  <2> QED BY <1>3, <1>7, <1>8, <2>1, <2>3 DEF IfSound
<1>10. OpenAt(g, p, fs, s)
  <2>1. \A b \in g.listed \ {p} :
          Terminated(g, b) /\ Successors(g, b) \subseteq g.listed \cup PendingTo(fs, Len(fs))
    BY <1>2, <1>5, <1>6 DEF OpenAt
  <2>2. \A b \in Blocks(g) : b < s => Successors(g, b) \subseteq 1 .. s - 1
    BY <1>2, <1>3, <1>5 DEF OpenAt
  <2>2a. \A b \in Blocks(g) : b >= s => \A x \in Successors(g, b) : x > s
    BY <1>2, <1>3, <1>5 DEF OpenAt
  <2>3. \A b \in g.listed : b < s \/ g.entry = s => b \in Reachable(g)
    BY <1>2, <1>3, <1>7 DEF OpenAt
  <2>4. /\ g.entry \in 1 .. s /\ s \in Blocks(g) /\ p \in g.listed /\ p >= s
        /\ \A i, j \in 1 .. Len(fs) : i # j => Pending(fs[i]) \cap Pending(fs[j]) = {}
    BY <1>2, <1>3 DEF OpenAt
  <2> QED BY <1>1, <1>9, <2>1, <2>2, <2>2a, <2>3, <2>4 DEF OpenAt
<1>11. ASSUME NEW i \in 1 .. Len(fs) PROVE FrameValues(g, n, p, fs, i)
  <2>1. FrameValues(f, n, p, fs, i)
    BY <1>2
  <2>2. \A v, B : B \subseteq Blocks(f) /\ Computed(f, n, v, B) => Computed(g, n, v, B)
    <3> SUFFICES ASSUME NEW v, NEW B, B \subseteq Blocks(f), Computed(f, n, v, B)
                 PROVE  Computed(g, n, v, B)
      OBVIOUS
    <3>1. B \cap {} = {} => Computed(g, n, v, B)
      BY <1>1, EditComputed
    <3> QED BY <3>1
  <2>3. p \in Blocks(f)
    BY DEF CodePut
  <2>4. {p} \cup PendingTo(fs, i - 1) \subseteq Blocks(f)
    <3>1. i - 1 \in 0 .. Len(fs)
      BY <1>2
    <3> QED BY <1>2, <2>3, <3>1, PendingFacts
  <2>5. ASSUME fs[i].how # "if", NEW k \in 1 .. Len(fs[i].values)
        PROVE  Computed(g, n, fs[i].values[k], {p} \cup PendingTo(fs, i - 1))
    BY <2>1, <2>2, <2>4, <2>5 DEF FrameValues
  <2>6. ASSUME fs[i].how = "if", Len(fs[i].values) = 2
        PROVE  /\ Computed(g, n, fs[i].values[2], {fs[i].blocks[1]})
               /\ fs[i].values[2].kind = "result" /\ fs[i].values[2].block = fs[i].blocks[1] =>
                    fs[i].values[2].at < Len(g.blocks[fs[i].blocks[1]])
    <3>1. IfSound(f, s, p, fs[i])
      BY <1>2, <2>6 DEF OpenAt
    <3>2. fs[i].blocks[1] \in Blocks(f) \ {p}
      BY <2>6, <3>1 DEF IfSound
    <3>3. g.blocks[fs[i].blocks[1]] = f.blocks[fs[i].blocks[1]]
      BY <1>4, <3>2
    <3>4. Computed(f, n, fs[i].values[2], {fs[i].blocks[1]})
      BY <2>1, <2>6 DEF FrameValues
    <3>5. Computed(g, n, fs[i].values[2], {fs[i].blocks[1]})
      BY <2>2, <3>2, <3>4
    <3> QED BY <2>1, <2>6, <3>3, <3>5 DEF FrameValues
  <2> QED BY <2>1, <2>5, <2>6 DEF FrameValues
<1> QED BY <1>10, <1>11 DEF InProgress

-----------------------------------------------------------------------------
(* Branches: the code ends block p, and the next code goes to block q.     *)

\* The frames of other ifs do not notice.
LEMMA OtherIf ==
  ASSUME NEW f, NEW g, NEW p, NEW codes, NEW M, NEW X, CodePut(f, g, p, codes, M, X),
         NEW q, q \notin f.listed, g.listed = f.listed \cup {q},
         NEW s, NEW fr, fr.how = "if", IfSound(f, s, p, fr), p \in f.listed, f.listed \subseteq Blocks(f),
         Pending(fr) \cap (X \cup M \cup {q}) = {}
  PROVE  IfSound(g, s, q, fr)
<1>1. Edited(f, g, p, X) /\ g.entry = f.entry
  BY CodeEdit DEF Edited
<1>2. Blocks(f) \subseteq Blocks(g)
  BY <1>1, EditGraph
<1>3. ASSUME NEW b \in Pending(fr)
      PROVE  b \in Blocks(g) \ g.listed /\ b > s /\ g.blocks[b] = <<>>
  <2>1. b \in Blocks(f) \ f.listed /\ b > s /\ f.blocks[b] = <<>>
    BY DEF IfSound
  <2>2. b # p /\ b \notin M /\ b # q
    BY <2>1
  <2>3. g.blocks[b] = f.blocks[b]
    BY <2>1, <2>2 DEF CodePut
  <2> QED BY <1>2, <2>1, <2>2, <2>3
<1>4. ASSUME NEW b \in Pending(fr) PROVE BlocksInto(g, b) = BlocksInto(f, b)
  <2>1. \A a \in Blocks(g) : b \in Successors(g, a) <=> a \in Blocks(f) /\ b \in Successors(f, a)
    <3> TAKE a \in Blocks(g)
    <3>1. CASE a = p
      BY <1>1, <3>1 DEF Edited
    <3>2. CASE a \in Blocks(f) \ {p}
      BY <1>1, <3>2 DEF Edited
    <3>3. CASE a \notin Blocks(f)
      BY <1>1, <3>3 DEF Edited
    <3> QED BY <3>1, <3>2, <3>3
  <2> QED BY <1>2, <2>1 DEF BlocksInto
<1>5. Reachable(f) \subseteq Reachable(g)
  BY <1>1, EditReaches DEF Reachable
<1>6. ASSUME Len(fr.values) = 1, fr.how = "if"
      PROVE  /\ fr.blocks[2] # fr.blocks[3]
             /\ BlocksInto(g, fr.blocks[3]) = {}
             /\ g.entry = s => fr.blocks[2] \in Reachable(g)
  <2>1. fr.blocks[3] \in Pending(fr)
    BY <1>6 DEF Pending
  <2> QED BY <1>1, <1>4, <1>5, <1>6, <2>1 DEF IfSound
<1>7. ASSUME Len(fr.values) = 2, fr.how = "if"
      PROVE  /\ fr.blocks[1] \in g.listed \ {q}
             /\ BlocksInto(g, fr.blocks[3]) = {fr.blocks[1]}
  <2>1. fr.blocks[3] \in Pending(fr)
    BY <1>7 DEF Pending
  <2> QED BY <1>4, <1>7, <2>1 DEF IfSound
<1> QED BY <1>3, <1>6, <1>7 DEF IfSound

\* The frames but for the one of an if that waits for the blocks of P.
ValuesAt(f, n, frame, places) ==
  /\ Fixed(n, frame.callee)
  /\ frame.how # "if" =>
       \A k \in 1 .. Len(frame.values) : Computed(f, n, frame.values[k], places)
  /\ frame.how = "if" /\ Len(frame.values) = 2 =>
       /\ Computed(f, n, frame.values[2], {frame.blocks[1]})
       /\ frame.values[2].kind = "result" /\ frame.values[2].block = frame.blocks[1] =>
            frame.values[2].at < Len(f.blocks[frame.blocks[1]])

Awaiting(f, n, p, P, fs, s) ==
  /\ f.entry \in 1 .. s /\ s \in Blocks(f)
  /\ p \in f.listed /\ p >= s /\ ~Terminated(f, p)
  /\ \A b \in f.listed \ {p} :
       Terminated(f, b) /\ Successors(f, b) \subseteq f.listed \cup P \cup PendingTo(fs, Len(fs))
  /\ \A b \in Blocks(f) : b < s => Successors(f, b) \subseteq 1 .. s - 1
  /\ \A b \in Blocks(f) : b >= s => \A x \in Successors(f, b) : x > s
  /\ \A b \in f.listed : b < s \/ f.entry = s => b \in Reachable(f)
  /\ \A i \in 1 .. Len(fs) : fs[i].how = "if" => IfSound(f, s, p, fs[i])
  /\ \A i, j \in 1 .. Len(fs) : i # j => Pending(fs[i]) \cap Pending(fs[j]) = {}
  /\ P \cap PendingTo(fs, Len(fs)) = {}
  /\ \A i \in 1 .. Len(fs) : ValuesAt(f, n, fs[i], {p} \cup P \cup PendingTo(fs, i - 1))

LEMMA AwaitingNothing ==
  ASSUME NEW f, NEW n, NEW p, NEW fs, NEW s
  PROVE  Awaiting(f, n, p, {}, fs, s) <=> InProgress(f, n, p, fs, s)
<1>1. ASSUME NEW i \in 1 .. Len(fs)
      PROVE  FrameValues(f, n, p, fs, i) <=> ValuesAt(f, n, fs[i], {p} \cup {} \cup PendingTo(fs, i - 1))
  <2>1. {p} \cup {} \cup PendingTo(fs, i - 1) = {p} \cup PendingTo(fs, i - 1)
    OBVIOUS
  <2> QED BY <2>1 DEF FrameValues, ValuesAt
<1>2. \A b : Successors(f, b) \subseteq f.listed \cup {} \cup PendingTo(fs, Len(fs)) <=>
             Successors(f, b) \subseteq f.listed \cup PendingTo(fs, Len(fs))
  OBVIOUS
<1>3. Awaiting(f, n, p, {}, fs, s) => InProgress(f, n, p, fs, s)
  BY <1>1, <1>2 DEF Awaiting, InProgress, OpenAt
<1>4. InProgress(f, n, p, fs, s) => Awaiting(f, n, p, {}, fs, s)
  BY <1>1, <1>2 DEF Awaiting, InProgress, OpenAt
<1> QED BY <1>3, <1>4

LEMMA AwaitingFrame ==
  ASSUME NEW f, NEW n, NEW p, NEW fr, NEW rest, NEW s, SeqLike(rest), fr.how = "if"
  PROVE  InProgress(f, n, p, <<fr>> \o rest, s) <=>
           /\ Awaiting(f, n, p, Pending(fr), rest, s)
           /\ ValuesAt(f, n, fr, {p})
           /\ IfSound(f, s, p, fr)
<1> DEFINE gs == <<fr>> \o rest
           m == Len(rest)
           P == Pending(fr)
<1>1. /\ Len(gs) = m + 1 /\ gs[1] = fr
      /\ \A j \in 2 .. m + 1 : gs[j] = rest[j - 1]
  BY Prefixed
<1>2. m \in Nat
  BY DEF SeqLike
<1>3. \A i \in 0 .. m : PendingTo(gs, i + 1) = P \cup PendingTo(rest, i)
  BY PendingOfPrefixed
<1>p. PendingTo(rest, m) = UNION {Pending(rest[j]) : j \in 1 .. m}
  BY DEF PendingTo
<1>a. fr.how = "if"
  OBVIOUS
<1> HIDE DEF gs, m, P
<1>4. \A j \in 1 .. m : j + 1 \in 2 .. m + 1 /\ j + 1 \in 1 .. m + 1 /\ (j + 1) - 1 = j /\ gs[j + 1] = rest[j]
  BY <1>1, <1>2
<1>5. \A i \in 1 .. m + 1 : i = 1 \/ (i - 1 \in 1 .. m /\ gs[i] = rest[i - 1])
  BY <1>1, <1>2
<1>6. PendingTo(gs, m + 1) = P \cup PendingTo(rest, m)
  BY <1>2, <1>3
<1>6a. 1 \in 1 .. m + 1 /\ PendingTo(gs, 1 - 1) = {}
  BY <1>2 DEF PendingTo
<1>7. (\A i \in 1 .. m + 1 : gs[i].how = "if" => IfSound(f, s, p, gs[i])) <=>
        /\ \A i \in 1 .. m : rest[i].how = "if" => IfSound(f, s, p, rest[i])
        /\ IfSound(f, s, p, fr)
  BY <1>a, <1>1, <1>4, <1>5, <1>6a
<1>8. (\A i, j \in 1 .. m + 1 : i # j => Pending(gs[i]) \cap Pending(gs[j]) = {}) <=>
        /\ \A i, j \in 1 .. m : i # j => Pending(rest[i]) \cap Pending(rest[j]) = {}
        /\ P \cap PendingTo(rest, m) = {}
  <2>1. ASSUME \A i, j \in 1 .. m + 1 : i # j => Pending(gs[i]) \cap Pending(gs[j]) = {}
        PROVE  /\ \A i, j \in 1 .. m : i # j => Pending(rest[i]) \cap Pending(rest[j]) = {}
               /\ P \cap PendingTo(rest, m) = {}
    <3>1. ASSUME NEW i \in 1 .. m, NEW j \in 1 .. m, i # j
          PROVE  Pending(rest[i]) \cap Pending(rest[j]) = {}
      <4>1. i + 1 # j + 1
        BY <3>1
      <4> QED BY <1>4, <2>1, <3>1, <4>1
    <3>2. ASSUME NEW j \in 1 .. m PROVE P \cap Pending(rest[j]) = {}
      <4>1. 1 # j + 1
        BY <3>2
      <4>2. Pending(gs[1]) \cap Pending(gs[j + 1]) = {}
        BY <1>4, <1>6a, <2>1, <4>1
      <4> QED BY <1>1, <1>4, <4>2 DEF P
    <3> QED BY <3>1, <3>2, <1>p
  <2>2. ASSUME \A i, j \in 1 .. m : i # j => Pending(rest[i]) \cap Pending(rest[j]) = {},
               P \cap PendingTo(rest, m) = {},
               NEW i \in 1 .. m + 1, NEW j \in 1 .. m + 1, i # j
        PROVE  Pending(gs[i]) \cap Pending(gs[j]) = {}
    <3>0. \A k \in 1 .. m : P \cap Pending(rest[k]) = {}
      BY <1>p, <2>2
    <3>1. CASE i = 1
      BY <3>1, <3>0, <1>1, <1>5, <2>2 DEF P
    <3>2. CASE j = 1
      BY <3>2, <3>0, <1>1, <1>5, <2>2 DEF P
    <3>3. CASE i # 1 /\ j # 1
      <4>1. i - 1 # j - 1
        BY <2>2
      <4> QED BY <1>5, <2>2, <3>3, <4>1
    <3> QED BY <3>1, <3>2, <3>3
  <2> QED BY <2>1, <2>2
<1>9. FrameValues(f, n, p, gs, 1) <=> ValuesAt(f, n, fr, {p})
  <2>1. {p} \cup PendingTo(gs, 1 - 1) = {p}
    BY <1>6a
  <2> QED BY <1>1, <2>1 DEF FrameValues, ValuesAt
<1>10. ASSUME NEW i \in 1 .. m
       PROVE  FrameValues(f, n, p, gs, i + 1) <=> ValuesAt(f, n, rest[i], {p} \cup P \cup PendingTo(rest, i - 1))
  <2>1. i - 1 \in 0 .. m /\ (i - 1) + 1 = (i + 1) - 1
    BY <1>2
  <2>2. PendingTo(gs, (i + 1) - 1) = P \cup PendingTo(rest, i - 1)
    BY <1>3, <2>1
  <2>3. gs[i + 1] = rest[i]
    BY <1>4
  <2>4. {p} \cup PendingTo(gs, (i + 1) - 1) = {p} \cup P \cup PendingTo(rest, i - 1)
    BY <2>2
  <2> QED BY <2>3, <2>4 DEF FrameValues, ValuesAt
<1>11. (\A i \in 1 .. m + 1 : FrameValues(f, n, p, gs, i)) <=>
         /\ \A i \in 1 .. m : ValuesAt(f, n, rest[i], {p} \cup P \cup PendingTo(rest, i - 1))
         /\ ValuesAt(f, n, fr, {p})
  <2>1. \A i \in 1 .. m + 1 : i = 1 \/ (i - 1 \in 1 .. m /\ (i - 1) + 1 = i)
    BY <1>2
  <2>2. \A i \in 1 .. m : i + 1 \in 1 .. m + 1
    BY <1>2
  <2> QED BY <1>9, <1>10, <2>1, <2>2, <1>6a
<1>12. \A b : Successors(f, b) \subseteq f.listed \cup (P \cup PendingTo(rest, m)) <=>
              Successors(f, b) \subseteq f.listed \cup P \cup PendingTo(rest, m)
  OBVIOUS
<1>13. OpenAt(f, p, gs, s) <=>
         /\ f.entry \in 1 .. s /\ s \in Blocks(f)
         /\ p \in f.listed /\ p >= s /\ ~Terminated(f, p)
         /\ \A b \in f.listed \ {p} :
              Terminated(f, b) /\ Successors(f, b) \subseteq f.listed \cup P \cup PendingTo(rest, m)
         /\ \A b \in Blocks(f) : b < s => Successors(f, b) \subseteq 1 .. s - 1
         /\ \A b \in Blocks(f) : b >= s => \A x \in Successors(f, b) : x > s
         /\ \A b \in f.listed : b < s \/ f.entry = s => b \in Reachable(f)
         /\ \A i \in 1 .. m : rest[i].how = "if" => IfSound(f, s, p, rest[i])
         /\ IfSound(f, s, p, fr)
         /\ \A i, j \in 1 .. m : i # j => Pending(rest[i]) \cap Pending(rest[j]) = {}
         /\ P \cap PendingTo(rest, m) = {}
  BY <1>1, <1>6, <1>7, <1>8, <1>12, Zenon DEF OpenAt
<1> QED BY <1>1, <1>11, <1>13, Zenon DEF InProgress, Awaiting, gs, m, P

\* The block that is over leads to q and to the blocks of Q, which are all
\* that has been waited for, and new ones.
BranchTo(f, g, p, codes, M, X, P, q, Q, s) ==
  /\ CodePut(f, g, p, codes, M, X) /\ codes[Len(codes)].op \in Terminators
  /\ f.listed \subseteq Blocks(f) /\ g.listed = f.listed \cup {q}
  /\ q \in Blocks(g) \ f.listed /\ q > s /\ ~Terminated(g, q) /\ q \notin Q
  /\ X \subseteq {q} \cup Q /\ M \subseteq {q} /\ \A x \in X : x > s
  /\ P \subseteq {q} \cup Q /\ P \cap f.listed = {} /\ P \subseteq Blocks(f)
  /\ {q} \cup Q \subseteq P \cup (Blocks(g) \ Blocks(f))
  /\ f.entry = s => q \in Reachable(g)

LEMMA Branch ==
  ASSUME NEW f, NEW g, NEW n, NEW p, NEW codes, NEW M, NEW X, NEW P, NEW q, NEW Q, NEW s,
         BranchTo(f, g, p, codes, M, X, P, q, Q, s),
         NEW rest, SeqLike(rest), Awaiting(f, n, p, P, rest, s)
  PROVE  Awaiting(g, n, q, Q, rest, s)
<1> DEFINE m == Len(rest)
           later == Blocks(g) \ Blocks(f)
<1>0. CodePut(f, g, p, codes, M, X)
  BY DEF BranchTo
<1>1. Edited(f, g, p, X) /\ Kept(f, g, X) /\ Terminated(g, p)
  BY <1>0, CodeEdit DEF BranchTo
<1>2. /\ f.listed \subseteq Blocks(f) /\ g.listed = f.listed \cup {q}
      /\ q \in Blocks(g) \ f.listed /\ q > s /\ ~Terminated(g, q) /\ q \notin Q
      /\ X \subseteq {q} \cup Q /\ M \subseteq {q} /\ \A x \in X : x > s
      /\ P \subseteq {q} \cup Q /\ P \cap f.listed = {} /\ P \subseteq Blocks(f)
      /\ {q} \cup Q \subseteq P \cup later
      /\ f.entry = s => q \in Reachable(g)
  BY DEF BranchTo
<1>3. /\ f.entry \in 1 .. s /\ s \in Blocks(f)
      /\ p \in f.listed /\ p >= s /\ ~Terminated(f, p)
      /\ \A b \in f.listed \ {p} :
           Terminated(f, b) /\ Successors(f, b) \subseteq f.listed \cup P \cup PendingTo(rest, m)
      /\ \A b \in Blocks(f) : b < s => Successors(f, b) \subseteq 1 .. s - 1
      /\ \A b \in Blocks(f) : b >= s => \A x \in Successors(f, b) : x > s
      /\ \A b \in f.listed : b < s \/ f.entry = s => b \in Reachable(f)
  BY DEF Awaiting
<1>4. /\ \A i \in 1 .. m : rest[i].how = "if" => IfSound(f, s, p, rest[i])
      /\ \A i, j \in 1 .. m : i # j => Pending(rest[i]) \cap Pending(rest[j]) = {}
      /\ P \cap PendingTo(rest, m) = {}
      /\ \A i \in 1 .. m : ValuesAt(f, n, rest[i], {p} \cup P \cup PendingTo(rest, i - 1))
  BY DEF Awaiting
<1>5. Blocks(f) \subseteq Blocks(g) /\ g.entry = f.entry
  BY <1>1, EditGraph DEF Edited
<1>m. m \in Nat
  BY DEF SeqLike
<1> HIDE DEF m
<1>6. \A b \in f.listed \ {p} : g.blocks[b] = f.blocks[b]
  <2> SUFFICES ASSUME NEW b \in f.listed \ {p} PROVE g.blocks[b] = f.blocks[b]
    OBVIOUS
  <2>1. b \in Blocks(f) \ (M \cup {p})
    BY <1>2
  <2> QED BY <1>0, <2>1 DEF CodePut
<1>7. \A b \in g.listed \ {q} :
        Terminated(g, b) /\ Successors(g, b) \subseteq g.listed \cup Q \cup PendingTo(rest, m)
  <2> SUFFICES ASSUME NEW b \in f.listed
               PROVE  Terminated(g, b) /\ Successors(g, b) \subseteq g.listed \cup Q \cup PendingTo(rest, m)
    BY <1>2
  <2>1. CASE b = p
    <3>1. Successors(g, p) = X
      BY <1>1 DEF Edited
    <3> QED BY <1>1, <1>2, <2>1, <3>1
  <2>2. CASE b # p
    <3>1. Successors(g, b) = Successors(f, b) /\ (Terminated(g, b) <=> Terminated(f, b))
      BY <1>6, <2>2 DEF Successors, Terminated
    <3>2. Terminated(f, b) /\ Successors(f, b) \subseteq f.listed \cup P \cup PendingTo(rest, m)
      BY <1>3, <2>2
    <3> QED BY <1>2, <3>1, <3>2
  <2> QED BY <2>1, <2>2
<1>8. \A b \in Blocks(g) : b < s => Successors(g, b) \subseteq 1 .. s - 1
  <2> SUFFICES ASSUME NEW b \in Blocks(g), b < s PROVE Successors(g, b) \subseteq 1 .. s - 1
    OBVIOUS
  <2>1. b \in Blocks(f)
    <3>1. Len(f.blocks) \in Nat /\ Len(g.blocks) \in Nat
      BY <1>1 DEF Edited, Graph
    <3> QED BY <1>3, <3>1 DEF Blocks
  <2>2. b # p
    BY <1>2, <1>3, <2>1 DEF Blocks
  <2>3. Successors(g, b) = Successors(f, b)
    BY <1>1, <2>1, <2>2 DEF Edited
  <2> QED BY <1>3, <2>1, <2>3
<1>8a. \A b \in Blocks(g) : b >= s => \A x \in Successors(g, b) : x > s
  <2> SUFFICES ASSUME NEW b \in Blocks(g), b >= s PROVE \A x \in Successors(g, b) : x > s
    OBVIOUS
  <2>1. CASE b = p
    BY <1>1, <1>2, <2>1 DEF Edited
  <2>2. CASE b \in Blocks(f) \ {p}
    BY <1>1, <1>3, <2>2 DEF Edited
  <2>3. CASE b \notin Blocks(f)
    BY <1>1, <2>3 DEF Edited
  <2> QED BY <2>1, <2>2, <2>3
<1>9. \A b \in g.listed : b < s \/ g.entry = s => b \in Reachable(g)
  <2>1. Reachable(f) \subseteq Reachable(g)
    BY <1>1, EditReaches DEF Reachable
  <2>2. ~(q < s)
    BY <1>2, <1>3 DEF Blocks
  <2> QED BY <1>2, <1>3, <1>5, <2>1, <2>2
<1>10. PendingTo(rest, m) \cap ({q} \cup Q) = {} /\ PendingTo(rest, m) \subseteq Blocks(f)
  <2>1. PendingTo(rest, m) \subseteq Blocks(f)
    <3> SUFFICES ASSUME NEW b \in PendingTo(rest, m) PROVE b \in Blocks(f)
      OBVIOUS
    <3>1. PICK j \in 1 .. m : b \in Pending(rest[j])
      BY DEF PendingTo
    <3>2. rest[j].how = "if"
      BY <3>1 DEF Pending
    <3> QED BY <1>4, <3>1, <3>2 DEF IfSound
  <2> QED BY <1>2, <1>4, <2>1
<1>11. ASSUME NEW i \in 1 .. m, rest[i].how = "if" PROVE IfSound(g, s, q, rest[i])
  <2>1. Pending(rest[i]) \subseteq PendingTo(rest, m)
    BY DEF PendingTo
  <2>2. Pending(rest[i]) \cap (X \cup M \cup {q}) = {}
    BY <1>2, <1>10, <2>1
  <2>3. IfSound(f, s, p, rest[i])
    BY <1>4, <1>11
  <2> QED BY <1>0, <1>2, <1>3, <1>11, <2>2, <2>3, OtherIf
<1>12. ASSUME NEW i \in 1 .. m
       PROVE  ValuesAt(g, n, rest[i], {q} \cup Q \cup PendingTo(rest, i - 1))
  <2> DEFINE B == {p} \cup P \cup PendingTo(rest, i - 1)
             C == {q} \cup Q \cup PendingTo(rest, i - 1)
  <2>1. ValuesAt(f, n, rest[i], B)
    BY <1>4
  <2>2. PendingTo(rest, i - 1) \subseteq PendingTo(rest, m)
    BY <1>m DEF PendingTo
  <2>3. B \subseteq Blocks(f) /\ p \in B /\ C \subseteq B \cup later
    BY <1>2, <1>3, <1>10, <2>2
  <2> HIDE DEF B, C
  <2>4. ASSUME rest[i].how # "if", NEW k \in 1 .. Len(rest[i].values)
        PROVE  Computed(g, n, rest[i].values[k], C)
    <3>1. Computed(f, n, rest[i].values[k], B)
      BY <2>1, <2>4 DEF ValuesAt
    <3>2. Computed(g, n, rest[i].values[k], B \cup later)
      BY <1>1, <2>3, <3>1, EditComputed
    <3> QED BY <2>3, <3>2 DEF Computed
  <2>5. ASSUME rest[i].how = "if", Len(rest[i].values) = 2
        PROVE  /\ Computed(g, n, rest[i].values[2], {rest[i].blocks[1]})
               /\ rest[i].values[2].kind = "result" /\ rest[i].values[2].block = rest[i].blocks[1] =>
                    rest[i].values[2].at < Len(g.blocks[rest[i].blocks[1]])
    <3> DEFINE t == rest[i].blocks[1]
               D == {t}
    <3>1. IfSound(f, s, p, rest[i])
      BY <1>4, <2>5
    <3>2. t \in f.listed \ {p}
      BY <2>5, <3>1 DEF IfSound
    <3>3. g.blocks[t] = f.blocks[t]
      BY <1>6, <3>2
    <3>4. Computed(f, n, rest[i].values[2], D)
      BY <2>1, <2>5 DEF ValuesAt
    <3>5. D \cap X = {} /\ D \subseteq Blocks(f)
      BY <1>2, <3>2
    <3>6. D \cap X = {} => Computed(g, n, rest[i].values[2], D)
      <4> HIDE DEF D
      <4> QED BY <1>1, <3>4, <3>5, EditComputed
    <3> QED BY <2>1, <2>5, <3>3, <3>5, <3>6 DEF ValuesAt
  <2> QED BY <2>1, <2>4, <2>5 DEF ValuesAt, C
<1>13. Q \cap PendingTo(rest, m) = {}
  BY <1>10
<1>14. g.entry \in 1 .. s /\ s \in Blocks(g) /\ q \in g.listed /\ q >= s /\ ~Terminated(g, q)
  BY <1>2, <1>3, <1>5 DEF Blocks
<1> QED BY <1>4, <1>7, <1>8, <1>8a, <1>9, <1>11, <1>12, <1>13, <1>14 DEF Awaiting, m

-----------------------------------------------------------------------------
(* The operands of new code.                                               *)

LEMMA AppendIsConcat ==
  ASSUME NEW s, NEW e, SeqLike(s)
  PROVE  Append(s, e) = s \o <<e>> /\ SeqLike(<<e>>) /\ Len(<<e>>) = 1 /\ <<e>>[1] = e
<1> DEFINE S == {s[i] : i \in 1 .. Len(s)} \cup {e}
<1>1. s \in Seq({s[i] : i \in 1 .. Len(s)})
  BY SeqLikeIsSeq
<1>2. s \in Seq(S) /\ e \in S
  BY <1>1
<1> HIDE DEF S
<1>3. Append(s, e) = s \o <<e>>
  BY <1>2
<1> QED BY <1>3 DEF SeqLike

\* A value that can be used at the end of the block can be used in the code.
LEMMA OperandUsable ==
  ASSUME NEW f, NEW g, NEW p, NEW codes, NEW M, NEW X, CodePut(f, g, p, codes, M, X),
         NEW n, NEW v, Computed(f, n, v, {p}),
         NEW i \in 1 .. Len(codes), NEW k, codes[i].args[k] = v, codes[i].op # "phi"
  PROVE  Usable(g, n, codes[i], k, p, Len(f.blocks[p]) + i)
<1> SUFFICES ASSUME v.kind = "result" PROVE Usable(g, n, codes[i], k, p, Len(f.blocks[p]) + i)
  BY DEF Usable, Computed
<1>1. Edited(f, g, p, X) /\ Kept(f, g, X)
  BY CodeEdit
<1>2. p \in Blocks(f) /\ p \notin X
  BY <1>1 DEF Edited
<1> DEFINE B == {p}
<1>3. B \subseteq Blocks(f) /\ B \cap X = {} /\ Computed(f, n, v, B)
  BY <1>2
<1> HIDE DEF B
<1>4. B \cap X = {} => Computed(g, n, v, B)
  BY <1>1, <1>3, EditComputed
<1>5. Computed(g, n, v, {p})
  BY <1>3, <1>4 DEF B
<1>6. v.of = n /\ v.block \in Blocks(g) /\ v.at \in Nat /\ Dominates(g, v.block, p)
  BY <1>5 DEF Computed
<1>7. v.block = p => v.at \in 1 .. Len(f.blocks[p])
  BY DEF Computed
<1> DEFINE l == Len(f.blocks[p])
           at == v.at
<1>8. l \in Nat /\ Len(codes) \in Nat
  BY CodeAtEnd
<1>9. v.block = p => at < l + i
  <2> SUFFICES ASSUME v.block = p PROVE at < l + i
    OBVIOUS
  <2>1. at \in 1 .. l
    BY <1>7
  <2> HIDE DEF at, l
  <2> QED BY <1>8, <2>1
<1>10. ComputedBefore(g, v, p, l + i)
  BY <1>6, <1>9 DEF ComputedBefore
<1> QED BY <1>6, <1>10 DEF Usable

\* The result of an instruction can be used in the ones that follow.
LEMMA ResultUsable ==
  ASSUME NEW f, NEW g, NEW p, NEW codes, NEW M, NEW X, CodePut(f, g, p, codes, M, X),
         NEW n, NEW type, NEW i \in 1 .. Len(codes), NEW j \in 1 .. Len(codes), j < i,
         NEW k, codes[i].args[k] = Result(n, p, Len(f.blocks[p]) + j, type), codes[i].op # "phi"
  PROVE  Usable(g, n, codes[i], k, p, Len(f.blocks[p]) + i)
<1> DEFINE l == Len(f.blocks[p])
           v == Result(n, p, l + j, type)
<1>1. l \in Nat /\ Len(codes) \in Nat
  BY CodeAtEnd
<1>2. p \in Blocks(g)
  <2>1. Edited(f, g, p, X)
    BY CodeEdit
  <2> QED BY <2>1, EditGraph DEF Edited
<1>3. v.kind = "result" /\ v.of = n /\ v.block = p /\ v.at = l + j
  BY DEF Result, Value
<1>4. l + j \in Nat /\ l + j < l + i
  BY <1>1
<1>5. ComputedBefore(g, v, p, l + i)
  <2> HIDE DEF v, l
  <2> QED BY <1>3, <1>4 DEF ComputedBefore
<1>6. codes[i].args[k] = v
  OBVIOUS
<1> HIDE DEF v, l
<1>7. Usable(g, n, codes[i], k, p, l + i)
  BY <1>2, <1>3, <1>4, <1>5, <1>6 DEF Usable
<1> QED BY <1>7 DEF l

LEMMA FixedUsable ==
  ASSUME NEW g, NEW n, NEW code, NEW k, NEW b, NEW i, Fixed(n, code.args[k])
  PROVE  Usable(g, n, code, k, b, i)
BY DEF Usable, Fixed

LEMMA FixedComputed ==
  ASSUME NEW f, NEW n, NEW v, NEW B, Fixed(n, v)
  PROVE  Computed(f, n, v, B)
BY DEF Computed, Fixed

LEMMA ResultComputed ==
  ASSUME NEW g, NEW n, NEW b, NEW at, NEW type, Graph(g), b \in Blocks(g), at \in 1 .. Len(g.blocks[b])
  PROVE  Computed(g, n, Result(n, b, at, type), {b})
<1>1. b \notin ReachableAvoiding(g, {b})
  BY ReachableIsClosed
<1> QED BY <1>1 DEF Computed, Result, Value, Dominates


-----------------------------------------------------------------------------
(* What a call can run.                                                    *)

\* Control goes the same ways where the blocks that are reached lead to the
\* same blocks.
LEMMA SameWays ==
  ASSUME NEW f, NEW g, Graph(f), Graph(g), g.entry = f.entry, NEW A,
         \A b \in ReachableAvoiding(f, A) : Successors(g, b) = Successors(f, b)
  PROVE  ReachableAvoiding(g, A) = ReachableAvoiding(f, A)
<1> DEFINE F == ReachableAvoiding(f, A)
           G == ReachableAvoiding(g, A)
           S == F \cap G
<1>1. f.entry \in F \cup A /\ \A b \in F : Successors(f, b) \subseteq F \cup A
  BY ReachableIsClosed
<1>2. g.entry \in G \cup A /\ \A b \in G : Successors(g, b) \subseteq G \cup A
  BY ReachableIsClosed
<1>3. Len(f.blocks) \in Nat /\ Len(g.blocks) \in Nat
  BY DEF Graph
<1>4. \A b \in F : Successors(g, b) = Successors(f, b)
  OBVIOUS
<1> HIDE DEF F, G
<1>5. G \subseteq F
  <2>1. g.entry \in F \cup A /\ \A b \in F : Successors(g, b) \subseteq F \cup A
    BY <1>1, <1>4
  <2> QED BY <1>3, <2>1, ReachableIsLeast DEF G
<1>6. F \subseteq S
  <2>1. f.entry \in S \cup A /\ \A b \in S : Successors(f, b) \subseteq S \cup A
    BY <1>1, <1>2, <1>4
  <2> HIDE DEF S
  <2> QED BY <1>3, <2>1, ReachableIsLeast DEF F
<1> QED BY <1>5, <1>6 DEF F, G

\* A function that can be called goes on to do what it did.
Frozen(f, g) == Complete(f) => RunnableCode(g) = RunnableCode(f)

LEMMA SameCode ==
  ASSUME NEW f, NEW g, Graph(f), Graph(g), g.entry = f.entry,
         \A b \in Reachable(f) : g.blocks[b] = f.blocks[b]
  PROVE  Reachable(g) = Reachable(f) /\ Frozen(f, g)
<1>1. \A b \in Reachable(f) : Successors(g, b) = Successors(f, b)
  BY DEF Successors, Terminated
<1>2. Reachable(g) = Reachable(f)
  BY <1>1, SameWays DEF Reachable
<1> QED BY <1>2 DEF Frozen, RunnableCode

LEMMA CodeFrozen ==
  ASSUME NEW f, NEW g, NEW p, NEW codes, NEW M, NEW X, CodePut(f, g, p, codes, M, X),
         NEW fs, NEW s, OpenAt(f, p, fs, s), f.listed \subseteq Blocks(f), \A m \in M : m > s
  PROVE  Frozen(f, g)
<1>1. /\ f.entry \in 1 .. s /\ s \in Blocks(f) /\ p \in f.listed /\ p >= s /\ ~Terminated(f, p)
      /\ \A b \in Blocks(f) : b < s => Successors(f, b) \subseteq 1 .. s - 1
      /\ \A b \in f.listed : b < s \/ f.entry = s => b \in Reachable(f)
  BY DEF OpenAt
<1>2. Graph(f) /\ Graph(g) /\ g.entry = f.entry /\ Len(f.blocks) \in Nat
  <2>1. Edited(f, g, p, X)
    BY CodeEdit
  <2>2. Graph(g)
    BY <2>1, EditGraph
  <2> QED BY <2>1, <2>2 DEF Edited, Graph
<1>3. CASE f.entry = s
  BY <1>1, <1>3 DEF Frozen, Complete
<1>4. CASE f.entry # s
  <2> DEFINE S == 1 .. s - 1
  <2>1. s \in Nat /\ s <= Len(f.blocks) /\ f.entry \in S /\ S \subseteq Blocks(f)
    BY <1>1, <1>2, <1>4 DEF Blocks
  <2>2. \A b \in S : Successors(f, b) \subseteq S
    BY <1>1, <2>1
  <2>3. Reachable(f) \subseteq S
    <3> HIDE DEF S
    <3>1. f.entry \in S \cup {} /\ \A b \in S : Successors(f, b) \subseteq S \cup {}
      BY <2>1, <2>2
    <3> QED BY <1>2, <3>1, ReachableIsLeast DEF Reachable
  <2>4. \A b \in S : b \in Blocks(f) \ (M \cup {p})
    BY <1>1, <2>1 DEF Blocks
  <2>5. \A b \in S : g.blocks[b] = f.blocks[b]
    BY <2>4 DEF CodePut
  <2> QED BY <1>2, <2>3, <2>5, SameCode
<1> QED BY <1>3, <1>4


-----------------------------------------------------------------------------
(* The three edits of if_generic.                                          *)

\* The function with other blocks.
Grown(f, blocks, listed) ==
  [name |-> f.name, type |-> f.type, params |-> f.params, blocks |-> blocks,
   entry |-> f.entry, listed |-> listed]

Replaced(s, p, e) == [s EXCEPT ![p] = e]

LEMMA Updated ==
  ASSUME NEW s, SeqLike(s), NEW p \in 1 .. Len(s), NEW e
  PROVE  /\ SeqLike(Replaced(s, p, e)) /\ Len(Replaced(s, p, e)) = Len(s)
         /\ Replaced(s, p, e)[p] = e
         /\ \A b \in 1 .. Len(s) : b # p => Replaced(s, p, e)[b] = s[b]
<1> DEFINE S == {s[i] : i \in 1 .. Len(s)} \cup {e}
           t == [s EXCEPT ![p] = e]
<1>1. s \in Seq({s[i] : i \in 1 .. Len(s)})
  BY SeqLikeIsSeq
<1>2. s \in Seq(S) /\ e \in S
  BY <1>1
<1> HIDE DEF S
<1>3. t \in Seq(S) /\ Len(t) = Len(s)
  BY <1>2
<1>4. SeqLike(t)
  <2> HIDE DEF t
  <2> QED BY <1>3, SeqIsSeqLike
<1>5. t[p] = e /\ \A b \in 1 .. Len(s) : b # p => t[b] = s[b]
  BY <1>2
<1> QED BY <1>3, <1>4, <1>5 DEF Replaced

LEMMA GrownFunction ==
  ASSUME NEW f, NEW B, NEW L, SeqLike(B), \A b \in 1 .. Len(B) : SeqLike(B[b])
  PROVE  /\ IsFunction(Grown(f, B, L))
         /\ Grown(f, B, L).blocks = B /\ Grown(f, B, L).listed = L
         /\ Grown(f, B, L).entry = f.entry
BY DEF Grown, IsFunction, Blocks

\* The blocks with code at the end of one of them.
WithCode(f, p, codes) == [f.blocks EXCEPT ![p] = @ \o codes]

LEMMA CodeAdded ==
  ASSUME NEW f, IsFunction(f), NEW p \in Blocks(f), NEW codes, SeqLike(codes)
  PROVE  /\ SeqLike(WithCode(f, p, codes)) /\ Len(WithCode(f, p, codes)) = Len(f.blocks)
         /\ WithCode(f, p, codes)[p] = f.blocks[p] \o codes
         /\ \A b \in Blocks(f) : b # p => WithCode(f, p, codes)[b] = f.blocks[b]
         /\ \A b \in Blocks(f) : SeqLike(WithCode(f, p, codes)[b])
<1>1. SeqLike(f.blocks) /\ \A b \in Blocks(f) : SeqLike(f.blocks[b])
  BY DEF IsFunction
<1>2. p \in 1 .. Len(f.blocks)
  BY DEF Blocks
<1> DEFINE e == f.blocks[p] \o codes
           t == Replaced(f.blocks, p, e)
<1>3. SeqLike(e)
  BY <1>1, Concatenated
<1>4. /\ SeqLike(t) /\ Len(t) = Len(f.blocks) /\ t[p] = e
      /\ \A b \in 1 .. Len(f.blocks) : b # p => t[b] = f.blocks[b]
  <2> HIDE DEF e
  <2> QED BY <1>1, <1>2, Updated
<1>5. WithCode(f, p, codes) = t
  BY DEF WithCode, Replaced
<1> HIDE DEF e, t
<1>6. \A b \in Blocks(f) : SeqLike(t[b])
  BY <1>1, <1>3, <1>4 DEF Blocks
<1> QED BY <1>4, <1>5, <1>6 DEF Blocks, e

Opened(f, n, p, fs, s) == Sound(f, n) /\ InProgress(f, n, p, fs, s)

LEMMA OpenedFacts ==
  ASSUME NEW f, NEW n, NEW p, NEW fs, NEW s, Opened(f, n, p, fs, s)
  PROVE  /\ IsFunction(f) /\ Graph(f) /\ Len(f.blocks) \in Nat /\ f.listed \subseteq Blocks(f)
         /\ p \in f.listed /\ p \in Blocks(f) /\ ~Terminated(f, p)
         /\ s \in Blocks(f) /\ f.entry \in f.listed
         /\ f.entry = s => p \in Reachable(f)
<1>1. Sound(f, n) /\ OpenAt(f, p, fs, s)
  BY DEF Opened, InProgress
<1>2. s \in Blocks(f) /\ p \in f.listed /\ ~Terminated(f, p) /\ (f.entry = s => p \in Reachable(f))
  BY <1>1 DEF OpenAt
<1>3. f.blocks # <<>>
  BY <1>2 DEF Blocks
<1> QED BY <1>1, <1>2, <1>3 DEF Sound, Graph

\* The condition: the block ends in a branch to two of three new blocks.
ConditionCode(f, n, p, v) ==
  <<Instruction("istrue", Bool, <<v>>, <<>>, 0),
    Instruction("condbr", Bool, <<Result(n, p, Len(f.blocks[p]) + 1, Bool)>>,
                <<Len(f.blocks) + 1, Len(f.blocks) + 2>>, 0)>>
ConditionPut(f, n, p, v) ==
  Grown(f, WithCode(f, p, ConditionCode(f, n, p, v)) \o <<<<>>, <<>>, <<>>>>,
        f.listed \cup {Len(f.blocks) + 1})

LEMMA ConditionEdit ==
  ASSUME NEW f, NEW n, NEW p, NEW fr, NEW rest, NEW s, SeqLike(rest),
         Opened(f, n, p, <<fr>> \o rest, s), fr.how = "if", Len(fr.values) = 0,
         NEW v, Computed(f, n, v, {p}),
         NEW g, g = ConditionPut(f, n, p, v), NEW new, new = Len(f.blocks),
         NEW fr2, fr2.how = "if", fr2.callee = fr.callee, Len(fr2.values) = 1,
         fr2.blocks = <<new + 1, new + 2, new + 3>>
  PROVE  Opened(g, n, new + 1, <<fr2>> \o rest, s) /\ Frozen(f, g)
<1> DEFINE X == {new + 1, new + 2}
           Q == {new + 2, new + 3}
           q == new + 1
           codes == ConditionCode(f, n, p, v)
           W == WithCode(f, p, codes)
           E == <<<<>>, <<>>, <<>>>>
           B == W \o E
<1>1. /\ IsFunction(f) /\ Graph(f) /\ new \in Nat /\ f.listed \subseteq Blocks(f)
      /\ p \in f.listed /\ p \in Blocks(f) /\ ~Terminated(f, p)
      /\ s \in Blocks(f) /\ (f.entry = s => p \in Reachable(f))
  BY OpenedFacts
<1>2. /\ SeqLike(codes) /\ Len(codes) = 2
      /\ codes[1].op = "istrue" /\ codes[1].args = <<v>>
      /\ codes[2].op = "condbr" /\ codes[2].to = <<new + 1, new + 2>>
      /\ codes[2].args = <<Result(n, p, Len(f.blocks[p]) + 1, Bool)>>
  BY DEF SeqLike, Instruction, ConditionCode
<1> HIDE DEF W, codes
<1>3. /\ SeqLike(W) /\ Len(W) = new /\ W[p] = f.blocks[p] \o codes
      /\ \A b \in Blocks(f) : b # p => W[b] = f.blocks[b]
      /\ \A b \in Blocks(f) : SeqLike(W[b])
  <2>1. SeqLike(codes)
    BY <1>2
  <2> QED BY <1>1, <2>1, CodeAdded DEF W
<1>4. SeqLike(E) /\ Len(E) = 3 /\ E[1] = <<>> /\ E[2] = <<>> /\ E[3] = <<>>
  BY DEF SeqLike
<1>e. \A i \in 1 .. 3 : E[i] = <<>>
  OBVIOUS
<1> HIDE DEF E
<1>5. /\ SeqLike(B) /\ Len(B) = new + 3
      /\ \A i \in 1 .. new : B[i] = W[i]
      /\ \A i \in 1 .. 3 : B[new + i] = <<>>
  <2>0. SeqLike(W) /\ SeqLike(E)
    BY <1>3, <1>4
  <2>1. /\ SeqLike(W \o E) /\ Len(W \o E) = Len(W) + Len(E)
        /\ \A i \in 1 .. Len(W) : (W \o E)[i] = W[i]
        /\ \A i \in 1 .. Len(E) : (W \o E)[Len(W) + i] = E[i]
    BY <2>0, Concatenated
  <2> QED BY SMTT(60), <2>1, <1>3, <1>4, <1>e
<1> HIDE DEF B
<1>6. Blocks(f) = 1 .. new
  BY DEF Blocks
<1>7. \A b \in 1 .. new + 3 : SeqLike(B[b]) /\ (b \notin 1 .. new => B[b] = <<>>)
  <2> SUFFICES ASSUME NEW b \in 1 .. new + 3
               PROVE  SeqLike(B[b]) /\ (b \notin 1 .. new => B[b] = <<>>)
    OBVIOUS
  <2>1. CASE b \in 1 .. new
    BY <1>3, <1>5, <1>6, <2>1
  <2>2. CASE b \notin 1 .. new
    <3>1. b - new \in 1 .. 3 /\ new + (b - new) = b
      BY <1>1, <2>2
    <3>2. B[b] = <<>>
      BY <1>5, <3>1
    <3>3. SeqLike(<<>>)
      BY DEF SeqLike
    <3> QED BY <3>2, <3>3
  <2> QED BY <2>1, <2>2
<1>8. /\ IsFunction(g) /\ g.blocks = B /\ g.listed = f.listed \cup {q} /\ g.entry = f.entry
  <2>1. g = Grown(f, B, f.listed \cup {q})
    BY DEF B, W, E, codes, ConditionPut
  <2> QED BY <2>1, <1>5, <1>7, GrownFunction
<1>9. Blocks(g) = 1 .. new + 3
  BY <1>5, <1>8 DEF Blocks
<1>10. CodePut(f, g, p, codes, {}, X)
  <2>1. Elements(codes[2].to) = X
    <3> DEFINE to == codes[2].to
    <3>1. Len(to) = 2 /\ to[1] = new + 1 /\ to[2] = new + 2
      BY <1>2
    <3> HIDE DEF to
    <3>2. Elements(to) = {to[1], to[2]}
      BY <3>1 DEF Elements
    <3> QED BY <3>1, <3>2 DEF to
  <2>2. X = IF codes[Len(codes)].op \in Terminators THEN Elements(codes[Len(codes)].to) ELSE {}
    BY <1>2, <2>1 DEF Terminators
  <2>3. X \subseteq Blocks(g) \ {p} /\ X \cap Blocks(f) = {}
    BY <1>1, <1>6, <1>9
  <2>4. Len(f.blocks) <= Len(g.blocks) /\ Len(codes) > 0
    BY <1>1, <1>2, <1>5, <1>8
  <2>5. g.blocks[p] = f.blocks[p] \o codes
    BY <1>1, <1>3, <1>5, <1>6, <1>8
  <2>6. \A b \in Blocks(f) \ ({} \cup {p}) : g.blocks[b] = f.blocks[b]
    BY <1>3, <1>5, <1>6, <1>8
  <2>7. \A b \in Blocks(g) \ Blocks(f) : g.blocks[b] = <<>>
    BY <1>6, <1>7, <1>8, <1>9
  <2> QED BY <1>1, <1>2, <1>8, <2>2, <2>3, <2>4, <2>5, <2>6, <2>7 DEF CodePut
<1>11. Edited(f, g, p, X) /\ Kept(f, g, X)
  BY <1>10, CodeEdit
<1>12. q \in Blocks(g) \ Blocks(f) /\ {q} \cup Q \subseteq Blocks(g) \ Blocks(f)
  BY <1>1, <1>6, <1>9
<1>13. g.blocks[q] = <<>>
  BY <1>7, <1>8, <1>12, <1>6, <1>9
<1>14. Sound(g, n)
  <2>1. Straight(codes)
    <3> SUFFICES ASSUME NEW i \in 1 .. Len(codes)
                 PROVE  (codes[i].op \in Terminators => i = Len(codes)) /\ codes[i].op # "phi"
      BY DEF Straight
    <3>1. i = 1 \/ i = 2
      BY <1>2
    <3> QED BY <1>2, <3>1 DEF Terminators
  <2>2. \A i \in 1 .. Len(codes) : \A k \in 1 .. Len(codes[i].args) :
          Usable(g, n, codes[i], k, p, Len(f.blocks[p]) + i)
    <3> SUFFICES ASSUME NEW i \in 1 .. Len(codes), NEW k \in 1 .. Len(codes[i].args)
                 PROVE  Usable(g, n, codes[i], k, p, Len(f.blocks[p]) + i)
      OBVIOUS
    <3>1. CASE i = 1
      <4>1. codes[i].args[k] = v /\ codes[i].op # "phi"
        BY <1>2, <3>1
      <4> QED BY <1>10, <4>1, OperandUsable
    <3>2. CASE i = 2
      <4>1. codes[i].args[k] = Result(n, p, Len(f.blocks[p]) + 1, Bool) /\ codes[i].op # "phi"
        BY <1>2, <3>2
      <4>2. 1 \in 1 .. Len(codes) /\ 1 < i
        BY <1>2, <3>2
      <4> QED BY <1>10, <4>1, <4>2, ResultUsable
    <3> QED BY <1>2, <3>1, <3>2
  <2>3. \A b \in g.listed \ f.listed : PhiMatches(g, b)
    BY <1>8, <1>13 DEF PhiMatches
  <2>4. /\ f.listed \subseteq g.listed /\ g.listed \subseteq Blocks(g) /\ X \cap f.listed = {}
        /\ {} \cap f.listed = {}
        /\ \A a \in g.listed \ f.listed : a \in Blocks(f) => f.blocks[a] = <<>>
    <3>1. Blocks(f) \subseteq Blocks(g)
      BY <1>11, EditGraph
    <3> QED BY <1>1, <1>6, <1>8, <1>12, <3>1
  <2>5. Sound(f, n)
    BY DEF Opened
  <2> QED BY <1>1, <1>10, <2>1, <2>2, <2>3, <2>4, <2>5, CodeSound
<1>15. Awaiting(f, n, p, {}, rest, s) /\ Fixed(n, fr.callee)
  <2>1. Pending(fr) = {}
    BY DEF Pending
  <2>2. InProgress(f, n, p, <<fr>> \o rest, s)
    BY DEF Opened
  <2> QED BY <2>1, <2>2, AwaitingFrame DEF ValuesAt
<1>16. f.entry = s => q \in Reachable(g) /\ new + 2 \in Reachable(g)
  <2>1. Reachable(f) \subseteq Reachable(g)
    BY <1>11, EditReaches DEF Reachable
  <2>2. Graph(g) /\ Successors(g, p) = X
    <3>1. Graph(g)
      BY <1>11, EditGraph
    <3> QED BY <3>1, <1>11 DEF Edited
  <2>3. p \in Reachable(g) => X \subseteq Reachable(g)
    BY <2>2, ReachableIsClosed DEF Reachable
  <2> QED BY <1>1, <2>1, <2>3
<1>17. BranchTo(f, g, p, codes, {}, X, {}, q, Q, s)
  <2>1. codes[Len(codes)].op \in Terminators
    BY <1>2 DEF Terminators
  <2>2. q > s /\ q \notin Q /\ X \subseteq {q} \cup Q /\ \A x \in X : x > s
    BY <1>1, <1>6
  <2>3. ~Terminated(g, q)
    BY <1>13 DEF Terminated
  <2>4. q \notin f.listed
    BY <1>1, <1>12
  <2> QED BY <1>1, <1>8, <1>10, <1>12, <1>16, <2>1, <2>2, <2>3, <2>4 DEF BranchTo
<1>18. Awaiting(g, n, q, Q, rest, s)
  BY <1>15, <1>17, Branch
<1>19. Pending(fr2) = Q
  BY DEF Pending
<1>c. q = new + 1 /\ Q = {new + 2, new + 3} /\ X = {new + 1, new + 2}
  OBVIOUS
<1> HIDE DEF Q, X, q
<1>20. ValuesAt(g, n, fr2, {q})
  BY <1>15 DEF ValuesAt
<1>21. IfSound(g, s, q, fr2)
  <2>1. \A b \in Q : b \in Blocks(g) \ g.listed /\ b > s /\ g.blocks[b] = <<>>
    <3>1. \A b \in Q : b \in Blocks(g) /\ b \notin Blocks(f) /\ b # q /\ b > s
      BY SMTT(60), <1>1, <1>6, <1>9, <1>c
    <3> QED BY <3>1, <1>1, <1>6, <1>7, <1>8, <1>9
  <2>2. BlocksInto(g, new + 3) = {}
    <3>1. \A a \in Blocks(g) : new + 3 \notin Successors(g, a)
      <4> TAKE a \in Blocks(g)
      <4>1. CASE a = p
        BY <1>1, <1>11, <1>c, <4>1 DEF Edited
      <4>2. CASE a \in Blocks(f) \ {p}
        <5>1. Successors(g, a) \subseteq Blocks(f)
          BY <1>11, <4>2 DEF Edited, Graph
        <5> QED BY <1>12, <1>c, <5>1
      <4>3. CASE a \notin Blocks(f)
        BY <1>11, <4>3 DEF Edited
      <4> QED BY <4>1, <4>2, <4>3
    <3> QED BY <3>1 DEF BlocksInto
  <2>3. Len(fr2.values) \in 0 .. 2 /\ fr2.blocks[2] = new + 2 /\ fr2.blocks[3] = new + 3 /\ new + 2 # new + 3
    BY <1>1
  <2> QED BY <1>c, <1>8, <1>16, <1>19, <2>1, <2>2, <2>3 DEF IfSound
<1>22. InProgress(g, n, q, <<fr2>> \o rest, s)
  BY <1>18, <1>19, <1>20, <1>21, AwaitingFrame
<1>z. Frozen(f, g)
  <2>1. OpenAt(f, p, <<fr>> \o rest, s)
    BY DEF Opened, InProgress
  <2>2. \A x \in {} : x > s
    OBVIOUS
  <2> QED BY <1>1, <1>10, <2>1, <2>2, CodeFrozen
<1> QED BY <1>14, <1>22, <1>c, <1>z DEF Opened

\* The end of the then branch: its block leads to merge, the code goes on in
\* the else block.
BranchCode(m) == <<Instruction("br", Bool, <<>>, <<m>>, 0)>>

LEMMA BranchCodeFacts ==
  ASSUME NEW m
  PROVE  /\ SeqLike(BranchCode(m)) /\ Len(BranchCode(m)) = 1 /\ Straight(BranchCode(m))
         /\ BranchCode(m)[Len(BranchCode(m))].op \in Terminators
         /\ Elements(BranchCode(m)[Len(BranchCode(m))].to) = {m}
         /\ \A i \in 1 .. Len(BranchCode(m)) : BranchCode(m)[i].args = <<>>
<1> DEFINE c == BranchCode(m)
<1>1. SeqLike(c) /\ Len(c) = 1 /\ c[1] = Instruction("br", Bool, <<>>, <<m>>, 0)
  BY DEF BranchCode, SeqLike
<1> HIDE DEF c
<1>2. c[1].op = "br" /\ c[1].args = <<>> /\ c[1].to = <<m>>
  BY <1>1 DEF Instruction
<1>3. Straight(c)
  BY <1>1, <1>2 DEF Straight, Terminators
<1>4. Elements(c[1].to) = {m}
  BY <1>2 DEF Elements
<1>5. \A i \in 1 .. Len(c) : c[i].args = <<>>
  BY <1>1, <1>2
<1>6. c[Len(c)].op \in Terminators
  BY <1>1, <1>2 DEF Terminators
<1> QED BY <1>1, <1>3, <1>4, <1>5, <1>6 DEF c

ThenPut(f, p, m, e) == Grown(f, WithCode(f, p, BranchCode(m)), f.listed \cup {e})

LEMMA ThenEdit ==
  ASSUME NEW f, NEW n, NEW p, NEW fr, NEW rest, NEW s, SeqLike(rest),
         Opened(f, n, p, <<fr>> \o rest, s), fr.how = "if", Len(fr.values) = 1,
         NEW v, Computed(f, n, v, {p}),
         NEW e, e = fr.blocks[2], NEW m, m = fr.blocks[3],
         NEW g, g = ThenPut(f, p, m, e),
         NEW fr2, fr2.how = "if", fr2.callee = fr.callee, Len(fr2.values) = 2,
         fr2.values[2] = v, fr2.blocks[1] = p, fr2.blocks[3] = m
  PROVE  Opened(g, n, e, <<fr2>> \o rest, s) /\ Frozen(f, g)
<1> DEFINE codes == BranchCode(m)
           X == {m}
           P == {e, m}
           B == WithCode(f, p, codes)
<1>1. /\ IsFunction(f) /\ Graph(f) /\ Len(f.blocks) \in Nat /\ f.listed \subseteq Blocks(f)
      /\ p \in f.listed /\ p \in Blocks(f) /\ ~Terminated(f, p)
      /\ s \in Blocks(f) /\ (f.entry = s => p \in Reachable(f))
  BY OpenedFacts
<1>2. /\ SeqLike(codes) /\ Len(codes) = 1 /\ Straight(codes)
      /\ codes[Len(codes)].op \in Terminators /\ Elements(codes[Len(codes)].to) = X
      /\ \A i \in 1 .. Len(codes) : codes[i].args = <<>>
  BY BranchCodeFacts
<1> HIDE DEF codes
<1>3. /\ Awaiting(f, n, p, Pending(fr), rest, s) /\ ValuesAt(f, n, fr, {p}) /\ IfSound(f, s, p, fr)
  <2>1. InProgress(f, n, p, <<fr>> \o rest, s)
    BY DEF Opened
  <2> QED BY <2>1, AwaitingFrame
<1>4. Pending(fr) = P
  BY DEF Pending
<1>5. /\ e \in Blocks(f) \ f.listed /\ e > s /\ f.blocks[e] = <<>>
      /\ m \in Blocks(f) \ f.listed /\ m > s /\ f.blocks[m] = <<>>
      /\ e # m /\ BlocksInto(f, m) = {} /\ (f.entry = s => e \in Reachable(f))
  BY <1>3, <1>4 DEF IfSound
<1>6. /\ SeqLike(B) /\ Len(B) = Len(f.blocks) /\ B[p] = f.blocks[p] \o codes
      /\ \A b \in Blocks(f) : b # p => B[b] = f.blocks[b]
      /\ \A b \in Blocks(f) : SeqLike(B[b])
  <2>1. SeqLike(codes)
    BY <1>2
  <2> QED BY <1>1, <2>1, CodeAdded
<1>7. g = Grown(f, B, f.listed \cup {e})
  BY DEF codes, ThenPut
<1> HIDE DEF B
<1>8. /\ IsFunction(g) /\ g.blocks = B /\ g.listed = f.listed \cup {e} /\ g.entry = f.entry
  <2>1. SeqLike(B) /\ \A b \in 1 .. Len(B) : SeqLike(B[b])
    BY <1>6 DEF Blocks
  <2> QED BY <1>7, <2>1, GrownFunction
<1>9. Blocks(g) = Blocks(f)
  BY <1>6, <1>8 DEF Blocks
<1>10. CodePut(f, g, p, codes, {}, X)
  <2>1. X = IF codes[Len(codes)].op \in Terminators THEN Elements(codes[Len(codes)].to) ELSE {}
    BY <1>2
  <2>2. X \subseteq Blocks(g) \ {p} /\ \A x \in X \cap Blocks(f) : f.blocks[x] = <<>>
    BY <1>1, <1>5, <1>9
  <2>3. Len(f.blocks) <= Len(g.blocks) /\ Len(codes) > 0
    BY <1>1, <1>2, <1>6, <1>8
  <2> QED BY <1>1, <1>2, <1>6, <1>8, <1>9, <2>1, <2>2, <2>3 DEF CodePut
<1>11. Edited(f, g, p, X) /\ Kept(f, g, X)
  BY <1>10, CodeEdit
<1>12. g.blocks[e] = <<>> /\ g.blocks[m] = <<>>
  BY <1>1, <1>5, <1>6, <1>8
<1>13. /\ f.listed \subseteq g.listed /\ g.listed \subseteq Blocks(g) /\ X \cap f.listed = {}
       /\ \A a \in g.listed \ f.listed : a \in Blocks(f) => f.blocks[a] = <<>>
  BY <1>1, <1>5, <1>8, <1>9
<1>14. Sound(g, n)
  <2>1. \A i \in 1 .. Len(codes) : \A k \in 1 .. Len(codes[i].args) :
          Usable(g, n, codes[i], k, p, Len(f.blocks[p]) + i)
    BY <1>2
  <2>2. \A b \in g.listed \ f.listed : PhiMatches(g, b)
    BY <1>8, <1>12 DEF PhiMatches
  <2>3. Sound(f, n) /\ {} \cap f.listed = {}
    BY DEF Opened
  <2> HIDE DEF X
  <2> QED BY <1>1, <1>2, <1>10, <1>13, <2>1, <2>2, <2>3, CodeSound
<1>15. f.entry = s => e \in Reachable(g)
  <2>1. Reachable(f) \subseteq Reachable(g)
    BY <1>11, EditReaches DEF Reachable
  <2> QED BY <1>5, <2>1
<1>16. BranchTo(f, g, p, codes, {}, X, P, e, X, s)
  <2>1. ~Terminated(g, e)
    BY <1>12 DEF Terminated
  <2> QED BY <1>1, <1>2, <1>5, <1>8, <1>9, <1>10, <1>15, <2>1 DEF BranchTo
<1>17. Awaiting(g, n, e, X, rest, s)
  <2>1. Awaiting(f, n, p, P, rest, s)
    BY <1>3, <1>4
  <2> QED BY <1>16, <2>1, Branch
<1>18. Pending(fr2) = X
  BY DEF Pending
<1>19. ValuesAt(g, n, fr2, {e})
  <2> DEFINE D == {p}
  <2>1. D \subseteq Blocks(f) /\ D \cap X = {} /\ Computed(f, n, v, D)
    BY <1>1, <1>5
  <2> HIDE DEF D, X
  <2>2. D \cap X = {} => Computed(g, n, v, D)
    BY <1>11, <2>1, EditComputed
  <2>3. Computed(g, n, v, {p})
    BY <2>1, <2>2 DEF D
  <2>4. ASSUME v.kind = "result", v.block = p PROVE v.at < Len(g.blocks[p])
    <3> DEFINE at == v.at
               l == Len(f.blocks[p])
    <3>1. at \in 1 .. l
      BY <2>4 DEF Computed
    <3>0. Len(f.blocks[p]) \in Nat /\ Len(g.blocks[p]) = Len(f.blocks[p]) + Len(codes)
      BY <1>10, CodeAtEnd
    <3>2. l \in Nat /\ Len(g.blocks[p]) = l + 1
      BY <1>2, <3>0
    <3> HIDE DEF at, l
    <3>3. at < Len(g.blocks[p])
      BY <3>1, <3>2
    <3> QED BY <3>3 DEF at
  <2>5. Fixed(n, fr2.callee)
    BY <1>3 DEF ValuesAt
  <2> QED BY <2>3, <2>4, <2>5 DEF ValuesAt
<1>20. IfSound(g, s, e, fr2)
  <2>1. m \in Blocks(g) \ g.listed /\ m > s /\ g.blocks[m] = <<>>
    BY <1>5, <1>8, <1>9, <1>12
  <2>2. BlocksInto(g, m) = {p}
    <3>1. \A a \in Blocks(f) : m \notin Successors(f, a)
      BY <1>5 DEF BlocksInto
    <3>2. \A a \in Blocks(g) : m \in Successors(g, a) <=> a = p
      BY <1>9, <1>11, <3>1 DEF Edited
    <3> QED BY <1>1, <1>9, <3>2 DEF BlocksInto
  <2>3. p \in g.listed \ {e}
    BY <1>1, <1>5, <1>8
  <2>4. \A b \in Pending(fr2) : b \in Blocks(g) \ g.listed /\ b > s /\ g.blocks[b] = <<>>
    BY <1>18, <2>1
  <2>5. Len(fr2.values) \in 0 .. 2 /\ Len(fr2.values) # 1
    OBVIOUS
  <2>6. fr2.blocks[1] \in g.listed \ {e} /\ BlocksInto(g, fr2.blocks[3]) = {fr2.blocks[1]}
    BY <2>2, <2>3
  <2> QED BY <2>4, <2>5, <2>6 DEF IfSound
<1>21. InProgress(g, n, e, <<fr2>> \o rest, s)
  <2>1. Awaiting(g, n, e, Pending(fr2), rest, s)
    BY <1>17, <1>18
  <2> QED BY <1>19, <1>20, <2>1, AwaitingFrame
<1>z. Frozen(f, g)
  <2>1. OpenAt(f, p, <<fr>> \o rest, s)
    BY DEF Opened, InProgress
  <2>2. \A x \in {} : x > s
    OBVIOUS
  <2> QED BY <1>1, <1>10, <2>1, <2>2, CodeFrozen
<1> QED BY <1>14, <1>21, <1>z DEF Opened

\* The end of the else branch: its block leads to merge, where the code goes
\* on with a phi of the values of both.
Merged(type, a, v, t, p) == Instruction("phi", type, <<a, v>>, <<t, p>>, 0)
ElsePut(f, p, m, phi) ==
  Grown(f, [WithCode(f, p, BranchCode(m)) EXCEPT ![m] = <<phi>>], f.listed \cup {m})

LEMMA ElseEdit ==
  ASSUME NEW f, NEW n, NEW p, NEW fr, NEW rest, NEW s, SeqLike(rest),
         Opened(f, n, p, <<fr>> \o rest, s), fr.how = "if", Len(fr.values) = 2,
         NEW v, Computed(f, n, v, {p}), NEW type,
         NEW a, a = fr.values[2], NEW t, t = fr.blocks[1], NEW m, m = fr.blocks[3],
         NEW g, g = ElsePut(f, p, m, Merged(type, a, v, t, p))
  PROVE  /\ Opened(g, n, m, rest, s) /\ Frozen(f, g)
         /\ Computed(g, n, Result(n, m, 1, type), {m})
<1> DEFINE codes == BranchCode(m)
           X == {m}
           phi == Merged(type, a, v, t, p)
           C == WithCode(f, p, codes)
           B == Replaced(C, m, <<phi>>)
<1>1. /\ IsFunction(f) /\ Graph(f) /\ Len(f.blocks) \in Nat /\ f.listed \subseteq Blocks(f)
      /\ p \in f.listed /\ p \in Blocks(f) /\ ~Terminated(f, p)
      /\ s \in Blocks(f) /\ (f.entry = s => p \in Reachable(f))
  BY OpenedFacts
<1>2. /\ SeqLike(codes) /\ Len(codes) = 1 /\ Straight(codes)
      /\ codes[Len(codes)].op \in Terminators /\ Elements(codes[Len(codes)].to) = X
      /\ \A i \in 1 .. Len(codes) : codes[i].args = <<>>
  BY BranchCodeFacts
<1>p. phi.op = "phi" /\ phi.args = <<a, v>> /\ phi.to = <<t, p>>
  BY DEF Merged, Instruction
<1>3. /\ Awaiting(f, n, p, Pending(fr), rest, s) /\ ValuesAt(f, n, fr, {p}) /\ IfSound(f, s, p, fr)
  <2>1. InProgress(f, n, p, <<fr>> \o rest, s)
    BY DEF Opened
  <2> QED BY <2>1, AwaitingFrame
<1>7. g = Grown(f, B, f.listed \cup {m})
  BY DEF ElsePut, Replaced
<1> HIDE DEF codes, phi
<1>4. Pending(fr) = X
  BY DEF Pending
<1>5. /\ m \in Blocks(f) \ f.listed /\ m > s /\ f.blocks[m] = <<>> /\ m # p
      /\ t \in f.listed \ {p} /\ BlocksInto(f, m) = {t}
  BY <1>1, <1>3, <1>4 DEF IfSound
<1>5a. Terminated(f, t) /\ f.blocks[t] # <<>>
  BY <1>3, <1>5 DEF Awaiting, Terminated
<1>6. /\ SeqLike(C) /\ Len(C) = Len(f.blocks) /\ C[p] = f.blocks[p] \o codes
      /\ \A b \in Blocks(f) : b # p => C[b] = f.blocks[b]
      /\ \A b \in Blocks(f) : SeqLike(C[b])
  <2>1. SeqLike(codes)
    BY <1>2
  <2> QED BY <1>1, <2>1, CodeAdded
<1>s. SeqLike(<<phi>>) /\ Len(<<phi>>) = 1 /\ <<phi>>[1] = phi
  BY DEF SeqLike
<1> HIDE DEF C
<1>6a. /\ SeqLike(B) /\ Len(B) = Len(f.blocks) /\ B[m] = <<phi>>
       /\ \A b \in Blocks(f) : b # m => B[b] = C[b]
  <2> DEFINE e == <<phi>>
  <2>1. m \in 1 .. Len(C)
    BY <1>5, <1>6 DEF Blocks
  <2>0. SeqLike(C)
    BY <1>6
  <2> HIDE DEF e, X
  <2>2. /\ SeqLike(Replaced(C, m, e)) /\ Len(Replaced(C, m, e)) = Len(C)
        /\ Replaced(C, m, e)[m] = e
        /\ \A b \in 1 .. Len(C) : b # m => Replaced(C, m, e)[b] = C[b]
    BY <2>0, <2>1, Updated
  <2> QED BY <1>6, <2>2 DEF Blocks, e
<1> HIDE DEF B
<1>8. /\ IsFunction(g) /\ g.blocks = B /\ g.listed = f.listed \cup {m} /\ g.entry = f.entry
  <2>1. SeqLike(B) /\ \A b \in 1 .. Len(B) : SeqLike(B[b])
    <3>1. \A b \in Blocks(f) : SeqLike(B[b])
      BY <1>6, <1>6a, <1>s
    <3> QED BY <1>6a, <3>1 DEF Blocks
  <2> QED BY <1>7, <2>1, GrownFunction
<1>9. Blocks(g) = Blocks(f)
  BY <1>6a, <1>8 DEF Blocks
<1>9a. /\ g.blocks[p] = f.blocks[p] \o codes /\ g.blocks[m] = <<phi>>
       /\ \A b \in Blocks(f) \ {m, p} : g.blocks[b] = f.blocks[b]
  BY SMTT(60), <1>1, <1>5, <1>6, <1>6a, <1>8
<1>9b. ~Terminated(g, m) /\ Len(g.blocks[m]) = 1
  BY <1>9a, <1>s, <1>p DEF Terminated, Terminators
<1>10. CodePut(f, g, p, codes, X, X)
  <2>1. X = IF codes[Len(codes)].op \in Terminators THEN Elements(codes[Len(codes)].to) ELSE {}
    BY <1>2
  <2>2. X \subseteq Blocks(g) \ {p} /\ \A x \in X \cap Blocks(f) : f.blocks[x] = <<>>
    BY <1>1, <1>5, <1>9
  <2>3. Len(f.blocks) <= Len(g.blocks) /\ Len(codes) > 0
    BY <1>1, <1>2, <1>6a, <1>8
  <2>4. \A x \in X : f.blocks[x] = <<>> /\ Len(g.blocks[x]) = 1 /\ ~Terminated(g, x)
    BY <1>5, <1>9b
  <2>5. \A b \in Blocks(f) \ (X \cup {p}) : g.blocks[b] = f.blocks[b]
    BY <1>9a
  <2> QED BY <1>1, <1>2, <1>8, <1>9, <1>9a, <2>1, <2>2, <2>3, <2>4, <2>5 DEF CodePut
<1>11. Edited(f, g, p, X) /\ Kept(f, g, X)
  BY <1>10, CodeEdit
<1>13. /\ f.listed \subseteq g.listed /\ g.listed \subseteq Blocks(g) /\ X \cap f.listed = {}
       /\ \A b \in g.listed \ f.listed : b \in Blocks(f) => f.blocks[b] = <<>>
  BY <1>1, <1>5, <1>8, <1>9
<1>14. /\ Len(f.blocks[p]) \in Nat /\ Len(g.blocks[p]) = Len(f.blocks[p]) + 1 /\ g.blocks[p] # <<>>
  <2>1. Len(f.blocks[p]) \in Nat /\ Len(g.blocks[p]) = Len(f.blocks[p]) + Len(codes)
    BY <1>10, CodeAtEnd
  <2>2. Len(g.blocks[p]) # 0
    BY <1>2, <2>1
  <2> QED BY <1>2, <2>1, <2>2
\* Both values can be used at the end of the block they come from.
<1>15. ASSUME NEW w, NEW place \in {t, p}, Computed(f, n, w, {place}),
              w.kind = "result" /\ w.block = place => w.at < Len(g.blocks[place]),
              NEW k \in {1, 2}, phi.args[k] = w, phi.to[k] = place
       PROVE  Usable(g, n, phi, k, m, 1)
  <2> DEFINE D == {place}
  <2>1. D \subseteq Blocks(f) /\ D \cap X = {} /\ Computed(f, n, w, D)
    BY <1>1, <1>5, <1>15
  <2>2. D \cap X = {} => Computed(g, n, w, D)
    <3> HIDE DEF D, X
    <3> QED BY <1>11, <2>1, EditComputed
  <2>3. Computed(g, n, w, {place})
    BY <2>1, <2>2
  <2>4. place \in Blocks(g) /\ g.blocks[place] # <<>>
    BY ZenonT(60), <1>1, <1>5, <1>5a, <1>9, <1>9a, <1>14
  <2>5. w.kind = "result" =>
          /\ w.block \in Blocks(g) /\ w.at \in Nat
          /\ ComputedBefore(g, w, place, Len(g.blocks[place]))
    BY <1>15, <2>3 DEF Computed, ComputedBefore
  <2>6. w.kind \in {"argument", "result"} => w.of = n
    BY <2>3 DEF Computed
  <2> QED BY <1>p, <1>15, <2>4, <2>5, <2>6 DEF Usable
<1>16. \A k \in 1 .. Len(phi.args) : Usable(g, n, phi, k, m, 1)
  <2>1. Usable(g, n, phi, 1, m, 1)
    <3>1. /\ Computed(f, n, a, {t})
          /\ a.kind = "result" /\ a.block = t => a.at < Len(f.blocks[t])
      BY <1>3 DEF ValuesAt
    <3>2. g.blocks[t] = f.blocks[t]
      BY <1>1, <1>5, <1>9a
    <3>3. phi.args[1] = a /\ phi.to[1] = t
      BY <1>p
    <3> QED BY <1>15, <3>1, <3>2, <3>3
  <2>2. Usable(g, n, phi, 2, m, 1)
    <3>1. v.kind = "result" /\ v.block = p => v.at < Len(g.blocks[p])
      <4> DEFINE at == v.at
                 l == Len(f.blocks[p])
      <4>1. v.kind = "result" /\ v.block = p => at \in 1 .. l
        BY DEF Computed
      <4>2. l \in Nat /\ Len(g.blocks[p]) = l + 1
        BY <1>14
      <4> HIDE DEF at, l
      <4>3. v.kind = "result" /\ v.block = p => at < Len(g.blocks[p])
        BY <4>1, <4>2
      <4> QED BY <4>3 DEF at
    <3>2. phi.args[2] = v /\ phi.to[2] = p
      BY <1>p
    <3> QED BY <1>15, <3>1, <3>2
  <2>3. Len(phi.args) = 2
    BY <1>p
  <2>4. \A k \in 1 .. Len(phi.args) : k = 1 \/ k = 2
    BY <2>3
  <2> QED BY <2>1, <2>2, <2>4
<1>17. PhiMatches(g, m)
  <2>1. g.blocks[m][1] = phi
    BY <1>9a, <1>s
  <2>2. Elements(phi.to) = {t, p}
    <3> DEFINE to == phi.to
    <3>1. Len(to) = 2 /\ to[1] = t /\ to[2] = p
      BY <1>p
    <3> HIDE DEF to
    <3>2. Elements(to) = {to[1], to[2]}
      BY <3>1 DEF Elements
    <3> QED BY <3>1, <3>2 DEF to
  <2>3. Predecessors(g, m) = {t, p}
    <3>1. \A b \in Blocks(f) : m \in Successors(f, b) <=> b = t
      BY <1>5 DEF BlocksInto
    <3>2. \A b \in Blocks(g) : m \in Successors(g, b) <=> b \in {t, p}
      BY <1>1, <1>5, <1>9, <1>11, <3>1 DEF Edited
    <3>3. {t, p} \subseteq g.listed /\ g.listed \subseteq Blocks(g)
      BY <1>1, <1>5, <1>13
    <3> QED BY <3>2, <3>3 DEF Predecessors
  <2>4. \A j, k \in 1 .. Len(phi.to) : phi.to[j] = phi.to[k] => j = k
    <3> DEFINE to == phi.to
    <3>1. Len(to) = 2 /\ to[1] = t /\ to[2] = p
      BY <1>p
    <3>2. \A j \in 1 .. 2 : j = 1 \/ j = 2
      OBVIOUS
    <3> HIDE DEF to
    <3>3. \A j, k \in 1 .. Len(to) : to[j] = to[k] => j = k
      BY <1>5, <3>1, <3>2
    <3> QED BY <3>3 DEF to
  <2> QED BY <2>1, <2>2, <2>3, <2>4 DEF PhiMatches
<1>18. Sound(g, n)
  <2>1. \A i \in 1 .. Len(codes) : \A k \in 1 .. Len(codes[i].args) :
          Usable(g, n, codes[i], k, p, Len(f.blocks[p]) + i)
    BY <1>2
  <2>2. \A b \in g.listed \ f.listed : PhiMatches(g, b)
    BY <1>8, <1>17
  <2>3. Sound(f, n)
    BY DEF Opened
  <2>4. \A x \in X : \A k \in 1 .. Len(g.blocks[x][1].args) : Usable(g, n, g.blocks[x][1], k, x, 1)
    <3>1. g.blocks[m][1] = phi
      BY <1>9a, <1>s
    <3> QED BY <1>16, <3>1
  <2> HIDE DEF X
  <2> QED BY SMTT(60), ZenonT(60), <1>1, <1>2, <1>10, <1>13, <2>1, <2>2, <2>3, <2>4, CodeSound
<1>19. f.entry = s => m \in Reachable(g)
  <2>1. Reachable(f) \subseteq Reachable(g)
    BY <1>11, EditReaches DEF Reachable
  <2>2. Graph(g)
    BY <1>11, EditGraph
  <2>3. Successors(g, p) = X
    BY <1>11 DEF Edited
  <2>4. p \in Reachable(g) => X \subseteq Reachable(g)
    BY <2>2, <2>3, ReachableIsClosed DEF Reachable
  <2> QED BY <1>1, <2>1, <2>4
<1>20. BranchTo(f, g, p, codes, X, X, X, m, {}, s)
  BY <1>1, <1>2, <1>5, <1>8, <1>9, <1>9b, <1>10, <1>19 DEF BranchTo
<1>21. Awaiting(g, n, m, {}, rest, s)
  <2>1. Awaiting(f, n, p, X, rest, s)
    BY <1>3, <1>4
  <2> QED BY <1>20, <2>1, Branch
<1>22. InProgress(g, n, m, rest, s)
  BY <1>21, AwaitingNothing
<1>23. Computed(g, n, Result(n, m, 1, type), {m})
  <2>1. Graph(g) /\ m \in Blocks(g) /\ 1 \in 1 .. Len(g.blocks[m])
    BY <1>5, <1>9, <1>9b, <1>11, EditGraph
  <2> QED BY <2>1, ResultComputed
<1>z. Frozen(f, g)
  <2>1. OpenAt(f, p, <<fr>> \o rest, s)
    BY DEF Opened, InProgress
  <2>2. \A x \in X : x > s
    BY <1>5
  <2> QED BY <1>1, <1>10, <2>1, <2>2, CodeFrozen
<1> QED BY <1>18, <1>22, <1>23, <1>z DEF Opened

-----------------------------------------------------------------------------
(* Code that stays in the block.                                           *)

LEMMA StraightPut ==
  ASSUME NEW f, NEW n, NEW p, NEW fs, NEW s, Opened(f, n, p, fs, s),
         NEW codes, SeqLike(codes), Len(codes) > 0,
         codes[Len(codes)].op \in Terminators => codes[Len(codes)].to = <<>>,
         NEW g, g = Grown(f, WithCode(f, p, codes), f.listed)
  PROVE  CodePut(f, g, p, codes, {}, {}) /\ Len(g.blocks) = Len(f.blocks) /\ g.listed = f.listed
<1> DEFINE B == WithCode(f, p, codes)
<1>1. IsFunction(f) /\ Graph(f) /\ Len(f.blocks) \in Nat /\ p \in Blocks(f) /\ ~Terminated(f, p)
  BY OpenedFacts
<1>2. /\ SeqLike(B) /\ Len(B) = Len(f.blocks) /\ B[p] = f.blocks[p] \o codes
      /\ \A b \in Blocks(f) : b # p => B[b] = f.blocks[b]
      /\ \A b \in Blocks(f) : SeqLike(B[b])
  BY <1>1, CodeAdded
<1>3. g = Grown(f, B, f.listed)
  OBVIOUS
<1> HIDE DEF B
<1>4. /\ IsFunction(g) /\ g.blocks = B /\ g.listed = f.listed /\ g.entry = f.entry
  <2>1. SeqLike(B) /\ \A b \in 1 .. Len(B) : SeqLike(B[b])
    BY <1>2 DEF Blocks
  <2> QED BY <1>3, <2>1, GrownFunction
<1>5. Blocks(g) = Blocks(f)
  BY <1>2, <1>4 DEF Blocks
<1>6. {} = IF codes[Len(codes)].op \in Terminators THEN Elements(codes[Len(codes)].to) ELSE {}
  BY DEF Elements
<1> QED BY <1>1, <1>2, <1>4, <1>5, <1>6 DEF CodePut

LEMMA StraightEdit ==
  ASSUME NEW f, NEW g, NEW n, NEW p, NEW fs, NEW s, SeqLike(fs), Opened(f, n, p, fs, s),
         NEW codes, CodePut(f, g, p, codes, {}, {}),
         Len(g.blocks) = Len(f.blocks), g.listed = f.listed,
         \A i \in 1 .. Len(codes) : codes[i].op \notin Terminators \cup {"phi"},
         \A i \in 1 .. Len(codes) : \A k \in 1 .. Len(codes[i].args) :
           Usable(g, n, codes[i], k, p, Len(f.blocks[p]) + i)
  PROVE  /\ Opened(g, n, p, fs, s) /\ Frozen(f, g)
         /\ \A j \in 1 .. Len(codes) : \A type :
              Computed(g, n, Result(n, p, Len(f.blocks[p]) + j, type), {p})
<1>1. /\ IsFunction(f) /\ Graph(f) /\ Len(f.blocks) \in Nat /\ f.listed \subseteq Blocks(f)
      /\ p \in f.listed /\ p \in Blocks(f) /\ ~Terminated(f, p)
  BY OpenedFacts
<1>2. Len(codes) \in Nat /\ Len(codes) > 0 /\ Len(codes) \in 1 .. Len(codes)
  BY CodeAtEnd DEF CodePut
<1>3. Straight(codes) /\ codes[Len(codes)].op \notin Terminators
  BY <1>2 DEF Straight
<1>4. Sound(g, n)
  <2>1. Blocks(g) = Blocks(f)
    BY DEF Blocks
  <2>2. Sound(f, n)
    BY DEF Opened
  <2>3. {} \cap f.listed = {} /\ f.listed \subseteq g.listed /\ g.listed \subseteq Blocks(g)
        /\ \A b \in g.listed \ f.listed : b \in Blocks(f) => f.blocks[b] = <<>>
    BY <1>1, <2>1
  <2>4. \A b \in g.listed \ f.listed : PhiMatches(g, b)
    OBVIOUS
  <2>5. \A m \in {} : \A k \in 1 .. Len(g.blocks[m][1].args) : Usable(g, n, g.blocks[m][1], k, m, 1)
    OBVIOUS
  <2> QED BY <1>1, <1>3, <2>2, <2>3, <2>4, <2>5, CodeSound
<1>5. InProgress(g, n, p, fs, s)
  BY <1>1, <1>3, StraightCode DEF Opened
<1>6. Frozen(f, g)
  BY <1>1, CodeFrozen DEF Opened, InProgress
<1>7. ASSUME NEW j \in 1 .. Len(codes), NEW type
      PROVE  Computed(g, n, Result(n, p, Len(f.blocks[p]) + j, type), {p})
  <2> DEFINE at == Len(f.blocks[p]) + j
  <2>1. Len(f.blocks[p]) \in Nat /\ Len(g.blocks[p]) = Len(f.blocks[p]) + Len(codes)
    BY CodeAtEnd
  <2>2. at \in 1 .. Len(g.blocks[p])
    BY <1>2, <2>1
  <2>3. Edited(f, g, p, {})
    BY CodeEdit
  <2>4. Graph(g) /\ p \in Blocks(g)
    BY <1>1, <2>3, EditGraph
  <2> HIDE DEF at
  <2>5. Computed(g, n, Result(n, p, at, type), {p})
    BY <2>2, <2>4, ResultComputed
  <2> QED BY <2>5 DEF at
<1> QED BY <1>4, <1>5, <1>6, <1>7 DEF Opened

-----------------------------------------------------------------------------
(* The begin and the end of a definition.                                  *)

EnterPut(f) ==
  [name |-> f.name, type |-> f.type, params |-> f.params, blocks |-> Append(f.blocks, <<>>),
   entry |-> IF f.entry = 0 THEN Len(f.blocks) + 1 ELSE f.entry,
   listed |-> f.listed \cup {Len(f.blocks) + 1}]

LEMMA EnterEdit ==
  ASSUME NEW f, NEW n, Sound(f, n), Closed(f), f.blocks # <<>> => Reached(f),
         NEW new, new = Len(f.blocks) + 1, NEW g, g = EnterPut(f),
         NEW fs, Len(fs) = 1, fs[1].how = "visit", fs[1].values = <<>>, Fixed(n, fs[1].callee)
  PROVE  Opened(g, n, new, fs, new) /\ Frozen(f, g)
<1> DEFINE B == Append(f.blocks, <<>>)
<1>1. /\ IsFunction(f) /\ f.listed \subseteq Blocks(f) /\ SeqLike(f.blocks) /\ Len(f.blocks) \in Nat
      /\ \A b \in Blocks(f) : SeqLike(f.blocks[b])
  BY DEF Sound, IsFunction, SeqLike
<1>2. /\ g.blocks = B /\ g.listed = f.listed \cup {new}
      /\ g.entry = IF f.entry = 0 THEN new ELSE f.entry
      /\ g = [name |-> g.name, type |-> g.type, params |-> g.params, blocks |-> g.blocks,
               entry |-> g.entry, listed |-> g.listed]
  BY DEF EnterPut
<1>3. SeqLike(B) /\ Len(B) = new /\ B[new] = <<>> /\ \A b \in Blocks(f) : B[b] = f.blocks[b]
  BY <1>1, Appended DEF Blocks
<1> HIDE DEF B
<1>4. Blocks(g) = 1 .. new /\ Blocks(f) = 1 .. new - 1 /\ new \in Nat /\ new \in Blocks(g)
  BY <1>1, <1>2, <1>3 DEF Blocks
<1>5. IsFunction(g)
  <2>1. \A b \in Blocks(g) : SeqLike(g.blocks[b])
    <3>1. SeqLike(<<>>)
      BY DEF SeqLike
    <3>2. \A b \in Blocks(g) : b \in Blocks(f) \/ b = new
      BY <1>4
    <3> QED BY <1>1, <1>2, <1>3, <3>1, <3>2
  <2> QED BY <1>2, <1>3, <2>1 DEF IsFunction
<1>6. \A b \in Blocks(f) : /\ g.blocks[b] = f.blocks[b]
                           /\ Successors(g, b) = Successors(f, b)
                           /\ Terminated(g, b) <=> Terminated(f, b)
  BY <1>2, <1>3 DEF Successors, Terminated
<1>7. g.blocks[new] = <<>> /\ ~Terminated(g, new) /\ Successors(g, new) = {}
  BY <1>2, <1>3 DEF Successors, Terminated
<1>8. CASE f.blocks = <<>>
  <2>1. Blocks(f) = {} /\ new = 1 /\ f.entry = 0 /\ f.listed = {} /\ g.listed = {1}
        /\ g.entry = 1 /\ Blocks(g) = {1}
    <3>1. f.entry = 0 /\ Len(f.blocks) = 0
      BY <1>8 DEF Sound
    <3>2. Blocks(f) = {} /\ new = 1
      BY <3>1 DEF Blocks
    <3>3. f.listed = {} /\ g.listed = {1} /\ g.entry = 1
      BY <1>1, <1>2, <3>1, <3>2
    <3>4. Blocks(g) = {1}
      BY <1>4, <3>2
    <3> QED BY <3>1, <3>2, <3>3, <3>4
  <2>2. Graph(g)
    BY <1>2, <1>3, <1>4, <1>7, <2>1 DEF Graph
  <2>3. 1 \in Reachable(g)
    BY <2>1, <2>2, ReachableIsClosed DEF Reachable
  <2>4. Sound(g, n)
    <3>1. UsesSound(g, n) /\ InOrder(g)
      BY <1>7, <2>1 DEF UsesSound, InOrder
    <3>2. \A b \in g.listed : PhiMatches(g, b)
      BY <1>7, <2>1 DEF PhiMatches
    <3>3. g.blocks # <<>>
      BY <1>2, <1>3, <2>1
    <3> QED BY <1>5, <2>1, <2>2, <3>1, <3>2, <3>3 DEF Sound
  <2>5. OpenAt(g, new, fs, new)
    <3>1. \A b \in Blocks(g) : ~(b < new) /\ Successors(g, b) = {}
      BY <1>7, <2>1
    <3>2. \A i \in 1 .. Len(fs) : i = 1
      OBVIOUS
    <3>3. \A i, j \in 1 .. Len(fs) : i # j => Pending(fs[i]) \cap Pending(fs[j]) = {}
      BY <3>2
    <3>4. \A i \in 1 .. Len(fs) : fs[i].how # "if"
      BY <3>2
    <3> QED BY <1>7, <2>1, <2>3, <3>1, <3>3, <3>4 DEF OpenAt
  <2>6. Frozen(f, g)
    BY <2>1 DEF Frozen, Complete
  <2>7. InProgress(g, n, new, fs, new)
    <3>1. \A i \in 1 .. Len(fs) : FrameValues(g, n, new, fs, i)
      BY DEF FrameValues
    <3> QED BY <2>5, <3>1 DEF InProgress
  <2> QED BY <2>4, <2>6, <2>7 DEF Opened
<1>9. CASE f.blocks # <<>>
  <2>1. f.entry \in f.listed /\ Graph(f) /\ Reached(f)
    BY <1>9 DEF Sound
  <2>2. g.entry = f.entry /\ f.entry \in 1 .. new - 1
    BY <1>1, <1>2, <1>4, <2>1
  <2>3. Graph(g)
    <3>1. \A b \in Blocks(g) : Successors(g, b) \subseteq Blocks(g)
      <4> SUFFICES ASSUME NEW b \in Blocks(g) PROVE Successors(g, b) \subseteq Blocks(g)
        OBVIOUS
      <4>1. b \in Blocks(f) \/ b = new
        BY <1>4
      <4>2. Blocks(f) \subseteq Blocks(g)
        BY <1>4
      <4> QED BY <1>6, <1>7, <2>1, <4>1, <4>2 DEF Graph
    <3> QED BY <1>2, <1>3, <1>4, <2>2, <3>1 DEF Graph
  <2>4. \A A : ReachableAvoiding(g, A) = ReachableAvoiding(f, A)
    <3> SUFFICES ASSUME NEW A PROVE ReachableAvoiding(g, A) = ReachableAvoiding(f, A)
      OBVIOUS
    <3>1. \A b \in ReachableAvoiding(f, A) : Successors(g, b) = Successors(f, b)
      BY <1>6, <2>1, ReachableIsClosed
    <3> QED BY <2>1, <2>2, <2>3, <3>1, SameWays
  <2>5. Sound(g, n)
    <3>1. UsesSound(g, n)
      <4> SUFFICES ASSUME NEW b \in Blocks(g), NEW i \in 1 .. Len(g.blocks[b]),
                          NEW k \in 1 .. Len(g.blocks[b][i].args)
                   PROVE  Usable(g, n, g.blocks[b][i], k, b, i)
        BY DEF UsesSound
      <4>1. b \in Blocks(f)
        BY <1>4, <1>7
      <4>2. Usable(f, n, f.blocks[b][i], k, b, i) /\ g.blocks[b] = f.blocks[b]
        BY <1>6, <4>1 DEF Sound, UsesSound
      <4>3. \A v, place, j : ComputedBefore(f, v, place, j) => ComputedBefore(g, v, place, j)
        BY <2>4 DEF ComputedBefore, Dominates
      <4>4. Blocks(f) \subseteq Blocks(g)
        BY <1>4
      <4> DEFINE code == f.blocks[b][i]
      <4>5. Usable(f, n, code, k, b, i) => Usable(g, n, code, k, b, i)
        <5> HIDE DEF code
        <5> QED BY <1>6, <4>3, <4>4 DEF Usable
      <4> QED BY <4>2, <4>5
    <3>2. InOrder(g)
      <4> SUFFICES ASSUME NEW b \in Blocks(g), NEW i \in 1 .. Len(g.blocks[b])
                   PROVE  /\ g.blocks[b][i].op \in Terminators => i = Len(g.blocks[b])
                          /\ g.blocks[b][i].op = "phi" => i = 1
        BY DEF InOrder
      <4>1. b \in Blocks(f)
        BY <1>4, <1>7
      <4> QED BY <1>6, <4>1 DEF Sound, InOrder
    <3>3. \A b \in g.listed : PhiMatches(g, b)
      <4> SUFFICES ASSUME NEW b \in f.listed PROVE PhiMatches(g, b)
        BY <1>2, <1>7 DEF PhiMatches
      <4>1. PhiMatches(f, b) /\ g.blocks[b] = f.blocks[b]
        BY <1>1, <1>6 DEF Sound
      <4>2. Predecessors(g, b) = Predecessors(f, b)
        BY <1>1, <1>2, <1>6, <1>7 DEF Predecessors
      <4> QED BY <4>1, <4>2 DEF PhiMatches
    <3>4. g.listed \subseteq Blocks(g) /\ g.entry \in g.listed /\ g.blocks # <<>>
      <4>1. Blocks(f) \subseteq Blocks(g) /\ Len(g.blocks) # 0
        BY <1>1, <1>2, <1>3, <1>4
      <4> QED BY <1>1, <1>2, <1>4, <2>1, <2>2, <4>1
    <3> QED BY <1>5, <2>3, <3>1, <3>2, <3>3, <3>4 DEF Sound
  <2>6. OpenAt(g, new, fs, new)
    <3>1. \A b \in Blocks(g) : b < new => b \in Blocks(f) /\ Successors(g, b) \subseteq 1 .. new - 1
      BY <1>4, <1>6, <2>1 DEF Graph
    <3>2. \A i \in 1 .. Len(fs) : i = 1
      OBVIOUS
    <3>3. \A i, j \in 1 .. Len(fs) : i # j => Pending(fs[i]) \cap Pending(fs[j]) = {}
      BY <3>2
    <3>4. \A i \in 1 .. Len(fs) : fs[i].how # "if"
      BY <3>2
    <3>5. \A b \in Blocks(g) : b >= new => Successors(g, b) = {}
      <4>1. \A b \in Blocks(g) : b >= new => b = new
        BY <1>4
      <4> QED BY <1>7, <4>1
    <3>6. \A b \in g.listed \ {new} :
            Terminated(g, b) /\ Successors(g, b) \subseteq g.listed \cup PendingTo(fs, Len(fs))
      <4> SUFFICES ASSUME NEW b \in f.listed PROVE Terminated(g, b) /\ Successors(g, b) \subseteq g.listed
        BY <1>2
      <4> QED BY <1>1, <1>2, <1>6 DEF Closed
    <3>7. \A b \in g.listed : b < new \/ g.entry = new => b \in Reachable(g)
      <4>1. g.entry # new
        BY <1>4, <2>2
      <4>2. Reachable(g) = Reachable(f)
        BY <2>4 DEF Reachable
      <4>3. ~(new < new)
        BY <1>4
      <4> QED BY <1>2, <2>1, <4>1, <4>2, <4>3 DEF Reached
    <3>8. g.entry \in 1 .. new /\ new \in g.listed /\ new >= new
      BY <1>2, <1>4, <2>2
    <3> QED BY <1>4, <1>7, <3>1, <3>3, <3>4, <3>5, <3>6, <3>7, <3>8 DEF OpenAt
  <2>7. Frozen(f, g)
    <3>1. \A b \in Reachable(f) : g.blocks[b] = f.blocks[b]
      BY <1>6, <2>1, ReachableIsClosed DEF Reachable
    <3> QED BY <2>1, <2>2, <2>3, <3>1, SameCode
  <2>8. InProgress(g, n, new, fs, new)
    <3>1. \A i \in 1 .. Len(fs) : FrameValues(g, n, new, fs, i)
      BY DEF FrameValues
    <3> QED BY <2>6, <3>1 DEF InProgress
  <2> QED BY <2>5, <2>7, <2>8 DEF Opened
<1> QED BY <1>8, <1>9

\* What the passes leave.
SimplifiedTo(g) == Grown(g, g.blocks, g.listed \cap Reachable(g))

LEMMA SimplifyEdit ==
  ASSUME NEW g, NEW n, Sound(g, n), Graph(g), Closed(g), g.entry \in g.listed,
         \* no block that is not reached leads to one that is
         \A a \in g.listed : \A b \in g.listed \cap Reachable(g) :
           b \in Successors(g, a) => a \in Reachable(g),
         NEW h, h = SimplifiedTo(g)
  PROVE  Sound(h, n) /\ Closed(h) /\ Reached(h) /\ Frozen(g, h)
<1>1. /\ IsFunction(g) /\ SeqLike(g.blocks) /\ \A b \in Blocks(g) : SeqLike(g.blocks[b])
      /\ g.listed \subseteq Blocks(g)
  BY DEF Sound, IsFunction
<1>2. /\ IsFunction(h) /\ h.blocks = g.blocks /\ h.listed = g.listed \cap Reachable(g)
      /\ h.entry = g.entry
  BY <1>1, GrownFunction DEF SimplifiedTo, Blocks
<1>3. Blocks(h) = Blocks(g)
  BY <1>2 DEF Blocks
<1>4. \A b : Successors(h, b) = Successors(g, b) /\ (Terminated(h, b) <=> Terminated(g, b))
  BY <1>2 DEF Successors, Terminated
<1>5. Graph(h)
  BY <1>2, <1>3, <1>4 DEF Graph
<1>6. \A A : ReachableAvoiding(h, A) = ReachableAvoiding(g, A)
  BY <1>2, <1>4, <1>5, SameWays
<1>7. Reachable(h) = Reachable(g)
  BY <1>6 DEF Reachable
<1>8. g.entry \in Reachable(g) /\ \A b \in Reachable(g) : Successors(g, b) \subseteq Reachable(g)
  BY ReachableIsClosed DEF Reachable
<1>9. Closed(h) /\ Reached(h)
  BY <1>2, <1>4, <1>7, <1>8 DEF Closed, Reached
<1>10. Frozen(g, h)
  BY <1>2, <1>5, SameCode
<1>11. UsesSound(h, n)
  <2> SUFFICES ASSUME NEW b \in Blocks(g), NEW i \in 1 .. Len(g.blocks[b]),
                      NEW k \in 1 .. Len(g.blocks[b][i].args)
               PROVE  Usable(h, n, g.blocks[b][i], k, b, i)
    BY <1>2, <1>3 DEF UsesSound
  <2> DEFINE code == g.blocks[b][i]
  <2>1. Usable(g, n, code, k, b, i)
    BY DEF Sound, UsesSound
  <2>2. \A v, place, j : ComputedBefore(g, v, place, j) => ComputedBefore(h, v, place, j)
    BY <1>6 DEF ComputedBefore, Dominates
  <2> HIDE DEF code
  <2>3. Usable(h, n, code, k, b, i)
    BY <1>2, <1>3, <2>1, <2>2 DEF Usable
  <2> QED BY <2>3 DEF code
<1>12. InOrder(h)
  BY <1>2, <1>3 DEF Sound, InOrder
<1>13. ASSUME NEW b \in h.listed PROVE PhiMatches(h, b)
  <2>1. PhiMatches(g, b)
    BY <1>2 DEF Sound
  <2>2. Predecessors(h, b) = Predecessors(g, b)
    BY <1>2, <1>4 DEF Predecessors
  <2> QED BY <1>2, <2>1, <2>2 DEF PhiMatches
<1>14. h.listed \subseteq Blocks(h) /\ h.entry \in h.listed /\ h.blocks # <<>>
  BY <1>1, <1>2, <1>3, <1>8 DEF Blocks
<1> QED BY <1>2, <1>5, <1>9, <1>10, <1>11, <1>12, <1>13, <1>14 DEF Sound

ReturnCode(v) == <<Instruction("ret", v.type, <<v>>, <<>>, 0)>>

LEMMA FinishEdit ==
  ASSUME NEW f, NEW n, NEW p, NEW s, Opened(f, n, p, <<>>, s), NEW v, Computed(f, n, v, {p}),
         NEW g, g = Grown(f, WithCode(f, p, ReturnCode(v)), f.listed),
         NEW h, h = SimplifiedTo(g)
  PROVE  /\ Sound(g, n) /\ Closed(g) /\ Frozen(f, g)
         /\ Sound(h, n) /\ Closed(h) /\ Reached(h) /\ Frozen(f, h)
<1> DEFINE codes == ReturnCode(v)
<1>1. /\ IsFunction(f) /\ Graph(f) /\ Len(f.blocks) \in Nat /\ f.listed \subseteq Blocks(f)
      /\ p \in f.listed /\ p \in Blocks(f) /\ ~Terminated(f, p)
      /\ s \in Blocks(f) /\ f.entry \in f.listed /\ (f.entry = s => p \in Reachable(f))
  BY OpenedFacts
<1>2. /\ SeqLike(codes) /\ Len(codes) = 1
      /\ codes[1].op = "ret" /\ codes[1].to = <<>> /\ codes[1].args = <<v>>
  BY DEF SeqLike, Instruction, ReturnCode
<1>3. g = Grown(f, WithCode(f, p, codes), f.listed)
  OBVIOUS
<1> HIDE DEF codes
<1>4. CodePut(f, g, p, codes, {}, {}) /\ Len(g.blocks) = Len(f.blocks) /\ g.listed = f.listed
  <2>1. SeqLike(codes) /\ Len(codes) > 0 /\ codes[Len(codes)].to = <<>>
    BY <1>2
  <2> QED BY <1>3, <2>1, StraightPut
<1>5. Edited(f, g, p, {}) /\ Terminated(g, p)
  BY <1>2, <1>4, CodeEdit DEF Terminators
<1>6. Graph(g) /\ Blocks(g) = Blocks(f) /\ g.entry = f.entry
  BY <1>4, <1>5, EditGraph DEF Blocks, Edited
<1>7. Sound(g, n)
  <2>1. Straight(codes)
    BY <1>2 DEF Straight
  <2>2. Sound(f, n)
    BY DEF Opened
  <2>3. {} \cap f.listed = {} /\ f.listed \subseteq g.listed /\ g.listed \subseteq Blocks(g)
        /\ \A b \in g.listed \ f.listed : b \in Blocks(f) => f.blocks[b] = <<>>
    BY <1>1, <1>4, <1>6
  <2>4. \A b \in g.listed \ f.listed : PhiMatches(g, b)
    BY <1>4
  <2>5. \A m \in {} : \A k \in 1 .. Len(g.blocks[m][1].args) : Usable(g, n, g.blocks[m][1], k, m, 1)
    OBVIOUS
  <2>6. \A i \in 1 .. Len(codes) : \A k \in 1 .. Len(codes[i].args) :
          Usable(g, n, codes[i], k, p, Len(f.blocks[p]) + i)
    <3> SUFFICES ASSUME NEW i \in 1 .. Len(codes), NEW k \in 1 .. Len(codes[i].args)
                 PROVE  Usable(g, n, codes[i], k, p, Len(f.blocks[p]) + i)
      OBVIOUS
    <3>1. codes[i].args[k] = v /\ codes[i].op # "phi"
      BY <1>2
    <3> QED BY <1>4, <3>1, OperandUsable
  <2> QED BY <1>1, <1>4, <2>1, <2>2, <2>3, <2>4, <2>5, <2>6, CodeSound
<1>8. OpenAt(f, p, <<>>, s)
  BY DEF Opened, InProgress
<1>9. Frozen(f, g)
  BY <1>1, <1>4, <1>8, CodeFrozen
<1>10. \A b \in f.listed \ {p} : Terminated(f, b) /\ Successors(f, b) \subseteq f.listed
  <2>1. PendingTo(<<>>, Len(<<>>)) = {}
    BY DEF PendingTo
  <2> QED BY <1>8, <2>1 DEF OpenAt
<1>11. Closed(g)
  <2> SUFFICES ASSUME NEW b \in f.listed PROVE Terminated(g, b) /\ Successors(g, b) \subseteq g.listed
    BY <1>4 DEF Closed
  <2>1. CASE b = p
    BY <1>5, <2>1 DEF Edited
  <2>2. CASE b # p
    <3>1. b \in Blocks(f) \ ({} \cup {p})
      BY <1>1, <2>2
    <3>2. g.blocks[b] = f.blocks[b]
      BY <1>4, <3>1 DEF CodePut
    <3>3. Successors(g, b) = Successors(f, b) /\ (Terminated(g, b) <=> Terminated(f, b))
      BY <3>2 DEF Successors, Terminated
    <3> QED BY <1>4, <1>10, <2>2, <3>3
  <2> QED BY <2>1, <2>2
<1>12. \A b \in Blocks(f) : Successors(g, b) = Successors(f, b)
  BY <1>5 DEF Edited
<1>13. Reachable(g) = Reachable(f)
  <2>1. \A b \in ReachableAvoiding(f, {}) : Successors(g, b) = Successors(f, b)
    BY <1>1, <1>12, ReachableIsClosed
  <2> QED BY <1>1, <1>6, <2>1, SameWays DEF Reachable
<1>14. \A a \in g.listed : \A b \in g.listed \cap Reachable(g) :
         b \in Successors(g, a) => a \in Reachable(g)
  <2> SUFFICES ASSUME NEW a \in f.listed, NEW b \in Reachable(f), b \in Successors(f, a)
               PROVE  a \in Reachable(f)
    BY <1>1, <1>4, <1>12, <1>13
  <2>1. /\ f.entry \in 1 .. s /\ a \in Blocks(f)
        /\ \A c \in Blocks(f) : c < s => Successors(f, c) \subseteq 1 .. s - 1
        /\ \A c \in Blocks(f) : c >= s => \A x \in Successors(f, c) : x > s
        /\ \A c \in f.listed : c < s \/ f.entry = s => c \in Reachable(f)
    BY <1>1, <1>8 DEF OpenAt
  <2>2. CASE f.entry = s
    BY <2>1, <2>2
  <2>3. CASE f.entry # s
    <3> DEFINE S == 1 .. s - 1
    <3>1. s \in Nat /\ s <= Len(f.blocks) /\ f.entry \in S /\ S \subseteq Blocks(f)
      BY <1>1, <2>1, <2>3 DEF Blocks
    <3>2. \A c \in S : Successors(f, c) \subseteq S
      BY <2>1, <3>1
    <3>3. Reachable(f) \subseteq S
      <4> HIDE DEF S
      <4>1. f.entry \in S \cup {} /\ \A c \in S : Successors(f, c) \subseteq S \cup {}
        BY <3>1, <3>2
      <4> QED BY <1>1, <4>1, ReachableIsLeast DEF Reachable
    <3>4. a \in Nat /\ ~(b > s)
      BY <2>1, <3>1, <3>3 DEF Blocks
    <3> QED BY <2>1, <3>1, <3>4
  <2> QED BY <2>2, <2>3
<1>15. Sound(h, n) /\ Closed(h) /\ Reached(h) /\ Frozen(g, h)
  BY <1>1, <1>4, <1>6, <1>7, <1>11, <1>14, SimplifyEdit
<1>16. Frozen(f, h)
  <2>1. Complete(f) => Complete(g)
    <3> SUFFICES ASSUME Complete(f) PROVE Complete(g)
      OBVIOUS
    <3>1. \A b \in Reachable(f) : b \in Blocks(f) /\ Terminated(f, b)
      BY <1>1, ReachableIsClosed DEF Complete, Reachable
    <3>2. \A b \in Reachable(g) : Terminated(g, b)
      <4> SUFFICES ASSUME NEW b \in Reachable(f) PROVE Terminated(g, b)
        BY <1>13
      <4>1. b # p
        BY <1>1, <3>1
      <4>2. b \in Blocks(f) \ ({} \cup {p})
        BY <3>1, <4>1
      <4>3. g.blocks[b] = f.blocks[b]
        BY <1>4, <4>2 DEF CodePut
      <4> QED BY <3>1, <4>3 DEF Terminated
    <3> QED BY <1>4, <3>2 DEF Complete
  <2> QED BY <1>9, <1>15, <2>1 DEF Frozen
<1> QED BY <1>7, <1>9, <1>11, <1>15, <1>16

-----------------------------------------------------------------------------
(* Frames that wait for no block.                                          *)

LEMMA PushFrame ==
  ASSUME NEW f, NEW n, NEW p, NEW fr, NEW rest, NEW s, SeqLike(rest),
         fr.how = "if" => Len(fr.values) = 0
  PROVE  Opened(f, n, p, <<fr>> \o rest, s) <=>
           Opened(f, n, p, rest, s) /\ ValuesAt(f, n, fr, {p})
<1> DEFINE gs == <<fr>> \o rest
<1>1. Pending(fr) = {}
  BY DEF Pending
<1>2. gs[1] = fr
  BY Prefixed
<1>3. FrameValues(f, n, p, gs, 1) <=> ValuesAt(f, n, fr, {p})
  <2>1. {p} \cup PendingTo(gs, 1 - 1) = {p}
    BY DEF PendingTo
  <2> HIDE DEF gs
  <2> QED BY <1>2, <2>1 DEF FrameValues, ValuesAt
<1>4. fr.how = "if" => IfSound(f, s, p, fr)
  BY <1>1 DEF IfSound
<1>5. InProgress(f, n, p, gs, s) <=>
        /\ InProgress(f, n, p, rest, s)
        /\ FrameValues(f, n, p, gs, 1)
        /\ fr.how = "if" => IfSound(f, s, p, fr)
  BY <1>1, FramesPrefixed
<1> QED BY <1>3, <1>4, <1>5 DEF Opened
=============================================================================
