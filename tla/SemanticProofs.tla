--------------------------- MODULE SemanticProofs ---------------------------
(***************************************************************************)
(* What every run of the semantic analysis keeps, for every set of         *)
(* programs in post-order, every way of building types and every way of    *)
(* mangling their names.                                                   *)
(***************************************************************************)
EXTENDS Semantic, TLAPS

-----------------------------------------------------------------------------
(* The walk of calculateType over an expression, as facts about its stack  *)
(* of calls: which call waits for which operand, and which expressions     *)
(* have been looked at.  They hold for every program in post-order.        *)

(* Sequences of anything.                                                  *)

\* A sequence, a frame of calculateType and a stack of frames.
IsSeq(s) == s \in Seq({s[i] : i \in DOMAIN s})
IsFrame(f) == f \in [node : {f.node}, args : {f.args}] /\ IsSeq(f.args)
IsStack(s) == IsSeq(s) /\ \A i \in 1 .. Len(s) : IsFrame(s[i])

\* What being a sequence of something gives.
LEMMA SeqDomain ==
  ASSUME NEW s, IsSeq(s)
  PROVE  Len(s) \in Nat /\ DOMAIN s = 1 .. Len(s) /\ (s = <<>> <=> Len(s) = 0)
BY DEF IsSeq

\* A sequence over a set is one.
LEMMA SeqIntro ==
  ASSUME NEW S, NEW s \in Seq(S)
  PROVE  IsSeq(s)
BY DEF IsSeq

\* A sequence with one more element in front.
Push(e, s) == <<e>> \o s

\* Head and tail of a sequence with an element in front.
LEMMA PushSeq ==
  ASSUME NEW s, IsSeq(s), NEW e
  PROVE  LET t == Push(e, s)
         IN  /\ IsSeq(t) /\ t # <<>> /\ Len(t) = Len(s) + 1
             /\ Head(t) = e /\ t[1] = e /\ Tail(t) = s
             /\ \A i \in 2 .. Len(t) : t[i] = s[i - 1]
<1> DEFINE S == {s[i] : i \in DOMAIN s} \cup {e}
           t == <<e>> \o s
<1>1. s \in Seq(S)
  BY DEF IsSeq
<1>2. e \in S
  OBVIOUS
<1> HIDE DEF S
<1>3. t \in Seq(S) /\ Len(t) = Len(s) + 1 /\ t[1] = e /\ t # <<>> /\ Head(t) = e
  BY <1>1, <1>2
<1>4. \A i \in 2 .. Len(t) : t[i] = s[i - 1]
  BY <1>1, <1>2
<1>5. Tail(t) = s
  BY <1>1, <1>2
<1> QED BY <1>3, <1>4, <1>5, SeqIntro DEF Push

\* A sequence is its head in front of its tail.
LEMMA TailSeq ==
  ASSUME NEW s, IsSeq(s), s # <<>>
  PROVE  /\ IsSeq(Tail(s)) /\ Len(Tail(s)) = Len(s) - 1 /\ Len(s) >= 1
         /\ Head(s) = s[1] /\ s = Push(Head(s), Tail(s))
         /\ \A i \in 1 .. Len(s) - 1 : Tail(s)[i] = s[i + 1]
<1> DEFINE S == {s[i] : i \in DOMAIN s}
<1>1. s \in Seq(S)
  BY DEF IsSeq
<1> HIDE DEF S
<1>2. Tail(s) \in Seq(S) /\ Len(Tail(s)) = Len(s) - 1 /\ Len(s) >= 1 /\ Head(s) = s[1]
  BY <1>1
<1>3. \A i \in 1 .. Len(s) - 1 : Tail(s)[i] = s[i + 1]
  BY <1>1
<1>4. s = Push(Head(s), Tail(s))
  BY <1>1 DEF Push
<1> QED BY <1>2, <1>3, <1>4, SeqIntro

\* A sequence with one more element at its end.
LEMMA AppendSeq ==
  ASSUME NEW s, IsSeq(s), NEW e
  PROVE  LET t == Append(s, e)
         IN  /\ IsSeq(t) /\ t # <<>> /\ Len(t) = Len(s) + 1 /\ t[Len(t)] = e
             /\ \A i \in 1 .. Len(s) : t[i] = s[i]
<1> DEFINE S == {s[i] : i \in DOMAIN s} \cup {e}
           t == Append(s, e)
<1>1. s \in Seq(S)
  BY DEF IsSeq
<1>2. e \in S
  OBVIOUS
<1> HIDE DEF S
<1>3. t \in Seq(S) /\ Len(t) = Len(s) + 1 /\ t[Len(t)] = e /\ t # <<>>
  BY <1>1, <1>2
<1>4. \A i \in 1 .. Len(s) : t[i] = s[i]
  BY <1>1, <1>2
<1> QED BY <1>3, <1>4, SeqIntro

-----------------------------------------------------------------------------
\* An operand of an expression, and where the tree of one begins.
Kid(p, n, k) == p.nodes[n].kids[k]
First(p, n) == Leftmost(p)[n]

\* The operands of a binary expression that has not all of them: their types
\* are in its frame only, those of lists and calls are in the map.
PendingIn(p, f) ==
  {x \in 1 .. Len(p.nodes) :
     p.nodes[f.node].kind = "binary" /\ \E k \in 1 .. Len(f.args) : x = Kid(p, f.node, k)}
Pending(p, calls) ==
  {x \in 1 .. Len(p.nodes) : \E i \in 1 .. Len(calls) : x \in PendingIn(p, calls[i])}

\* A frame has the types of its first operands, which have no null in them.
GivenKids(p, f) ==
  /\ Len(f.args) <= Len(p.nodes[f.node].kids)
  /\ \A k \in 1 .. Len(f.args) : First(p, Kid(p, f.node, k)) # 0

\* The call of a frame has called calculateType for its next operand.
IsWaiting(p, f) ==
  /\ f.node \in 1 .. Len(p.nodes)
  /\ p.nodes[f.node].kind \in {"list", "call", "binary"}
  /\ Len(f.args) < Len(p.nodes[f.node].kids)
  /\ GivenKids(p, f)

Awaited(p, f) == Kid(p, f.node, Len(f.args) + 1)

\* Each call waits for the one inside it, the innermost one for focus.
Path(p, body, calls, focus) ==
  /\ IsStack(calls)
  /\ focus \in 0 .. Len(p.nodes)
  /\ \A i \in 1 .. Len(calls) : IsWaiting(p, calls[i])
  /\ calls = <<>> => focus = body
  /\ calls # <<>> => focus = Awaited(p, calls[1]) /\ calls[Len(calls)].node = body
  /\ \A i \in 2 .. Len(calls) : calls[i - 1].node = Awaited(p, calls[i])
  /\ First(p, body) # 0 => First(p, focus) # 0 /\ \A i \in 1 .. Len(calls) : First(p, calls[i].node) # 0

\* The trees of the active calls lie behind what the calls outside them have.
Nested(p, body, calls, focus) ==
  /\ First(p, body) <= First(p, focus) /\ \A x \in Pending(p, calls) : x < First(p, focus)
  /\ \A i, j \in 1 .. Len(calls) : i < j =>
        \A x \in PendingIn(p, calls[j]) : x < First(p, calls[i].node)
  /\ \A i \in 1 .. Len(calls) : First(p, body) <= First(p, calls[i].node)

\* A program that the parser returns.
IsParsed(p) == IsProgram(p) /\ InPostOrder(p)

\* What the numbering says of an expression: nothing in it is null if and
\* only if nothing in its operands is.
LEMMA NodeFacts ==
  ASSUME NEW p, IsParsed(p), NEW n \in 1 .. Len(p.nodes)
  PROVE  /\ Len(p.nodes) \in Nat
         /\ p.nodes[n].kids \in Seq(0 .. n - 1)
         /\ IsExpression(p.nodes[n], n)
         /\ Len(p.nodes[n].kids) \in Nat
         /\ Len(p.nodes[n].kids) = 0 => p.nodes[n].kids = <<>>
         /\ \A k \in 1 .. Len(p.nodes[n].kids) : Kid(p, n, k) \in 0 .. n - 1
         /\ First(p, n) \in 0 .. n /\ First(p, 0) = 0
         /\ First(p, n) # 0 => \A k \in 1 .. Len(p.nodes[n].kids) : First(p, Kid(p, n, k)) # 0
         /\ (\A k \in 1 .. Len(p.nodes[n].kids) : First(p, Kid(p, n, k)) # 0) => First(p, n) # 0
<1>1. Len(p.nodes) \in Nat
  BY DEF IsParsed, IsProgram
<1>2. IsExpression(p.nodes[n], n)
  BY DEF IsParsed, IsProgram
<1>3. p.nodes[n].kids \in Seq(0 .. n - 1)
  BY <1>2 DEF IsExpression
<1>4. First(p, n) \in 0 .. n /\ First(p, 0) = 0
  BY DEF IsParsed, InPostOrder, First
<1>6. /\ First(p, n) # 0 => \A k \in 1 .. Len(p.nodes[n].kids) : First(p, Kid(p, n, k)) # 0
      /\ (\A k \in 1 .. Len(p.nodes[n].kids) : First(p, Kid(p, n, k)) # 0) => First(p, n) # 0
  BY Zenon DEF IsParsed, InPostOrder, First, Kid
<1>5. IsSeq(p.nodes[n].kids)
  BY <1>3, SeqIntro
<1> QED BY <1>1, <1>2, <1>3, <1>4, <1>5, <1>6, SeqDomain DEF Kid

\* What it says of the operands of one without null.
LEMMA KidFacts ==
  ASSUME NEW p, IsParsed(p), NEW n \in 1 .. Len(p.nodes),
         NEW k \in 1 .. Len(p.nodes[n].kids), First(p, n) # 0
  PROVE  /\ Kid(p, n, k) \in 1 .. Len(p.nodes) /\ Kid(p, n, k) < n
         /\ First(p, n) <= First(p, Kid(p, n, k))
         /\ k = 1 => First(p, Kid(p, n, k)) = First(p, n)
         /\ k > 1 => First(p, Kid(p, n, k)) = Kid(p, n, k - 1) + 1
         /\ k = Len(p.nodes[n].kids) => Kid(p, n, k) = n - 1
<1>1. Kid(p, n, k) \in 1 .. Len(p.nodes) /\ Kid(p, n, k) < n
  <2>1. Kid(p, n, k) \in 0 .. n - 1 /\ Len(p.nodes) \in Nat
        /\ First(p, Kid(p, n, k)) # 0 /\ First(p, 0) = 0
    BY NodeFacts
  <2> QED BY <2>1
<1>2. /\ First(p, n) <= First(p, Kid(p, n, k))
      /\ k = 1 => First(p, n) = First(p, Kid(p, n, k))
      /\ k > 1 => First(p, Kid(p, n, k)) = Kid(p, n, k - 1) + 1
      /\ k = Len(p.nodes[n].kids) => Kid(p, n, k) = n - 1
  BY Zenon DEF IsParsed, InPostOrder, First, Kid
<1> QED BY <1>1, <1>2

\* A call that waits is not one of a null pointer.
LEMMA WaitingNode ==
  ASSUME NEW p, NEW f, IsWaiting(p, f)
  PROVE  f.node # 0
BY DEF IsWaiting

\* There is one number below two.
LEMMA OneOfTwo ==
  ASSUME NEW m \in Nat, m < 2, NEW k \in 1 .. m
  PROVE  m = 1 /\ k = 1
OBVIOUS

\* A call that waits has an operand to wait for.
LEMMA WaitingFacts ==
  ASSUME NEW p, IsParsed(p), NEW f, IsFrame(f), IsWaiting(p, f)
  PROVE  /\ f.node \in 1 .. Len(p.nodes) /\ Len(f.args) \in Nat
         /\ Len(p.nodes[f.node].kids) \in Nat /\ Len(f.args) < Len(p.nodes[f.node].kids)
         /\ Len(f.args) + 1 \in 1 .. Len(p.nodes[f.node].kids)
         /\ Awaited(p, f) \in 0 .. Len(p.nodes)
<1> DEFINE given == Len(f.args)
           arity == Len(p.nodes[f.node].kids)
           n == f.node
<1>1. given \in Nat
  BY SeqDomain DEF IsFrame
<1>2. n \in 1 .. Len(p.nodes) /\ given < arity
  BY DEF IsWaiting
<1>3. Len(p.nodes) \in Nat /\ arity \in Nat /\ \A k \in 1 .. arity : Kid(p, n, k) \in 0 .. n - 1
  BY <1>2, NodeFacts
<1>4. Awaited(p, f) = Kid(p, n, given + 1)
  BY DEF Awaited
<1> HIDE DEF given, arity, n
<1>5. given + 1 \in 1 .. arity
  BY <1>1, <1>2, <1>3
<1>6. Awaited(p, f) \in 0 .. n - 1
  BY <1>3, <1>4, <1>5
<1>7. Awaited(p, f) \in 0 .. Len(p.nodes)
  BY <1>2, <1>3, <1>6
<1> QED BY <1>1, <1>2, <1>3, <1>5, <1>7 DEF given, arity, n

\* A call for an expression leaves its caller waiting.
LEMMA PathPush ==
  ASSUME NEW p, IsParsed(p), NEW body, NEW calls, NEW f,
         IsFrame(f), Path(p, body, calls, f.node), IsWaiting(p, f)
  PROVE  Path(p, body, Push(f, calls), Awaited(p, f))
<1> DEFINE pushed == Push(f, calls)
<1>1. IsSeq(calls) /\ Len(calls) \in Nat
  BY SeqDomain DEF Path, IsStack
<1>2. /\ IsSeq(pushed) /\ pushed # <<>> /\ Len(pushed) = Len(calls) + 1 /\ pushed[1] = f
      /\ \A i \in 2 .. Len(pushed) : pushed[i] = calls[i - 1]
  BY <1>1, PushSeq
<1> HIDE DEF pushed
<1>3. \A i \in 1 .. Len(pushed) : i = 1 \/ (i - 1 \in 1 .. Len(calls) /\ pushed[i] = calls[i - 1])
  BY <1>1, <1>2
<1>4. IsStack(pushed)
  BY <1>2, <1>3 DEF IsStack, Path
<1>5. Awaited(p, f) \in 0 .. Len(p.nodes)
  <2>1. Len(f.args) \in Nat
    BY SeqDomain DEF IsFrame
  <2>2. f.node \in 1 .. Len(p.nodes) /\ Len(f.args) < Len(p.nodes[f.node].kids)
    BY DEF IsWaiting
  <2>3. /\ Len(p.nodes) \in Nat /\ Len(p.nodes[f.node].kids) \in Nat
        /\ \A k \in 1 .. Len(p.nodes[f.node].kids) : Kid(p, f.node, k) \in 0 .. f.node - 1
    BY <2>2, NodeFacts
  <2>4. Awaited(p, f) \in 0 .. f.node - 1
    BY <2>1, <2>2, <2>3 DEF Awaited
  <2> QED BY <2>2, <2>3, <2>4
<1>6. \A i \in 1 .. Len(pushed) : IsWaiting(p, pushed[i])
  BY <1>2, <1>3 DEF Path
<1>7. pushed[Len(pushed)].node = body
  <2>1. CASE calls = <<>>
    BY <2>1, <1>2, <1>1, SeqDomain DEF Path
  <2>2. CASE calls # <<>>
    BY <2>2, <1>2, <1>1, SeqDomain DEF Path
  <2> QED BY <2>1, <2>2
<1>8. \A i \in 2 .. Len(pushed) : pushed[i - 1].node = Awaited(p, pushed[i])
  <2> SUFFICES ASSUME NEW i \in 2 .. Len(pushed)
               PROVE  pushed[i - 1].node = Awaited(p, pushed[i])
    OBVIOUS
  <2>1. CASE i = 2
    BY <2>1, <1>1, <1>2, <1>3, SeqDomain DEF Path
  <2>2. CASE i > 2
    <3>1. i - 1 \in 2 .. Len(pushed) /\ i - 1 \in 2 .. Len(calls)
      BY <2>2, <1>1, <1>2
    <3>2. pushed[i - 1] = calls[i - 2] /\ pushed[i] = calls[i - 1]
      BY <3>1, <1>1, <1>2
    <3>3. calls[i - 2].node = Awaited(p, calls[i - 1])
      BY <3>1 DEF Path
    <3> QED BY <3>2, <3>3
  <2> QED BY <2>1, <2>2, <1>1, <1>2
<1>9. ASSUME First(p, body) # 0
      PROVE  First(p, Awaited(p, f)) # 0 /\ \A i \in 1 .. Len(pushed) : First(p, pushed[i].node) # 0
  <2>1. First(p, f.node) # 0 /\ \A i \in 1 .. Len(calls) : First(p, calls[i].node) # 0
    BY <1>9 DEF Path
  <2>2. First(p, Awaited(p, f)) # 0
    <3>1. f.node \in 1 .. Len(p.nodes) /\ Len(f.args) + 1 \in 1 .. Len(p.nodes[f.node].kids)
      BY WaitingFacts
    <3>2. \A k \in 1 .. Len(p.nodes[f.node].kids) : First(p, Kid(p, f.node, k)) # 0
      BY <2>1, <3>1, NodeFacts
    <3> QED BY <3>1, <3>2 DEF Awaited
  <2> QED BY <2>1, <2>2, <1>2, <1>3
<1> QED BY <1>2, <1>4, <1>5, <1>6, <1>7, <1>8, <1>9 DEF Path, pushed

\* A caller that goes on is the expression its own caller waits for.
LEMMA PathPop ==
  ASSUME NEW p, IsParsed(p), NEW body, NEW calls, NEW focus,
         Path(p, body, calls, focus), calls # <<>>
  PROVE  /\ Path(p, body, Tail(calls), Head(calls).node)
         /\ IsFrame(Head(calls)) /\ IsWaiting(p, Head(calls)) /\ Awaited(p, Head(calls)) = focus
<1> DEFINE rest == Tail(calls)
<1>1. IsSeq(calls) /\ Len(calls) \in Nat
  BY SeqDomain DEF Path, IsStack
<1>2. /\ IsSeq(rest) /\ Len(rest) = Len(calls) - 1 /\ Len(calls) >= 1 /\ Head(calls) = calls[1]
      /\ \A i \in 1 .. Len(calls) - 1 : rest[i] = calls[i + 1]
  BY <1>1, TailSeq
<1> HIDE DEF rest
<1>3. \A i \in 1 .. Len(rest) : i + 1 \in 2 .. Len(calls) /\ i + 1 \in 1 .. Len(calls) /\ rest[i] = calls[i + 1]
  BY <1>1, <1>2
<1>4. IsStack(rest) /\ IsFrame(Head(calls)) /\ IsWaiting(p, Head(calls)) /\ Awaited(p, Head(calls)) = focus
  BY <1>1, <1>2, <1>3 DEF IsStack, Path
<1>5. Head(calls).node \in 0 .. Len(p.nodes)
  BY <1>4, NodeFacts DEF IsWaiting
<1>6. \A i \in 1 .. Len(rest) : IsWaiting(p, rest[i])
  BY <1>3 DEF Path
<1>7. rest = <<>> => Head(calls).node = body
  <2> SUFFICES ASSUME rest = <<>> PROVE Head(calls).node = body
    OBVIOUS
  <2>1. Len(rest) = 0
    BY <1>2, SeqDomain
  <2>2. Len(calls) = 1
    BY <2>1, <1>1, <1>2
  <2>3. calls[Len(calls)].node = body
    BY DEF Path
  <2> QED BY <2>2, <2>3, <1>2
<1>8. rest # <<>> => Head(calls).node = Awaited(p, rest[1]) /\ rest[Len(rest)].node = body
  <2> SUFFICES ASSUME rest # <<>>
               PROVE  Head(calls).node = Awaited(p, rest[1]) /\ rest[Len(rest)].node = body
    OBVIOUS
  <2>1. Len(rest) >= 1
    BY <1>1, <1>2, SeqDomain
  <2>2. calls[1].node = Awaited(p, calls[2]) /\ rest[1] = calls[2] /\ rest[Len(rest)] = calls[Len(calls)]
    BY <2>1, <1>1, <1>2 DEF Path
  <2> QED BY <2>2, <1>1, <1>2, SeqDomain DEF Path
<1>9. \A i \in 2 .. Len(rest) : rest[i - 1].node = Awaited(p, rest[i])
  <2> SUFFICES ASSUME NEW i \in 2 .. Len(rest)
               PROVE  rest[i - 1].node = Awaited(p, rest[i])
    OBVIOUS
  <2>1. rest[i - 1] = calls[i] /\ rest[i] = calls[i + 1] /\ i + 1 \in 2 .. Len(calls)
    BY <1>1, <1>2
  <2>2. calls[(i + 1) - 1].node = Awaited(p, calls[i + 1])
    BY <2>1 DEF Path
  <2> QED BY <2>1, <2>2
<1>10. First(p, body) # 0 => /\ First(p, Head(calls).node) # 0
                             /\ \A i \in 1 .. Len(rest) : First(p, rest[i].node) # 0
  BY SMTT(60), <1>1, <1>2, <1>3 DEF Path
<1> QED BY <1>4, <1>5, <1>6, <1>7, <1>8, <1>9, <1>10 DEF Path, rest

\* One more call adds its own pending operands.
LEMMA PendingPush ==
  ASSUME NEW p, NEW calls, IsSeq(calls), NEW f
  PROVE  Pending(p, Push(f, calls)) = PendingIn(p, f) \cup Pending(p, calls)
<1> DEFINE pushed == Push(f, calls)
<1>1. Len(calls) \in Nat
  BY SeqDomain
<1>2. /\ Len(pushed) = Len(calls) + 1 /\ pushed[1] = f
      /\ \A i \in 2 .. Len(pushed) : pushed[i] = calls[i - 1]
  BY PushSeq
<1> HIDE DEF pushed
<1>3. ASSUME NEW x \in Pending(p, pushed)
      PROVE  x \in PendingIn(p, f) \cup Pending(p, calls)
  <2>1. PICK i \in 1 .. Len(pushed) : x \in PendingIn(p, pushed[i])
    BY <1>3 DEF Pending
  <2>2. CASE i = 1
    BY <2>1, <2>2, <1>2
  <2>3. CASE i # 1
    <3>1. i - 1 \in 1 .. Len(calls) /\ pushed[i] = calls[i - 1]
      BY <2>3, <1>1, <1>2
    <3> QED BY <3>1, <2>1, <1>3 DEF Pending
  <2> QED BY <2>2, <2>3
<1>4. ASSUME NEW x \in PendingIn(p, f)
      PROVE  x \in Pending(p, pushed)
  <2>1. 1 \in 1 .. Len(pushed) /\ x \in 1 .. Len(p.nodes)
    BY <1>1, <1>2, <1>4 DEF PendingIn
  <2> QED BY <2>1, <1>2, <1>4 DEF Pending
<1>5. ASSUME NEW x \in Pending(p, calls)
      PROVE  x \in Pending(p, pushed)
  <2>1. PICK i \in 1 .. Len(calls) : x \in PendingIn(p, calls[i])
    BY <1>5 DEF Pending
  <2>2. i + 1 \in 1 .. Len(pushed) /\ pushed[i + 1] = calls[i]
    BY <1>1, <1>2
  <2> QED BY <2>1, <2>2, <1>5 DEF Pending
<1> QED BY <1>3, <1>4, <1>5 DEF pushed

\* The number at which the tree of the next operand begins, or that of the
\* expression itself when it has all its operands.
NextId(p, f) ==
  IF Len(f.args) = 0 THEN First(p, f.node) ELSE Kid(p, f.node, Len(f.args)) + 1

\* The tree of an operand begins right behind those of the operands before.
LEMMA DescendFacts ==
  ASSUME NEW p, IsParsed(p), NEW f, IsFrame(f), IsWaiting(p, f), First(p, f.node) # 0
  PROVE  /\ Awaited(p, f) \in 1 .. Len(p.nodes)
         /\ First(p, f.node) <= First(p, Awaited(p, f))
         /\ First(p, Awaited(p, f)) = NextId(p, f)
         /\ Awaited(p, f) < f.node
<1> DEFINE given == Len(f.args)
           n == f.node
           k == given + 1
<1>1. /\ given \in Nat /\ n \in 1 .. Len(p.nodes) /\ k \in 1 .. Len(p.nodes[n].kids)
      /\ Awaited(p, f) = Kid(p, n, k)
  BY WaitingFacts DEF Awaited
<1>3. NextId(p, f) = IF given = 0 THEN First(p, n) ELSE Kid(p, n, given) + 1
  BY DEF NextId
<1> HIDE DEF n, k
<1>4. /\ Kid(p, n, k) \in 1 .. Len(p.nodes) /\ Kid(p, n, k) < n
      /\ First(p, n) <= First(p, Kid(p, n, k))
      /\ k = 1 => First(p, Kid(p, n, k)) = First(p, n)
      /\ k > 1 => First(p, Kid(p, n, k)) = Kid(p, n, k - 1) + 1
  BY <1>1, KidFacts DEF n
<1> HIDE DEF given
<1>5. First(p, Kid(p, n, k)) = NextId(p, f)
  <2>1. CASE given = 0
    BY <2>1, <1>3, <1>4 DEF k
  <2>2. CASE given # 0
    BY <2>2, <1>1, <1>3, <1>4 DEF k
  <2> QED BY <2>1, <2>2
<1> QED BY <1>1, <1>4, <1>5 DEF n

\* The trees of all operands of an expression end right before it.
LEMMA CompleteFacts ==
  ASSUME NEW p, IsParsed(p), NEW f, IsFrame(f), f.node \in 1 .. Len(p.nodes), GivenKids(p, f),
         Len(f.args) = Len(p.nodes[f.node].kids)
  PROVE  NextId(p, f) = f.node /\ First(p, f.node) # 0
<1> DEFINE given == Len(f.args)
           n == f.node
<1>1. given \in Nat /\ NextId(p, f) = IF given = 0 THEN First(p, n) ELSE Kid(p, n, given) + 1
  BY SeqDomain DEF IsFrame, NextId
<1>2. \A j \in 1 .. given : First(p, Kid(p, n, j)) # 0
  BY DEF GivenKids
<1>3. given = Len(p.nodes[n].kids) /\ n \in 1 .. Len(p.nodes)
  OBVIOUS
<1> HIDE DEF given, n
<1>6. First(p, n) # 0
  BY <1>2, <1>3, NodeFacts
<1>4. CASE given = 0
  <2>1. p.nodes[n].kids = <<>>
    <3>1. Len(p.nodes[n].kids) = 0 => p.nodes[n].kids = <<>>
      BY <1>3, NodeFacts
    <3> QED BY <1>3, <1>4, <3>1
  <2>2. First(p, n) = n
    BY <1>3, <1>6, <2>1 DEF IsParsed, InPostOrder, First
  <2> QED BY <1>1, <1>4, <1>6, <2>2 DEF n
<1>5. CASE given # 0
  <2>1. given \in 1 .. Len(p.nodes[n].kids)
    BY <1>1, <1>3, <1>5
  <2>2. Kid(p, n, given) = n - 1
    BY <1>3, <1>6, <2>1, KidFacts
  <2> QED BY <1>1, <1>3, <1>5, <1>6, <2>2 DEF n
<1> QED BY <1>4, <1>5

\* A call keeps its callers' operands in front of its own.
LEMMA NestedPush ==
  ASSUME NEW p, IsParsed(p), NEW body, NEW calls, NEW f,
         IsFrame(f), Path(p, body, calls, f.node), Nested(p, body, calls, f.node), IsWaiting(p, f),
         body \in 1 .. Len(p.nodes), First(p, body) # 0
  PROVE  Nested(p, body, Push(f, calls), Awaited(p, f))
<1> DEFINE pushed == Push(f, calls)
           n == f.node
           next == Awaited(p, f)
<1>1. IsSeq(calls) /\ Len(calls) \in Nat /\ Len(f.args) \in Nat
  BY SeqDomain DEF Path, IsStack, IsFrame
<1>2. /\ Len(pushed) = Len(calls) + 1 /\ pushed[1] = f
      /\ \A i \in 2 .. Len(pushed) : pushed[i] = calls[i - 1]
  BY <1>1, PushSeq
<1>3. Pending(p, pushed) = PendingIn(p, f) \cup Pending(p, calls)
  BY <1>1, PendingPush
<1>4. n \in 1 .. Len(p.nodes) /\ Len(f.args) + 1 \in 1 .. Len(p.nodes[n].kids)
  BY WaitingFacts
<1>5. /\ First(p, body) <= First(p, n) /\ \A x \in Pending(p, calls) : x < First(p, n)
      /\ First(p, body) \in Int /\ First(p, n) \in Int
  <2>1. First(p, n) \in 0 .. n /\ First(p, body) \in 0 .. body
    BY <1>4, NodeFacts
  <2> QED BY <2>1 DEF Nested
<1>0. First(p, n) # 0
  BY DEF Path
<1>6. /\ First(p, n) <= First(p, next) /\ First(p, next) \in Int
      /\ \A x \in PendingIn(p, f) : x < First(p, next)
  <2>1. /\ next \in 1 .. Len(p.nodes) /\ First(p, n) <= First(p, next)
        /\ First(p, next) = NextId(p, f)
    BY <1>0, DescendFacts
  <2>2. First(p, next) \in 0 .. next
    BY <2>1, NodeFacts
  <2>3. ASSUME NEW x \in PendingIn(p, f) PROVE x < First(p, next)
    <3>1. PICK k \in 1 .. Len(f.args) : x = Kid(p, n, k)
      BY <2>3 DEF PendingIn
    <3>2. x \in 1 .. Len(p.nodes) /\ p.nodes[n].kind = "binary"
      BY <2>3 DEF PendingIn
    <3>3. Len(p.nodes[n].kids) = 2
      BY <3>2, <1>4, NodeFacts DEF IsExpression
    <3>4. Len(f.args) \in Nat /\ Len(f.args) < Len(p.nodes[n].kids)
      BY WaitingFacts
    <3>5. Len(f.args) = 1 /\ k = 1
      BY <3>1, <3>3, <3>4, OneOfTwo, Zenon
    <3> QED BY <2>1, <3>1, <3>2, <3>5 DEF NextId
  <2> QED BY <2>1, <2>2, <2>3
<1> HIDE DEF next, pushed
<1>7. First(p, body) <= First(p, next) /\ \A x \in Pending(p, pushed) : x < First(p, next)
  <2>1. ASSUME NEW x \in Pending(p, calls) PROVE x < First(p, next)
    <3>1. x \in Int
      BY DEF Pending
    <3> QED BY <1>5, <1>6, <3>1
  <2> QED BY <1>3, <1>5, <1>6, <2>1
<1>8. \A i, j \in 1 .. Len(pushed) : i < j =>
        \A x \in PendingIn(p, pushed[j]) : x < First(p, pushed[i].node)
  <2> SUFFICES ASSUME NEW i \in 1 .. Len(pushed), NEW j \in 1 .. Len(pushed), i < j,
                      NEW x \in PendingIn(p, pushed[j])
               PROVE  x < First(p, pushed[i].node)
    OBVIOUS
  <2>1. j - 1 \in 1 .. Len(calls) /\ pushed[j] = calls[j - 1]
    BY <1>1, <1>2
  <2>2. CASE i = 1
    <3>1. x \in Pending(p, calls)
      BY <2>1 DEF Pending, PendingIn
    <3> QED BY <3>1, <2>2, <1>2, <1>5
  <2>3. CASE i # 1
    <3>1. i - 1 \in 1 .. Len(calls) /\ pushed[i] = calls[i - 1] /\ i - 1 < j - 1
      BY <2>3, <1>1, <1>2
    <3> QED BY <3>1, <2>1 DEF Nested
  <2> QED BY <2>2, <2>3
<1>9. \A i \in 1 .. Len(pushed) : First(p, body) <= First(p, pushed[i].node)
  <2> SUFFICES ASSUME NEW i \in 1 .. Len(pushed)
               PROVE  First(p, body) <= First(p, pushed[i].node)
    OBVIOUS
  <2>1. CASE i = 1
    BY <2>1, <1>2, <1>5
  <2>2. CASE i # 1
    <3>1. i - 1 \in 1 .. Len(calls) /\ pushed[i] = calls[i - 1]
      BY <2>2, <1>1, <1>2
    <3> QED BY <3>1 DEF Nested
  <2> QED BY <2>1, <2>2
<1> QED BY <1>7, <1>8, <1>9 DEF Nested, next, pushed

\* So it was before the call.
LEMMA NestedPop ==
  ASSUME NEW p, IsParsed(p), NEW body, NEW calls, NEW focus,
         Path(p, body, calls, focus), Nested(p, body, calls, focus), calls # <<>>
  PROVE  Nested(p, body, Tail(calls), Head(calls).node)
<1> DEFINE rest == Tail(calls)
<1>1. IsSeq(calls) /\ Len(calls) \in Nat
  BY SeqDomain DEF Path, IsStack
<1>2. /\ Len(rest) = Len(calls) - 1 /\ Len(calls) >= 1 /\ Head(calls) = calls[1]
      /\ \A i \in 1 .. Len(calls) - 1 : rest[i] = calls[i + 1]
  BY <1>1, TailSeq
<1> HIDE DEF rest
<1>3. \A i \in 1 .. Len(rest) : i + 1 \in 2 .. Len(calls) /\ i + 1 \in 1 .. Len(calls) /\ rest[i] = calls[i + 1]
  BY <1>1, <1>2
<1>4. First(p, body) <= First(p, Head(calls).node)
  BY <1>1, <1>2 DEF Nested
<1>5. \A x \in Pending(p, rest) : x < First(p, Head(calls).node)
  <2> SUFFICES ASSUME NEW x \in Pending(p, rest) PROVE x < First(p, Head(calls).node)
    OBVIOUS
  <2>1. PICK i \in 1 .. Len(rest) : x \in PendingIn(p, rest[i])
    BY DEF Pending
  <2>2. i + 1 \in 1 .. Len(calls) /\ 1 \in 1 .. Len(calls) /\ 1 < i + 1 /\ rest[i] = calls[i + 1]
    BY <1>1, <1>2, <1>3
  <2> QED BY <2>1, <2>2, <1>2 DEF Nested
<1>6. \A i, j \in 1 .. Len(rest) : i < j => \A x \in PendingIn(p, rest[j]) : x < First(p, rest[i].node)
  <2> SUFFICES ASSUME NEW i \in 1 .. Len(rest), NEW j \in 1 .. Len(rest), i < j,
                      NEW x \in PendingIn(p, rest[j])
               PROVE  x < First(p, rest[i].node)
    OBVIOUS
  <2>1. i + 1 \in 1 .. Len(calls) /\ j + 1 \in 1 .. Len(calls) /\ i + 1 < j + 1
    BY <1>3
  <2> QED BY <2>1, <1>3 DEF Nested
<1>7. \A i \in 1 .. Len(rest) : First(p, body) <= First(p, rest[i].node)
  BY <1>3 DEF Nested
<1> QED BY <1>4, <1>5, <1>6, <1>7 DEF Nested, rest

-----------------------------------------------------------------------------
\* Two sets that share nothing make up a third.
Partition(whole, left, right) == left \cup right = whole /\ left \cap right = {}

\* calculateType looks at the expression of the frame on top.
Visiting(p, body, s) ==
  /\ IsStack(s) /\ s # <<>>
  /\ Path(p, body, Tail(s), Head(s).node)
  /\ Head(s).node # 0 => GivenKids(p, Head(s))

\* It has returned from Yielded to the frame on top.
Yielded(p, body, s) == IF s = <<>> THEN body ELSE Awaited(p, Head(s))

\* It has returned to the callers in s.
Returning(p, body, s) ==
  /\ Path(p, body, s, Yielded(p, body, s))
  /\ First(p, Yielded(p, body, s)) # 0

\* Of a function without null pointers, the expressions in front of the one
\* looked at are in the map or pending.
VisitingCounts(p, body, s, recorded) ==
  First(p, body) # 0 =>
    /\ Nested(p, body, Tail(s), Head(s).node)
    /\ Partition(First(p, body) .. NextId(p, Head(s)) - 1, recorded, Pending(p, s))

\* Those up to the one it has returned from are, or that one itself.
ReturningCounts(p, body, s, recorded) ==
  First(p, body) # 0 =>
    /\ Nested(p, body, s, Yielded(p, body, s))
    /\ Partition(First(p, body) .. Yielded(p, body, s), recorded,
                 Pending(p, s) \cup {Yielded(p, body, s)})

\* A call that begins.
NewFrame(n) == [node |-> n, args |-> <<>>]

\* It has no operands yet.
LEMMA NewFrameFacts ==
  ASSUME NEW p, NEW n
  PROVE  /\ IsFrame(NewFrame(n)) /\ NewFrame(n).node = n /\ NewFrame(n).args = <<>>
         /\ Len(NewFrame(n).args) = 0 /\ PendingIn(p, NewFrame(n)) = {}
<1>1. IsFrame(NewFrame(n)) /\ NewFrame(n).node = n /\ NewFrame(n).args = <<>> /\ Len(NewFrame(n).args) = 0
  BY DEF IsFrame, IsSeq, NewFrame
<1>2. PendingIn(p, NewFrame(n)) = {}
  BY <1>1 DEF PendingIn
<1> QED BY <1>1, <1>2

\* Nothing is pending without calls.
LEMMA EmptyPending ==
  ASSUME NEW p
  PROVE  Pending(p, <<>>) = {}
BY DEF Pending

\* analyze() calls calculateType on the body of a function.
LEMMA VisitBody ==
  ASSUME NEW p, IsParsed(p), NEW body \in 0 .. Len(p.nodes)
  PROVE  /\ Visiting(p, body, <<NewFrame(body)>>)
         /\ VisitingCounts(p, body, <<NewFrame(body)>>, {})
<1> DEFINE f == NewFrame(body)
           s == <<f>>
<1>1. IsFrame(f) /\ f.node = body /\ f.args = <<>> /\ Len(f.args) = 0 /\ PendingIn(p, f) = {}
  BY NewFrameFacts
<1>2. IsSeq(<<>>)
  BY DEF IsSeq
<1> HIDE DEF f
<1>3. IsStack(<<>>) /\ IsStack(s) /\ s # <<>> /\ Head(s) = f /\ Tail(s) = <<>>
  <2>1. s = Push(f, <<>>)
    BY DEF Push
  <2>2. IsSeq(s) /\ Len(s) = 1 /\ s[1] = f
    BY <2>1, <1>2, PushSeq
  <2> QED BY <1>1, <1>2, <2>2 DEF IsStack
<1>4. Pending(p, s) = {}
  <2>1. s = Push(f, <<>>)
    BY DEF Push
  <2> HIDE DEF s
  <2> QED BY <1>1, <1>2, <2>1, PendingPush, EmptyPending
<1> HIDE DEF s
<1>5. Path(p, body, <<>>, body)
  BY <1>3 DEF Path
<1>9. First(p, body) # 0 => body \in 1 .. Len(p.nodes)
  BY DEF IsParsed, InPostOrder, First
<1>6. First(p, body) # 0 => Nested(p, body, <<>>, body)
  <2>1. First(p, body) # 0 => First(p, body) \in Int
    BY <1>9, NodeFacts
  <2> QED BY <2>1, EmptyPending DEF Nested
<1>7. body # 0 => GivenKids(p, f)
  <2>1. body # 0 => Len(p.nodes[body].kids) \in Nat
    BY NodeFacts
  <2> QED BY <2>1, <1>1 DEF GivenKids
<1>8. VisitingCounts(p, body, s, {})
  <2>1. First(p, body) # 0 => First(p, body) \in Int /\ NextId(p, f) = First(p, body)
    BY <1>1, <1>9, NodeFacts DEF NextId
  <2>2. First(p, body) # 0 => Partition(First(p, body) .. NextId(p, f) - 1, {}, {})
    BY <2>1 DEF Partition
  <2> QED BY <1>1, <1>3, <1>4, <1>6, <2>2 DEF VisitingCounts
<1> QED BY <1>1, <1>3, <1>5, <1>6, <1>7, <1>8 DEF Visiting, f, s

\* It calls itself for the next operand of an expression.
LEMMA VisitOperand ==
  ASSUME NEW p, IsParsed(p), NEW body \in 0 .. Len(p.nodes), NEW s, NEW recorded,
         Visiting(p, body, s), IsWaiting(p, Head(s)), VisitingCounts(p, body, s, recorded)
  PROVE  LET t == Push(NewFrame(Awaited(p, Head(s))), s)
         IN  /\ Visiting(p, body, t)
             /\ VisitingCounts(p, body, t, recorded)
<1> DEFINE g == Head(s)
           f == NewFrame(Awaited(p, g))
           t == Push(f, s)
<1>1. /\ IsFrame(f) /\ f.node = Awaited(p, g) /\ f.args = <<>> /\ Len(f.args) = 0
      /\ PendingIn(p, f) = {}
  BY NewFrameFacts
<1> HIDE DEF f
<1>2. IsSeq(s) /\ s # <<>> /\ s = Push(g, Tail(s)) /\ s[1] = g /\ Len(s) \in Nat /\ Len(s) >= 1
  BY TailSeq, SeqDomain DEF Visiting, IsStack
<1>3. IsSeq(t) /\ t # <<>> /\ Head(t) = f /\ Tail(t) = s /\ Len(t) = Len(s) + 1 /\ t[1] = f
      /\ \A i \in 2 .. Len(t) : t[i] = s[i - 1]
  BY SMTT(60), <1>2, PushSeq
<1>4. IsStack(t)
  <2>1. \A i \in 1 .. Len(t) : i = 1 \/ (i - 1 \in 1 .. Len(s) /\ t[i] = s[i - 1])
    BY <1>2, <1>3
  <2> QED BY <1>1, <1>3, <2>1 DEF IsStack, Visiting
<1>5. Pending(p, t) = Pending(p, s)
  <2>1. Pending(p, t) = PendingIn(p, f) \cup Pending(p, s)
    BY <1>2, PendingPush
  <2> HIDE DEF t
  <2> QED BY <1>1, <2>1
<1> HIDE DEF t
<1>6. IsFrame(g)
  BY <1>2 DEF Visiting, IsStack
<1>7. Path(p, body, s, Awaited(p, g))
  BY <1>2, <1>6, PathPush DEF Visiting
<1>8. body # 0
  <2>1. body = s[Len(s)].node
    BY <1>2, <1>7 DEF Path
  <2>2. IsWaiting(p, s[Len(s)])
    BY <1>2, <1>7 DEF Path
  <2> QED BY <2>1, <2>2 DEF IsWaiting
<1>9. First(p, body) # 0 => Nested(p, body, s, Awaited(p, g))
  <2>1. body \in 1 .. Len(p.nodes)
    BY <1>8
  <2> QED BY <2>1, <1>2, <1>6, NestedPush DEF Visiting, VisitingCounts
<1>10. Awaited(p, g) # 0 => GivenKids(p, f)
  <2>1. Awaited(p, g) # 0 => Len(p.nodes[Awaited(p, g)].kids) \in Nat
    BY SMTT(60), <1>7, NodeFacts DEF Path
  <2> QED BY <2>1, <1>1 DEF GivenKids
<1>11. VisitingCounts(p, body, t, recorded)
  <2> SUFFICES ASSUME First(p, body) # 0 PROVE VisitingCounts(p, body, t, recorded)
    BY DEF VisitingCounts
  <2>1. First(p, g.node) # 0
    BY DEF Visiting, Path
  <2>2. NextId(p, f) = NextId(p, g)
    BY <1>1, <1>6, <2>1, DescendFacts DEF NextId
  <2> QED BY <1>1, <1>3, <1>5, <1>9, <2>2 DEF VisitingCounts
<1> QED BY <1>1, <1>2, <1>3, <1>4, <1>7, <1>9, <1>10, <1>11 DEF Visiting, t, f

\* It returns from an expression that has all its operands.
LEMMA ReturnFromVisit ==
  ASSUME NEW p, IsParsed(p), NEW body \in 0 .. Len(p.nodes), NEW s, NEW recorded,
         Visiting(p, body, s), VisitingCounts(p, body, s, recorded),
         Head(s).node # 0, Len(Head(s).args) = Len(p.nodes[Head(s).node].kids)
  PROVE  /\ Returning(p, body, Tail(s))
         /\ Yielded(p, body, Tail(s)) = Head(s).node
         /\ ReturningCounts(p, body, Tail(s), recorded \cup PendingIn(p, Head(s)))
<1> DEFINE g == Head(s)
           rest == Tail(s)
           n == g.node
<1>1. IsSeq(s) /\ s # <<>> /\ s = Push(g, rest) /\ s[1] = g /\ Len(s) >= 1 /\ IsSeq(rest)
  BY TailSeq DEF Visiting, IsStack
<1>2. IsFrame(g)
  <2>1. Len(s) \in Nat
    BY <1>1, SeqDomain
  <2> QED BY <1>1, <2>1 DEF Visiting, IsStack
<1>3. Path(p, body, rest, n) /\ n \in 1 .. Len(p.nodes) /\ GivenKids(p, g)
  BY DEF Visiting, Path
<1>4. Yielded(p, body, rest) = n
  <2>1. CASE rest = <<>>
    BY <2>1, <1>3 DEF Path, Yielded
  <2>2. CASE rest # <<>>
    BY <2>2, <1>1, <1>3, TailSeq DEF Path, Yielded
  <2> QED BY <2>1, <2>2
<1>5. NextId(p, g) = n /\ First(p, n) # 0
  BY <1>2, <1>3, CompleteFacts
<1>6. Pending(p, s) = PendingIn(p, g) \cup Pending(p, rest)
  BY <1>1, PendingPush
<1>7. ASSUME First(p, body) # 0
      PROVE  /\ First(p, body) \in Int /\ First(p, n) \in 1 .. n /\ n \in Nat
             /\ First(p, body) <= First(p, n) /\ \A x \in Pending(p, rest) : x < First(p, n)
             /\ Nested(p, body, rest, n)
  <2>1. Nested(p, body, rest, n)
    BY <1>7 DEF VisitingCounts
  <2>2. First(p, n) \in 0 .. n /\ First(p, body) <= First(p, n) /\ \A x \in Pending(p, rest) : x < First(p, n)
    BY <2>1, <1>3, NodeFacts DEF Nested
  <2>3. body # 0
    BY <1>7 DEF IsParsed, InPostOrder, First
  <2>4. First(p, body) \in 0 .. body
    BY <2>3, NodeFacts
  <2> QED BY <1>3, <1>5, <2>1, <2>2, <2>4
<1>8. \A x \in PendingIn(p, g) : x \in Int /\ First(p, n) <= x /\ x < n
  <2> SUFFICES ASSUME NEW x \in PendingIn(p, g) PROVE x \in Int /\ First(p, n) <= x /\ x < n
    OBVIOUS
  <2>1. PICK k \in 1 .. Len(g.args) : x = Kid(p, n, k)
    BY DEF PendingIn
  <2>2. k \in 1 .. Len(p.nodes[n].kids)
    BY <2>1, <1>3 DEF GivenKids
  <2>3. x \in 1 .. Len(p.nodes) /\ x < n /\ First(p, n) <= First(p, x)
    BY <2>1, <2>2, <1>3, <1>5, KidFacts
  <2>4. First(p, x) \in 0 .. x
    BY <2>3, NodeFacts
  <2>5. First(p, n) \in 0 .. n
    BY <1>3, NodeFacts
  <2> QED BY <2>3, <2>4, <2>5
<1>9. ASSUME First(p, body) # 0
      PROVE  Partition(First(p, body) .. n, recorded \cup PendingIn(p, g), Pending(p, rest) \cup {n})
  <2>1. /\ recorded \cup (PendingIn(p, g) \cup Pending(p, rest)) = First(p, body) .. n - 1
        /\ recorded \cap (PendingIn(p, g) \cup Pending(p, rest)) = {}
    BY <1>5, <1>6, <1>9 DEF VisitingCounts, Partition
  <2>2. First(p, body) .. n = (First(p, body) .. n - 1) \cup {n} /\ n \notin First(p, body) .. n - 1
    BY <1>7, <1>9
  <2>3. PendingIn(p, g) \cap Pending(p, rest) = {}
    BY <1>7, <1>8, <1>9
  <2> QED BY <2>1, <2>2, <2>3 DEF Partition
<1> QED BY <1>3, <1>4, <1>5, <1>7, <1>9 DEF Returning, ReturningCounts

\* A frame with one more result.
Given(f, type) == [f EXCEPT !.args = Append(@, type)]

\* A frame with one more result is a frame.
LEMMA GivenFacts ==
  ASSUME NEW f, IsFrame(f), NEW type
  PROVE  /\ IsFrame(Given(f, type)) /\ Given(f, type).node = f.node
         /\ Given(f, type).args = Append(f.args, type)
         /\ Len(Given(f, type).args) = Len(f.args) + 1 /\ Len(f.args) \in Nat
<1>1. f \in [node : {f.node}, args : {f.args}] /\ IsSeq(f.args)
  BY DEF IsFrame
<1>2. Given(f, type).node = f.node /\ Given(f, type).args = Append(f.args, type)
  BY <1>1 DEF Given
<1>3. IsSeq(Append(f.args, type)) /\ Len(Append(f.args, type)) = Len(f.args) + 1 /\ Len(f.args) \in Nat
  BY <1>1, AppendSeq, SeqDomain
<1>4. Given(f, type) \in [node : {f.node}, args : {Append(f.args, type)}]
  BY <1>1 DEF Given
<1> HIDE DEF Given
<1> QED BY <1>2, <1>3, <1>4 DEF IsFrame

\* The operand a call waited for is done; its type is pending in a binary one.
LEMMA GivenPending ==
  ASSUME NEW p, IsParsed(p), NEW f, IsFrame(f), IsWaiting(p, f), First(p, Awaited(p, f)) # 0, NEW type
  PROVE  /\ GivenKids(p, Given(f, type))
         /\ NextId(p, Given(f, type)) = Awaited(p, f) + 1
         /\ PendingIn(p, Given(f, type)) = IF p.nodes[f.node].kind = "binary"
                                           THEN PendingIn(p, f) \cup {Awaited(p, f)} ELSE {}
         /\ p.nodes[f.node].kind # "binary" => PendingIn(p, f) = {}
<1> DEFINE g == Given(f, type)
           m == Len(f.args)
           n == f.node
           a == Awaited(p, f)
<1>1. g.node = n /\ Len(g.args) = m + 1 /\ m \in Nat
  BY GivenFacts
<1>2. /\ n \in 1 .. Len(p.nodes) /\ Len(p.nodes[n].kids) \in Nat /\ m < Len(p.nodes[n].kids)
      /\ a \in 0 .. Len(p.nodes) /\ a = Kid(p, n, m + 1) /\ Len(p.nodes) \in Nat
      /\ \A k \in 1 .. m : First(p, Kid(p, n, k)) # 0
  BY WaitingFacts, NodeFacts DEF Awaited, IsWaiting, GivenKids
<1>3. a # 0 /\ First(p, a) # 0
  BY DEF IsParsed, InPostOrder, First
<1> HIDE DEF g, m, n, a
<1>4. \A k \in 1 .. m + 1 : k \in 1 .. m \/ k = m + 1
  BY <1>1
<1>5. GivenKids(p, g)
  BY <1>1, <1>2, <1>3, <1>4 DEF GivenKids
<1>6. NextId(p, g) = a + 1
  BY <1>1, <1>2 DEF NextId
<1>7. p.nodes[n].kind # "binary" => PendingIn(p, f) = {} /\ PendingIn(p, g) = {}
  BY <1>1 DEF PendingIn, n
<1>8. ASSUME p.nodes[n].kind = "binary"
      PROVE  PendingIn(p, g) = PendingIn(p, f) \cup {a}
  <2>1. \A x \in 1 .. Len(p.nodes) : x \in PendingIn(p, g) <=> \E k \in 1 .. m + 1 : x = Kid(p, n, k)
    BY <1>1, <1>8 DEF PendingIn
  <2>2. \A x \in 1 .. Len(p.nodes) : x \in PendingIn(p, f) <=> \E k \in 1 .. m : x = Kid(p, n, k)
    BY <1>8 DEF PendingIn, m, n
  <2>3. a \in 1 .. Len(p.nodes) /\ m + 1 \in 1 .. m + 1 /\ \A k \in 1 .. m : k \in 1 .. m + 1
    BY <1>1, <1>2, <1>3
  <2>4. PendingIn(p, g) \subseteq 1 .. Len(p.nodes) /\ PendingIn(p, f) \subseteq 1 .. Len(p.nodes)
    BY DEF PendingIn
  <2> QED BY <2>1, <2>2, <2>3, <2>4, <1>2, <1>4
<1> QED BY <1>5, <1>6, <1>7, <1>8 DEF g, n, a

\* A caller takes the type an operand has and goes on.
LEMMA ReceiveOne ==
  ASSUME NEW p, IsParsed(p), NEW body \in 0 .. Len(p.nodes), NEW s, NEW recorded, NEW type,
         s # <<>>, Returning(p, body, s), ReturningCounts(p, body, s, recorded)
  PROVE  LET t == Push(Given(Head(s), type), Tail(s))
         IN  /\ Visiting(p, body, t)
             /\ VisitingCounts(p, body, t, IF p.nodes[Head(s).node].kind = "binary" THEN recorded
                                           ELSE recorded \cup {Awaited(p, Head(s))})
<1> DEFINE g == Head(s)
           f == Given(g, type)
           rest == Tail(s)
           t == Push(f, rest)
           a == Awaited(p, g)
           binary == p.nodes[g.node].kind = "binary"
<1>1. Path(p, body, s, a) /\ First(p, a) # 0
  BY DEF Returning, Yielded
<1>2. Path(p, body, rest, g.node) /\ IsFrame(g) /\ IsWaiting(p, g)
  BY <1>1, PathPop
<1>3. First(p, body) # 0 => Nested(p, body, s, a) /\ Nested(p, body, rest, g.node)
  <2>1. First(p, body) # 0 => Nested(p, body, s, a)
    BY DEF ReturningCounts, Yielded
  <2> QED BY <2>1, <1>1, NestedPop
<1>4. IsSeq(s) /\ s = Push(g, rest) /\ IsSeq(rest) /\ IsStack(rest)
  BY <1>1, <1>2, TailSeq DEF Path, IsStack
<1>5. IsFrame(f) /\ f.node = g.node
  BY <1>2, GivenFacts
<1>6. /\ GivenKids(p, f) /\ NextId(p, f) = a + 1
      /\ PendingIn(p, f) = IF binary THEN PendingIn(p, g) \cup {a} ELSE {}
      /\ ~binary => PendingIn(p, g) = {}
  BY <1>1, <1>2, GivenPending
<1>7. f.node # 0
  BY <1>2, <1>5, WaitingNode
<1> HIDE DEF f
<1>8. IsSeq(t) /\ t # <<>> /\ Head(t) = f /\ Tail(t) = rest /\ Len(t) = Len(rest) + 1 /\ t[1] = f
      /\ \A i \in 2 .. Len(t) : t[i] = rest[i - 1]
  BY <1>4, PushSeq
<1>9. IsStack(t)
  <2>1. Len(rest) \in Nat
    BY <1>4, SeqDomain
  <2>2. \A i \in 1 .. Len(t) : i = 1 \/ (i - 1 \in 1 .. Len(rest) /\ t[i] = rest[i - 1])
    BY <1>8, <2>1
  <2> QED BY <1>4, <1>5, <1>8, <2>2 DEF IsStack
<1>10. Pending(p, t) = PendingIn(p, f) \cup Pending(p, rest)
  BY <1>4, PendingPush
<1>11. Pending(p, s) = PendingIn(p, g) \cup Pending(p, rest)
  BY <1>4, PendingPush
<1> HIDE DEF t
<1>12. Visiting(p, body, t)
  BY <1>2, <1>5, <1>6, <1>7, <1>8, <1>9 DEF Visiting
<1>13. ASSUME First(p, body) # 0
       PROVE  Partition(First(p, body) .. a, IF binary THEN recorded ELSE recorded \cup {a}, Pending(p, t))
  <2>1. /\ recorded \cup (Pending(p, s) \cup {a}) = First(p, body) .. a
        /\ recorded \cap (Pending(p, s) \cup {a}) = {}
    BY <1>13 DEF ReturningCounts, Partition, Yielded
  <2>2. a \notin Pending(p, s)
    <3>1. a \in 0 .. Len(p.nodes) /\ First(p, 0) = 0
      BY <1>1 DEF Path, IsParsed, InPostOrder, First
    <3>2. First(p, a) \in 0 .. a
      BY <1>1, <3>1, NodeFacts
    <3> QED BY <1>3, <1>13, <3>1, <3>2 DEF Nested
  <2> HIDE DEF binary, a
  <2> QED BY <1>6, <1>10, <1>11, <2>1, <2>2 DEF Partition
<1>14. NextId(p, Head(t)) - 1 = a
  <2>1. a \in Int
    BY <1>1 DEF Path
  <2> QED BY <1>6, <1>8, <2>1
<1> QED BY <1>3, <1>5, <1>8, <1>12, <1>13, <1>14 DEF VisitingCounts, t, f

-----------------------------------------------------------------------------
(* The analysis.                                                           *)

\* The numbers of a unit's expressions: they follow those of the unit before.
Ids(p, u) ==
  {n \in 1 .. Len(p.nodes) :
     /\ n <= p.units[u].body
     /\ \A v \in 1 .. u - 1 : p.units[v].kind = "def" => n > p.units[v].body}

\* The names defined by the units before one.
NamesBefore(p, u) == {p.units[v].name : v \in 1 .. u - 1}

\* What is in m_variables while a function is analyzed.
Scope(p, u) ==
  NamesBefore(p, u)
    \cup {p.units[u].args[k].name : k \in 1 .. Len(p.units[u].args)}
    \cup (IF p.units[u].type = <<>> THEN {} ELSE {p.units[u].name})

\* No call names a function that is not there, a builtin aside.
CallsAreInScope(p, u, ids) ==
  \A n \in ids : p.nodes[n].kind = "call" /\ EntriesOf(p.nodes[n].name) = {}
                   => p.nodes[n].name \in Scope(p, u)

\* The expression of a function.
Body(p, u) == p.units[u].body

\* The walk is at an expression of a unit: the calls behind it were in scope.
VisitingIn(p, u, s, recorded) ==
  /\ Visiting(p, Body(p, u), s)
  /\ VisitingCounts(p, Body(p, u), s, recorded)
  /\ First(p, Body(p, u)) # 0 =>
       CallsAreInScope(p, u, First(p, Body(p, u)) .. NextId(p, Head(s)) - 1)

\* The walk has a type for an expression of a unit.
ReturningIn(p, u, s, recorded) ==
  /\ Returning(p, Body(p, u), s)
  /\ ReturningCounts(p, Body(p, u), s, recorded)
  /\ First(p, Body(p, u)) # 0 =>
       CallsAreInScope(p, u, First(p, Body(p, u)) .. Yielded(p, Body(p, u), s))

\* Each unit pushed has a type for every expression of its own, and for no
\* other.
FunctionsDone(p, done) ==
  \A i \in 1 .. Len(done) :
    /\ done[i].unit = i
    /\ p.units[i].kind = "def" => /\ First(p, Body(p, i)) # 0
                                  /\ DOMAIN done[i].expressions = Ids(p, i)
                                  /\ CallsAreInScope(p, i, Ids(p, i))

\* Each call has no more types than its expression has operands.
Shaped(p, s) ==
  \A i \in 1 .. Len(s) :
    /\ s[i].node \in 0 .. Len(p.nodes)
    /\ s[i].node # 0 => Len(s[i].args) <= Len(p.nodes[s[i].node].kids)

\* What is known of the units that were passed.
AnalyzedInv ==
  /\ IsSeq(analyzed) /\ Len(analyzed) = current - 1
  /\ FunctionsDone(program, analyzed)
  /\ DOMAIN globals = NamesBefore(program, current)

\* What is known of the function that is analyzed.
FunctionInv ==
  /\ current <= Len(program.units) /\ program.units[current].kind = "def"
  /\ sig = BuiltSig(program.units[current])
  /\ DOMAIN locals = Scope(program, current)

\* The inductive invariant: the stack of calculateType is a path of calls,
\* each waiting for the expression inside it; the numbers looked at so far are
\* the recorded ones and those whose types wait in a frame, each exactly once;
\* every unit passed is complete.
SemanticInv ==
  /\ IsParsed(program)
  /\ build \in {"debug", "release"}
  /\ pc \in {"analyze", "visit", "return", "accepted", "error", "aborted", "crashed"}
  /\ current \in 1 .. Len(program.units) + 1
  /\ AnalyzedInv
  /\ Shaped(program, stack)
  /\ DOMAIN expressions \subseteq 1 .. Len(program.nodes)
  /\ pc \in {"visit", "return"} => FunctionInv
  /\ pc = "visit" => VisitingIn(program, current, stack, DOMAIN expressions)
  /\ pc = "return" => ReturningIn(program, current, stack, DOMAIN expressions)

\* The numbers of the tree of a body are those of its unit.
LEMMA BodyIds ==
  ASSUME NEW p, IsParsed(p), NEW u \in 1 .. Len(p.units), p.units[u].kind = "def",
         \A v \in 1 .. u : p.units[v].kind = "def" => First(p, Body(p, v)) # 0
  PROVE  /\ p.units[u].body \in 1 .. Len(p.nodes)
         /\ First(p, p.units[u].body) .. p.units[u].body = Ids(p, u)
<1> DEFINE b == p.units[u].body
           first == First(p, b)
<1>0. b \in 0 .. Len(p.nodes) /\ Len(p.nodes) \in Nat /\ Len(p.units) \in Nat
  BY DEF IsParsed, IsProgram
<1>a. first # 0 /\ First(p, 0) = 0
  <2>1. u \in 1 .. u
    BY <1>0
  <2> QED BY <2>1 DEF Body, IsParsed, InPostOrder, First
<1>1. b \in 1 .. Len(p.nodes) /\ Len(p.nodes) \in Nat /\ Len(p.units) \in Nat
  BY <1>0, <1>a
<1>2. first \in 1 .. b
  BY <1>1, <1>a, NodeFacts
<1>3. \A n \in 1 .. Len(p.nodes) :
        n < first <=> \E v \in 1 .. u - 1 : p.units[v].kind = "def" /\ n <= p.units[v].body
  BY Zenon DEF IsParsed, InPostOrder, First, Body
<1>4. \A v \in 1 .. u - 1 : p.units[v].kind = "def" => p.units[v].body \in Nat
  <2>1. \A v \in 1 .. u - 1 : v \in 1 .. Len(p.units)
    BY <1>1
  <2>2. \A v \in 1 .. Len(p.units) : p.units[v].kind = "def" => p.units[v].body \in 0 .. Len(p.nodes)
    BY DEF IsParsed, IsProgram
  <2>3. \A x \in 0 .. Len(p.nodes) : x \in Nat
    OBVIOUS
  <2> QED BY <2>1, <2>2, <2>3
<1> HIDE DEF b, first
<1>5. \A n \in 1 .. Len(p.nodes) :
        n >= first <=> \A v \in 1 .. u - 1 : p.units[v].kind = "def" => n > p.units[v].body
  BY SMTT(60), <1>1, <1>2, <1>3, <1>4
<1>6. \A n \in first .. b : n \in 1 .. Len(p.nodes) /\ n >= first /\ n <= b
  BY <1>1, <1>2
<1>7. \A n \in 1 .. Len(p.nodes) : n >= first /\ n <= b => n \in first .. b
  BY <1>1, <1>2
<1>8. Ids(p, u) = {n \in 1 .. Len(p.nodes) : n <= b /\ n >= first}
  BY <1>5 DEF Ids, b
<1> QED BY <1>1, <1>6, <1>7, <1>8 DEF b, first

\* What a program says of one unit.
LEMMA UnitFacts ==
  ASSUME NEW p, IsParsed(p), NEW u \in 1 .. Len(p.units)
  PROVE  /\ Len(p.units) \in Nat
         /\ p.units[u].kind \in {"def", "extern"}
         /\ p.units[u].kind = "def" => Body(p, u) \in 0 .. Len(p.nodes)
<1>1. Len(p.units) \in Nat
  BY DEF IsParsed, IsProgram
<1>2. IsUnit(p.units[u]) /\ (p.units[u].kind = "def" => Body(p, u) \in 0 .. Len(p.nodes))
  BY DEF IsParsed, IsProgram, Body
<1> QED BY <1>1, <1>2 DEF IsUnit

\* A call that waits has fewer types than operands.
LEMMA WaitingShape ==
  ASSUME NEW p, NEW f, IsWaiting(p, f), Len(p.nodes) \in Nat
  PROVE  f.node \in 0 .. Len(p.nodes) /\ Len(f.args) <= Len(p.nodes[f.node].kids)
BY DEF IsWaiting, GivenKids

\* So have all calls while an expression is visited,
LEMMA VisitingShape ==
  ASSUME NEW p, IsParsed(p), NEW body, NEW s, Visiting(p, body, s)
  PROVE  Shaped(p, s)
<1> DEFINE rest == Tail(s)
<1>1. IsSeq(s) /\ s # <<>> /\ Path(p, body, rest, Head(s).node) /\ Len(p.nodes) \in Nat
  BY DEF Visiting, IsStack, IsParsed, IsProgram
<1>2. Len(s) \in Nat /\ Len(rest) = Len(s) - 1 /\ Head(s) = s[1]
      /\ \A i \in 1 .. Len(s) - 1 : rest[i] = s[i + 1]
  BY <1>1, TailSeq, SeqDomain
<1>3. Head(s).node \in 0 .. Len(p.nodes)
      /\ (Head(s).node # 0 => Len(Head(s).args) <= Len(p.nodes[Head(s).node].kids))
  BY <1>1 DEF Visiting, Path, GivenKids
<1>4. \A i \in 1 .. Len(rest) : IsWaiting(p, rest[i])
  BY <1>1 DEF Path
<1> HIDE DEF rest
<1>5. \A i \in 1 .. Len(s) : i = 1 \/ (i - 1 \in 1 .. Len(rest) /\ s[i] = rest[i - 1])
  <2> SUFFICES ASSUME NEW i \in 1 .. Len(s), i # 1
               PROVE  i - 1 \in 1 .. Len(rest) /\ s[i] = rest[i - 1]
    OBVIOUS
  <2>1. i - 1 \in 1 .. Len(s) - 1 /\ (i - 1) + 1 = i
    BY <1>2
  <2> QED BY <2>1, <1>2
<1> QED BY <1>1, <1>2, <1>3, <1>4, <1>5, WaitingShape DEF Shaped

\* and while its type is returned.
LEMMA ReturningShape ==
  ASSUME NEW p, IsParsed(p), NEW body, NEW s, Returning(p, body, s)
  PROVE  Shaped(p, s)
<1>1. \A i \in 1 .. Len(s) : IsWaiting(p, s[i])
  BY DEF Returning, Path
<1>2. Len(p.nodes) \in Nat
  BY DEF IsParsed, IsProgram
<1> QED BY <1>1, <1>2, WaitingShape DEF Shaped

-----------------------------------------------------------------------------
\* A step that stops the analysis.
LEMMA StopKeeps ==
  ASSUME SemanticInv, UNCHANGED <<program, build, stack, toplevel>>,
         pc' \in {"accepted", "error", "aborted", "crashed"},
         DOMAIN expressions' \subseteq 1 .. Len(program.nodes)
  PROVE  SemanticInv'
BY DEF SemanticInv, AnalyzedInv, toplevel

\* A step to the visit of an expression of the same function.
LEMMA VisitKeeps ==
  ASSUME SemanticInv, pc \in {"visit", "return"}, UNCHANGED <<program, build, sig, locals, toplevel>>,
         pc' = "visit",
         VisitingIn(program, current, stack', DOMAIN expressions'),
         DOMAIN expressions' \subseteq 1 .. Len(program.nodes)
  PROVE  SemanticInv'
<1>1. Shaped(program, stack')
  BY VisitingShape DEF VisitingIn, SemanticInv
<1> QED BY <1>1 DEF SemanticInv, AnalyzedInv, FunctionInv, toplevel

\* A step that returns the type of one.
LEMMA ReturnKeeps ==
  ASSUME SemanticInv, pc \in {"visit", "return"}, UNCHANGED <<program, build, sig, locals, toplevel>>,
         pc' = "return",
         ReturningIn(program, current, stack', DOMAIN expressions'),
         DOMAIN expressions' \subseteq 1 .. Len(program.nodes)
  PROVE  SemanticInv'
<1>1. Shaped(program, stack')
  BY ReturningShape DEF ReturningIn, SemanticInv
<1> QED BY <1>1 DEF SemanticInv, AnalyzedInv, FunctionInv, toplevel

\* What holds where an expression is visited.
LEMMA VisitFacts ==
  ASSUME SemanticInv, pc = "visit", Top.node # 0
  PROVE  /\ IsParsed(program) /\ Body(program, current) \in 0 .. Len(program.nodes)
         /\ Visiting(program, Body(program, current), stack)
         /\ VisitingCounts(program, Body(program, current), stack, DOMAIN expressions)
         /\ First(program, Body(program, current)) # 0 =>
              CallsAreInScope(program, current,
                              First(program, Body(program, current)) .. NextId(program, Top) - 1)
         /\ IsFrame(Top) /\ Top.node \in 1 .. Len(program.nodes) /\ GivenKids(program, Top)
         /\ DOMAIN locals = Scope(program, current)
         /\ Len(program.nodes[Top.node].kids) \in Nat /\ Len(Top.args) \in Nat
         /\ IsSeq(stack) /\ stack # <<>>
<1>1. IsParsed(program) /\ VisitingIn(program, current, stack, DOMAIN expressions) /\ FunctionInv
  BY DEF SemanticInv
<1>2. Body(program, current) \in 0 .. Len(program.nodes)
  <2>1. current \in 1 .. Len(program.units) /\ program.units[current].kind = "def"
    BY <1>1 DEF SemanticInv, FunctionInv
  <2> QED BY <2>1, <1>1, UnitFacts
<1>3. /\ Visiting(program, Body(program, current), stack)
      /\ VisitingCounts(program, Body(program, current), stack, DOMAIN expressions)
      /\ First(program, Body(program, current)) # 0 =>
           CallsAreInScope(program, current,
                           First(program, Body(program, current)) .. NextId(program, Top) - 1)
  BY <1>1 DEF VisitingIn, Top
<1>4. IsSeq(stack) /\ stack # <<>> /\ Path(program, Body(program, current), Tail(stack), Top.node)
      /\ GivenKids(program, Top) /\ IsStack(stack)
  BY <1>3 DEF Visiting, IsStack, Top
<1>5. IsFrame(Top) /\ Top.node \in 1 .. Len(program.nodes)
  <2>1. Top = stack[1] /\ 1 \in 1 .. Len(stack)
    BY <1>4, TailSeq, SeqDomain DEF Top
  <2>2. IsFrame(Top)
    BY <2>1, <1>4 DEF IsStack
  <2> QED BY <2>2, <1>4 DEF Path
<1>6. Len(program.nodes[Top.node].kids) \in Nat /\ Len(Top.args) \in Nat
  BY <1>1, <1>5, NodeFacts, SeqDomain DEF IsFrame
<1> QED BY <1>1, <1>2, <1>3, <1>4, <1>5, <1>6 DEF FunctionInv

\* Types wait for numbers of the program only.
LEMMA PendingIsThere ==
  ASSUME NEW p, NEW f
  PROVE  PendingIn(p, f) \subseteq 1 .. Len(p.nodes)
BY DEF PendingIn

\* A call of calculateType returns from the expression on top of the stack.
LEMMA ReturnIn ==
  ASSUME SemanticInv, pc = "visit", Top.node # 0,
         Len(Top.args) = Len(program.nodes[Top.node].kids),
         program.nodes[Top.node].kind = "call" /\ EntriesOf(program.nodes[Top.node].name) = {}
           => program.nodes[Top.node].name \in DOMAIN locals,
         NEW recorded, recorded = DOMAIN expressions \cup PendingIn(program, Top)
  PROVE  ReturningIn(program, current, Tail(stack), recorded)
<1> DEFINE body == Body(program, current)
           n == Top.node
<1>1. /\ Returning(program, body, Tail(stack)) /\ Yielded(program, body, Tail(stack)) = n
      /\ ReturningCounts(program, body, Tail(stack), recorded)
  BY VisitFacts, ReturnFromVisit DEF Top
<1>2. NextId(program, Top) = n /\ n \in 1 .. Len(program.nodes)
  BY VisitFacts, CompleteFacts
<1>3. First(program, body) # 0 => CallsAreInScope(program, current, First(program, body) .. n - 1)
  BY <1>2, VisitFacts
<1>4. \A x \in First(program, body) .. n : x \in First(program, body) .. n - 1 \/ x = n
  BY <1>2
<1>5. DOMAIN locals = Scope(program, current)
  BY VisitFacts
<1> HIDE DEF n, body
<1>6. First(program, body) # 0 => CallsAreInScope(program, current, First(program, body) .. n)
  BY <1>3, <1>4, <1>5 DEF CallsAreInScope, n
<1> QED BY <1>1, <1>6 DEF ReturningIn, body

\* The step that makes it.
LEMMA ReturnStep ==
  ASSUME SemanticInv, pc = "visit", Top.node # 0, NEW type, Return(type),
         UNCHANGED <<program, build, sig, locals, toplevel>>,
         DOMAIN expressions' = DOMAIN expressions \cup PendingIn(program, Top),
         Len(Top.args) = Len(program.nodes[Top.node].kids),
         program.nodes[Top.node].kind = "call" /\ EntriesOf(program.nodes[Top.node].name) = {}
           => program.nodes[Top.node].name \in DOMAIN locals
  PROVE  SemanticInv'
<1>1. ReturningIn(program, current, Tail(stack), DOMAIN expressions')
  BY ReturnIn, Zenon
<1>2. stack' = Tail(stack) /\ pc' = "return"
  BY DEF Return
<1>3. DOMAIN expressions \subseteq 1 .. Len(program.nodes)
  BY DEF SemanticInv
<1>4. ReturningIn(program, current, stack', DOMAIN expressions')
  BY <1>1, <1>2, Zenon
<1>5. DOMAIN expressions' \subseteq 1 .. Len(program.nodes)
  BY <1>3, PendingIsThere
<1> QED BY <1>2, <1>4, <1>5, ReturnKeeps, Zenon

\* An expression that is not binary has no operands whose types wait.
LEMMA SimpleReturnStep ==
  ASSUME SemanticInv, pc = "visit", Top.node # 0, NEW type, Return(type), UNCHANGED context,
         UNCHANGED <<program, build>>, program.nodes[Top.node].kind # "binary",
         Len(Top.args) = Len(program.nodes[Top.node].kids),
         program.nodes[Top.node].kind = "call" /\ EntriesOf(program.nodes[Top.node].name) = {}
           => program.nodes[Top.node].name \in DOMAIN locals
  PROVE  SemanticInv'
<1>1. PendingIn(program, Top) = {}
  BY DEF PendingIn
<1>2. DOMAIN expressions' = DOMAIN expressions \cup PendingIn(program, Top)
      /\ UNCHANGED <<program, build, sig, locals, toplevel>>
  BY <1>1 DEF context
<1> QED BY <1>2, ReturnStep, Zenon

\* A step that stops and leaves the context alone.
LEMMA StopStep ==
  ASSUME SemanticInv, UNCHANGED <<program, build>>, UNCHANGED context,
         NEW how \in {"accepted", "error", "aborted", "crashed"}, Stop(how)
  PROVE  SemanticInv'
<1>1. DOMAIN expressions' \subseteq 1 .. Len(program.nodes)
  BY DEF context, SemanticInv
<1> QED BY <1>1, StopKeeps DEF Stop, context

\* One lemma for each action follows.
LEMMA VisitNullKeeps ==
  ASSUME SemanticInv, UNCHANGED input, VisitNull PROVE SemanticInv'
BY StopStep DEF VisitNull, DereferenceNull, input

\* Literals and names have no operands to wait for.
LEMMA SimpleNode ==
  ASSUME SemanticInv, pc = "visit", Top.node # 0,
         Node(Top.node).kind \in {"literal", "var", "subscript"}
  PROVE  Len(Top.args) = Len(program.nodes[Top.node].kids)
<1>1. Top.node \in 1 .. Len(program.nodes) /\ GivenKids(program, Top) /\ IsParsed(program)
      /\ Len(Top.args) \in Nat
  BY VisitFacts
<1>2. program.nodes[Top.node].kids = <<>>
  BY <1>1, NodeFacts DEF IsExpression, Node
<1> QED BY <1>1, <1>2 DEF GivenKids

LEMMA VisitLiteralKeeps ==
  ASSUME SemanticInv, UNCHANGED input, VisitLiteral PROVE SemanticInv'
<1>1. pc = "visit" /\ Top.node # 0 /\ program.nodes[Top.node].kind = "literal" /\ UNCHANGED context
      /\ Return(LiteralType(Node(Top.node).name)) /\ UNCHANGED <<program, build>>
  BY DEF VisitLiteral, AtNode, input, Node
<1>2. Len(Top.args) = Len(program.nodes[Top.node].kids)
  BY <1>1, SimpleNode DEF Node
<1> QED BY <1>1, <1>2, SimpleReturnStep

LEMMA VisitVarKeeps ==
  ASSUME SemanticInv, UNCHANGED input, VisitVar PROVE SemanticInv'
<1>1. pc = "visit" /\ Top.node # 0 /\ program.nodes[Top.node].kind \in {"var", "subscript"}
      /\ UNCHANGED context /\ UNCHANGED <<program, build>>
      /\ (Fail \/ \E type : Return(type))
  BY DEF VisitVar, AtNode, input, Node
<1>2. Len(Top.args) = Len(program.nodes[Top.node].kids)
  BY <1>1, SimpleNode DEF Node
<1>3. CASE Fail
  BY <1>1, <1>3, StopStep DEF Fail
<1>4. CASE \E type : Return(type)
  BY <1>1, <1>2, <1>4, SimpleReturnStep
<1> QED BY <1>1, <1>3, <1>4

LEMMA VisitKidKeeps ==
  ASSUME SemanticInv, UNCHANGED input, VisitKid PROVE SemanticInv'
<1> DEFINE n == Top.node
           body == Body(program, current)
           t == Push(NewFrame(Awaited(program, Top)), stack)
<1>1. /\ pc = "visit" /\ n # 0 /\ program.nodes[n].kind \in {"list", "call", "binary"}
      /\ Len(Top.args) # Len(program.nodes[n].kids)
      /\ stack' = t
      /\ UNCHANGED <<pc, ret, context>> /\ UNCHANGED <<program, build>>
  BY DEF VisitKid, AtNode, KidsDone, ThisKid, Node, input, Push, NewFrame, Awaited, Kid
<1>2. IsWaiting(program, Top)
  BY <1>1, VisitFacts DEF IsWaiting, GivenKids
<1> HIDE DEF t
<1>3. /\ Visiting(program, body, t)
      /\ VisitingCounts(program, body, t, DOMAIN expressions)
  BY <1>1, <1>2, VisitFacts, VisitOperand DEF Top, t
<1>4. Head(t) = NewFrame(Awaited(program, Top)) /\ Head(t).node = Awaited(program, Top)
  <2>1. IsSeq(stack)
    BY <1>1, VisitFacts
  <2>2. Head(t) = NewFrame(Awaited(program, Top))
    BY <2>1, PushSeq DEF t
  <2>3. NewFrame(Awaited(program, Top)).node = Awaited(program, Top)
    BY NewFrameFacts
  <2> QED BY <2>2, <2>3
<1>5. ASSUME First(program, body) # 0
      PROVE  CallsAreInScope(program, current, First(program, body) .. NextId(program, Head(t)) - 1)
  <2>1. First(program, Awaited(program, Top)) = NextId(program, Top)
    <3>1. First(program, Top.node) # 0
      BY <1>1, <1>5, VisitFacts DEF Visiting, Path, Top
    <3>2. IsFrame(Top) /\ IsParsed(program)
      BY <1>1, VisitFacts
    <3> QED BY <1>2, <3>1, <3>2, DescendFacts
  <2>2. NextId(program, Head(t)) = NextId(program, Top)
    BY <2>1, <1>4, NewFrameFacts DEF NextId
  <2> QED BY <1>1, <1>5, <2>2, VisitFacts
<1>6. VisitingIn(program, current, t, DOMAIN expressions)
  BY <1>3, <1>4, <1>5 DEF VisitingIn
<1>7. UNCHANGED <<sig, locals, toplevel, expressions>> /\ DOMAIN expressions \subseteq 1 .. Len(program.nodes)
  BY <1>1 DEF context, SemanticInv
<1> QED BY <1>1, <1>6, <1>7, VisitKeeps

\* The callers of the call that has returned.
LEMMA ReturnFacts ==
  ASSUME SemanticInv, pc = "return"
  PROVE  /\ IsParsed(program) /\ Body(program, current) \in 0 .. Len(program.nodes)
         /\ Returning(program, Body(program, current), stack)
         /\ ReturningCounts(program, Body(program, current), stack, DOMAIN expressions)
         /\ First(program, Body(program, current)) # 0 =>
              CallsAreInScope(program, current, First(program, Body(program, current))
                                                  .. Yielded(program, Body(program, current), stack))
         /\ FunctionInv
         /\ stack # <<>> => /\ IsFrame(Top) /\ IsWaiting(program, Top) /\ IsSeq(stack)
                            /\ Awaited(program, Top) \in 1 .. Len(program.nodes)
                            /\ First(program, Awaited(program, Top)) # 0
<1>1. IsParsed(program) /\ ReturningIn(program, current, stack, DOMAIN expressions) /\ FunctionInv
  BY DEF SemanticInv
<1>2. Body(program, current) \in 0 .. Len(program.nodes)
  <2>1. current \in 1 .. Len(program.units) /\ program.units[current].kind = "def"
    BY <1>1 DEF SemanticInv, FunctionInv
  <2> QED BY <2>1, <1>1, UnitFacts
<1>3. /\ Returning(program, Body(program, current), stack)
      /\ ReturningCounts(program, Body(program, current), stack, DOMAIN expressions)
      /\ First(program, Body(program, current)) # 0 =>
           CallsAreInScope(program, current, First(program, Body(program, current))
                                               .. Yielded(program, Body(program, current), stack))
  BY <1>1 DEF ReturningIn
<1>4. ASSUME stack # <<>>
      PROVE  /\ IsFrame(Top) /\ IsWaiting(program, Top) /\ IsSeq(stack)
             /\ Awaited(program, Top) \in 1 .. Len(program.nodes)
             /\ First(program, Awaited(program, Top)) # 0
  <2>1. Path(program, Body(program, current), stack, Yielded(program, Body(program, current), stack))
        /\ First(program, Yielded(program, Body(program, current), stack)) # 0 /\ First(program, 0) = 0
    BY <1>1, <1>3 DEF Returning, IsParsed, InPostOrder, First
  <2>2. IsFrame(Top) /\ IsWaiting(program, Top)
        /\ Awaited(program, Top) = Yielded(program, Body(program, current), stack)
    BY <1>1, <1>4, <2>1, PathPop DEF Top
  <2>3. IsSeq(stack) /\ Awaited(program, Top) \in 0 .. Len(program.nodes)
    BY <2>1, <2>2 DEF Path, IsStack
  <2> QED BY <2>1, <2>2, <2>3
<1> QED BY <1>1, <1>2, <1>3, <1>4

\* A caller takes a type; unless it is binary, it has recorded it.
LEMMA ReceiveKeeps ==
  ASSUME SemanticInv, pc = "return", stack # <<>>, NEW type, Receive(type),
         UNCHANGED <<program, build, sig, locals, toplevel>>,
         DOMAIN expressions' = IF program.nodes[Top.node].kind = "binary" THEN DOMAIN expressions
                               ELSE DOMAIN expressions \cup {Awaited(program, Top)}
  PROVE  SemanticInv'
<1> DEFINE body == Body(program, current)
           a == Awaited(program, Top)
           t == Push(Given(Top, type), Tail(stack))
           recorded == DOMAIN expressions'
<1>1. pc' = "visit" /\ stack' = t
  BY DEF Receive, Push, Given
<1>2. /\ Visiting(program, body, t)
      /\ VisitingCounts(program, body, t, recorded)
  <2>1. /\ IsParsed(program) /\ body \in 0 .. Len(program.nodes)
        /\ Returning(program, body, stack)
        /\ ReturningCounts(program, body, stack, DOMAIN expressions)
    BY ReturnFacts
  <2>2. /\ Visiting(program, body, t)
        /\ VisitingCounts(program, body, t,
                          IF program.nodes[Head(stack).node].kind = "binary" THEN DOMAIN expressions
                          ELSE DOMAIN expressions \cup {Awaited(program, Head(stack))})
    BY <2>1, ReceiveOne, Zenon DEF Top
  <2> QED BY <2>2, Zenon DEF Top
<1>3. Head(t) = Given(Top, type) /\ NextId(program, Given(Top, type)) = a + 1
  <2>1. IsFrame(Top) /\ IsWaiting(program, Top) /\ First(program, a) # 0 /\ IsParsed(program)
        /\ IsSeq(Tail(stack))
    BY ReturnFacts, TailSeq
  <2>2. NextId(program, Given(Top, type)) = a + 1
    BY <2>1, GivenPending
  <2>3. Head(t) = Given(Top, type)
    BY <2>1, PushSeq
  <2> QED BY <2>2, <2>3
<1> HIDE DEF t
<1>4. First(program, body) # 0 =>
        CallsAreInScope(program, current, First(program, body) .. NextId(program, Head(t)) - 1)
  <2>1. First(program, body) # 0 => CallsAreInScope(program, current, First(program, body) .. a)
    BY ReturnFacts DEF Yielded, Top
  <2>2. NextId(program, Head(t)) - 1 = a
    <3>1. a \in Int
      BY ReturnFacts
    <3> QED BY <1>3, <3>1
  <2> QED BY <2>1, <2>2
<1>5. VisitingIn(program, current, t, recorded)
  BY <1>2, <1>4 DEF VisitingIn
<1>6. recorded \subseteq 1 .. Len(program.nodes)
  BY ReturnFacts DEF SemanticInv
<1> QED BY <1>1, <1>5, <1>6, VisitKeeps

LEMMA ReceiveOperandKeeps ==
  ASSUME SemanticInv, UNCHANGED input, ReceiveOperand PROVE SemanticInv'
<1>1. /\ pc = "return" /\ stack # <<>> /\ program.nodes[Top.node].kind = "binary" /\ Receive(ret)
      /\ UNCHANGED context /\ UNCHANGED <<program, build>>
  BY DEF ReceiveOperand, Returned, input, Node
<1>2. UNCHANGED <<program, build, sig, locals, toplevel>> /\ expressions' = expressions
  BY <1>1 DEF context
<1> QED BY <1>1, <1>2, ReceiveKeeps

LEMMA ReceiveArgKeeps ==
  ASSUME SemanticInv, UNCHANGED input, ReceiveArg PROVE SemanticInv'
<1>1. /\ pc = "return" /\ stack # <<>> /\ program.nodes[Top.node].kind = "call"
      /\ UNCHANGED <<program, build, sig, locals>>
      /\ Record([n \in {Awaited(program, Top)} |-> ret], Receive(ret) /\ UNCHANGED toplevel)
  BY DEF ReceiveArg, Returned, input, Node, Awaited, Kid, ThisKid
<1>2. CASE UNCHANGED <<expressions, toplevel>> /\ (AssertFails \/ Fail)
  <2>1. UNCHANGED context
    BY <1>1, <1>2 DEF context
  <2> QED BY <1>1, <1>2, <2>1, StopStep DEF AssertFails, Fail
<1>3. CASE /\ DOMAIN expressions' = DOMAIN expressions \cup {Awaited(program, Top)}
           /\ Receive(ret) /\ UNCHANGED toplevel
  BY <1>1, <1>3, ReceiveKeeps
<1> QED BY <1>1, <1>2, <1>3 DEF Record

LEMMA ReceiveElementKeeps ==
  ASSUME SemanticInv, UNCHANGED input, ReceiveElement PROVE SemanticInv'
<1>1. PICK first : 
      /\ pc = "return" /\ stack # <<>> /\ program.nodes[Top.node].kind = "list"
      /\ UNCHANGED <<program, build, sig, locals>>
      /\ \/ Record([n \in {Awaited(program, Top)} |-> first], Receive(ret) /\ UNCHANGED toplevel)
         \/ (Fail \/ DereferenceNull \/ AssertFails) /\ UNCHANGED <<expressions, toplevel>>
  BY DEF ReceiveElement, Returned, input, Node, Awaited, Kid, ThisKid
<1>2. CASE UNCHANGED <<expressions, toplevel>> /\ (AssertFails \/ Fail \/ DereferenceNull)
  <2>1. UNCHANGED context
    BY <1>1, <1>2 DEF context
  <2> QED BY <1>1, <1>2, <2>1, StopStep DEF AssertFails, Fail, DereferenceNull
<1>3. CASE /\ DOMAIN expressions' = DOMAIN expressions \cup {Awaited(program, Top)}
           /\ Receive(ret) /\ UNCHANGED toplevel
  BY <1>1, <1>3, ReceiveKeeps
<1> QED BY <1>1, <1>2, <1>3 DEF Record

LEMMA FinishListKeeps ==
  ASSUME SemanticInv, UNCHANGED input, FinishList PROVE SemanticInv'
<1>1. PICK type :
      /\ pc = "visit" /\ Top.node # 0 /\ program.nodes[Top.node].kind = "list"
      /\ Len(Top.args) = Len(program.nodes[Top.node].kids)
      /\ Return(type) /\ UNCHANGED context /\ UNCHANGED <<program, build>>
  BY DEF FinishList, AtNode, KidsDone, Node, input
<1> QED BY <1>1, SimpleReturnStep

\* Only what a call finds in the table or among the functions has a type.
LEMMA FoundInScope ==
  ASSUME NEW name, NEW args, NEW outcome \in CallOutcomes(name, args), outcome.kind = "found",
         EntriesOf(name) = {}
  PROVE  name \in DOMAIN locals
<1> SUFFICES ASSUME name \notin DOMAIN locals PROVE FALSE
  OBVIOUS
<1>1. outcome \in getBuiltin(name, args)
  BY DEF CallOutcomes
<1>2. outcome = Crash \/ outcome = Missing
  BY <1>1 DEF getBuiltin
<1> QED BY <1>2 DEF Crash, Missing, Outcome

LEMMA FinishCallKeeps ==
  ASSUME SemanticInv, UNCHANGED input, FinishCall PROVE SemanticInv'
<1>1. PICK outcome \in CallOutcomes(program.nodes[Top.node].name, Top.args) :
      /\ pc = "visit" /\ Top.node # 0 /\ program.nodes[Top.node].kind = "call"
      /\ Len(Top.args) = Len(program.nodes[Top.node].kids)
      /\ Finish(outcome) /\ UNCHANGED context /\ UNCHANGED <<program, build>>
  BY DEF FinishCall, AtNode, KidsDone, Node, input
<1>2. CASE Fail \/ DereferenceNull
  BY <1>1, <1>2, StopStep DEF Fail, DereferenceNull
<1>3. CASE outcome.kind = "found" /\ Return(outcome.type)
  BY <1>1, <1>3, FoundInScope, SimpleReturnStep
<1> QED BY <1>1, <1>2, <1>3 DEF Finish

\* A binary expression that has its operands waits with both of them.
LEMMA PendingPair ==
  ASSUME NEW p, IsParsed(p), NEW f, f.node \in 1 .. Len(p.nodes), p.nodes[f.node].kind = "binary",
         GivenKids(p, f), Len(f.args) = Len(p.nodes[f.node].kids)
  PROVE  PendingIn(p, f) = {p.nodes[f.node].kids[1], p.nodes[f.node].kids[2]}
<1> DEFINE kids == p.nodes[f.node].kids
<1>1. Len(kids) = 2 /\ Len(f.args) = 2
  BY NodeFacts DEF IsExpression
<1>2. \A k \in 1 .. 2 : kids[k] # 0 /\ kids[k] \in 1 .. Len(p.nodes)
  <2>1. \A k \in 1 .. 2 : First(p, kids[k]) # 0
    BY <1>1 DEF GivenKids, Kid
  <2>2. /\ \A k \in 1 .. 2 : kids[k] \in 0 .. f.node - 1
        /\ First(p, 0) = 0 /\ Len(p.nodes) \in Nat
    BY <1>1, NodeFacts DEF Kid
  <2> HIDE DEF kids
  <2> QED BY <2>1, <2>2
<1>3. \A k \in 1 .. 2 : k = 1 \/ k = 2
  OBVIOUS
<1>4. PendingIn(p, f) = {x \in 1 .. Len(p.nodes) : \E k \in 1 .. 2 : x = kids[k]}
  BY <1>1 DEF PendingIn, Kid
<1> HIDE DEF kids
<1>5. 1 \in 1 .. 2 /\ 2 \in 1 .. 2
  OBVIOUS
<1>6. {x \in 1 .. Len(p.nodes) : \E k \in 1 .. 2 : x = kids[k]} = {kids[1], kids[2]}
  BY <1>2, <1>3, <1>5
<1> QED BY <1>4, <1>6 DEF kids

LEMMA FinishBinaryKeeps ==
  ASSUME SemanticInv, UNCHANGED input, FinishBinary PROVE SemanticInv'
<1> DEFINE kids == program.nodes[Top.node].kids
           entries == [n \in {kids[1], kids[2]} |-> IF n = kids[1] THEN Top.args[1] ELSE Top.args[2]]
<1>1. /\ pc = "visit" /\ Top.node # 0 /\ program.nodes[Top.node].kind = "binary"
      /\ Len(Top.args) = Len(kids)
      /\ UNCHANGED <<program, build, sig, locals>>
      /\ Record(entries,
                (\E outcome \in getBuiltin(program.nodes[Top.node].name, Top.args) : Finish(outcome))
                /\ UNCHANGED toplevel)
  BY DEF FinishBinary, AtNode, KidsDone, Node, input
<1>2. PendingIn(program, Top) = {kids[1], kids[2]}
  BY <1>1, VisitFacts, PendingPair
<1>3. DOMAIN entries = {kids[1], kids[2]}
  OBVIOUS
<1> HIDE DEF entries
<1>4. CASE UNCHANGED <<expressions, toplevel>> /\ (AssertFails \/ Fail)
  <2>1. UNCHANGED context
    BY <1>1, <1>4 DEF context
  <2> QED BY <1>1, <1>4, <2>1, StopStep DEF AssertFails, Fail
<1>5. ASSUME DOMAIN expressions' = DOMAIN expressions \cup PendingIn(program, Top),
             NEW outcome, Finish(outcome), UNCHANGED toplevel
      PROVE  SemanticInv'
  <2>1. CASE Fail \/ DereferenceNull
    <3>1. DOMAIN expressions' \subseteq 1 .. Len(program.nodes)
      BY <1>5, PendingIsThere DEF SemanticInv
    <3> QED BY <1>1, <1>5, <2>1, <3>1, StopKeeps DEF Fail, DereferenceNull, Stop
  <2>2. CASE Return(outcome.type)
    BY <1>1, <1>5, <2>2, ReturnStep
  <2> QED BY <1>5, <2>1, <2>2 DEF Finish
<1> QED BY <1>1, <1>2, <1>3, <1>4, <1>5 DEF Record

LEMMA AllUnitsDoneKeeps ==
  ASSUME SemanticInv, UNCHANGED input, AllUnitsDone PROVE SemanticInv'
BY StopStep DEF AllUnitsDone, input

LEMMA BadSignatureKeeps ==
  ASSUME SemanticInv, UNCHANGED input, BadSignature PROVE SemanticInv'
BY StopStep DEF BadSignature, Fail, input

\* A name is inserted.
LEMMA BindDomain ==
  ASSUME NEW map, NEW name, NEW type
  PROVE  DOMAIN Bind(map, name, type) = DOMAIN map \cup {name}
BY DEF Bind

\* The names grow by that of the unit passed.
LEMMA NextName ==
  ASSUME NEW p, NEW u \in Nat \ {0}
  PROVE  NamesBefore(p, u + 1) = NamesBefore(p, u) \cup {p.units[u].name}
<1>1. \A v \in 1 .. (u + 1) - 1 : v \in 1 .. u - 1 \/ v = u
  OBVIOUS
<1>2. u \in 1 .. (u + 1) - 1 /\ \A v \in 1 .. u - 1 : v \in 1 .. (u + 1) - 1
  OBVIOUS
<1> QED BY <1>1, <1>2 DEF NamesBefore

\* A unit is done: its entry is pushed and its name becomes visible.
LEMMA UnitDone ==
  ASSUME SemanticInv, UNCHANGED <<program, build>>, pc' = "analyze",
         current <= Len(program.units), current' = current + 1,
         NEW entry, analyzed' = Append(analyzed, entry),
         entry.unit = current,
         program.units[current].kind = "def" =>
           /\ First(program, Body(program, current)) # 0
           /\ DOMAIN entry.expressions = Ids(program, current)
           /\ CallsAreInScope(program, current, Ids(program, current)),
         NEW type, globals' = Bind(globals, program.units[current].name, type),
         Shaped(program, stack'), DOMAIN expressions' \subseteq 1 .. Len(program.nodes)
  PROVE  SemanticInv'
<1>1. /\ IsParsed(program) /\ current \in 1 .. Len(program.units) + 1 /\ Len(program.units) \in Nat
      /\ IsSeq(analyzed) /\ Len(analyzed) = current - 1 /\ FunctionsDone(program, analyzed)
      /\ DOMAIN globals = NamesBefore(program, current)
  <2>1. IsParsed(program) /\ Len(program.units) \in Nat
    BY DEF SemanticInv, IsParsed, IsProgram
  <2> QED BY <2>1 DEF SemanticInv, AnalyzedInv
<1>2. current' \in 1 .. Len(program.units) + 1 /\ current \in Nat \ {0}
  BY <1>1
<1>3. /\ IsSeq(analyzed') /\ Len(analyzed') = Len(analyzed) + 1 /\ analyzed'[Len(analyzed')] = entry
      /\ \A i \in 1 .. Len(analyzed) : analyzed'[i] = analyzed[i]
  BY <1>1, AppendSeq
<1>4. Len(analyzed') = current' - 1
  BY <1>1, <1>2, <1>3
<1>5. FunctionsDone(program, analyzed')
  <2>1. \A i \in 1 .. Len(analyzed') : i \in 1 .. Len(analyzed) \/ i = current
    BY <1>1, <1>2, <1>3
  <2>2. analyzed'[current] = entry
    BY <1>1, <1>2, <1>3
  <2> QED BY <1>1, <1>3, <2>1, <2>2 DEF FunctionsDone
<1>6. DOMAIN globals' = NamesBefore(program, current')
  <2>1. DOMAIN globals' = DOMAIN globals \cup {program.units[current].name}
    BY BindDomain, Zenon
  <2>2. NamesBefore(program, current + 1) = NamesBefore(program, current) \cup {program.units[current].name}
    BY <1>2, NextName
  <2> QED BY <1>1, <2>1, <2>2
<1> QED BY <1>1, <1>2, <1>3, <1>4, <1>5, <1>6 DEF SemanticInv, AnalyzedInv

LEMMA AnalyzeExternKeeps ==
  ASSUME SemanticInv, UNCHANGED input, AnalyzeExtern PROVE SemanticInv'
<1> DEFINE entry == [unit |-> current, sig |-> BuiltSig(Unit),
                     variables |-> <<>>, expressions |-> <<>>]
<1>1. /\ UNCHANGED <<program, build>> /\ pc' = "analyze" /\ current <= Len(program.units)
      /\ current' = current + 1 /\ analyzed' = Append(analyzed, entry)
      /\ program.units[current].kind = "extern"
      /\ globals' = Bind(globals, program.units[current].name, signatureType(BuiltSig(Unit)))
      /\ UNCHANGED <<stack, expressions>>
  BY DEF AnalyzeExtern, AtUnit, input, result, Unit
<1>2. entry.unit = current
  OBVIOUS
<1>3. Shaped(program, stack') /\ DOMAIN expressions' \subseteq 1 .. Len(program.nodes)
  BY <1>1 DEF SemanticInv
<1>4. program.units[current].kind # "def"
  BY <1>1
<1> HIDE DEF entry
<1> QED BY <1>1, <1>2, <1>3, <1>4, UnitDone

\* Exactly the parameters, and its name if its type is declared, are added.
LEMMA StartScope ==
  ASSUME SemanticInv, StartFunction
  PROVE  DOMAIN locals' = Scope(program, current)
<1> DEFINE unit == program.units[current]
           named == BuiltSig(unit).args
           bound == BindArgs(globals, named)
<1>1. /\ DOMAIN globals = NamesBefore(program, current)
      /\ current \in 1 .. Len(program.units) /\ IsParsed(program)
  BY DEF SemanticInv, AnalyzedInv, StartFunction, AtUnit
<1>2. locals' = IF unit.type = <<>> THEN bound
                ELSE Bind(bound, unit.name, signatureType(BuiltSig(unit)))
  BY DEF StartFunction, Unit
<1>3. DOMAIN bound = DOMAIN globals \cup {named[i].name : i \in 1 .. Len(named)}
  BY DEF BindArgs
<1>4. Len(unit.args) \in Nat
  <2>1. IsUnit(unit)
    BY <1>1 DEF IsParsed, IsProgram
  <2> QED BY <2>1 DEF IsUnit
<1>5. Len(named) = Len(unit.args) /\ \A i \in 1 .. Len(unit.args) : named[i].name = unit.args[i].name
  BY <1>4 DEF BuiltSig
<1>6. {named[i].name : i \in 1 .. Len(named)} = {unit.args[k].name : k \in 1 .. Len(unit.args)}
  BY <1>5
<1> HIDE DEF bound, named
<1>7. DOMAIN locals' = DOMAIN bound \cup (IF unit.type = <<>> THEN {} ELSE {unit.name})
  BY <1>2, BindDomain
<1> QED BY <1>1, <1>3, <1>6, <1>7 DEF Scope

LEMMA StartFunctionKeeps ==
  ASSUME SemanticInv, UNCHANGED input, StartFunction PROVE SemanticInv'
<1> DEFINE body == Body(program, current)
           t == <<NewFrame(body)>>
<1>1. /\ UNCHANGED <<program, build>> /\ pc' = "visit" /\ stack' = t
      /\ current <= Len(program.units) /\ program.units[current].kind = "def"
      /\ sig' = BuiltSig(program.units[current])
      /\ expressions' = [n \in {} |-> Null] /\ UNCHANGED toplevel
  BY DEF StartFunction, AtUnit, input, Unit, NewFrame, Body
<1>2. IsParsed(program) /\ body \in 0 .. Len(program.nodes) /\ current \in 1 .. Len(program.units)
  <2>1. current \in 1 .. Len(program.units) /\ IsParsed(program)
    BY <1>1 DEF SemanticInv
  <2> QED BY <2>1, <1>1, UnitFacts
<1>3. /\ Visiting(program, body, t)
      /\ VisitingCounts(program, body, t, {})
  BY <1>2, VisitBody
<1>4. DOMAIN expressions' = {}
  BY <1>1
<1>5. Head(t) = NewFrame(body) /\ NewFrame(body).node = body /\ Len(NewFrame(body).args) = 0
  <2>1. NewFrame(body).node = body /\ Len(NewFrame(body).args) = 0
    BY NewFrameFacts
  <2>2. Head(t) = NewFrame(body)
    OBVIOUS
  <2> QED BY <2>1, <2>2
<1> HIDE DEF t, body
<1>6. ASSUME First(program, body) # 0
      PROVE  CallsAreInScope(program, current, First(program, body) .. NextId(program, Head(t)) - 1)
  <2>0. body \in 1 .. Len(program.nodes)
    BY <1>2, <1>6 DEF IsParsed, InPostOrder, First
  <2>1. First(program, body) \in Int /\ NextId(program, Head(t)) = First(program, body)
    BY <1>2, <1>5, <2>0, NodeFacts DEF NextId
  <2>2. First(program, body) .. NextId(program, Head(t)) - 1 = {}
    BY <2>1
  <2> QED BY <2>2 DEF CallsAreInScope
<1>7. VisitingIn(program, current, t, DOMAIN expressions')
  BY <1>3, <1>4, <1>5, <1>6 DEF VisitingIn, body
<1>8. Shaped(program, t)
  BY <1>2, <1>3, VisitingShape
<1>9. DOMAIN locals' = Scope(program, current)
  BY StartScope
<1> QED BY <1>1, <1>2, <1>4, <1>7, <1>8, <1>9 DEF SemanticInv, AnalyzedInv, FunctionInv, toplevel

LEMMA EndFunctionKeeps ==
  ASSUME SemanticInv, UNCHANGED input, EndFunction PROVE SemanticInv'
<1> DEFINE body == Body(program, current)
           recorded == DOMAIN expressions \cup {body}
<1>1. /\ pc = "return" /\ stack = <<>> /\ UNCHANGED <<program, build, sig, locals>>
  BY DEF EndFunction, input
<1>2. /\ FunctionInv /\ IsParsed(program) /\ current \in 1 .. Len(program.units)
      /\ program.units[current].kind = "def" /\ sig = BuiltSig(program.units[current])
  BY <1>1, ReturnFacts DEF FunctionInv, SemanticInv
<1>3. /\ Returning(program, body, <<>>) /\ ReturningCounts(program, body, <<>>, DOMAIN expressions)
      /\ First(program, body) # 0 =>
           CallsAreInScope(program, current, First(program, body) .. Yielded(program, body, <<>>))
  BY <1>1, ReturnFacts
<1>4. Yielded(program, body, <<>>) = body /\ First(program, body) # 0
  BY <1>3 DEF Returning, Yielded
<1>5. body \in 1 .. Len(program.nodes) /\ First(program, body) .. body = Ids(program, current)
  <2>1. \A v \in 1 .. current : v \in 1 .. Len(analyzed) \/ v = current
    BY DEF SemanticInv, AnalyzedInv
  <2>2. FunctionsDone(program, analyzed)
    BY DEF SemanticInv, AnalyzedInv
  <2>3. \A v \in 1 .. current : program.units[v].kind = "def" => First(program, Body(program, v)) # 0
    BY <1>4, <2>1, <2>2 DEF FunctionsDone
  <2> QED BY <1>2, <2>3, BodyIds DEF Body
<1>6. recorded = Ids(program, current)
  <2>1. Partition(First(program, body) .. body, DOMAIN expressions, Pending(program, <<>>) \cup {body})
    BY <1>3, <1>4 DEF ReturningCounts
  <2> QED BY <1>5, <2>1, EmptyPending DEF Partition
<1>7. ASSUME NEW s, s.name = program.units[current].name, AcceptFunction(s)
      PROVE  SemanticInv'
  <2> DEFINE entry == [unit |-> current, sig |-> s, variables |-> locals, expressions |-> expressions']
  <2>1. CASE UNCHANGED <<expressions, toplevel>> /\ (AssertFails \/ Fail)
    <3>1. UNCHANGED context
      BY <1>1, <2>1 DEF context
    <3> QED BY <1>1, <2>1, <3>1, StopStep DEF AssertFails, Fail
  <2>2. CASE /\ DOMAIN expressions' = recorded
             /\ analyzed' = Append(analyzed, entry)
             /\ globals' = Bind(globals, s.name, signatureType(s))
             /\ current' = current + 1 /\ pc' = "analyze" /\ UNCHANGED <<stack, ret>>
    <3>1. entry.unit = current /\ entry.expressions = expressions'
      OBVIOUS
    <3>2. DOMAIN expressions' \subseteq 1 .. Len(program.nodes)
      BY <2>2, <1>6 DEF Ids
    <3>3. First(program, body) # 0 /\ CallsAreInScope(program, current, Ids(program, current))
      BY <1>3, <1>4, <1>5
    <3>4. Shaped(program, stack')
      BY <2>2 DEF SemanticInv
    <3>5. current <= Len(program.units)
      BY <1>2 DEF FunctionInv
    <3> HIDE DEF entry
    <3>6. DOMAIN entry.expressions = Ids(program, current)
      BY <3>1, <2>2, <1>6
    <3> QED BY <1>1, <1>2, <1>7, <2>2, <3>1, <3>2, <3>3, <3>4, <3>5, <3>6, UnitDone
  <2>3. AcceptFunction(s) => 
          \/ UNCHANGED <<expressions, toplevel>> /\ (AssertFails \/ Fail)
          \/ /\ DOMAIN expressions' = DOMAIN expressions \cup {program.units[current].body}
             /\ analyzed' = Append(analyzed, entry)
             /\ globals' = Bind(globals, s.name, signatureType(s))
             /\ current' = current + 1 /\ pc' = "analyze" /\ UNCHANGED <<stack, ret>>
    BY DEF AcceptFunction, Record, Unit
  <2> QED BY <1>7, <2>1, <2>2, <2>3 DEF Body
<1>8. ASSUME Fail \/ AssertFails \/ DereferenceNull, UNCHANGED <<expressions, toplevel>>
      PROVE  SemanticInv'
  <2>1. UNCHANGED context
    BY <1>1, <1>8 DEF context
  <2> QED BY <1>1, <1>8, <2>1, StopStep DEF AssertFails, Fail, DereferenceNull
<1>9. sig.name = program.units[current].name /\ [sig EXCEPT !.ret = ret].name = program.units[current].name
  BY <1>2 DEF BuiltSig
<1>10. \/ AcceptFunction(sig) \/ AcceptFunction([sig EXCEPT !.ret = ret])
       \/ (Fail \/ AssertFails \/ DereferenceNull) /\ UNCHANGED <<expressions, toplevel>>
  BY Zenon DEF EndFunction
<1> QED BY <1>7, <1>8, <1>9, <1>10

\* analyze() is called for a program, and has not looked at its first unit.
Begun ==
  /\ IsParsed(program)
  /\ build \in {"debug", "release"}
  /\ pc = "analyze" /\ current = 1
  /\ DOMAIN globals = {} /\ DOMAIN expressions = {}
  /\ stack = <<>> /\ analyzed = <<>>

LEMMA InitBegun == Init => Begun
<1> SUFFICES ASSUME Init PROVE Begun
  OBVIOUS
<1> DEFINE none == [x \in {} |-> Null]
<1>1. /\ program \in Programs /\ build \in {"debug", "release"} /\ pc = "analyze" /\ current = 1
      /\ globals = none /\ expressions = none
      /\ stack = <<>> /\ analyzed = <<>>
  BY Zenon DEF Init
<1>2. DOMAIN none = {}
  OBVIOUS
<1> HIDE DEF none
<1> QED BY <1>1, <1>2, ProgramsAssumption DEF Begun, IsParsed

LEMMA BegunInv == Begun => SemanticInv
<1> SUFFICES ASSUME Begun PROVE SemanticInv
  OBVIOUS
<1>1. /\ IsParsed(program) /\ build \in {"debug", "release"} /\ pc = "analyze" /\ current = 1
      /\ DOMAIN globals = {} /\ DOMAIN expressions = {} /\ stack = <<>> /\ analyzed = <<>>
  BY DEF Begun
<1>2. Len(program.units) \in Nat
  BY <1>1 DEF IsParsed, IsProgram
<1>3. IsSeq(analyzed) /\ Len(analyzed) = current - 1 /\ FunctionsDone(program, analyzed)
  BY <1>1 DEF IsSeq, FunctionsDone
<1>4. DOMAIN globals = NamesBefore(program, current)
  BY <1>1 DEF NamesBefore
<1>5. Shaped(program, stack)
  BY <1>1 DEF Shaped
<1> QED BY <1>1, <1>2, <1>3, <1>4, <1>5 DEF SemanticInv, AnalyzedInv

LEMMA SemanticInvInit == Init => SemanticInv
BY InitBegun, BegunInv

\* Every step keeps it.
LEMMA SemanticInvStep ==
  ASSUME SemanticInv, [Next]_vars PROVE SemanticInv'
<1>1. CASE UNCHANGED vars
  BY <1>1 DEF vars, input, result, context, toplevel, SemanticInv, AnalyzedInv, FunctionInv
<1>2. CASE Next
  BY <1>2, AllUnitsDoneKeeps, BadSignatureKeeps, AnalyzeExternKeeps, StartFunctionKeeps, EndFunctionKeeps,
     VisitNullKeeps, VisitLiteralKeeps, VisitVarKeeps, VisitKidKeeps, ReceiveElementKeeps,
     ReceiveArgKeeps, ReceiveOperandKeeps, FinishListKeeps, FinishBinaryKeeps, FinishCallKeeps DEF Next
<1> QED BY <1>1, <1>2

\* So it holds of every run.
LEMMA SemanticInvHolds == Spec => []SemanticInv
BY SemanticInvInit, SemanticInvStep, PTL DEF Spec

\* It gives the shapes of the state.
LEMMA InvShapes == SemanticInv => TypeOK
<1> SUFFICES ASSUME SemanticInv PROVE TypeOK
  OBVIOUS
<1>1. Len(analyzed) = current - 1 /\ DOMAIN globals = {program.units[u].name : u \in 1 .. current - 1}
  BY DEF SemanticInv, AnalyzedInv, NamesBefore
<1>2. pc = "visit" => stack # <<>>
  BY DEF SemanticInv, VisitingIn, Visiting
<1>3. \A i \in 1 .. Len(stack) :
        /\ stack[i].node \in 0 .. Len(program.nodes)
        /\ stack[i].node # 0 => Len(stack[i].args) <= Len(Node(stack[i].node).kids)
  BY DEF SemanticInv, Shaped, Node
<1> QED BY <1>1, <1>2, <1>3 DEF SemanticInv, TypeOK

\* The shapes of the state hold in every run: each unit passed is in the
\* TopLevel, only numbers of the program are keys of m_expressions, and no
\* call of calculateType has more types than its expression has operands.
THEOREM TypeCorrect == Spec => []TypeOK
BY SemanticInvHolds, InvShapes, PTL

\* It gives complete contexts.
LEMMA InvComplete == SemanticInv => ContextIsComplete
<1> SUFFICES ASSUME SemanticInv, NEW i \in Functions
             PROVE  DOMAIN analyzed[i].expressions = IdsOf(analyzed[i].unit)
  BY DEF ContextIsComplete
<1>1. FunctionsDone(program, analyzed)
  BY DEF SemanticInv, AnalyzedInv
<1>2. i \in 1 .. Len(analyzed) /\ program.units[analyzed[i].unit].kind = "def"
  BY DEF Functions
<1>3. analyzed[i].unit = i /\ DOMAIN analyzed[i].expressions = Ids(program, i)
  BY <1>1, <1>2 DEF FunctionsDone
<1> QED BY <1>3 DEF Ids, IdsOf

\* Every function that is accepted has a type for each of its expressions, and
\* the map holds nothing left over from another function: the code generator's
\* look-ups find an entry (pol_codegen.cpp reads ctx.expressionType of every
\* expression).
THEOREM EveryExpressionHasAType == Spec => []ContextIsComplete
BY SemanticInvHolds, InvComplete, PTL

\* It gives that recursion is declared.
LEMMA InvRecursion == SemanticInv => RecursionIsDeclared
<1> SUFFICES ASSUME SemanticInv, NEW i \in Functions,
                    NEW n \in IdsOf(analyzed[i].unit),
                    Node(n).kind = "call", Node(n).name = program.units[analyzed[i].unit].name,
                    EntriesOf(program.units[analyzed[i].unit].name) = {}
             PROVE  LET unit == program.units[analyzed[i].unit]
                    IN  \/ unit.type # <<>>
                        \/ \E v \in 1 .. analyzed[i].unit - 1 : program.units[v].name = unit.name
                        \/ \E k \in 1 .. Len(unit.args) : unit.args[k].name = unit.name
  BY DEF RecursionIsDeclared
<1>1. FunctionsDone(program, analyzed)
  BY DEF SemanticInv, AnalyzedInv
<1>2. i \in 1 .. Len(analyzed) /\ program.units[analyzed[i].unit].kind = "def"
  BY DEF Functions
<1>3. analyzed[i].unit = i /\ CallsAreInScope(program, i, Ids(program, i))
  BY <1>1, <1>2 DEF FunctionsDone
<1>4. n \in Ids(program, i)
  BY <1>3 DEF Ids, IdsOf
<1>5. program.units[i].name \in Scope(program, i)
  BY <1>3, <1>4 DEF CallsAreInScope, Node
<1> QED BY <1>3, <1>5 DEF Scope, NamesBefore

\* A function that calls its own name declares its type, or the name means
\* something else: the analysis cannot use a return type before it knows it.
THEOREM RecursionNeedsAType == Spec => []RecursionIsDeclared
BY SemanticInvHolds, InvRecursion, PTL

-----------------------------------------------------------------------------
\* A map has what another has.
Extends(new, old) == \A x \in DOMAIN old : x \in DOMAIN new /\ new[x] = old[x]

\* Inserting a name leaves the names that are there with their types.
LEMMA BindExtends ==
  ASSUME NEW map, NEW name, NEW type
  PROVE  Extends(Bind(map, name, type), map)
BY DEF Extends, Bind

\* The only steps that touch the outer context insert a name.
LEMMA StepExtends ==
  ASSUME [Next]_vars
  PROVE  Extends(globals', globals)
<1>1. CASE UNCHANGED vars
  BY <1>1 DEF vars, context, toplevel, Extends
<1>2. CASE AnalyzeExtern
  BY <1>2, BindExtends DEF AnalyzeExtern
<1>3. CASE EndFunction
  <2>1. ASSUME NEW s, AcceptFunction(s) PROVE Extends(globals', globals)
    <3>1. \/ UNCHANGED toplevel
          \/ globals' = Bind(globals, s.name, signatureType(s))
      BY <2>1 DEF AcceptFunction, Record
    <3> QED BY <3>1, BindExtends DEF toplevel, Extends
  <2>2. \/ UNCHANGED toplevel
        \/ AcceptFunction([sig EXCEPT !.ret = ret])
        \/ AcceptFunction(sig)
    BY <1>3 DEF EndFunction
  <2> QED BY <2>1, <2>2 DEF toplevel, Extends
<1>4. CASE \/ AllUnitsDone \/ BadSignature \/ StartFunction
           \/ VisitNull \/ VisitLiteral \/ VisitVar \/ VisitKid
           \/ ReceiveOperand \/ FinishList \/ FinishCall
  <2>1. UNCHANGED toplevel
    BY <1>4 DEF AllUnitsDone, BadSignature, StartFunction, VisitNull, VisitLiteral, VisitVar,
         VisitKid, ReceiveOperand, FinishList, FinishCall, context
  <2> QED BY <2>1 DEF toplevel, Extends
<1>5. CASE ReceiveElement \/ ReceiveArg \/ FinishBinary
  <2>1. UNCHANGED toplevel
    BY <1>5 DEF ReceiveElement, ReceiveArg, FinishBinary, Record
  <2> QED BY <2>1 DEF toplevel, Extends
<1> QED BY <1>1, <1>2, <1>3, <1>4, <1>5 DEF Next

\* A name of the outer context keeps its type: functions analyzed before and
\* after a redefinition are typed against the same signature.
THEOREM NamesKeepTheirTypes == Spec => GlobalsStable
<1>1. [Next]_vars => [\A x \in DOMAIN globals : x \in DOMAIN globals' /\ globals'[x] = globals[x]]_vars
  BY StepExtends DEF Extends
<1> QED BY <1>1, PTL DEF Spec, GlobalsStable
=============================================================================
