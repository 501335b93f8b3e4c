---------------------------- MODULE ParserProofs ----------------------------
(***************************************************************************)
(* Five invariants of the parser, for every token vector that ends in Eof. *)
(*                                                                         *)
(* Its state has its type and its token iterator stays inside the vector.  *)
(* The two are one inductive invariant: a token can be eaten only because  *)
(* it is not Eof, and that a token seen by parseBinOpRHS is not Eof depends*)
(* on the precedence in its frame being a natural number.                  *)
(*                                                                         *)
(* Each expression has one owner.  The inductive invariant says of the     *)
(* expressions, the frames, the units and the pointer that is being        *)
(* returned that they hold different ones: a step only moves pointers among*)
(* them, or drops some.                                                    *)
(*                                                                         *)
(* Expressions are numbered in post-order.  The inductive invariant says   *)
(* where the trees of the operands lie that each frame holds: those of the *)
(* frames come one behind the other, from the oldest frame to the youngest,*)
(* behind those of the units, and nothing lies between them.               *)
(*                                                                         *)
(* Type descriptors are made of older ones, so that they are finite trees. *)
(***************************************************************************)
EXTENDS Parser, TLAPS

USE DEF Returned

\* Each token that is not Eof has another one after it.
LEMMA EatToken ==
  ASSUME TypeOK, InBounds, Tok # "eof"
  PROVE  /\ pos + 1 \in 1 .. Len(tokens)
         /\ tokens[pos + 1] # "eof" =>
              /\ pos + 2 \in 1 .. Len(tokens)
              /\ tokens[pos + 2] # "eof" =>
                   /\ pos + 3 \in 1 .. Len(tokens)
                   /\ tokens[pos + 3] # "eof" => pos + 4 \in 1 .. Len(tokens)
<1>1. /\ Len(tokens) \in Nat
      /\ \A p \in 1 .. Len(tokens) : tokens[p] # "eof" => p + 1 \in 1 .. Len(tokens)
  BY DEF TypeOK, EndsInEof
<1>2. pos \in 1 .. Len(tokens)
  BY DEF InBounds
<1>3. pos + 1 \in 1 .. Len(tokens)
  BY <1>1, <1>2 DEF Tok
<1>4. tokens[pos + 1] # "eof" => pos + 2 \in 1 .. Len(tokens)
  <2>1. HAVE tokens[pos + 1] # "eof"
  <2>2. (pos + 1) + 1 \in 1 .. Len(tokens)
    BY <1>1, <1>3, <2>1
  <2> QED BY <2>2, <1>2
<1>5. ASSUME pos + 2 \in 1 .. Len(tokens), tokens[pos + 2] # "eof"
      PROVE  pos + 3 \in 1 .. Len(tokens)
  <2>2. (pos + 2) + 1 \in 1 .. Len(tokens)
    BY <1>1, <1>5
  <2> QED BY <2>2, <1>2
<1>6. ASSUME pos + 3 \in 1 .. Len(tokens), tokens[pos + 3] # "eof"
      PROVE  pos + 4 \in 1 .. Len(tokens)
  <2>2. (pos + 3) + 1 \in 1 .. Len(tokens)
    BY <1>1, <1>6
  <2> QED BY <2>2, <1>2
<1> QED BY <1>3, <1>4, <1>5, <1>6

\* Eof has no precedence, and one more than a precedence is never negative.
LEMMA Precedences ==
  /\ tokPrecedence("eof") = -1
  /\ \A t : tokPrecedence(t) \in Int /\ tokPrecedence(t) + 1 \in Nat
<1>1. tokPrecedence("eof") = -1
  BY DEF tokPrecedence
<1>2. ASSUME NEW t PROVE tokPrecedence(t) \in {10, 20, 40, -1}
  BY DEF tokPrecedence
<1> QED BY <1>1, <1>2

\* The token under the iterator can be stored as a name.
LEMMA Names ==
  ASSUME TypeOK, InBounds
  PROVE  Tok \in Token /\ Tok \in Name /\ "" \in Name /\ "__anon_expr" \in Name
<1>1. tokens \in Seq(Token)
  BY DEF TypeOK, EndsInEof
<1>2. Tok \in Token
  BY <1>1 DEF InBounds, Tok
<1> QED BY <1>2 DEF Name

\* The empty list of operands.
LEMMA NoKids == <<>> \in Seq(Nat)
OBVIOUS

\* The frames the actions make are frames.
LEMMA MakeFrame ==
  /\ \A fn \in FrameName, name \in Name : NamedFrame(fn, name) \in FrameType
  /\ \A fn \in FrameName : Frame(fn) \in FrameType
  /\ ExpressionFrame \in FrameType
  /\ \A prec \in Nat, lhs \in Nat : BinOpFrame(prec, lhs) \in FrameType
<1> "" \in Name /\ "binop" \in FrameName /\ "expression" \in FrameName
  BY DEF Name, FrameName
<1> <<>> \in Seq(Nat) /\ 0 \in Nat
  BY NoKids
<1>1. ASSUME NEW f \in FrameName, NEW n \in Name
      PROVE  NamedFrame(f, n) \in FrameType
  BY Zenon DEF NamedFrame, FrameType
<1>2. ASSUME NEW prec \in Nat, NEW lhs \in Nat
      PROVE  BinOpFrame(prec, lhs) \in FrameType
  BY Zenon DEF BinOpFrame, FrameType
<1> QED BY <1>1, <1>2 DEF Frame, ExpressionFrame

\* The parts of the innermost frame.
LEMMA TopType ==
  ASSUME TypeOK, stack # <<>>
  PROVE  /\ Top \in FrameType
         /\ Top.prec \in Nat /\ Top.lhs \in Nat /\ Top.name \in Name
         /\ Top.kids \in Seq(Nat)
         /\ Append(Top.kids, ret) \in Seq(Nat)
         /\ Tail(stack) \in Seq(FrameType)
<1>1. Top \in FrameType
  BY DEF TypeOK, Top
<1>2. ret \in Nat /\ stack \in Seq(FrameType)
  BY DEF TypeOK
<1>3. Tail(stack) \in Seq(FrameType)
  BY <1>2
<1> QED BY <1>1, <1>2, <1>3 DEF FrameType

\* A frame stays a frame when a local variable changes.
LEMMA UpdateFrame ==
  ASSUME NEW frame \in FrameType, NEW kids \in Seq(Nat),
         NEW fn \in FrameName, NEW name \in Name
  PROVE  /\ [frame EXCEPT !.kids = kids] \in FrameType
         /\ [frame EXCEPT !.kids = kids].fn = frame.fn
         /\ [frame EXCEPT !.fn = fn] \in FrameType
         /\ [frame EXCEPT !.fn = fn, !.name = name] \in FrameType
BY DEF FrameType

\* A unit stays a unit when one of its parts is filled in.
LEMMA UpdateUnit ==
  ASSUME NEW u \in UnitType
  PROVE  /\ \A kind \in {"none", "def", "extern"} : [u EXCEPT !.kind = kind] \in UnitType
         /\ \A name \in Name : [u EXCEPT !.name = name] \in UnitType
         /\ \A type \in Nat : [u EXCEPT !.type = type] \in UnitType
         /\ \A body \in Nat : [u EXCEPT !.body = body] \in UnitType
         /\ \A args \in Seq([type : Nat, name : Ident]) : [u EXCEPT !.args = args] \in UnitType
BY DEF UnitType

\* The unit before any part is filled in.
LEMMA NoUnitType == NoUnit \in UnitType
BY DEF NoUnit, UnitType, Name

-----------------------------------------------------------------------------
\* What a frame on top of a stack makes.
LEMMA PushFrame ==
  ASSUME NEW frame \in FrameType, NEW frames \in Seq(FrameType)
  PROVE  /\ <<frame>> \o frames \in Seq(FrameType)
         /\ <<frame>> \o frames # <<>>
         /\ Head(<<frame>> \o frames) = frame
OBVIOUS

\* Entering, leaving and changing a frame.
LEMMA StackSteps ==
  ASSUME TypeOK, NEW frame \in FrameType
  PROVE  /\ Push(frame) => /\ stack' \in Seq(FrameType)
                           /\ stack' # <<>> /\ Top' = frame
         /\ stack # <<>> /\ Pop => stack' \in Seq(FrameType)
         /\ stack # <<>> /\ Replace(frame) => /\ stack' \in Seq(FrameType)
                                             /\ stack' # <<>> /\ Top' = frame
<1>2. stack \in Seq(FrameType) /\ (stack # <<>> => Tail(stack) \in Seq(FrameType))
  BY TopType DEF TypeOK
<1>3. Push(frame) => stack' = <<frame>> \o stack
  BY DEF Push
<1>4. Replace(frame) => stack' = <<frame>> \o Tail(stack)
  BY DEF Replace
<1> QED BY <1>2, <1>3, <1>4, PushFrame DEF Pop, Top

\* A call of parseExpression, below which frames are waiting.
LEMMA CallSteps ==
  ASSUME NEW frames \in Seq(FrameType), CallExpression(frames)
  PROVE  stack' \in Seq(FrameType) /\ pc' = "primary"
<1> ExpressionFrame \in FrameType
  BY MakeFrame DEF FrameName, Name
<1> QED BY DEF CallExpression

\* Making an expression or a type descriptor.
LEMMA MakeSteps ==
  ASSUME TypeOK, NEW kind \in ExprKind, NEW name \in Name, NEW kids \in Seq(Nat)
  PROVE  /\ NewExpr(kind, name, kids) => nodes' \in Seq(ExprType) /\ Len(nodes) + 1 \in Nat
         /\ \A index \in Name : NewSubscript(name, index) => nodes' \in Seq(ExprType)
         /\ MakeExpr(kind, name, kids) =>
              /\ nodes' \in Seq(ExprType) /\ types' \in Seq(DescType)
              /\ pc' = "return" /\ ret' \in Nat
         /\ MakeType(name, kids) =>
              /\ nodes' \in Seq(ExprType) /\ types' \in Seq(DescType)
              /\ pc' = "return" /\ ret' \in Nat
<1>1. nodes \in Seq(ExprType) /\ types \in Seq(DescType)
  BY DEF TypeOK
<1>2. [kind |-> kind, name |-> name, kids |-> kids, index |-> ""] \in ExprType
  BY DEF ExprType, Name
<1>3. [name |-> name, args |-> kids] \in DescType
  BY DEF DescType
<1> \A node \in ExprType : Append(nodes, node) \in Seq(ExprType)
  BY <1>1
<1>4. NewExpr(kind, name, kids) => nodes' \in Seq(ExprType) /\ Len(nodes) + 1 \in Nat
  <2>1. Len(nodes) + 1 \in Nat
    BY <1>1
  <2> QED BY <1>2, <2>1, Zenon DEF NewExpr
<1>5. MakeType(name, kids) => types' \in Seq(DescType) /\ Len(types) + 1 \in Nat
  BY <1>1, <1>3 DEF MakeType
<1>6. ASSUME NEW index \in Name, NewSubscript(name, index)
      PROVE  nodes' \in Seq(ExprType)
  <2>1. [kind |-> "subscript", name |-> name, kids |-> <<>>, index |-> index] \in ExprType
    BY NoKids DEF ExprType, ExprKind
  <2> QED BY <1>6, <2>1, Zenon DEF NewSubscript
<1> QED BY <1>1, <1>4, <1>5, <1>6 DEF MakeExpr, MakeType, Return

-----------------------------------------------------------------------------
\* A step that eats tokens has seen, of each, that it is not Eof.
LEMMA BoundsStep ==
  ASSUME TypeOK, InBounds, LoopFrames, UNCHANGED tokens, Next
  PROVE  InBounds'
<1>0. pos \in 1 .. Len(tokens) /\ "eof" \notin Ident /\ "eof" \notin RealLiteral
  BY IdentAssumption, LiteralAssumption DEF InBounds, Literal
<1>1. SUFFICES pos' \in 1 .. Len(tokens)
  BY DEF InBounds
<1>2. CASE \/ ParseSemicolon \/ ParseKeyword \/ PrototypeName \/ PrototypeOpen
           \/ PrototypeClose \/ PrototypeArgName \/ PrototypeType \/ TypeTemplateArg
           \/ ParseVariable \/ ParseCallArg \/ ParseParenExpr
           \/ CloseParen \/ ParseListExpr \/ CloseList
  <2>1. Tok # "eof" /\ Eat(1)
    BY <1>0, <1>2, Zenon
       DEF ParseSemicolon, ParseKeyword, PrototypeName, PrototypeOpen, PrototypeClose,
           PrototypeArgName, PrototypeType, TypeTemplateArg, ParseVariable,
           ParseCallArg, ParseParenExpr, CloseParen, ParseListExpr, CloseList
  <2> QED BY <2>1, EatToken DEF Eat
<1>3. CASE ParseLiteral
  <2>1. Tok # "eof" /\ Eat(1)
    BY <1>3, LiteralAssumption, Zenon DEF ParseLiteral
  <2> QED BY <2>1, EatToken DEF Eat
<1>4. CASE PrototypeArg
  <2>1. UNCHANGED pos \/ (Tok # "eof" /\ Eat(1))
    BY <1>4, Zenon DEF PrototypeArg
  <2> QED BY <1>0, <2>1, EatToken DEF Eat
<1>5. CASE EatBinOp
  <2>1. Top.prec \in Nat
    BY <1>5, TopType DEF EatBinOp, LoopFrames
  <2>2. tokPrecedence(Tok) >= Top.prec /\ Eat(1)
    BY <1>5, Zenon DEF EatBinOp
  <2>3. Tok # "eof"
    BY <2>1, <2>2, Precedences
  <2> QED BY <2>2, <2>3, EatToken DEF Eat
<1>6. CASE TypeName
  <2>1. Tok # "eof" /\ (Eat(1) \/ (tokens[pos + 1] # "eof" /\ Eat(2)))
    BY <1>0, <1>6, Zenon DEF TypeName
  <2> QED BY <2>1, EatToken DEF Eat
<1>7. CASE ParseCall
  <2>1. /\ Tok # "eof" /\ tokens[pos + 1] # "eof"
        /\ (tokens[pos + 2] # "eof" /\ Eat(3)) \/ Eat(2)
    BY <1>0, <1>7, Zenon DEF ParseCall
  <2> QED BY <2>1, EatToken DEF Eat
<1>8. CASE ParseSubscript
  <2>1. /\ Tok # "eof" /\ tokens[pos + 1] # "eof"
        /\ \/ Eat(2)
           \/ tokens[pos + 2] # "eof" /\ Eat(3)
           \/ tokens[pos + 2] # "eof" /\ tokens[pos + 3] # "eof" /\ Eat(4)
    BY <1>0, <1>8, Zenon DEF ParseSubscript
  <2> QED BY <2>1, EatToken DEF Eat
<1>9. CASE \/ ParseEnd \/ ParseTopLevelExpr \/ EndFunction \/ PrototypeEnd
           \/ ParseListElement \/ EndListElement \/ EndPrimary \/ BinOpDone
           \/ TightenBinOp \/ MergeBinOp
           \/ SyntaxError \/ PropagateError \/ SwallowError \/ Reject
  <2>1. UNCHANGED pos
    BY <1>9, Zenon
       DEF ParseEnd, ParseTopLevelExpr, EndFunction, PrototypeEnd, ParseListElement,
           EndListElement, EndPrimary, BinOpDone, TightenBinOp, MergeBinOp,
           SyntaxError, PropagateError, SwallowError, Reject
  <2> QED BY <1>0, <2>1
<1> QED BY <1>2, <1>3, <1>4, <1>5, <1>6, <1>7, <1>8, <1>9, Zenon DEF Next

\* A step leads to one of the points of the parser.
LEMMA PointStep ==
  ASSUME TypeOK, LoopFrames, Next
  PROVE  pc' \in Point
<1>1. CASE \/ ParseEnd \/ ParseSemicolon \/ ParseKeyword \/ EndFunction
           \/ PrototypeName \/ PrototypeOpen \/ PrototypeClose
           \/ PrototypeArg \/ PrototypeArgName \/ PrototypeType
           \/ CloseParen \/ ParseListExpr \/ EndListElement
           \/ EndPrimary \/ EatBinOp \/ TightenBinOp \/ MergeBinOp
           \/ PropagateError \/ Reject
  <2>1. pc' \in {pc, "accepted", "name", "parse", "open", "args", "result", "type",
                "list", "binop", "primary", "rejected"}
    BY <1>1, Zenon
       DEF ParseEnd, ParseSemicolon, ParseKeyword, EndFunction, PrototypeName,
           PrototypeOpen, PrototypeClose, PrototypeArg, PrototypeArgName,
           PrototypeType, CloseParen, ParseListExpr, EndListElement, EndPrimary,
           EatBinOp, TightenBinOp, MergeBinOp, PropagateError, Reject
  <2> QED BY <2>1 DEF TypeOK, Point
<1>2. CASE \/ ParseTopLevelExpr \/ PrototypeEnd \/ TypeName \/ TypeTemplateArg
           \/ ParseLiteral \/ ParseVariable \/ ParseSubscript \/ ParseCall
           \/ ParseCallArg \/ ParseParenExpr \/ ParseListElement \/ CloseList
           \/ BinOpDone \/ SyntaxError \/ SwallowError
  <2>1. pc' \in {"primary", "parse", "return", "fail", "type"}
    BY <1>2, Zenon
       DEF ParseTopLevelExpr, PrototypeEnd, AfterPrototype, TypeName, TypeTemplateArg,
           ParseLiteral, ParseVariable, ParseSubscript, ParseCall, ParseCallArg,
           ParseParenExpr, ParseListElement, CloseList, BinOpDone, SyntaxError,
           SwallowError, CallExpression, Return, Fail, MakeExpr, MakeType
  <2> QED BY <2>1 DEF Point
<1> QED BY <1>1, <1>2, Zenon DEF Next

\* A step leaves a stack of frames, the loops in their own.
LEMMA StackStep ==
  ASSUME TypeOK, InBounds, LoopFrames, Next
  PROVE  stack' \in Seq(FrameType) /\ LoopFrames'
<1>0. stack \in Seq(FrameType)
  BY DEF TypeOK
<1>1. /\ stack \in Seq(FrameType)
      /\ Tok \in Name /\ "" \in Name
      /\ {"expression", "binop", "rhs", "merge", "paren", "list", "call",
          "arg", "result", "template"} \subseteq FrameName
      /\ ret \in Nat /\ 0 \in Nat
  BY Names DEF TypeOK, FrameName
<1>2. stack # <<>> => Tail(stack) \in Seq(FrameType) /\ Top \in FrameType
  BY TopType
<1>3. CASE \/ ParseEnd \/ ParseSemicolon \/ ParseKeyword \/ EndFunction
           \/ PrototypeName \/ PrototypeOpen \/ PrototypeClose
           \/ ParseLiteral \/ ParseVariable \/ ParseSubscript \/ Reject
  <2>1. UNCHANGED stack /\ pc' \notin {"list", "binop"}
    BY <1>3, Zenon
       DEF ParseEnd, ParseSemicolon, ParseKeyword, EndFunction, PrototypeName,
           PrototypeOpen, PrototypeClose, ParseLiteral, ParseVariable,
           ParseSubscript, Reject, MakeExpr, Return, Fail
  <2> QED BY <1>1, <2>1 DEF LoopFrames
<1>4. CASE \/ PrototypeArgName \/ CloseParen \/ CloseList \/ BinOpDone
           \/ PropagateError \/ SwallowError
  <2>1. stack # <<>> /\ Pop /\ pc' \notin {"list", "binop"}
    BY <1>4, Zenon
       DEF LoopFrames, PrototypeArgName, CloseParen, CloseList, BinOpDone,
           PropagateError, SwallowError, MakeExpr, Return
  <2> QED BY <1>2, <2>1 DEF Pop, LoopFrames
<1>5. CASE PrototypeArg \/ PrototypeType
  <2>1. PICK fn \in {"arg", "result"} : Push(Frame(fn))
    BY <1>5, Zenon DEF PrototypeArg, PrototypeType
  <2>2. pc' = "type"
    BY <1>5, Zenon DEF PrototypeArg, PrototypeType
  <2>3. Frame(fn) \in FrameType
    BY <1>1, MakeFrame
  <2> QED BY <2>1, <2>2, <2>3, StackSteps DEF LoopFrames
<1>6. CASE ParseListExpr
  <2>1. Frame("list") \in FrameType /\ Frame("list").fn = "list"
    BY <1>1, MakeFrame DEF Frame, NamedFrame
  <2> QED BY <1>6, <2>1, StackSteps DEF ParseListExpr, LoopFrames
<1>7. CASE ParseTopLevelExpr \/ ParseListElement
  BY <1>1, <1>7, CallSteps, Zenon DEF ParseTopLevelExpr, ParseListElement, LoopFrames
<1>8. CASE ParseParenExpr
  <2>0. Frame("paren") \in FrameType
    BY <1>1, MakeFrame
  <2>1. <<Frame("paren")>> \o stack \in Seq(FrameType)
    BY <1>0, <2>0, PushFrame
  <2> QED BY <1>8, <2>1, CallSteps, Zenon DEF ParseParenExpr, LoopFrames
<1>9. CASE ParseCall
  <2>0. NamedFrame("call", Tok) \in FrameType
    BY <1>1, MakeFrame
  <2>1. <<NamedFrame("call", Tok)>> \o stack \in Seq(FrameType)
    BY <1>0, <2>0, PushFrame
  <2> QED BY <1>1, <1>9, <2>1, CallSteps, Zenon DEF ParseCall, MakeExpr, Return, LoopFrames
<1> DEFINE grown == [Top EXCEPT !.kids = Append(@, ret)]
<1>10. stack # <<>> => grown \in FrameType /\ grown.fn = Top.fn
  BY <1>1, <1>2, TopType, UpdateFrame
<1>11. CASE ParseCallArg
  <2>1. stack # <<>>
    BY <1>11 DEF ParseCallArg
  <2>2. <<grown>> \o Tail(stack) \in Seq(FrameType)
    BY <1>2, <1>10, <2>1
  <2>3. (Pop /\ pc' = "return") \/ CallExpression(<<grown>> \o Tail(stack))
    BY <1>11, Zenon DEF ParseCallArg, MakeExpr, Return
  <2> QED BY <1>2, <2>1, <2>2, <2>3, CallSteps, Zenon DEF Pop, LoopFrames
<1>12. CASE TypeTemplateArg
  <2>1. stack # <<>> /\ ((Pop /\ pc' = "return") \/ (Replace(grown) /\ pc' = "type"))
    BY <1>12, Zenon DEF TypeTemplateArg, MakeType, Return
  <2> QED BY <1>2, <1>10, <2>1, StackSteps, Zenon DEF Pop, LoopFrames
<1>13. CASE EndListElement
  <2>1. stack # <<>> /\ Top.fn = "list" /\ Replace(grown) /\ pc' = "list"
    BY <1>13, Zenon DEF EndListElement
  <2> QED BY <1>10, <2>1, StackSteps, Zenon DEF LoopFrames
<1>14. CASE TypeName
  <2>1. NamedFrame("template", Tok) \in FrameType
    BY <1>1, MakeFrame
  <2>2. \/ Push(NamedFrame("template", Tok)) /\ pc' = pc
        \/ UNCHANGED stack /\ pc' = "return"
    BY <1>14, Zenon DEF TypeName, MakeType, Return
  <2>3. pc = "type"
    BY <1>14, Zenon DEF TypeName
  <2> QED BY <1>1, <2>1, <2>2, <2>3, StackSteps, Zenon DEF LoopFrames
<1>15. CASE PrototypeEnd
  <2>1. \/ pc' = "parse" /\ (stack' = stack \/ (stack # <<>> /\ stack' = Tail(stack)))
        \/ CallExpression(stack)
        \/ stack # <<>> /\ CallExpression(Tail(stack))
    BY <1>15, Zenon DEF PrototypeEnd, AfterPrototype
  <2> QED BY <1>1, <1>2, <2>1, CallSteps, Zenon DEF LoopFrames
<1>16. CASE EndPrimary
  <2>1. stack # <<>> /\ Replace(BinOpFrame(0, ret)) /\ pc' = "binop"
    BY <1>16, Zenon DEF EndPrimary
  <2>2. BinOpFrame(0, ret) \in FrameType /\ BinOpFrame(0, ret).fn = "binop"
    BY <1>1, MakeFrame DEF BinOpFrame
  <2> QED BY <2>1, <2>2, StackSteps, Zenon DEF LoopFrames
<1>17. CASE EatBinOp
  <2>1. stack # <<>> /\ pc' = "primary"
        /\ Replace([Top EXCEPT !.fn = "rhs", !.name = Tok])
    BY <1>17, Zenon DEF EatBinOp, LoopFrames
  <2>2. [Top EXCEPT !.fn = "rhs", !.name = Tok] \in FrameType
    BY <1>1, <1>2, <2>1, UpdateFrame, NoKids
  <2> QED BY <2>1, <2>2, StackSteps, Zenon DEF LoopFrames
<1>18. CASE TightenBinOp
  <2> DEFINE tighter == BinOpFrame(tokPrecedence(Top.name) + 1, ret)
  <2>1. /\ stack # <<>> /\ pc' = "binop"
        /\ stack' = <<tighter, [Top EXCEPT !.fn = "merge"]>> \o Tail(stack)
    BY <1>18, Zenon DEF TightenBinOp
  <2>2. tokPrecedence(Top.name) + 1 \in Nat
    BY Precedences
  <2>3. tighter \in FrameType /\ tighter.fn = "binop"
    BY <1>1, <2>2, MakeFrame DEF BinOpFrame
  <2>4. [Top EXCEPT !.fn = "merge"] \in FrameType
    BY <1>1, <1>2, <2>1, UpdateFrame, NoKids
  <2> HIDE DEF tighter
  <2>5. /\ <<tighter, [Top EXCEPT !.fn = "merge"]>> \o Tail(stack) \in Seq(FrameType)
        /\ <<tighter, [Top EXCEPT !.fn = "merge"]>> \o Tail(stack) # <<>>
        /\ Head(<<tighter, [Top EXCEPT !.fn = "merge"]>> \o Tail(stack)) = tighter
    BY <1>2, <2>1, <2>3, <2>4
  <2> QED BY <2>1, <2>3, <2>5, Zenon DEF LoopFrames, Top
<1>19. CASE MergeBinOp
  <2>1. stack # <<>> /\ Replace(BinOpFrame(Top.prec, Len(nodes) + 1)) /\ pc' = "binop"
    BY <1>19, Zenon DEF MergeBinOp
  <2>2. Len(nodes) + 1 \in Nat /\ Top.prec \in Nat
    BY <2>1, TopType DEF TypeOK
  <2>3. /\ BinOpFrame(Top.prec, Len(nodes) + 1) \in FrameType
        /\ BinOpFrame(Top.prec, Len(nodes) + 1).fn = "binop"
    BY <1>1, <2>2, MakeFrame DEF BinOpFrame
  <2> QED BY <2>1, <2>3, StackSteps, Zenon DEF LoopFrames
<1>20. CASE SyntaxError
  <2>1. /\ pc' = "fail"
        /\ stack' = stack \/ (stack # <<>> /\ stack' = Tail(stack))
    BY <1>20, Zenon DEF SyntaxError, Unexpected, Fail
  <2> QED BY <1>1, <1>2, <2>1, Zenon DEF LoopFrames
<1> QED
  BY <1>3, <1>4, <1>5, <1>6, <1>7, <1>8, <1>9, <1>11, <1>12, <1>13, <1>14, <1>15,
     <1>16, <1>17, <1>18, <1>19, <1>20, Zenon DEF Next

\* A step leaves expressions, type descriptors and a pointer.
LEMMA HeapStep ==
  ASSUME TypeOK, InBounds, LoopFrames, Next
  PROVE  nodes' \in Seq(ExprType) /\ types' \in Seq(DescType) /\ ret' \in Nat
<1>1. /\ nodes \in Seq(ExprType) /\ types \in Seq(DescType)
      /\ ret \in Nat /\ 0 \in Nat
  BY DEF TypeOK
<1>2. Tok \in Name /\ "" \in Name /\ <<>> \in Seq(Nat)
  BY Names, NoKids
<1>3. stack # <<>> => /\ Top.lhs \in Nat /\ Top.name \in Name /\ Top.kids \in Seq(Nat)
                      /\ Append(Top.kids, ret) \in Seq(Nat)
  BY TopType
<1> DEFINE Kinds == {"literal", "var", "subscript", "call", "list", "binary"}
<1>4. \A k \in Kinds : k \in ExprKind
  BY DEF ExprKind
<1> DEFINE SameHeap == UNCHANGED <<nodes, types>> /\ ret' \in {0, ret}
<1>5. ASSUME SameHeap
      PROVE  nodes' \in Seq(ExprType) /\ types' \in Seq(DescType) /\ ret' \in Nat
  BY <1>1, <1>5
<1>6. CASE \/ ParseEnd \/ ParseSemicolon \/ ParseKeyword \/ ParseTopLevelExpr \/ EndFunction
           \/ PrototypeName \/ PrototypeOpen \/ PrototypeClose
           \/ PrototypeArg \/ PrototypeArgName \/ PrototypeType \/ PrototypeEnd
           \/ ParseParenExpr \/ CloseParen
           \/ ParseListExpr \/ ParseListElement \/ EndListElement
           \/ EndPrimary \/ EatBinOp \/ TightenBinOp
           \/ SyntaxError \/ PropagateError \/ SwallowError \/ Reject
  <2>1. SameHeap
    BY <1>6, Zenon
       DEF ParseEnd, ParseSemicolon, ParseKeyword, ParseTopLevelExpr, EndFunction,
           PrototypeName, PrototypeOpen, PrototypeClose, PrototypeArg, PrototypeArgName,
           PrototypeType, PrototypeEnd, ParseParenExpr, CloseParen, ParseListExpr,
           ParseListElement, EndListElement, EndPrimary, EatBinOp, TightenBinOp,
           SyntaxError, PropagateError, SwallowError, Reject, Return, Fail, heap
  <2> QED BY <1>5, <2>1
<1>7. CASE BinOpDone
  <2>1. UNCHANGED <<nodes, types>> /\ ret' = Top.lhs /\ stack # <<>>
    BY <1>7, Zenon DEF BinOpDone, Return, heap, LoopFrames
  <2> QED BY <1>1, <1>3, <2>1
<1>8. CASE MergeBinOp
  <2>1. <<Top.lhs, ret>> \in Seq(Nat) /\ stack # <<>>
    BY <1>1, <1>3, <1>8 DEF MergeBinOp
  <2>2. NewExpr("binary", Top.name, <<Top.lhs, ret>>) /\ UNCHANGED <<types, ret>>
    BY <1>8, Zenon DEF MergeBinOp
  <2> QED BY <1>1, <1>3, <1>4, <2>1, <2>2, MakeSteps, Zenon
<1>9. CASE ParseLiteral \/ ParseVariable \/ ParseCall \/ ParseCallArg \/ CloseList
  <2>1. \/ SameHeap
        \/ \E kind \in Kinds, name \in Name, kids \in Seq(Nat) : MakeExpr(kind, name, kids)
    BY <1>2, <1>3, <1>9, Zenon
       DEF ParseLiteral, ParseVariable, ParseCall, ParseCallArg, CloseList, LoopFrames, heap
  <2> QED BY <1>4, <1>5, <2>1, MakeSteps, Zenon
<1>11. CASE ParseSubscript
  <2>1. \/ SameHeap
        \/ /\ \E index \in Name : NewSubscript(Tok, index)
           /\ UNCHANGED types /\ ret' = Len(nodes) + 1
    <3>1. RealLiteral \subseteq Name
      BY DEF Name, Token, Literal
    <3> QED BY <1>11, <3>1, Zenon DEF ParseSubscript, Return, Fail, heap
  <2>2. Len(nodes) + 1 \in Nat /\ "var" \in ExprKind
    BY <1>1 DEF ExprKind
  <2> QED BY <1>1, <1>2, <1>5, <2>1, <2>2, MakeSteps, Zenon
<1>10. CASE TypeName \/ TypeTemplateArg
  <2>1. SameHeap \/ \E name \in Name, args \in Seq(Nat) : MakeType(name, args)
    BY <1>2, <1>3, <1>10, Zenon DEF TypeName, TypeTemplateArg, heap
  <2> QED BY <1>4, <1>5, <2>1, MakeSteps, Zenon
<1> QED BY <1>6, <1>7, <1>8, <1>9, <1>10, <1>11, Zenon DEF Next

\* A step leaves units.
LEMMA UnitStep ==
  ASSUME TypeOK, InBounds, Next
  PROVE  unit' \in UnitType /\ units' \in Seq(UnitType)
<1>1. /\ unit \in UnitType /\ units \in Seq(UnitType) /\ ret \in Nat
      /\ NoUnit \in UnitType /\ Tok \in Name /\ "__anon_expr" \in Name
  BY NoUnitType, Names DEF TypeOK
<1>2. \A u \in UnitType : Append(units, u) \in Seq(UnitType)
  BY <1>1
<1>3. CASE \/ ParseEnd \/ ParseSemicolon \/ PrototypeOpen \/ PrototypeClose \/ PrototypeArg
           \/ PrototypeType \/ TypeName \/ TypeTemplateArg
           \/ ParseLiteral \/ ParseVariable \/ ParseSubscript
           \/ ParseCall \/ ParseCallArg \/ ParseParenExpr \/ CloseParen
           \/ ParseListExpr \/ ParseListElement \/ EndListElement \/ CloseList
           \/ EndPrimary \/ BinOpDone \/ EatBinOp \/ TightenBinOp \/ MergeBinOp
           \/ SyntaxError \/ PropagateError \/ SwallowError \/ Reject
  <2>1. UNCHANGED <<unit, units>>
    BY <1>3, Zenon
       DEF ParseEnd, ParseSemicolon, PrototypeOpen, PrototypeClose, PrototypeArg,
           PrototypeType, TypeName, TypeTemplateArg, ParseLiteral, ParseVariable,
           ParseSubscript, ParseCall, ParseCallArg, ParseParenExpr, CloseParen,
           ParseListExpr, ParseListElement, EndListElement, CloseList, EndPrimary,
           BinOpDone, EatBinOp, TightenBinOp, MergeBinOp, SyntaxError,
           PropagateError, SwallowError, Reject
  <2> QED BY <1>1, <2>1
<1>4. CASE ParseKeyword
  <2>1. UNCHANGED units /\ unit' = [NoUnit EXCEPT !.kind = Tok] /\ Tok \in {"none", "def", "extern"}
    BY <1>4, Zenon DEF ParseKeyword
  <2> QED BY <1>1, <2>1, UpdateUnit
<1>5. CASE ParseTopLevelExpr
  <2>1. UNCHANGED units /\ unit' = [NoUnit EXCEPT !.kind = "def", !.name = "__anon_expr"]
    BY <1>5, Zenon DEF ParseTopLevelExpr
  <2> DEFINE def == [NoUnit EXCEPT !.kind = "def"]
  <2>2. def \in UnitType
    BY <1>1, UpdateUnit
  <2>3. unit' = [def EXCEPT !.name = "__anon_expr"]
    BY <2>1
  <2> HIDE DEF def
  <2>4. [def EXCEPT !.name = "__anon_expr"] \in UnitType
    BY <1>1, <2>2, UpdateUnit
  <2> QED BY <1>1, <2>1, <2>3, <2>4, Zenon
<1>6. CASE EndFunction
  <2>1. [unit EXCEPT !.body = ret] \in UnitType
    BY <1>1, UpdateUnit
  <2> QED BY <1>1, <1>2, <1>6, <2>1, Zenon DEF EndFunction
<1>7. CASE PrototypeName
  <2>1. [unit EXCEPT !.name = Tok] \in UnitType
    BY <1>1, UpdateUnit
  <2> QED BY <1>1, <1>7, <2>1, Zenon DEF PrototypeName
<1>8. CASE PrototypeArgName
  <2>1. Tok \in Ident
    BY <1>8 DEF PrototypeArgName
  <2>2. unit.args \in Seq([type : Nat, name : Ident])
    BY <1>1 DEF UnitType
  <2>3. Append(unit.args, [type |-> ret, name |-> Tok]) \in Seq([type : Nat, name : Ident])
    BY <1>1, <2>1, <2>2
  <2>4. [unit EXCEPT !.args = Append(@, [type |-> ret, name |-> Tok])] \in UnitType
    BY <1>1, <2>3, UpdateUnit
  <2> QED BY <1>1, <1>8, <2>4, Zenon DEF PrototypeArgName
<1>9. CASE PrototypeEnd
  <2>1. [unit EXCEPT !.type = ret] \in UnitType
    BY <1>1, UpdateUnit
  <2>2. \E u \in UnitType :
          \/ units' = Append(units, u) /\ unit' = NoUnit
          \/ unit' = u /\ UNCHANGED units
    BY <1>1, <1>9, <2>1, Zenon DEF PrototypeEnd, AfterPrototype
  <2> QED BY <1>1, <1>2, <2>2, Zenon
<1> QED BY <1>3, <1>4, <1>5, <1>6, <1>7, <1>8, <1>9, Zenon DEF Next

-----------------------------------------------------------------------------
\* The inductive invariant.
IInv == TypeOK /\ InBounds

\* The invariant holds when parse() is called,
LEMMA InitIInv == Init => IInv
<1> SUFFICES ASSUME Init PROVE IInv
  OBVIOUS
<1>1. EndsInEof(tokens)
  BY InputAssumption DEF Init
<1>2. pos \in 1 .. Len(tokens) /\ pos \in Nat
  BY <1>1 DEF Init, EndsInEof
<1>3. stack \in Seq(FrameType) /\ nodes \in Seq(ExprType)
      /\ types \in Seq(DescType) /\ units \in Seq(UnitType) /\ ret \in Nat
  BY DEF Init
<1>4. pc \in Point /\ LoopFrames /\ unit \in UnitType
  BY NoUnitType, Zenon DEF Init, Point, LoopFrames
<1> QED BY <1>1, <1>2, <1>3, <1>4 DEF IInv, TypeOK, InBounds

\* and every step preserves it.
LEMMA NextIInv == IInv /\ [Next]_vars => IInv'
<1> SUFFICES ASSUME IInv, [Next]_vars PROVE IInv'
  OBVIOUS
<1>1. TypeOK /\ InBounds /\ LoopFrames
  BY DEF IInv, TypeOK
<1>2. CASE Next
  <2>1. UNCHANGED tokens
    BY <1>2 DEF Next
  <2>2. InBounds'
    BY <1>1, <1>2, <2>1, BoundsStep
  <2>3. EndsInEof(tokens)' /\ pos' \in Nat
    BY <1>1, <2>1, <2>2 DEF TypeOK, InBounds, EndsInEof
  <2> QED
    BY <1>1, <1>2, <2>2, <2>3, PointStep, StackStep, HeapStep, UnitStep, Zenon
       DEF IInv, TypeOK
<1>3. CASE UNCHANGED vars
  BY <1>1, <1>3 DEF vars, IInv, TypeOK, InBounds, LoopFrames, Top, EndsInEof
<1> QED BY <1>2, <1>3

\* The parser's state has its type, whatever token vector parse() is given.
THEOREM TypeCorrect == Spec => []TypeOK
<1>1. IInv => TypeOK
  BY DEF IInv
<1> QED BY <1>1, InitIInv, NextIInv, PTL DEF Spec

\* No parse function moves the iterator past the Eof that ends the vector,
\* although none of them compares it with end().
THEOREM NeverPastEof == Spec => []InBounds
<1>1. IInv => InBounds
  BY DEF IInv
<1> QED BY <1>1, InitIInv, NextIInv, PTL DEF Spec

-----------------------------------------------------------------------------
(* Who holds an expression.                                                 *)

\* A sequence names each expression at most once; 0 is a null pointer.
Once(s) == \A i, j \in 1 .. Len(s) : s[i] = s[j] /\ s[i] # 0 => i = j
Values(s) == {s[i] : i \in 1 .. Len(s)} \ {0}

\* The frames that wait for a type, and those of parseBinOpRHS.
TypeFrames == {"arg", "result", "template"}
BinOpFrames == {"binop", "rhs", "merge"}

\* The expressions a frame holds, and a frame that holds each of them once.
Held(f) == ({f.lhs} \ {0}) \cup IF f.fn = "template" THEN {} ELSE Values(f.kids)
FrameOnce(f) ==
  /\ f.fn \in BinOpFrames => f.kids = <<>>
  /\ f.fn \notin BinOpFrames => f.lhs = 0
  /\ f.fn # "template" => Once(f.kids)

\* A template argument is in another one or in an argument or a result.
StackHeld(s) == UNION {Held(s[i]) : i \in 1 .. Len(s)}
StackOnce(s) ==
  /\ \A i \in 1 .. Len(s) : FrameOnce(s[i])
  /\ \A i, j \in 1 .. Len(s) : i # j => Held(s[i]) \cap Held(s[j]) = {}
  /\ \A i \in 1 .. Len(s) :
       s[i].fn = "template" => i + 1 \in 1 .. Len(s) /\ s[i + 1].fn \in TypeFrames

NodesHeld(n) == UNION {Values(n[m].kids) : m \in 1 .. Len(n)}
NodesOnce(n) ==
  /\ \A m \in 1 .. Len(n) : Once(n[m].kids)
  /\ \A m, l \in 1 .. Len(n) : m # l => Values(n[m].kids) \cap Values(n[l].kids) = {}

UnitsHeld(u) == {u[i].body : i \in 1 .. Len(u)} \ {0}
UnitsOnce(u) == \A i, j \in 1 .. Len(u) : u[i].body = u[j].body /\ u[i].body # 0 => i = j

\* Expressions, frames, units and what is between them hold different
\* expressions, and only such as were made.
Apart(n, s, u, loose) ==
  /\ NodesOnce(n) /\ StackOnce(s) /\ UnitsOnce(u)
  /\ NodesHeld(n) \subseteq 1 .. Len(n)
  /\ StackHeld(s) \subseteq 1 .. Len(n)
  /\ UnitsHeld(u) \subseteq 1 .. Len(n)
  /\ loose \subseteq 1 .. Len(n)
  /\ NodesHeld(n) \cap StackHeld(s) = {}
  /\ NodesHeld(n) \cap UnitsHeld(u) = {}
  /\ NodesHeld(n) \cap loose = {}
  /\ StackHeld(s) \cap UnitsHeld(u) = {}
  /\ StackHeld(s) \cap loose = {}
  /\ UnitsHeld(u) \cap loose = {}

\* The expression that is on its way to the caller.
Loose == IF ReturnsExpr THEN {ret} \ {0} ELSE {}

\* The inductive invariant; a type is always parsed for a frame.
OwnerInv ==
  /\ Apart(nodes, stack, units, Loose)
  /\ unit.body = 0
  /\ pc = "type" => stack # <<>> /\ Top.fn \in TypeFrames

-----------------------------------------------------------------------------
\* The elements of a sequence behind a new first one.
LEMMA InFront ==
  ASSUME NEW X, NEW s \in Seq(X), NEW f \in X
  PROVE  /\ Len(<<f>> \o s) = Len(s) + 1 /\ (<<f>> \o s)[1] = f
         /\ \A i \in 1 .. Len(s) : i + 1 \in 1 .. Len(<<f>> \o s) /\ (<<f>> \o s)[i + 1] = s[i]
         /\ \A i \in 1 .. Len(<<f>> \o s) : i = 1 \/ (i - 1 \in 1 .. Len(s) /\ (<<f>> \o s)[i] = s[i - 1])
         /\ s # <<>> => 1 \in 1 .. Len(s) /\ Head(s) = s[1]
         /\ Len(s) \in Nat
OBVIOUS

\* A stack holds what its first frame and the others hold.
LEMMA InFrontHeld ==
  ASSUME NEW X, NEW s \in Seq(X), NEW f \in X
  PROVE  StackHeld(<<f>> \o s) = Held(f) \cup StackHeld(s)
<1> DEFINE t == <<f>> \o s
<1>1. /\ Len(t) = Len(s) + 1 /\ t[1] = f /\ Len(s) \in Nat
      /\ \A i \in 1 .. Len(s) : i + 1 \in 1 .. Len(t) /\ t[i + 1] = s[i]
      /\ \A i \in 1 .. Len(t) : i = 1 \/ (i - 1 \in 1 .. Len(s) /\ t[i] = s[i - 1])
  BY InFront
<1>2. 1 \in 1 .. Len(t)
  BY <1>1
<1> HIDE DEF t
<1>3. ASSUME NEW n \in StackHeld(t) PROVE n \in Held(f) \cup StackHeld(s)
  <2>1. PICK i \in 1 .. Len(t) : n \in Held(t[i])
    BY <1>3 DEF StackHeld
  <2>2. CASE i = 1
    BY <1>1, <2>1, <2>2
  <2>3. CASE i # 1
    <3>1. i - 1 \in 1 .. Len(s) /\ n \in Held(s[i - 1])
      BY <1>1, <2>1, <2>3
    <3> QED BY <3>1 DEF StackHeld
  <2> QED BY <2>2, <2>3
<1>4. ASSUME NEW n \in Held(f) PROVE n \in StackHeld(t)
  BY <1>1, <1>2, <1>4 DEF StackHeld
<1>5. ASSUME NEW n \in StackHeld(s) PROVE n \in StackHeld(t)
  <2>1. PICK i \in 1 .. Len(s) : n \in Held(s[i])
    BY <1>5 DEF StackHeld
  <2>2. i + 1 \in 1 .. Len(t) /\ n \in Held(t[i + 1])
    BY <1>1, <2>1
  <2> QED BY <2>2 DEF StackHeld
<1> QED BY <1>3, <1>4, <1>5 DEF t

\* What is on the stack below the first frame.
LEMMA PopOnce ==
  ASSUME NEW X, NEW s \in Seq(X), NEW f \in X, StackOnce(<<f>> \o s)
  PROVE  /\ FrameOnce(f) /\ StackOnce(s) /\ Held(f) \cap StackHeld(s) = {}
         /\ f.fn = "template" => s # <<>> /\ Head(s).fn \in TypeFrames
<1> DEFINE t == <<f>> \o s
<1>1. /\ Len(t) = Len(s) + 1 /\ t[1] = f /\ Len(s) \in Nat
      /\ \A i \in 1 .. Len(s) : i + 1 \in 1 .. Len(t) /\ t[i + 1] = s[i]
      /\ s # <<>> => Head(s) = s[1]
  BY InFront
<1>2. 1 \in 1 .. Len(t) /\ (s = <<>> => Len(s) = 0)
  BY <1>1
<1>3. StackOnce(t)
  OBVIOUS
<1> HIDE DEF t
<1>4. FrameOnce(f)
  BY <1>1, <1>2, <1>3 DEF StackOnce
<1>5. Held(f) \cap StackHeld(s) = {}
  <2> SUFFICES ASSUME NEW n \in Held(f), NEW i \in 1 .. Len(s), n \in Held(s[i]) PROVE FALSE
    BY DEF StackHeld
  <2>1. i + 1 \in 1 .. Len(t) /\ t[i + 1] = s[i] /\ i + 1 # 1
    BY <1>1
  <2>2. Held(t[1]) \cap Held(t[i + 1]) = {}
    BY <1>2, <1>3, <2>1, Zenon DEF StackOnce
  <2> QED BY <1>1, <2>1, <2>2
<1>6. StackOnce(s)
  <2>1. ASSUME NEW i \in 1 .. Len(s) PROVE FrameOnce(s[i])
    <3>1. i + 1 \in 1 .. Len(t) /\ t[i + 1] = s[i]
      BY <1>1
    <3> QED BY <1>3, <3>1 DEF StackOnce
  <2>2. ASSUME NEW i \in 1 .. Len(s), NEW j \in 1 .. Len(s), i # j
        PROVE  Held(s[i]) \cap Held(s[j]) = {}
    <3>1. i + 1 \in 1 .. Len(t) /\ j + 1 \in 1 .. Len(t) /\ i + 1 # j + 1
          /\ t[i + 1] = s[i] /\ t[j + 1] = s[j]
      BY <1>1, <2>2
    <3>2. Held(t[i + 1]) \cap Held(t[j + 1]) = {}
      BY <1>3, <3>1, Zenon DEF StackOnce
    <3> QED BY <3>1, <3>2
  <2>3. ASSUME NEW i \in 1 .. Len(s), s[i].fn = "template"
        PROVE  i + 1 \in 1 .. Len(s) /\ s[i + 1].fn \in TypeFrames
    <3>1. i + 1 \in 1 .. Len(t) /\ t[i + 1] = s[i]
      BY <1>1
    <3>2. (i + 1) + 1 \in 1 .. Len(t) /\ t[(i + 1) + 1].fn \in TypeFrames
      BY <1>3, <2>3, <3>1, Zenon DEF StackOnce
    <3>3. i + 1 \in 1 .. Len(s)
      BY <1>1, <3>2
    <3> QED BY <1>1, <3>2, <3>3
  <2> QED BY <2>1, <2>2, <2>3, Zenon DEF StackOnce
<1>7. f.fn = "template" => s # <<>> /\ Head(s).fn \in TypeFrames
  <2> HAVE f.fn = "template"
  <2>1. 1 + 1 \in 1 .. Len(t) /\ t[1 + 1].fn \in TypeFrames
    BY <1>1, <1>2, <1>3, Zenon DEF StackOnce
  <2>2. 1 \in 1 .. Len(s) /\ s # <<>>
    BY <1>1, <1>2, <2>1
  <2> QED BY <1>1, <2>1, <2>2
<1> QED BY <1>4, <1>5, <1>6, <1>7

\* A frame goes on a stack of others.
LEMMA PushOnce ==
  ASSUME NEW X, NEW s \in Seq(X), NEW f \in X,
         FrameOnce(f), StackOnce(s), Held(f) \cap StackHeld(s) = {},
         f.fn = "template" => s # <<>> /\ Head(s).fn \in TypeFrames
  PROVE  StackOnce(<<f>> \o s)
<1> DEFINE t == <<f>> \o s
<1>1. /\ Len(t) = Len(s) + 1 /\ t[1] = f /\ Len(s) \in Nat
      /\ \A i \in 1 .. Len(s) : i + 1 \in 1 .. Len(t) /\ t[i + 1] = s[i]
      /\ \A i \in 1 .. Len(t) : i = 1 \/ (i - 1 \in 1 .. Len(s) /\ t[i] = s[i - 1])
      /\ s # <<>> => 1 \in 1 .. Len(s) /\ Head(s) = s[1]
  BY InFront
<1> HIDE DEF t
<1>2. ASSUME NEW i \in 1 .. Len(t) PROVE FrameOnce(t[i])
  <2>1. i = 1 \/ (i - 1 \in 1 .. Len(s) /\ t[i] = s[i - 1])
    BY <1>1
  <2>2. \A k \in 1 .. Len(s) : FrameOnce(s[k])
    BY DEF StackOnce
  <2> QED BY <1>1, <2>1, <2>2
<1>3. \A i \in 1 .. Len(s) : Held(f) \cap Held(s[i]) = {}
  BY DEF StackHeld
<1>4. \A i, j \in 1 .. Len(s) : i # j => Held(s[i]) \cap Held(s[j]) = {}
  BY DEF StackOnce
<1>5. ASSUME NEW i \in 1 .. Len(t), NEW j \in 1 .. Len(t), i # j
      PROVE  Held(t[i]) \cap Held(t[j]) = {}
  <2>1. /\ i = 1 \/ (i - 1 \in 1 .. Len(s) /\ t[i] = s[i - 1])
        /\ j = 1 \/ (j - 1 \in 1 .. Len(s) /\ t[j] = s[j - 1])
    BY <1>1
  <2>2. CASE i = 1
    <3>1. j - 1 \in 1 .. Len(s) /\ t[j] = s[j - 1]
      BY <1>5, <2>1, <2>2
    <3> QED BY <1>1, <1>3, <2>2, <3>1
  <2>3. CASE j = 1
    <3>1. i - 1 \in 1 .. Len(s) /\ t[i] = s[i - 1]
      BY <1>5, <2>1, <2>3
    <3> QED BY <1>1, <1>3, <2>3, <3>1
  <2>4. CASE i # 1 /\ j # 1
    <3>1. i - 1 # j - 1
      BY <1>5
    <3> QED BY <1>4, <2>1, <2>4, <3>1
  <2> QED BY <2>2, <2>3, <2>4
<1>6. ASSUME NEW i \in 1 .. Len(t), t[i].fn = "template"
      PROVE  i + 1 \in 1 .. Len(t) /\ t[i + 1].fn \in TypeFrames
  <2>1. i = 1 \/ (i - 1 \in 1 .. Len(s) /\ t[i] = s[i - 1])
    BY <1>1
  <2>2. CASE i = 1
    <3>1. 1 \in 1 .. Len(s) /\ s[1].fn \in TypeFrames
      BY <1>1, <1>6, <2>2
    <3>2. 1 + 1 \in 1 .. Len(t) /\ t[1 + 1] = s[1]
      BY <1>1, <3>1
    <3> QED BY <2>2, <3>1, <3>2
  <2>3. CASE i # 1
    <3> DEFINE k == i - 1
    <3>1. k \in 1 .. Len(s) /\ s[k].fn = "template"
      BY <1>6, <2>1, <2>3
    <3>2. k + 1 \in 1 .. Len(s) /\ s[k + 1].fn \in TypeFrames
      BY <3>1, Zenon DEF StackOnce
    <3>3. (k + 1) + 1 \in 1 .. Len(t) /\ t[(k + 1) + 1] = s[k + 1] /\ k + 1 = i
      BY <1>1, <3>2
    <3> QED BY <3>2, <3>3
  <2> QED BY <2>2, <2>3
<1> QED BY <1>2, <1>5, <1>6, Zenon DEF t, StackOnce

\* The elements of a sequence with one more behind them.
LEMMA AtEnd ==
  ASSUME NEW X, NEW s \in Seq(X), NEW e \in X
  PROVE  /\ Len(s) \in Nat /\ Len(Append(s, e)) = Len(s) + 1 /\ Append(s, e)[Len(s) + 1] = e
         /\ \A i \in 1 .. Len(s) : i \in 1 .. Len(Append(s, e)) /\ Append(s, e)[i] = s[i]
         /\ \A i \in 1 .. Len(Append(s, e)) : i \in 1 .. Len(s) \/ i = Len(s) + 1
         /\ Len(s) + 1 \in 1 .. Len(Append(s, e)) /\ Len(s) + 1 \notin 1 .. Len(s)
OBVIOUS

\* A new expression holds its operands.
LEMMA MakeOnce ==
  ASSUME NEW X, NEW n \in Seq(X), NEW e \in X, NodesOnce(n), Once(e.kids),
         NodesHeld(n) \cap Values(e.kids) = {}
  PROVE  /\ NodesOnce(Append(n, e))
         /\ NodesHeld(Append(n, e)) = NodesHeld(n) \cup Values(e.kids)
<1> DEFINE t == Append(n, e)
           last == Len(n) + 1
<1>1. /\ t[last] = e /\ last \in 1 .. Len(t)
      /\ \A i \in 1 .. Len(n) : i \in 1 .. Len(t) /\ t[i] = n[i]
      /\ \A i \in 1 .. Len(t) : i \in 1 .. Len(n) \/ i = last
  BY AtEnd
<1>2. /\ \A m \in 1 .. Len(n) : Once(n[m].kids)
      /\ \A m, l \in 1 .. Len(n) : m # l => Values(n[m].kids) \cap Values(n[l].kids) = {}
      /\ \A m \in 1 .. Len(n) : Values(n[m].kids) \cap Values(e.kids) = {}
  BY DEF NodesOnce, NodesHeld
<1> HIDE DEF t, last
<1>3. NodesOnce(t)
  <2>1. ASSUME NEW m \in 1 .. Len(t) PROVE Once(t[m].kids)
    BY <1>1, <1>2
  <2>2. ASSUME NEW m \in 1 .. Len(t), NEW l \in 1 .. Len(t), m # l
        PROVE  Values(t[m].kids) \cap Values(t[l].kids) = {}
    <3>1. CASE m = last
      BY <1>1, <1>2, <2>2, <3>1
    <3>2. CASE l = last
      BY <1>1, <1>2, <2>2, <3>2
    <3>3. CASE m # last /\ l # last
      BY <1>1, <1>2, <2>2, <3>3
    <3> QED BY <3>1, <3>2, <3>3
  <2> QED BY <2>1, <2>2 DEF NodesOnce
<1>4. NodesHeld(t) = NodesHeld(n) \cup Values(e.kids)
  <2>1. ASSUME NEW x \in NodesHeld(t) PROVE x \in NodesHeld(n) \cup Values(e.kids)
    <3>1. PICK m \in 1 .. Len(t) : x \in Values(t[m].kids)
      BY <2>1 DEF NodesHeld
    <3> QED BY <1>1, <3>1 DEF NodesHeld
  <2>2. ASSUME NEW x \in NodesHeld(n) PROVE x \in NodesHeld(t)
    <3>1. PICK m \in 1 .. Len(n) : x \in Values(n[m].kids)
      BY <2>2 DEF NodesHeld
    <3> QED BY <1>1, <3>1 DEF NodesHeld
  <2>3. ASSUME NEW x \in Values(e.kids) PROVE x \in NodesHeld(t)
    BY <1>1, <2>3 DEF NodesHeld
  <2> QED BY <2>1, <2>2, <2>3
<1> QED BY <1>3, <1>4 DEF t

\* A new unit holds its body.
LEMMA UnitOnce ==
  ASSUME NEW X, NEW us \in Seq(X), NEW u \in X, UnitsOnce(us), u.body \notin UnitsHeld(us)
  PROVE  /\ UnitsOnce(Append(us, u))
         /\ UnitsHeld(Append(us, u)) = UnitsHeld(us) \cup ({u.body} \ {0})
<1> DEFINE t == Append(us, u)
           last == Len(us) + 1
<1>1. /\ t[last] = u /\ last \in 1 .. Len(t)
      /\ \A i \in 1 .. Len(us) : i \in 1 .. Len(t) /\ t[i] = us[i]
      /\ \A i \in 1 .. Len(t) : i \in 1 .. Len(us) \/ i = last
  BY AtEnd
<1> HIDE DEF t, last
<1>2. \A i \in 1 .. Len(us) : us[i].body # 0 => us[i].body # u.body
  BY DEF UnitsHeld
<1>3. UnitsOnce(t)
  <2> SUFFICES ASSUME NEW i \in 1 .. Len(t), NEW j \in 1 .. Len(t), t[i].body = t[j].body, t[i].body # 0
               PROVE  i = j
    BY DEF UnitsOnce
  <2>1. CASE i = last
    BY <1>1, <1>2, <2>1
  <2>2. CASE j = last
    BY <1>1, <1>2, <2>2
  <2>3. CASE i # last /\ j # last
    BY <1>1, <2>3 DEF UnitsOnce
  <2> QED BY <2>1, <2>2, <2>3
<1>4. UnitsHeld(t) = UnitsHeld(us) \cup ({u.body} \ {0})
  BY <1>1 DEF UnitsHeld
<1> QED BY <1>3, <1>4 DEF t

-----------------------------------------------------------------------------
\* What a step does to the pointers: it drops some,
LEMMA Fewer ==
  ASSUME NEW n, NEW s, NEW u, NEW loose, Apart(n, s, u, loose), NEW fewer, fewer \subseteq loose
  PROVE  Apart(n, s, u, fewer)
BY DEF Apart

\* takes the first frame off the stack,
LEMMA PopApart ==
  ASSUME NEW X, NEW n, NEW f \in X, NEW s \in Seq(X), NEW u, NEW loose,
         Apart(n, <<f>> \o s, u, loose)
  PROVE  /\ Apart(n, s, u, loose \cup Held(f)) /\ FrameOnce(f) /\ Held(f) \cap loose = {}
         /\ f.fn = "template" => s # <<>> /\ Head(s).fn \in TypeFrames
<1>1. /\ FrameOnce(f) /\ StackOnce(s) /\ Held(f) \cap StackHeld(s) = {}
      /\ f.fn = "template" => s # <<>> /\ Head(s).fn \in TypeFrames
  <2>1. StackOnce(<<f>> \o s)
    BY Zenon DEF Apart
  <2> QED BY <2>1, PopOnce
<1>2. StackHeld(<<f>> \o s) = Held(f) \cup StackHeld(s)
  BY InFrontHeld
<1> QED BY <1>1, <1>2 DEF Apart

\* puts a frame on it that holds loose ones,
LEMMA PushApart ==
  ASSUME NEW X, NEW n, NEW f \in X, NEW s \in Seq(X), NEW u, NEW loose,
         Apart(n, s, u, loose), Held(f) \subseteq loose, FrameOnce(f),
         f.fn = "template" => s # <<>> /\ Head(s).fn \in TypeFrames
  PROVE  Apart(n, <<f>> \o s, u, loose \ Held(f))
<1>1. StackOnce(s) /\ Held(f) \cap StackHeld(s) = {}
  BY DEF Apart
<1>2. StackOnce(<<f>> \o s)
  BY <1>1, PushOnce
<1>3. StackHeld(<<f>> \o s) = Held(f) \cup StackHeld(s)
  BY InFrontHeld
<1> QED BY <1>2, <1>3 DEF Apart

\* makes an expression of them,
LEMMA MakeApart ==
  ASSUME NEW X, NEW n \in Seq(X), NEW e \in X, NEW s, NEW u, NEW loose,
         Apart(n, s, u, loose), Once(e.kids), Values(e.kids) \subseteq loose
  PROVE  Apart(Append(n, e), s, u, (loose \ Values(e.kids)) \cup {Len(n) + 1})
<1>1. NodesOnce(n) /\ NodesHeld(n) \cap Values(e.kids) = {}
  BY DEF Apart
<1>2. /\ NodesOnce(Append(n, e))
      /\ NodesHeld(Append(n, e)) = NodesHeld(n) \cup Values(e.kids)
  BY <1>1, MakeOnce
<1>3. Len(n) \in Nat /\ Len(Append(n, e)) = Len(n) + 1
  BY AtEnd
<1>4. 1 .. Len(n) \subseteq 1 .. Len(Append(n, e)) /\ Len(n) + 1 \in 1 .. Len(Append(n, e))
      /\ Len(n) + 1 \notin 1 .. Len(n)
  BY <1>3
<1> DEFINE all == 1 .. Len(Append(n, e))
           old == 1 .. Len(n)
           new == Len(n) + 1
           more == Append(n, e)
           range == 1 .. Len(more)
<1>5. range = all /\ old \subseteq all /\ new \in all /\ new \notin old
  BY <1>4
<1> HIDE DEF all, old, new, more, range
<1>6. /\ NodesOnce(more) /\ NodesHeld(more) = NodesHeld(n) \cup Values(e.kids)
  BY <1>2 DEF more
<1>7. /\ StackOnce(s) /\ UnitsOnce(u)
      /\ NodesHeld(n) \subseteq old /\ StackHeld(s) \subseteq old /\ UnitsHeld(u) \subseteq old
      /\ loose \subseteq old
      /\ NodesHeld(n) \cap StackHeld(s) = {} /\ NodesHeld(n) \cap UnitsHeld(u) = {}
      /\ NodesHeld(n) \cap loose = {} /\ StackHeld(s) \cap UnitsHeld(u) = {}
      /\ StackHeld(s) \cap loose = {} /\ UnitsHeld(u) \cap loose = {}
  BY Zenon DEF Apart, old
<1>8. Apart(more, s, u, (loose \ Values(e.kids)) \cup {new})
  <2>1. /\ NodesHeld(more) \subseteq range /\ StackHeld(s) \subseteq range /\ UnitsHeld(u) \subseteq range
        /\ (loose \ Values(e.kids)) \cup {new} \subseteq range
    BY <1>5, <1>6, <1>7
  <2>2. /\ NodesHeld(more) \cap StackHeld(s) = {} /\ NodesHeld(more) \cap UnitsHeld(u) = {}
        /\ NodesHeld(more) \cap ((loose \ Values(e.kids)) \cup {new}) = {}
        /\ StackHeld(s) \cap ((loose \ Values(e.kids)) \cup {new}) = {}
        /\ UnitsHeld(u) \cap ((loose \ Values(e.kids)) \cup {new}) = {}
    BY <1>5, <1>6, <1>7
  <2> QED BY <1>6, <1>7, <2>1, <2>2, Zenon DEF Apart, range
<1> QED BY <1>8 DEF more, new

\* or completes a unit with one.
LEMMA UnitApart ==
  ASSUME NEW X, NEW n, NEW s, NEW us \in Seq(X), NEW u \in X, NEW loose,
         Apart(n, s, us, loose), {u.body} \ {0} \subseteq loose, u.body \in Nat
  PROVE  Apart(n, s, Append(us, u), loose \ {u.body})
<1>1. UnitsOnce(us) /\ u.body \notin UnitsHeld(us)
  BY DEF Apart, UnitsHeld
<1>2. /\ UnitsOnce(Append(us, u))
      /\ UnitsHeld(Append(us, u)) = UnitsHeld(us) \cup ({u.body} \ {0})
  BY <1>1, UnitOnce
<1> QED BY <1>2 DEF Apart

-----------------------------------------------------------------------------
\* The operands of expressions and frames are sequences.
LEMMA KidsAreSeqs ==
  ASSUME TypeOK
  PROVE  /\ \A m \in 1 .. Len(nodes) : Len(nodes[m].kids) \in Nat
         /\ \A i \in 1 .. Len(stack) : Len(stack[i].kids) \in Nat
<1>1. /\ \A e \in ExprType : e.kids \in Seq(Nat)
      /\ \A f \in FrameType : f.kids \in Seq(Nat)
  BY DEF ExprType, FrameType
<1>2. \A k \in Seq(Nat) : Len(k) \in Nat
  OBVIOUS
<1>3. \A m \in 1 .. Len(nodes) : nodes[m] \in ExprType
  BY DEF TypeOK
<1>4. \A i \in 1 .. Len(stack) : stack[i] \in FrameType
  BY DEF TypeOK
<1> QED BY <1>1, <1>2, <1>3, <1>4, Zenon

\* Two owners of one expression are one.
LEMMA ApartOwners ==
  ASSUME TypeOK, Apart(nodes, stack, units, Loose)
  PROVE  SingleOwner
<1> SUFFICES ASSUME NEW n \in 1 .. Len(nodes), NEW a \in OwnersOf(n), NEW b \in OwnersOf(n)
             PROVE  a = b
  BY DEF SingleOwner
<1>0. n # 0 /\ nodes \in Seq(ExprType) /\ stack \in Seq(FrameType)
  BY DEF TypeOK
<1> DEFINE Node(o) == /\ o \in {"node"} \X (1 .. Len(nodes)) \X (1 .. Len(tokens))
                      /\ o[3] <= Len(nodes[o[2]].kids) /\ nodes[o[2]].kids[o[3]] = n
           Kid(o) == /\ o \in {"kid"} \X (1 .. Len(stack)) \X (1 .. Len(tokens))
                     /\ stack[o[2]].fn # "template"
                     /\ o[3] <= Len(stack[o[2]].kids) /\ stack[o[2]].kids[o[3]] = n
           Lhs(o) == o \in {"lhs"} \X (1 .. Len(stack)) \X {0} /\ stack[o[2]].lhs = n
           Body(o) == o \in {"unit"} \X (1 .. Len(units)) \X {0} /\ units[o[2]].body = n
           Ret(o) == o \in {"ret"} \X {0} \X {0} /\ ReturnsExpr /\ ret = n
<1>1. \A o \in OwnersOf(n) : Node(o) \/ Kid(o) \/ Lhs(o) \/ Body(o) \/ Ret(o)
  BY Zenon DEF OwnersOf
<1>2. \A o : Node(o) => o[2] \in 1 .. Len(nodes) /\ o[3] \in 1 .. Len(nodes[o[2]].kids)
  <2> TAKE o
  <2> HAVE Node(o)
  <2>1. /\ o[2] \in 1 .. Len(nodes) /\ o[3] \in 1 .. Len(tokens)
        /\ o[3] <= Len(nodes[o[2]].kids)
    OBVIOUS
  <2> HIDE DEF Node
  <2>2. Len(nodes[o[2]].kids) \in Nat
    BY <2>1, KidsAreSeqs
  <2>3. o[3] \in 1 .. Len(nodes[o[2]].kids)
    BY <2>1, <2>2
  <2> QED BY <2>1, <2>3
<1>3. \A o : Kid(o) => o[2] \in 1 .. Len(stack) /\ o[3] \in 1 .. Len(stack[o[2]].kids)
  <2> TAKE o
  <2> HAVE Kid(o)
  <2>1. /\ o[2] \in 1 .. Len(stack) /\ o[3] \in 1 .. Len(tokens)
        /\ o[3] <= Len(stack[o[2]].kids)
    OBVIOUS
  <2> HIDE DEF Kid
  <2>2. Len(stack[o[2]].kids) \in Nat
    BY <2>1, KidsAreSeqs
  <2>3. o[3] \in 1 .. Len(stack[o[2]].kids)
    BY <2>1, <2>2
  <2> QED BY <2>1, <2>3
<1>4. \A o : Node(o) => n \in Values(nodes[o[2]].kids) /\ n \in NodesHeld(nodes)
  BY <1>0, <1>2 DEF Values, NodesHeld
<1>5. \A o : Kid(o) \/ Lhs(o) => o[2] \in 1 .. Len(stack) /\ n \in Held(stack[o[2]]) /\ n \in StackHeld(stack)
  <2>1. \A o : Kid(o) => n \in Values(stack[o[2]].kids)
    BY <1>0, <1>3 DEF Values
  <2>2. \A o : Kid(o) \/ Lhs(o) => o[2] \in 1 .. Len(stack) /\ n \in Held(stack[o[2]])
    BY <1>0, <2>1 DEF Held
  <2> QED BY <2>2 DEF StackHeld
<1>6. \A o : Body(o) => n \in UnitsHeld(units)
  BY <1>0 DEF UnitsHeld
<1>7. \A o : Ret(o) => n \in Loose
  BY <1>0 DEF Loose
<1>8. \/ Node(a) /\ Node(b)
      \/ (Kid(a) \/ Lhs(a)) /\ (Kid(b) \/ Lhs(b))
      \/ Body(a) /\ Body(b)
      \/ Ret(a) /\ Ret(b)
  <2> DEFINE N == NodesHeld(nodes)
             S == StackHeld(stack)
             U == UnitsHeld(units)
  <2>1. N \cap S = {} /\ N \cap U = {} /\ N \cap Loose = {} /\ S \cap U = {} /\ S \cap Loose = {} /\ U \cap Loose = {}
    BY Zenon DEF Apart
  <2> HIDE DEF N, S, U
  <2>2. \A o : /\ Node(o) => n \in N
               /\ Kid(o) \/ Lhs(o) => n \in S
               /\ Body(o) => n \in U
               /\ Ret(o) => n \in Loose
    BY <1>4, <1>5, <1>6, <1>7, Zenon DEF N, S, U
  <2> HIDE DEF Node, Kid, Lhs, Body, Ret
  <2> QED BY <1>1, <2>1, <2>2
<1>9. CASE Node(a) /\ Node(b)
  <2>1. a[2] = b[2]
    <3>1. NodesOnce(nodes)
      BY Zenon DEF Apart
    <3> QED BY <1>2, <1>4, <1>9, <3>1 DEF NodesOnce
  <2>2. Once(nodes[a[2]].kids)
    BY <1>2, <1>9 DEF Apart, NodesOnce
  <2>3. a[3] = b[3]
    BY <1>0, <1>2, <1>9, <2>1, <2>2 DEF Once
  <2> QED BY <1>9, <2>1, <2>3
<1>10. CASE (Kid(a) \/ Lhs(a)) /\ (Kid(b) \/ Lhs(b))
  <2>1. a[2] = b[2] /\ a[2] \in 1 .. Len(stack)
    <3>1. StackOnce(stack)
      BY Zenon DEF Apart
    <3> QED BY <1>5, <1>10, <3>1 DEF StackOnce
  <2>2. FrameOnce(stack[a[2]])
    BY <2>1 DEF Apart, StackOnce
  <2>3. CASE Kid(a) /\ Kid(b)
    <3>1. Once(stack[a[2]].kids)
      BY <2>2, <2>3 DEF FrameOnce
    <3>2. a[3] = b[3]
      BY <1>0, <1>3, <2>1, <2>3, <3>1 DEF Once
    <3> QED BY <2>1, <2>3, <3>2
  <2>4. CASE Lhs(a) /\ Lhs(b)
    BY <2>1, <2>4
  <2>5. Lhs(a) /\ Kid(b) => FALSE
    BY <1>0, <1>3, <2>1, <2>2 DEF FrameOnce
  <2>6. Kid(a) /\ Lhs(b) => FALSE
    BY <1>0, <1>3, <2>1, <2>2 DEF FrameOnce
  <2> QED BY <1>10, <2>3, <2>4, <2>5, <2>6
<1>11. CASE Body(a) /\ Body(b)
  <2>1. UnitsOnce(units)
    BY Zenon DEF Apart
  <2>2. a[2] = b[2]
    BY <1>0, <1>11, <2>1 DEF UnitsOnce
  <2> QED BY <1>11, <2>2
<1>12. CASE Ret(a) /\ Ret(b)
  BY <1>12
<1> QED BY <1>8, <1>9, <1>10, <1>11, <1>12

-----------------------------------------------------------------------------
\* The values of short sequences.
LEMMA ShortOnce ==
  /\ Once(<<>>) /\ Values(<<>>) = {}
  /\ \A a, b : (a # b \/ a = 0) => Once(<<a, b>>) /\ Values(<<a, b>>) = {a, b} \ {0}
<1>1. Once(<<>>) /\ Values(<<>>) = {}
  BY DEF Once, Values
<1>2. ASSUME NEW a, NEW b, a # b \/ a = 0 PROVE Once(<<a, b>>) /\ Values(<<a, b>>) = {a, b} \ {0}
  <2> DEFINE t == <<a, b>>
  <2>1. Len(t) = 2 /\ t[1] = a /\ t[2] = b
    OBVIOUS
  <2> HIDE DEF t
  <2>2. 1 .. Len(t) = {1, 2}
    BY <2>1
  <2>3. Once(t) /\ Values(t) = {a, b} \ {0}
    BY <1>2, <2>1, <2>2 DEF Once, Values
  <2> QED BY <2>3 DEF t
<1> QED BY <1>1, <1>2

\* Those of a sequence with one more element.
LEMMA GrownOnce ==
  ASSUME NEW k \in Seq(Nat), NEW r \in Nat, Once(k), r \notin Values(k)
  PROVE  Once(Append(k, r)) /\ Values(Append(k, r)) = Values(k) \cup ({r} \ {0})
<1> DEFINE t == Append(k, r)
           last == Len(k) + 1
<1>1. /\ t[last] = r /\ last \in 1 .. Len(t)
      /\ \A i \in 1 .. Len(k) : i \in 1 .. Len(t) /\ t[i] = k[i]
      /\ \A i \in 1 .. Len(t) : i \in 1 .. Len(k) \/ i = last
  BY AtEnd
<1> HIDE DEF t, last
<1>2. \A i \in 1 .. Len(k) : k[i] # 0 => k[i] # r
  BY DEF Values
<1>3. Once(t)
  BY <1>1, <1>2 DEF Once
<1>4. Values(t) = Values(k) \cup ({r} \ {0})
  BY <1>1 DEF Values
<1> QED BY <1>3, <1>4 DEF t

\* What the frames hold that the actions make.
LEMMA NewFrameHeld ==
  ASSUME NEW fn, NEW name, fn \notin BinOpFrames, NEW prec, NEW lhs
  PROVE  /\ FrameOnce(NamedFrame(fn, name)) /\ Held(NamedFrame(fn, name)) = {}
         /\ NamedFrame(fn, name).fn = fn
         /\ FrameOnce(BinOpFrame(prec, lhs)) /\ Held(BinOpFrame(prec, lhs)) = {lhs} \ {0}
         /\ BinOpFrame(prec, lhs).fn = "binop"
<1> DEFINE f == NamedFrame(fn, name)
           g == BinOpFrame(prec, lhs)
<1>1. f.fn = fn /\ f.lhs = 0 /\ f.kids = <<>> /\ g.fn = "binop" /\ g.lhs = lhs /\ g.kids = <<>>
  BY DEF NamedFrame, BinOpFrame
<1> HIDE DEF f, g
<1>2. FrameOnce(f) /\ Held(f) = {}
  BY <1>1, ShortOnce DEF FrameOnce, Held
<1>3. FrameOnce(g) /\ Held(g) = {lhs} \ {0}
  BY <1>1, ShortOnce DEF FrameOnce, Held, BinOpFrames
<1> QED BY <1>1, <1>2, <1>3 DEF f, g

\* What they hold after an assignment to a local variable.
LEMMA ChangedFrameHeld ==
  ASSUME NEW f \in FrameType, FrameOnce(f)
  PROVE  /\ f.fn \in BinOpFrames =>
              /\ Held(f) = {f.lhs} \ {0}
              /\ \A fn \in BinOpFrames : \A name :
                   LET g == [f EXCEPT !.fn = fn, !.name = name]
                   IN  FrameOnce(g) /\ Held(g) = Held(f) /\ g.fn = fn
              /\ \A fn \in BinOpFrames :
                   LET g == [f EXCEPT !.fn = fn]
                   IN  FrameOnce(g) /\ Held(g) = Held(f) /\ g.fn = fn
         /\ f.fn \in {"call", "list"} =>
              /\ Held(f) = Values(f.kids) /\ Once(f.kids)
              /\ \A r \in Nat : r \notin Held(f) =>
                   LET g == [f EXCEPT !.kids = Append(@, r)]
                   IN  FrameOnce(g) /\ Held(g) = Held(f) \cup ({r} \ {0}) /\ g.fn = f.fn
         /\ f.fn = "template" =>
              /\ Held(f) = {}
              /\ \A r : LET g == [f EXCEPT !.kids = Append(@, r)]
                        IN  FrameOnce(g) /\ Held(g) = {} /\ g.fn = "template"
<1>1. f.kids \in Seq(Nat)
  BY DEF FrameType
<1>2. ASSUME f.fn \in BinOpFrames
      PROVE  /\ Held(f) = {f.lhs} \ {0}
             /\ \A g : g.fn \in BinOpFrames /\ g.lhs = f.lhs /\ g.kids = f.kids =>
                  FrameOnce(g) /\ Held(g) = Held(f)
  <2>1. f.kids = <<>> /\ \A fn \in BinOpFrames : fn # "template"
    BY <1>2 DEF FrameOnce, BinOpFrames
  <2> QED BY <1>2, <2>1, ShortOnce DEF FrameOnce, Held
<1>3. \A fn, name : /\ [f EXCEPT !.fn = fn, !.name = name].fn = fn
                    /\ [f EXCEPT !.fn = fn, !.name = name].lhs = f.lhs
                    /\ [f EXCEPT !.fn = fn, !.name = name].kids = f.kids
                    /\ [f EXCEPT !.fn = fn].fn = fn
                    /\ [f EXCEPT !.fn = fn].lhs = f.lhs
                    /\ [f EXCEPT !.fn = fn].kids = f.kids
  BY DEF FrameType
<1>4. \A r : /\ [f EXCEPT !.kids = Append(@, r)].fn = f.fn
             /\ [f EXCEPT !.kids = Append(@, r)].lhs = f.lhs
             /\ [f EXCEPT !.kids = Append(@, r)].kids = Append(f.kids, r)
  BY DEF FrameType
<1>5. ASSUME f.fn \in {"call", "list"}
      PROVE  /\ Held(f) = Values(f.kids) /\ Once(f.kids)
             /\ \A r \in Nat : r \notin Held(f) =>
                  \A g : g.fn = f.fn /\ g.lhs = f.lhs /\ g.kids = Append(f.kids, r) =>
                    FrameOnce(g) /\ Held(g) = Held(f) \cup ({r} \ {0})
  <2>1. f.lhs = 0 /\ f.fn # "template" /\ f.fn \notin BinOpFrames
    BY <1>5 DEF FrameOnce, BinOpFrames
  <2>2. Held(f) = Values(f.kids) /\ Once(f.kids)
    BY <2>1 DEF Held, FrameOnce
  <2>3. ASSUME NEW r \in Nat, r \notin Held(f), NEW g, g.fn = f.fn, g.lhs = f.lhs, g.kids = Append(f.kids, r)
        PROVE  FrameOnce(g) /\ Held(g) = Held(f) \cup ({r} \ {0})
    <3>1. Once(g.kids) /\ Values(g.kids) = Values(f.kids) \cup ({r} \ {0})
      BY <1>1, <2>2, <2>3, GrownOnce
    <3> QED BY <2>1, <2>2, <2>3, <3>1 DEF FrameOnce, Held
  <2> QED BY <2>2, <2>3
<1>6. ASSUME f.fn = "template"
      PROVE  /\ Held(f) = {}
             /\ \A g : g.fn = f.fn /\ g.lhs = f.lhs => FrameOnce(g) /\ Held(g) = {}
  <2>1. f.lhs = 0 /\ f.fn \notin BinOpFrames
    BY <1>6 DEF FrameOnce, BinOpFrames
  <2> QED BY <1>6, <2>1 DEF FrameOnce, Held
<1>7. f.fn \in BinOpFrames =>
        /\ Held(f) = {f.lhs} \ {0}
        /\ \A fn \in BinOpFrames : \A name :
             LET g == [f EXCEPT !.fn = fn, !.name = name]
             IN  FrameOnce(g) /\ Held(g) = Held(f) /\ g.fn = fn
        /\ \A fn \in BinOpFrames :
             LET g == [f EXCEPT !.fn = fn]
             IN  FrameOnce(g) /\ Held(g) = Held(f) /\ g.fn = fn
  <2> HAVE f.fn \in BinOpFrames
  <2>1. \A fn \in BinOpFrames : \A name :
          LET g == [f EXCEPT !.fn = fn, !.name = name]
          IN  FrameOnce(g) /\ Held(g) = Held(f) /\ g.fn = fn
    <3> TAKE fn \in BinOpFrames
    <3> TAKE name
    <3> DEFINE g == [f EXCEPT !.fn = fn, !.name = name]
    <3>1. g.fn = fn /\ g.lhs = f.lhs /\ g.kids = f.kids
      BY <1>3, Zenon
    <3> HIDE DEF g
    <3>2. FrameOnce(g) /\ Held(g) = Held(f)
      BY <1>2, <3>1, Zenon
    <3> QED BY <3>1, <3>2, Zenon DEF g
  <2>2. \A fn \in BinOpFrames :
          LET g == [f EXCEPT !.fn = fn]
          IN  FrameOnce(g) /\ Held(g) = Held(f) /\ g.fn = fn
    <3> TAKE fn \in BinOpFrames
    <3> DEFINE g == [f EXCEPT !.fn = fn]
    <3>1. g.fn = fn /\ g.lhs = f.lhs /\ g.kids = f.kids
      BY <1>3, Zenon
    <3> HIDE DEF g
    <3>2. FrameOnce(g) /\ Held(g) = Held(f)
      BY <1>2, <3>1, Zenon
    <3> QED BY <3>1, <3>2, Zenon DEF g
  <2> QED BY <1>2, <2>1, <2>2, Zenon
<1>8. f.fn \in {"call", "list"} =>
        /\ Held(f) = Values(f.kids) /\ Once(f.kids)
        /\ \A r \in Nat : r \notin Held(f) =>
             LET g == [f EXCEPT !.kids = Append(@, r)]
             IN  FrameOnce(g) /\ Held(g) = Held(f) \cup ({r} \ {0}) /\ g.fn = f.fn
  BY <1>4, <1>5, ZenonT(30)
<1>9. f.fn = "template" =>
        /\ Held(f) = {}
        /\ \A r : LET g == [f EXCEPT !.kids = Append(@, r)]
                  IN  FrameOnce(g) /\ Held(g) = {} /\ g.fn = "template"
  BY <1>4, <1>6, ZenonT(30)
<1> QED BY <1>7, <1>8, <1>9, Zenon

-----------------------------------------------------------------------------
\* The innermost frame comes off the stack.
LEMMA TopOff ==
  ASSUME TypeOK, OwnerInv, stack # <<>>
  PROVE  /\ Top \in FrameType /\ Tail(stack) \in Seq(FrameType)
         /\ Apart(nodes, Tail(stack), units, Loose \cup Held(Top))
         /\ FrameOnce(Top) /\ Held(Top) \cap Loose = {}
         /\ Top.fn = "template" => Tail(stack) # <<>> /\ Head(Tail(stack)).fn \in TypeFrames
<1>1. Top \in FrameType /\ Tail(stack) \in Seq(FrameType)
  BY TopType
<1>2. stack = <<Top>> \o Tail(stack)
  <2>1. stack \in Seq(FrameType)
    BY DEF TypeOK
  <2> QED BY <2>1 DEF Top
<1>3. Apart(nodes, <<Top>> \o Tail(stack), units, Loose)
  BY <1>2, Zenon DEF OwnerInv
<1> QED BY <1>1, <1>3, PopApart

\* The loose pointer of a state.
LEMMA LooseIs ==
  /\ Loose \subseteq {ret} \ {0}
  /\ pc # "return" => Loose = {}
  /\ pc = "return" /\ (stack = <<>> \/ Top.fn \notin TypeFrames) => Loose = {ret} \ {0}
  /\ stack # <<>> /\ Top.fn \in TypeFrames => Loose = {}
BY DEF Loose, ReturnsExpr, TypeFrames

\* The invariant from what a step leaves loose.
LEMMA OwnerIntro ==
  ASSUME NEW loose, Apart(nodes', stack', units', loose), Loose' \subseteq loose, unit'.body = 0,
         pc' = "type" => stack' # <<>> /\ Top'.fn \in TypeFrames
  PROVE  OwnerInv'
<1>1. Apart(nodes', stack', units', Loose')
  BY Fewer
<1> QED BY <1>1 DEF OwnerInv

\* A frame that holds nothing goes on the stack.
LEMMA PushEmpty ==
  ASSUME NEW n, NEW s \in Seq(FrameType), NEW u, NEW loose, Apart(n, s, u, loose),
         NEW fn \in FrameName, NEW name \in Name, fn \notin BinOpFrames,
         fn = "template" => s # <<>> /\ Head(s).fn \in TypeFrames
  PROVE  /\ Apart(n, <<NamedFrame(fn, name)>> \o s, u, loose)
         /\ <<NamedFrame(fn, name)>> \o s \in Seq(FrameType)
         /\ <<NamedFrame(fn, name)>> \o s # <<>>
         /\ Head(<<NamedFrame(fn, name)>> \o s).fn = fn
<1> DEFINE f == NamedFrame(fn, name)
<1>1. f \in FrameType
  BY MakeFrame
<1>2. FrameOnce(f) /\ Held(f) = {} /\ f.fn = fn
  BY NewFrameHeld
<1> HIDE DEF f
<1>3. Apart(n, <<f>> \o s, u, loose \ Held(f))
  BY <1>1, <1>2, PushApart
<1>4. loose \ Held(f) = loose
  BY <1>2
<1>5. <<f>> \o s \in Seq(FrameType) /\ <<f>> \o s # <<>> /\ Head(<<f>> \o s) = f
  BY <1>1, PushFrame
<1> QED BY <1>2, <1>3, <1>4, <1>5 DEF f

\* A call of parseExpression adds one that holds nothing.
LEMMA CallApart ==
  ASSUME NEW n, NEW frames \in Seq(FrameType), NEW u, NEW loose, Apart(n, frames, u, loose),
         CallExpression(frames)
  PROVE  Apart(n, stack', u, loose) /\ pc' = "primary"
<1>1. "expression" \in FrameName /\ "" \in Name /\ "expression" \notin BinOpFrames /\ "expression" # "template"
  BY DEF FrameName, Name, BinOpFrames
<1>2. Apart(n, <<NamedFrame("expression", "")>> \o frames, u, loose)
  BY <1>1, PushEmpty
<1>3. stack' = <<NamedFrame("expression", "")>> \o frames /\ pc' = "primary"
  BY Zenon DEF CallExpression, ExpressionFrame, Frame
<1> QED BY <1>2, <1>3

\* The loose pointer after a step.
LEMMA LooseNext ==
  /\ Loose' \subseteq {ret'} \ {0}
  /\ pc' # "return" => Loose' = {}
  /\ stack' # <<>> /\ Head(stack').fn \in TypeFrames => Loose' = {}
BY DEF Loose, ReturnsExpr, TypeFrames, Top

-----------------------------------------------------------------------------
\* Steps that leave the stack, the expressions and the units alone.
LEMMA QuietOwners ==
  ASSUME TypeOK, OwnerInv, UNCHANGED tokens,
         \/ ParseEnd \/ ParseSemicolon \/ ParseKeyword \/ PrototypeName
         \/ PrototypeOpen \/ PrototypeClose \/ Reject
  PROVE  OwnerInv'
<1>1. UNCHANGED <<nodes, stack, units>> /\ pc' \notin {"return", "type"}
  BY Zenon DEF ParseEnd, ParseSemicolon, ParseKeyword, PrototypeName, PrototypeOpen,
               PrototypeClose, Reject, heap
<1>2. unit'.body = 0
  <2>1. unit \in UnitType /\ unit.body = 0 /\ NoUnit \in UnitType /\ NoUnit.body = 0
    BY NoUnitType DEF TypeOK, OwnerInv, NoUnit
  <2>2. \A x : [NoUnit EXCEPT !.kind = x].body = 0 /\ [unit EXCEPT !.name = x].body = 0
    BY <2>1 DEF UnitType
  <2>3. \/ unit' = unit
        \/ \E x : unit' = [NoUnit EXCEPT !.kind = x]
        \/ \E x : unit' = [unit EXCEPT !.name = x]
    BY Zenon DEF ParseEnd, ParseSemicolon, ParseKeyword, PrototypeName, PrototypeOpen,
                 PrototypeClose, Reject
  <2> QED BY <2>1, <2>2, <2>3, Zenon
<1>3. Apart(nodes', stack', units', Loose)
  BY <1>1 DEF OwnerInv
<1>4. Loose' \subseteq Loose
  BY <1>1, LooseNext
<1> QED BY <1>1, <1>2, <1>3, <1>4, OwnerIntro

\* Steps that put a frame on the stack that holds nothing yet.
LEMMA PushOwners ==
  ASSUME TypeOK, InBounds, OwnerInv, UNCHANGED tokens,
         \/ PrototypeArg \/ PrototypeType \/ ParseListExpr \/ ParseParenExpr
         \/ ParseTopLevelExpr \/ ParseListElement
  PROVE  OwnerInv'
<1>0. /\ stack \in Seq(FrameType) /\ unit \in UnitType /\ unit.body = 0
      /\ Apart(nodes, stack, units, Loose)
      /\ UNCHANGED <<nodes, units>> /\ pc' # "return"
  BY Zenon DEF TypeOK, OwnerInv, PrototypeArg, PrototypeType, ParseListExpr, ParseParenExpr,
               ParseTopLevelExpr, ParseListElement, heap, CallExpression
<1>1. /\ "" \in Name /\ {"arg", "result", "list", "paren"} \subseteq FrameName
      /\ \A fn \in {"arg", "result", "list", "paren"} : fn \notin BinOpFrames /\ fn # "template"
  BY DEF FrameName, Name, BinOpFrames
<1>2. \A fn \in {"arg", "result", "list", "paren"} :
        /\ Apart(nodes, <<NamedFrame(fn, "")>> \o stack, units, Loose)
        /\ <<NamedFrame(fn, "")>> \o stack \in Seq(FrameType)
        /\ <<NamedFrame(fn, "")>> \o stack # <<>>
        /\ Head(<<NamedFrame(fn, "")>> \o stack).fn = fn
  BY ZenonT(60), <1>0, <1>1, PushEmpty
<1>3. Loose' = {}
  BY <1>0, LooseNext
<1>4. CASE PrototypeArg \/ PrototypeType
  <2>1. UNCHANGED unit /\ \E fn \in {"arg", "result"} : stack' = <<NamedFrame(fn, "")>> \o stack
    BY <1>4, Zenon DEF PrototypeArg, PrototypeType, Push, Frame
  <2>2. PICK fn \in {"arg", "result"} : stack' = <<NamedFrame(fn, "")>> \o stack
    BY <2>1
  <2>3. fn \in {"arg", "result", "list", "paren"} /\ fn \in TypeFrames
    BY DEF TypeFrames
  <2>4. Apart(nodes', stack', units', Loose) /\ stack' # <<>> /\ Top'.fn \in TypeFrames
    BY <1>0, <1>2, <2>2, <2>3 DEF Top
  <2> QED BY <1>0, <1>3, <2>1, <2>4, OwnerIntro
<1>5. CASE ParseListExpr
  <2>1. UNCHANGED unit /\ stack' = <<NamedFrame("list", "")>> \o stack /\ pc' = "list"
    BY <1>5, Zenon DEF ParseListExpr, Push, Frame
  <2>2. Apart(nodes', stack', units', Loose)
    BY <1>0, <1>2, <2>1
  <2> QED BY <1>0, <1>3, <2>1, <2>2, OwnerIntro
<1>6. CASE ParseParenExpr
  <2>1. UNCHANGED unit /\ CallExpression(<<NamedFrame("paren", "")>> \o stack)
    BY <1>6, Zenon DEF ParseParenExpr, Frame
  <2> DEFINE frames == <<NamedFrame("paren", "")>> \o stack
  <2>2. frames \in Seq(FrameType) /\ Apart(nodes, frames, units, Loose) /\ CallExpression(frames)
    BY <1>2, <2>1
  <2> HIDE DEF frames
  <2>3. Apart(nodes, stack', units, Loose) /\ pc' = "primary"
    BY <2>2, CallApart
  <2> QED BY <1>0, <1>3, <2>1, <2>3, OwnerIntro
<1>7. CASE ParseTopLevelExpr \/ ParseListElement
  <2>1. /\ CallExpression(stack)
        /\ unit' = unit \/ unit' = [NoUnit EXCEPT !.kind = "def", !.name = "__anon_expr"]
    BY <1>7, Zenon DEF ParseTopLevelExpr, ParseListElement
  <2>2. [NoUnit EXCEPT !.kind = "def", !.name = "__anon_expr"].body = 0
    BY DEF NoUnit
  <2>3. Apart(nodes, stack', units, Loose) /\ pc' = "primary"
    BY <1>0, <2>1, CallApart
  <2> QED BY <1>0, <1>3, <2>1, <2>2, <2>3, OwnerIntro
<1> QED BY <1>4, <1>5, <1>6, <1>7

\* Steps that make an expression without operands.
LEMMA LeafOwners ==
  ASSUME TypeOK, InBounds, OwnerInv, UNCHANGED tokens, ParseLiteral \/ ParseVariable \/ ParseSubscript \/ ParseCall
  PROVE  OwnerInv'
<1>0. /\ stack \in Seq(FrameType) /\ unit.body = 0 /\ nodes \in Seq(ExprType)
      /\ Apart(nodes, stack, units, Loose) /\ Tok \in Name
  BY Names, Zenon DEF TypeOK, OwnerInv
<1>1. UNCHANGED <<units, unit>>
  BY Zenon DEF ParseLiteral, ParseVariable, ParseSubscript, ParseCall
<1>2. \/ \E kind, name, index :
           /\ nodes' = Append(nodes, [kind |-> kind, name |-> name, kids |-> <<>>, index |-> index])
           /\ ret' = Len(nodes) + 1 /\ pc' = "return" /\ UNCHANGED stack
      \/ UNCHANGED <<nodes, stack>> /\ pc' = "fail"
      \/ UNCHANGED nodes /\ CallExpression(<<NamedFrame("call", Tok)>> \o stack)
  BY Zenon DEF ParseLiteral, ParseVariable, ParseSubscript, ParseCall, MakeExpr, NewExpr, NewSubscript,
               Return, Fail, heap
<1>3. ASSUME NEW kind, NEW name, NEW index,
             nodes' = Append(nodes, [kind |-> kind, name |-> name, kids |-> <<>>, index |-> index]),
             ret' = Len(nodes) + 1, pc' = "return", UNCHANGED stack
      PROVE  OwnerInv'
  <2> DEFINE e == [kind |-> kind, name |-> name, kids |-> <<>>, index |-> index]
  <2>1. e.kids = <<>>
    OBVIOUS
  <2>2. nodes' = Append(nodes, e)
    BY <1>3
  <2> HIDE DEF e
  <2>3. Once(e.kids) /\ Values(e.kids) = {}
    BY <2>1, ShortOnce
  <2>4. nodes \in Seq(ExprType \cup {e}) /\ e \in ExprType \cup {e}
    BY <1>0
  <2>5. Apart(Append(nodes, e), stack, units, (Loose \ Values(e.kids)) \cup {Len(nodes) + 1})
    <3>1. Values(e.kids) \subseteq Loose
      BY <2>3
    <3> QED BY <1>0, <2>3, <2>4, <3>1, MakeApart
  <2> DEFINE loose == (Loose \ Values(e.kids)) \cup {Len(nodes) + 1}
  <2>6. Apart(nodes', stack', units', loose)
    BY <1>1, <1>3, <2>2, <2>5
  <2>7. Loose' \subseteq loose
    BY <1>3, LooseNext
  <2> HIDE DEF loose
  <2> QED BY <1>0, <1>1, <1>3, <2>6, <2>7, OwnerIntro
<1>4. CASE UNCHANGED <<nodes, stack>> /\ pc' = "fail"
  <2>1. Apart(nodes', stack', units', Loose) /\ Loose' \subseteq Loose
    BY <1>0, <1>1, <1>4, LooseNext
  <2> QED BY <1>0, <1>1, <1>4, <2>1, OwnerIntro
<1>5. CASE UNCHANGED nodes /\ CallExpression(<<NamedFrame("call", Tok)>> \o stack)
  <2> DEFINE frames == <<NamedFrame("call", Tok)>> \o stack
  <2>1. "call" \in FrameName /\ "call" \notin BinOpFrames /\ "call" # "template"
    BY DEF FrameName, BinOpFrames
  <2>2. frames \in Seq(FrameType) /\ Apart(nodes, frames, units, Loose)
    BY <1>0, <2>1, PushEmpty
  <2>3. CallExpression(frames)
    BY <1>5
  <2> HIDE DEF frames
  <2>4. Apart(nodes, stack', units, Loose) /\ pc' = "primary"
    BY <2>2, <2>3, CallApart
  <2>5. Loose' \subseteq Loose
    BY <2>4, LooseNext
  <2> QED BY <1>0, <1>1, <1>5, <2>4, <2>5, OwnerIntro
<1> QED BY <1>2, <1>3, <1>4, <1>5, Zenon

-----------------------------------------------------------------------------
\* A step that replaces the innermost frame by one that holds no more than
\* that one and the caller did.
LEMMA ReplaceOwners ==
  ASSUME TypeOK, OwnerInv, stack # <<>>, NEW f \in FrameType,
         FrameOnce(f), Held(f) \subseteq Loose \cup Held(Top), f.fn # "template",
         stack' = <<f>> \o Tail(stack), UNCHANGED <<nodes, units, unit>>,
         pc' \notin {"return", "type"}
  PROVE  OwnerInv'
<1>1. /\ Tail(stack) \in Seq(FrameType)
      /\ Apart(nodes, Tail(stack), units, Loose \cup Held(Top))
  BY TopOff
<1> DEFINE rest == Tail(stack)
           loose == Loose \cup Held(Top)
<1>2. rest \in Seq(FrameType) /\ Apart(nodes, rest, units, loose) /\ Held(f) \subseteq loose
      /\ stack' = <<f>> \o rest
  BY <1>1
<1> HIDE DEF rest, loose
<1>3. Apart(nodes, <<f>> \o rest, units, loose \ Held(f))
  BY <1>2, PushApart
<1>4. Apart(nodes', stack', units', loose \ Held(f))
  BY <1>2, <1>3
<1>5. Loose' \subseteq loose \ Held(f) /\ unit'.body = 0
  BY LooseNext DEF OwnerInv
<1> QED BY <1>4, <1>5, OwnerIntro

\* A step that goes back to the caller with what the frame held.
LEMMA ReturnOwners ==
  ASSUME TypeOK, OwnerInv, stack # <<>>, stack' = Tail(stack),
         UNCHANGED <<nodes, units>>, unit'.body = 0, pc' # "type",
         Loose' \subseteq Loose \cup Held(Top)
  PROVE  OwnerInv'
<1> DEFINE loose == Loose \cup Held(Top)
<1>1. Apart(nodes, Tail(stack), units, loose)
  BY TopOff
<1>2. Apart(nodes', stack', units', loose) /\ Loose' \subseteq loose
  BY <1>1
<1> HIDE DEF loose
<1> QED BY <1>2, OwnerIntro

\* An expression can have any name and operands.
LEMMA NewNode ==
  ASSUME NEW kind \in ExprKind, NEW name \in Name, NEW kids \in Seq(Nat)
  PROVE  LET e == [kind |-> kind, name |-> name, kids |-> kids, index |-> ""]
         IN  e \in ExprType /\ e.kids = kids
BY DEF ExprType, Name

\* A step that makes an expression of what the frame held and the call
\* returned.
LEMMA MakeOwners ==
  ASSUME TypeOK, OwnerInv, stack # <<>>,
         NEW kind \in ExprKind, NEW name \in Name, NEW kids \in Seq(Nat),
         Once(kids), Values(kids) \subseteq Loose \cup Held(Top),
         NewExpr(kind, name, kids)
  PROVE  Apart(nodes', Tail(stack), units, ((Loose \cup Held(Top)) \ Values(kids)) \cup {Len(nodes) + 1})
<1> DEFINE e == [kind |-> kind, name |-> name, kids |-> kids, index |-> ""]
           rest == Tail(stack)
           loose == Loose \cup Held(Top)
<1>1. nodes' = Append(nodes, e) /\ nodes \in Seq(ExprType)
  BY Zenon DEF NewExpr, TypeOK
<1>2. e \in ExprType /\ e.kids = kids
  BY NewNode
<1>3. Apart(nodes, rest, units, loose) /\ Values(kids) \subseteq loose
  BY TopOff
<1> HIDE DEF e, rest, loose
<1>4. Once(e.kids) /\ Values(e.kids) \subseteq loose
  BY <1>2, <1>3
<1>5. Apart(Append(nodes, e), rest, units, (loose \ Values(e.kids)) \cup {Len(nodes) + 1})
  BY <1>1, <1>2, <1>3, <1>4, MakeApart
<1> QED BY <1>1, <1>2, <1>5 DEF rest, loose

\* A step that returns an expression it makes.
LEMMA ReturnNewOwners ==
  ASSUME TypeOK, OwnerInv, stack # <<>>,
         NEW kind \in ExprKind, NEW name \in Name, NEW kids \in Seq(Nat),
         Once(kids), Values(kids) \subseteq Loose \cup Held(Top),
         MakeExpr(kind, name, kids), Pop, UNCHANGED <<units, unit>>
  PROVE  OwnerInv'
<1> DEFINE loose == ((Loose \cup Held(Top)) \ Values(kids)) \cup {Len(nodes) + 1}
<1>1. NewExpr(kind, name, kids) /\ ret' = Len(nodes) + 1 /\ pc' = "return" /\ stack' = Tail(stack)
  BY Zenon DEF MakeExpr, Return, Pop
<1>2. Apart(nodes', Tail(stack), units, loose)
  BY <1>1, MakeOwners
<1>3. Loose' \subseteq loose
  BY <1>1, LooseNext
<1> HIDE DEF loose
<1>4. Apart(nodes', stack', units', loose) /\ unit'.body = 0
  BY <1>1, <1>2 DEF OwnerInv
<1> QED BY <1>1, <1>3, <1>4, OwnerIntro

\* The returned expression is not in the frame it returns to.
LEMMA ReturnedIsLoose ==
  ASSUME TypeOK, OwnerInv, stack # <<>>, pc = "return", Top.fn \notin TypeFrames
  PROVE  /\ Loose = {ret} \ {0} /\ ret \notin Held(Top) /\ ret \in Nat
<1>1. Held(Top) \cap Loose = {} /\ ret \in Nat
  BY TopOff DEF TypeOK
<1>2. Loose = {ret} \ {0}
  BY LooseIs
<1>3. 0 \notin Held(Top)
  BY DEF Held, Values
<1> QED BY <1>1, <1>2, <1>3

\* The names of the frames that hold expressions.
LEMMA ExprFrames ==
  /\ \A fn \in {"call", "list", "expression", "paren"} :
       fn \notin BinOpFrames /\ fn \notin TypeFrames /\ fn # "template" /\ fn \in FrameName
  /\ \A fn \in BinOpFrames : fn \notin TypeFrames /\ fn # "template" /\ fn \in FrameName
  /\ "binop" \in BinOpFrames /\ "rhs" \in BinOpFrames /\ "merge" \in BinOpFrames
BY DEF BinOpFrames, TypeFrames, FrameName

\* A frame of a call or of a list takes the expression that was returned.
LEMMA GrownFrame ==
  ASSUME TypeOK, OwnerInv, stack # <<>>, pc = "return", Top.fn \in {"call", "list"}
  PROVE  LET g == [Top EXCEPT !.kids = Append(@, ret)]
         IN  /\ g \in FrameType /\ FrameOnce(g) /\ g.fn = Top.fn /\ g.fn # "template"
             /\ Held(g) \subseteq Loose \cup Held(Top)
             /\ Once(Append(Top.kids, ret)) /\ Append(Top.kids, ret) \in Seq(Nat)
             /\ Values(Append(Top.kids, ret)) \subseteq Loose \cup Held(Top)
<1> DEFINE g == [Top EXCEPT !.kids = Append(@, ret)]
<1>1. Top.fn \notin TypeFrames /\ Top.fn # "template"
  BY ExprFrames
<1>2. Loose = {ret} \ {0} /\ ret \notin Held(Top) /\ ret \in Nat
  BY <1>1, ReturnedIsLoose
<1>3. Top \in FrameType /\ FrameOnce(Top)
  BY TopOff
<1>4. /\ Held(Top) = Values(Top.kids) /\ Once(Top.kids)
      /\ FrameOnce(g) /\ Held(g) = Held(Top) \cup ({ret} \ {0}) /\ g.fn = Top.fn
  BY <1>2, <1>3, ChangedFrameHeld
<1>5. g \in FrameType /\ Append(Top.kids, ret) \in Seq(Nat) /\ Top.kids \in Seq(Nat)
  <2>1. Append(Top.kids, ret) \in Seq(Nat) /\ Top.kids \in Seq(Nat)
    BY TopType
  <2>2. "call" \in FrameName /\ "" \in Name
    BY DEF FrameName, Name
  <2> QED BY <1>3, <2>1, <2>2, UpdateFrame
<1> HIDE DEF g
<1>6. /\ Once(Append(Top.kids, ret))
      /\ Values(Append(Top.kids, ret)) = Values(Top.kids) \cup ({ret} \ {0})
  BY <1>2, <1>4, <1>5, GrownOnce
<1>7. Held(g) \subseteq Loose \cup Held(Top) /\ Values(Append(Top.kids, ret)) \subseteq Loose \cup Held(Top)
  BY <1>2, <1>4, <1>6
<1> QED BY <1>1, <1>4, <1>5, <1>6, <1>7, Zenon DEF g

\* The arguments of a call,
LEMMA CallArgOwners ==
  ASSUME TypeOK, InBounds, OwnerInv, ParseCallArg
  PROVE  OwnerInv'
<1> DEFINE g == [Top EXCEPT !.kids = Append(@, ret)]
           kids == Append(Top.kids, ret)
<1>1. /\ stack # <<>> /\ pc = "return" /\ Top.fn = "call" /\ UNCHANGED <<units, unit>>
      /\ \/ MakeExpr("call", Top.name, kids) /\ Pop
         \/ CallExpression(<<g>> \o Tail(stack)) /\ UNCHANGED nodes
  BY Zenon DEF ParseCallArg, heap
<1>2. /\ g \in FrameType /\ FrameOnce(g) /\ g.fn = Top.fn /\ g.fn # "template"
      /\ Held(g) \subseteq Loose \cup Held(Top)
      /\ Once(kids) /\ kids \in Seq(Nat)
      /\ Values(kids) \subseteq Loose \cup Held(Top)
  BY <1>1, GrownFrame
<1> HIDE DEF g, kids
<1>3. CASE MakeExpr("call", Top.name, kids) /\ Pop
  <2>1. "call" \in ExprKind /\ Top.name \in Name
    BY <1>1, TopType DEF ExprKind
  <2> QED BY <1>1, <1>2, <1>3, <2>1, ReturnNewOwners
<1>4. CASE CallExpression(<<g>> \o Tail(stack)) /\ UNCHANGED nodes
  <2> DEFINE rest == Tail(stack)
             loose == Loose \cup Held(Top)
             frames == <<g>> \o rest
  <2>1. rest \in Seq(FrameType) /\ Apart(nodes, rest, units, loose) /\ Held(g) \subseteq loose
        /\ CallExpression(frames)
    BY <1>1, <1>2, <1>4, TopOff
  <2> HIDE DEF rest, loose
  <2>2. Apart(nodes, frames, units, loose \ Held(g)) /\ frames \in Seq(FrameType)
    BY <1>2, <2>1, PushApart, PushFrame
  <2> HIDE DEF frames
  <2>3. Apart(nodes, stack', units, loose \ Held(g)) /\ pc' = "primary"
    BY <2>1, <2>2, CallApart
  <2>4. Apart(nodes', stack', units', loose \ Held(g)) /\ unit'.body = 0 /\ Loose' \subseteq loose \ Held(g)
    BY <1>1, <1>4, <2>3, LooseNext DEF OwnerInv
  <2> QED BY <2>3, <2>4, OwnerIntro
<1> QED BY <1>1, <1>3, <1>4

\* the elements of a list,
LEMMA ListOwners ==
  ASSUME TypeOK, InBounds, OwnerInv, EndListElement \/ CloseList
  PROVE  OwnerInv'
<1> DEFINE g == [Top EXCEPT !.kids = Append(@, ret)]
<1>1. CASE EndListElement
  <2>1. /\ stack # <<>> /\ pc = "return" /\ Top.fn = "list"
        /\ stack' = <<g>> \o Tail(stack) /\ pc' = "list" /\ UNCHANGED <<nodes, units, unit>>
    BY <1>1, Zenon DEF EndListElement, Replace, heap
  <2>2. /\ g \in FrameType /\ FrameOnce(g) /\ g.fn # "template"
        /\ Held(g) \subseteq Loose \cup Held(Top)
    BY <2>1, GrownFrame
  <2> HIDE DEF g
  <2> QED BY <2>1, <2>2, ReplaceOwners
<1>2. CASE CloseList
  <2>1. /\ stack # <<>> /\ Top.fn = "list" /\ MakeExpr("list", "", Top.kids) /\ Pop
        /\ UNCHANGED <<units, unit>>
    BY <1>2, Zenon DEF CloseList, TypeOK, LoopFrames
  <2>2. Top \in FrameType /\ FrameOnce(Top) /\ Top.kids \in Seq(Nat)
    BY <2>1, TopOff, TopType
  <2>3. Held(Top) = Values(Top.kids) /\ Once(Top.kids)
    BY <2>1, <2>2, ChangedFrameHeld
  <2>4. "list" \in ExprKind /\ "" \in Name
    BY DEF ExprKind, Name
  <2>5. Values(Top.kids) \subseteq Loose \cup Held(Top)
    BY <2>3
  <2> QED BY <2>1, <2>2, <2>3, <2>4, <2>5, ReturnNewOwners, Zenon
<1> QED BY <1>1, <1>2

\* What a frame of parseBinOpRHS holds.
LEMMA BinOpHeld ==
  ASSUME TypeOK, InBounds, OwnerInv, stack # <<>>, Top.fn \in BinOpFrames
  PROVE  /\ Held(Top) = {Top.lhs} \ {0} /\ Top.lhs \in Nat /\ Top.prec \in Nat
         /\ LET g == [Top EXCEPT !.fn = "merge"]
            IN  FrameOnce(g) /\ Held(g) = Held(Top) /\ g.fn = "merge" /\ g \in FrameType
         /\ LET g == [Top EXCEPT !.fn = "rhs", !.name = Tok]
            IN  FrameOnce(g) /\ Held(g) = Held(Top) /\ g.fn = "rhs" /\ g \in FrameType
<1>1. Top \in FrameType /\ FrameOnce(Top) /\ Top.lhs \in Nat /\ Top.prec \in Nat
  BY TopOff, TopType
<1>2. "merge" \in BinOpFrames /\ "rhs" \in BinOpFrames /\ "merge" \in FrameName /\ "rhs" \in FrameName
      /\ Tok \in Name
  BY ExprFrames, Names
<1>3. [Top EXCEPT !.fn = "merge"] \in FrameType /\ [Top EXCEPT !.fn = "rhs", !.name = Tok] \in FrameType
  BY <1>1, <1>2, UpdateFrame, NoKids
<1> DEFINE Changed(f) ==
      f.fn \in BinOpFrames =>
              /\ Held(f) = {f.lhs} \ {0}
              /\ \A fn \in BinOpFrames : \A name :
                   LET g == [f EXCEPT !.fn = fn, !.name = name]
                   IN  FrameOnce(g) /\ Held(g) = Held(f) /\ g.fn = fn
              /\ \A fn \in BinOpFrames :
                   LET g == [f EXCEPT !.fn = fn]
                   IN  FrameOnce(g) /\ Held(g) = Held(f) /\ g.fn = fn
<1>4. Changed(Top)
  BY <1>1, ChangedFrameHeld, Zenon
<1> QED BY <1>1, <1>2, <1>3, <1>4, Zenon

\* A new frame of parseBinOpRHS holds its left side.
LEMMA NewBinOpHeld ==
  ASSUME NEW prec \in Nat, NEW lhs \in Nat
  PROVE  /\ BinOpFrame(prec, lhs) \in FrameType /\ FrameOnce(BinOpFrame(prec, lhs))
         /\ Held(BinOpFrame(prec, lhs)) = {lhs} \ {0} /\ BinOpFrame(prec, lhs).fn # "template"
<1>1. "list" \notin BinOpFrames
  BY DEF BinOpFrames
<1>2. FrameOnce(BinOpFrame(prec, lhs)) /\ Held(BinOpFrame(prec, lhs)) = {lhs} \ {0}
      /\ BinOpFrame(prec, lhs).fn = "binop"
  BY <1>1, NewFrameHeld, Zenon
<1> QED BY <1>2, MakeFrame

\* the sides of an operator,
LEMMA BinOpOwners ==
  ASSUME TypeOK, InBounds, OwnerInv, EndPrimary \/ EatBinOp \/ BinOpDone
  PROVE  OwnerInv'
<1>1. CASE EndPrimary
  <2> DEFINE f == BinOpFrame(0, ret)
  <2>1. /\ stack # <<>> /\ pc = "return" /\ Top.fn = "expression"
        /\ stack' = <<f>> \o Tail(stack) /\ pc' = "binop" /\ UNCHANGED <<nodes, units, unit>>
    BY <1>1, Zenon DEF EndPrimary, Replace, heap
  <2>2. Top.fn \notin TypeFrames
    BY <2>1, ExprFrames
  <2>3. Loose = {ret} \ {0} /\ ret \in Nat /\ 0 \in Nat
    BY <2>1, <2>2, ReturnedIsLoose
  <2>4. f \in FrameType /\ FrameOnce(f) /\ Held(f) = {ret} \ {0} /\ f.fn # "template"
    BY <2>3, NewBinOpHeld
  <2> HIDE DEF f
  <2>5. Held(f) \subseteq Loose \cup Held(Top) /\ pc' \notin {"return", "type"}
    BY <2>1, <2>3, <2>4
  <2> QED BY <2>1, <2>4, <2>5, ReplaceOwners, Zenon
<1>2. CASE EatBinOp
  <2> DEFINE g == [Top EXCEPT !.fn = "rhs", !.name = Tok]
  <2>1. /\ stack # <<>> /\ Top.fn = "binop" /\ stack' = <<g>> \o Tail(stack)
        /\ pc' = "primary" /\ UNCHANGED <<nodes, units, unit>>
    BY <1>2, Zenon DEF EatBinOp, Replace, heap, TypeOK, LoopFrames
  <2>2. Top.fn \in BinOpFrames
    BY <2>1, ExprFrames
  <2>3. FrameOnce(g) /\ Held(g) = Held(Top) /\ g.fn = "rhs" /\ g \in FrameType
    BY <2>1, <2>2, BinOpHeld
  <2> HIDE DEF g
  <2>4. Held(g) \subseteq Loose \cup Held(Top) /\ pc' \notin {"return", "type"} /\ g.fn # "template"
    BY <2>1, <2>3
  <2> QED BY <2>1, <2>3, <2>4, ReplaceOwners, Zenon
<1>3. CASE BinOpDone
  <2>1. /\ stack # <<>> /\ Top.fn = "binop" /\ stack' = Tail(stack) /\ pc' = "return"
        /\ ret' = Top.lhs /\ UNCHANGED <<nodes, units, unit>>
    BY <1>3, Zenon DEF BinOpDone, Return, Pop, heap, TypeOK, LoopFrames
  <2>2. Top.fn \in BinOpFrames
    BY <2>1, ExprFrames
  <2>3. Held(Top) = {Top.lhs} \ {0}
    BY <2>1, <2>2, BinOpHeld
  <2>4. Loose' \subseteq Loose \cup Held(Top) /\ unit'.body = 0 /\ pc' # "type"
    BY <2>1, <2>3, LooseNext DEF OwnerInv
  <2> QED BY <2>1, <2>4, ReturnOwners
<1> QED BY <1>1, <1>2, <1>3

\* An operator with both of its sides.
LEMMA MergeOwners ==
  ASSUME TypeOK, InBounds, OwnerInv, MergeBinOp
  PROVE  OwnerInv'
<1> DEFINE kids == <<Top.lhs, ret>>
           new == Len(nodes) + 1
           f == BinOpFrame(Top.prec, new)
           loose == ((Loose \cup Held(Top)) \ Values(kids)) \cup {new}
<1>1. /\ stack # <<>> /\ pc = "return" /\ Top.fn \in {"rhs", "merge"}
      /\ NewExpr("binary", Top.name, kids)
      /\ stack' = <<f>> \o Tail(stack) /\ pc' = "binop" /\ UNCHANGED <<units, unit>>
  BY Zenon DEF MergeBinOp, Replace
<1>2. Top.fn \in BinOpFrames /\ Top.fn \notin TypeFrames
  BY <1>1, ExprFrames
<1>3. Held(Top) = {Top.lhs} \ {0} /\ Top.lhs \in Nat /\ Top.prec \in Nat
  BY <1>1, <1>2, BinOpHeld
<1>4. Loose = {ret} \ {0} /\ ret \notin Held(Top) /\ ret \in Nat
  BY <1>1, <1>2, ReturnedIsLoose
<1>5. new \in Nat /\ new # 0
  <2>1. Len(nodes) \in Nat
    BY DEF TypeOK
  <2> QED BY <2>1
<1>6. "binary" \in ExprKind /\ Top.name \in Name /\ Tail(stack) \in Seq(FrameType)
  BY <1>1, TopType DEF ExprKind
<1>7. kids \in Seq(Nat)
  BY <1>3, <1>4
<1>8. Once(kids) /\ Values(kids) = {Top.lhs, ret} \ {0}
  <2>1. Top.lhs # ret \/ Top.lhs = 0
    BY <1>3, <1>4
  <2> QED BY <2>1, ShortOnce
<1> HIDE DEF new
<1>9. f \in FrameType /\ FrameOnce(f) /\ Held(f) = {new} \ {0} /\ f.fn # "template"
  BY <1>3, <1>5, NewBinOpHeld
<1> HIDE DEF kids, f
<1>10. Values(kids) \subseteq Loose \cup Held(Top)
  BY <1>3, <1>4, <1>8
<1>11. Apart(nodes', Tail(stack), units, loose)
  BY <1>1, <1>6, <1>7, <1>8, <1>10, MakeOwners DEF new
<1>12. Held(f) \subseteq loose
  BY <1>9
<1> HIDE DEF loose
<1>13. Apart(nodes', <<f>> \o Tail(stack), units, loose \ Held(f))
  BY <1>6, <1>9, <1>11, <1>12, PushApart
<1>14. Apart(nodes', stack', units', loose \ Held(f))
  BY <1>1, <1>13
<1>15. Loose' \subseteq loose \ Held(f) /\ unit'.body = 0
  BY <1>1, LooseNext DEF OwnerInv
<1> QED BY <1>1, <1>14, <1>15, OwnerIntro

\* Two frames go on a stack one after the other.
LEMMA TwoInFront ==
  ASSUME NEW X, NEW f \in X, NEW g \in X, NEW s \in Seq(X)
  PROVE  <<f, g>> \o s = <<f>> \o (<<g>> \o s)
<1> DEFINE t == <<g>> \o s
<1>1. /\ t \in Seq(X) /\ Len(t) = Len(s) + 1 /\ Len(s) \in Nat /\ t[1] = g
      /\ \A i \in 2 .. Len(s) + 1 : t[i] = s[i - 1]
  OBVIOUS
<1>2. /\ <<f, g>> \o s \in Seq(X) /\ Len(<<f, g>> \o s) = Len(s) + 2
      /\ (<<f, g>> \o s)[1] = f /\ (<<f, g>> \o s)[2] = g
      /\ \A i \in 3 .. Len(s) + 2 : (<<f, g>> \o s)[i] = s[i - 2]
  OBVIOUS
<1> HIDE DEF t
<1>3. /\ <<f>> \o t \in Seq(X) /\ Len(<<f>> \o t) = Len(t) + 1
      /\ (<<f>> \o t)[1] = f
      /\ \A i \in 2 .. Len(t) + 1 : (<<f>> \o t)[i] = t[i - 1]
  BY <1>1
<1> DEFINE a == <<f, g>> \o s
           b == <<f>> \o t
<1>4. a \in Seq(X) /\ b \in Seq(X) /\ Len(a) = Len(b)
  BY <1>1, <1>2, <1>3
<1>5. ASSUME NEW i \in 1 .. Len(a) PROVE a[i] = b[i]
  <2>1. CASE i = 1
    BY <1>2, <1>3, <2>1
  <2>2. CASE i = 2
    <3>1. 2 \in 2 .. Len(t) + 1
      BY <1>1
    <3>2. b[2] = t[2 - 1]
      BY <1>3, <3>1
    <3> QED BY <1>1, <1>2, <2>2, <3>2
  <2>3. CASE i \in 3 .. Len(s) + 2
    <3>1. i \in 2 .. Len(t) + 1 /\ i - 1 \in 2 .. Len(s) + 1 /\ (i - 1) - 1 = i - 2
      BY <1>1, <2>3
    <3>2. b[i] = t[i - 1] /\ t[i - 1] = s[(i - 1) - 1] /\ a[i] = s[i - 2]
      BY <1>1, <1>2, <1>3, <2>3, <3>1
    <3> QED BY <3>1, <3>2
  <2> QED BY <1>1, <1>2, <2>1, <2>2, <2>3
<1> HIDE DEF a, b
<1>6. a = b
  BY <1>4, <1>5
<1> QED BY <1>6 DEF a, b, t

\* An operand that the next operator takes.
LEMMA TightenOwners ==
  ASSUME TypeOK, InBounds, OwnerInv, TightenBinOp
  PROVE  OwnerInv'
<1> DEFINE prec == tokPrecedence(Top.name) + 1
           f == BinOpFrame(prec, ret)
           g == [Top EXCEPT !.fn = "merge"]
           rest == Tail(stack)
           loose == Loose \cup Held(Top)
           under == <<g>> \o rest
<1>1. /\ stack # <<>> /\ pc = "return" /\ Top.fn = "rhs"
      /\ stack' = <<f, g>> \o rest /\ pc' = "binop" /\ UNCHANGED <<nodes, units, unit>>
  BY Zenon DEF TightenBinOp, heap
<1>2. Top.fn \in BinOpFrames /\ Top.fn \notin TypeFrames
  BY <1>1, ExprFrames
<1>3. FrameOnce(g) /\ Held(g) = Held(Top) /\ g.fn = "merge" /\ g \in FrameType
  BY <1>1, <1>2, BinOpHeld
<1>4. Loose = {ret} \ {0} /\ ret \notin Held(Top) /\ ret \in Nat
  BY <1>1, <1>2, ReturnedIsLoose
<1>5. prec \in Nat
  BY Precedences
<1> HIDE DEF prec
<1>6. f \in FrameType /\ FrameOnce(f) /\ Held(f) = {ret} \ {0} /\ f.fn # "template"
  BY <1>4, <1>5, NewBinOpHeld
<1>7. rest \in Seq(FrameType) /\ Apart(nodes, rest, units, loose)
  BY <1>1, TopOff
<1> HIDE DEF f, g, rest
<1>8. stack' = <<f>> \o under
  BY SMTT(60), <1>1, <1>3, <1>6, <1>7, TwoInFront
<1>9. Held(g) \subseteq loose /\ Held(f) \subseteq loose \ Held(g) /\ g.fn # "template"
  BY <1>3, <1>4, <1>6
<1> HIDE DEF loose
<1>10. Apart(nodes, under, units, loose \ Held(g)) /\ under \in Seq(FrameType)
  BY <1>3, <1>7, <1>9, PushApart, PushFrame
<1> HIDE DEF under
<1>11. Apart(nodes, <<f>> \o under, units, (loose \ Held(g)) \ Held(f))
  BY <1>6, <1>9, <1>10, PushApart
<1>12. Apart(nodes', stack', units', (loose \ Held(g)) \ Held(f))
  BY <1>1, <1>8, <1>11
<1>13. Loose' \subseteq (loose \ Held(g)) \ Held(f) /\ unit'.body = 0
  BY <1>1, LooseNext DEF OwnerInv
<1> QED BY <1>1, <1>12, <1>13, OwnerIntro

-----------------------------------------------------------------------------
\* Steps that leave a function: its frame goes, and what it held is dropped
\* or returned.
LEMMA LeaveOwners ==
  ASSUME TypeOK, InBounds, OwnerInv,
         PrototypeArgName \/ CloseParen \/ PropagateError \/ SwallowError
  PROVE  OwnerInv'
<1>1. /\ stack # <<>> /\ stack' = Tail(stack) /\ UNCHANGED <<nodes, units>>
      /\ pc' \in {"args", "return", "fail"}
      /\ UNCHANGED unit \/ \E x : unit' = [unit EXCEPT !.args = x]
      /\ \/ pc' # "return" \/ ret' = 0
         \/ pc = "return" /\ Top.fn = "paren" /\ ret' = ret
  BY Zenon DEF PrototypeArgName, CloseParen, PropagateError, SwallowError, Pop, Return, heap
<1>2. unit'.body = 0
  <2>1. unit \in UnitType /\ unit.body = 0
    BY DEF TypeOK, OwnerInv
  <2>2. \A x : [unit EXCEPT !.args = x].body = 0
    BY <2>1 DEF UnitType
  <2> QED BY <1>1, <2>1, <2>2, Zenon
<1>3. Loose' \subseteq Loose \cup Held(Top)
  <2>1. CASE pc' # "return" \/ ret' = 0
    BY <2>1, LooseNext
  <2>2. CASE pc = "return" /\ Top.fn = "paren" /\ ret' = ret
    <3>1. Top.fn \notin TypeFrames
      BY <2>2, ExprFrames
    <3>2. Loose = {ret} \ {0}
      BY <1>1, <2>2, <3>1, ReturnedIsLoose
    <3> QED BY <2>2, <3>2, LooseNext
  <2> QED BY <1>1, <2>1, <2>2
<1>4. pc' # "type"
  BY <1>1
<1> QED BY <1>1, <1>2, <1>3, <1>4, ReturnOwners

\* The function that meets an unexpected token may have a frame or not.
LEMMA ErrorOwners ==
  ASSUME TypeOK, InBounds, OwnerInv, SyntaxError
  PROVE  OwnerInv'
<1>1. /\ pc' = "fail" /\ UNCHANGED <<nodes, units, unit>>
      /\ stack' = stack \/ (stack # <<>> /\ stack' = Tail(stack))
  BY Zenon DEF SyntaxError, Unexpected, Fail, heap
<1>2. Loose' = {} /\ unit'.body = 0
  BY <1>1, LooseNext DEF OwnerInv
<1>3. CASE stack # <<>> /\ stack' = Tail(stack)
  <2>1. Loose' \subseteq Loose \cup Held(Top) /\ pc' # "type"
    BY <1>1, <1>2
  <2> QED BY <1>1, <1>2, <1>3, <2>1, ReturnOwners
<1>4. CASE stack' = stack
  <2>1. Apart(nodes', stack', units', Loose) /\ Loose' \subseteq Loose /\ pc' # "type"
    BY <1>1, <1>2, <1>4 DEF OwnerInv
  <2> QED BY <1>2, <2>1, OwnerIntro
<1> QED BY <1>1, <1>3, <1>4

\* A type is parsed inside the frames of other types, of an argument or of a
\* result, and what it returns is no expression.
LEMMA TypeOwners ==
  ASSUME TypeOK, InBounds, OwnerInv, TypeName
  PROVE  OwnerInv'
<1>1. /\ pc = "type" /\ UNCHANGED <<nodes, units, unit>>
      /\ \/ stack' = <<NamedFrame("template", Tok)>> \o stack /\ pc' = "type"
         \/ UNCHANGED stack /\ pc' = "return"
  BY Zenon DEF TypeName, Push, MakeType, Return, heap
<1>2. /\ stack # <<>> /\ Top.fn \in TypeFrames /\ stack \in Seq(FrameType) /\ unit.body = 0
      /\ Apart(nodes, stack, units, Loose)
  BY <1>1, Zenon DEF OwnerInv, TypeOK
<1>3. CASE stack' = <<NamedFrame("template", Tok)>> \o stack /\ pc' = "type"
  <2>1. "template" \in FrameName /\ "template" \notin BinOpFrames /\ Tok \in Name
        /\ "template" \in TypeFrames /\ Head(stack).fn \in TypeFrames
    BY <1>2, Names DEF FrameName, BinOpFrames, TypeFrames, Top
  <2>2. /\ Apart(nodes, stack', units, Loose)
        /\ stack' # <<>> /\ Head(stack').fn = "template"
    BY <1>2, <1>3, <2>1, PushEmpty
  <2>3. Apart(nodes', stack', units', Loose) /\ Loose' \subseteq Loose /\ unit'.body = 0
    BY <1>1, <1>2, <1>3, <2>2, LooseNext
  <2>4. stack' # <<>> /\ Top'.fn \in TypeFrames
    BY <2>1, <2>2 DEF Top
  <2> QED BY <2>3, <2>4, OwnerIntro
<1>4. CASE UNCHANGED stack /\ pc' = "return"
  <2>1. stack' # <<>> /\ Head(stack').fn \in TypeFrames /\ pc' # "type"
    BY <1>2, <1>4 DEF Top
  <2>2. Apart(nodes', stack', units', Loose) /\ Loose' \subseteq Loose /\ unit'.body = 0
    BY <1>1, <1>2, <1>4, <2>1, LooseNext
  <2> QED BY <2>1, <2>2, OwnerIntro
<1> QED BY <1>1, <1>3, <1>4

\* The arguments of a type go in its frame.
LEMMA TemplateOwners ==
  ASSUME TypeOK, InBounds, OwnerInv, TypeTemplateArg
  PROVE  OwnerInv'
<1> DEFINE g == [Top EXCEPT !.kids = Append(@, ret)]
           rest == Tail(stack)
           loose == Loose \cup Held(Top)
<1>1. /\ pc = "return" /\ stack # <<>> /\ Top.fn = "template" /\ UNCHANGED <<nodes, units, unit>>
      /\ \/ stack' = rest /\ pc' = "return"
         \/ stack' = <<g>> \o rest /\ pc' = "type"
  BY Zenon DEF TypeTemplateArg, MakeType, Return, Pop, Replace, heap
<1>2. /\ Top \in FrameType /\ FrameOnce(Top) /\ rest \in Seq(FrameType)
      /\ Apart(nodes, rest, units, loose) /\ unit.body = 0
      /\ rest # <<>> /\ Head(rest).fn \in TypeFrames
  BY <1>1, TopOff DEF OwnerInv
<1>3. CASE stack' = rest /\ pc' = "return"
  <2>1. stack' # <<>> /\ Head(stack').fn \in TypeFrames /\ pc' # "type"
    BY <1>2, <1>3
  <2>2. stack' = Tail(stack) /\ Loose' \subseteq Loose \cup Held(Top) /\ unit'.body = 0
    BY <1>1, <1>2, <1>3, <2>1, LooseNext
  <2> QED BY <1>1, <2>1, <2>2, ReturnOwners
<1>4. CASE stack' = <<g>> \o rest /\ pc' = "type"
  <2>1. g \in FrameType
    <3>1. Append(Top.kids, ret) \in Seq(Nat) /\ "call" \in FrameName /\ "" \in Name
      BY <1>1, TopType DEF FrameName, Name
    <3> QED BY <1>2, <3>1, UpdateFrame
  <2>2. FrameOnce(g) /\ Held(g) = {} /\ g.fn = "template"
    BY <1>1, <1>2, ChangedFrameHeld
  <2> HIDE DEF g, rest
  <2>3. Held(g) \subseteq loose /\ "template" \in TypeFrames
    BY <2>2 DEF TypeFrames
  <2> HIDE DEF loose
  <2>4. Apart(nodes, <<g>> \o rest, units, loose \ Held(g))
    BY <1>2, <2>1, <2>2, <2>3, PushApart
  <2>5. Apart(nodes', stack', units', loose \ Held(g))
    BY <1>1, <1>4, <2>4
  <2>6. stack' # <<>> /\ Top' = g
    BY <1>2, <1>4, <2>1, PushFrame DEF Top
  <2>7. Loose' \subseteq loose \ Held(g) /\ unit'.body = 0 /\ Top'.fn \in TypeFrames
    BY <1>1, <1>2, <1>4, <2>2, <2>3, <2>6, LooseNext
  <2> QED BY <2>5, <2>6, <2>7, OwnerIntro
<1> QED BY <1>1, <1>3, <1>4

-----------------------------------------------------------------------------
\* A unit is complete with its prototype, or its body is parsed.
LEMMA AfterOwners ==
  ASSUME TypeOK, NEW proto \in UnitType, proto.body = 0, NEW frames \in Seq(FrameType),
         NEW loose, Apart(nodes, frames, units, loose), UNCHANGED nodes,
         AfterPrototype(proto, frames)
  PROVE  OwnerInv'
<1>1. CASE /\ units' = Append(units, proto) /\ unit' = NoUnit
           /\ stack' = frames /\ pc' = "parse"
  <2>1. units \in Seq(UnitType) /\ {proto.body} \ {0} \subseteq loose /\ proto.body \in Nat
    BY DEF TypeOK
  <2>2. Apart(nodes, frames, Append(units, proto), loose \ {proto.body})
    BY <2>1, UnitApart
  <2>3. Apart(nodes', stack', units', loose \ {proto.body})
    BY <1>1, <2>2
  <2>4. Loose' \subseteq loose \ {proto.body} /\ unit'.body = 0
    BY <1>1, LooseNext DEF NoUnit
  <2> QED BY <1>1, <2>3, <2>4, OwnerIntro
<1>2. CASE unit' = proto /\ CallExpression(frames) /\ UNCHANGED units
  <2>1. Apart(nodes, stack', units, loose) /\ pc' = "primary"
    BY <1>2, CallApart
  <2>2. Apart(nodes', stack', units', loose) /\ Loose' \subseteq loose /\ unit'.body = 0
    BY <1>2, <2>1, LooseNext
  <2> QED BY <2>1, <2>2, OwnerIntro
<1> QED BY <1>1, <1>2, Zenon DEF AfterPrototype

\* The result of a prototype is no expression, the body of a function is one.
LEMMA UnitOwners ==
  ASSUME TypeOK, InBounds, OwnerInv, PrototypeEnd \/ EndFunction
  PROVE  OwnerInv'
<1>0. unit \in UnitType /\ unit.body = 0 /\ ret \in Nat /\ Apart(nodes, stack, units, Loose)
      /\ stack \in Seq(FrameType) /\ units \in Seq(UnitType)
  BY Zenon DEF TypeOK, OwnerInv
<1> DEFINE typed == [unit EXCEPT !.type = ret]
           whole == [unit EXCEPT !.body = ret]
<1>1. /\ typed \in UnitType /\ typed.body = 0
      /\ whole \in UnitType /\ whole.body = ret
  <2>1. typed \in UnitType /\ whole \in UnitType
    BY <1>0, UpdateUnit
  <2>2. typed.body = 0 /\ whole.body = ret
    BY <1>0 DEF UnitType
  <2> QED BY <2>1, <2>2
<1>2. ASSUME PrototypeEnd PROVE OwnerInv'
  <2>1. /\ UNCHANGED nodes
        /\ \/ AfterPrototype(unit, stack)
           \/ stack # <<>> /\ AfterPrototype(typed, Tail(stack))
    BY <1>2, Zenon DEF PrototypeEnd, heap
  <2> HIDE DEF typed
  <2>2. CASE AfterPrototype(unit, stack)
    BY <1>0, <2>1, <2>2, AfterOwners
  <2>3. CASE stack # <<>> /\ AfterPrototype(typed, Tail(stack))
    <3>1. Tail(stack) \in Seq(FrameType) /\ Apart(nodes, Tail(stack), units, Loose \cup Held(Top))
      BY <2>3, TopOff
    <3> QED BY <1>1, <2>1, <2>3, <3>1, AfterOwners
  <2> QED BY <2>1, <2>2, <2>3
<1>3. ASSUME EndFunction PROVE OwnerInv'
  <2>1. /\ pc = "return" /\ stack = <<>> /\ units' = Append(units, whole) /\ unit' = NoUnit
        /\ pc' = "parse" /\ UNCHANGED <<nodes, stack>>
    BY <1>3, Zenon DEF EndFunction, heap
  <2> HIDE DEF whole
  <2>2. {whole.body} \ {0} \subseteq Loose
    BY <1>1, <2>1, LooseIs
  <2>3. Apart(nodes, stack, Append(units, whole), Loose \ {whole.body})
    BY <1>0, <1>1, <2>2, UnitApart
  <2>4. Apart(nodes', stack', units', Loose \ {whole.body})
    BY <2>1, <2>3
  <2>5. Loose' \subseteq Loose \ {whole.body} /\ unit'.body = 0
    BY <2>1, LooseNext DEF NoUnit
  <2> QED BY <2>1, <2>4, <2>5, OwnerIntro
<1> QED BY <1>2, <1>3

-----------------------------------------------------------------------------
\* Nothing holds an expression when parse() is called,
LEMMA InitOwners == Init => OwnerInv
<1> SUFFICES ASSUME Init PROVE OwnerInv
  OBVIOUS
<1>1. nodes = <<>> /\ stack = <<>> /\ units = <<>> /\ pc = "parse" /\ unit = NoUnit
  BY DEF Init
<1>2. Loose = {} /\ unit.body = 0 /\ pc # "type"
  BY <1>1, LooseIs DEF NoUnit
<1>3. \A i : i \notin 1 .. Len(<<>>)
  OBVIOUS
<1>4. NodesHeld(<<>>) = {} /\ StackHeld(<<>>) = {} /\ UnitsHeld(<<>>) = {}
  BY <1>3 DEF NodesHeld, StackHeld, UnitsHeld
<1>5. NodesOnce(<<>>) /\ StackOnce(<<>>) /\ UnitsOnce(<<>>)
  BY <1>3, Zenon DEF NodesOnce, StackOnce, UnitsOnce
<1>6. Apart(nodes, stack, units, {})
  BY <1>1, <1>4, <1>5 DEF Apart
<1> QED BY <1>2, <1>6 DEF OwnerInv

\* and every step keeps the owners apart.
LEMMA NextOwners == IInv /\ OwnerInv /\ [Next]_vars => OwnerInv'
<1> SUFFICES ASSUME IInv, OwnerInv, [Next]_vars PROVE OwnerInv'
  OBVIOUS
<1>1. TypeOK /\ InBounds
  BY DEF IInv
<1>2. CASE Next
  <2>1. UNCHANGED tokens
    BY <1>2, Zenon DEF Next
  <2> QED
    BY <1>1, <1>2, <2>1, QuietOwners, PushOwners, LeafOwners, CallArgOwners, ListOwners,
       BinOpOwners, MergeOwners, TightenOwners, LeaveOwners, ErrorOwners, TypeOwners,
       TemplateOwners, UnitOwners, Zenon
       DEF Next
<1>3. CASE UNCHANGED vars
  <2>1. UNCHANGED <<nodes, stack, units, unit, pc, ret>>
    BY <1>3, Zenon DEF vars, heap
  <2> QED BY <2>1 DEF OwnerInv, Loose, ReturnsExpr, Top
<1> QED BY <1>2, <1>3

\* No expression that the parser makes is part of two others, or of one other
\* twice, however the token vector mixes calls, lists, parentheses and
\* operators: the passes that follow can key what they know by its ExprId.
THEOREM ExpressionsHaveOneOwner == Spec => []SingleOwner
<1>1. IInv /\ OwnerInv => SingleOwner
  BY ApartOwners, Zenon DEF IInv, OwnerInv
<1>2. Init => IInv /\ OwnerInv
  BY InitIInv, InitOwners
<1>3. IInv /\ OwnerInv /\ [Next]_vars => (IInv /\ OwnerInv)'
  BY NextIInv, NextOwners
<1> QED BY <1>1, <1>2, <1>3, PTL DEF Spec

-----------------------------------------------------------------------------
(* The trees that the parser builds, and the numbers they take up.         *)

\* The first leaf of an expression by those of its operands.
FirstOf(f, n, kids) ==
  IF \E k \in 1 .. Len(kids) : f[kids[k]] = 0 THEN 0
  ELSE IF kids = <<>> THEN n ELSE f[kids[1]]

\* f gives the first leaves of the expressions.
Firsts(f, exprs) ==
  f = [n \in 0 .. Len(exprs) |-> IF n = 0 THEN 0 ELSE FirstOf(f, n, exprs[n].kids)]

\* Leftmost is defined by that.
LEMMA LeftmostFirsts ==
  ASSUME NEW p, \E f : Firsts(f, p.nodes)
  PROVE  Firsts(Leftmost(p), p.nodes)
<1> DEFINE Case(f, n) == LET kids == p.nodes[n].kids
                         IN  CASE n = 0 \/ \E k \in 1 .. Len(kids) : f[kids[k]] = 0 -> 0
                               [] n # 0 /\ kids = <<>> -> n
                               [] OTHER -> f[kids[1]]
           If(f, n) == IF n = 0 THEN 0 ELSE FirstOf(f, n, p.nodes[n].kids)
           Eq(f) == f = [n \in 0 .. Len(p.nodes) |-> Case(f, n)]
<1>1. Leftmost(p) = CHOOSE f : Eq(f)
  BY Zenon DEF Leftmost
<1>2. ASSUME NEW f PROVE Eq(f) <=> Firsts(f, p.nodes)
  <2>1. \A n : Case(f, n) = If(f, n)
    BY DEF FirstOf
  <2>2. Firsts(f, p.nodes) <=> f = [n \in 0 .. Len(p.nodes) |-> If(f, n)]
    BY Zenon DEF Firsts
  <2> HIDE DEF Case, If
  <2> QED BY <2>1, <2>2
<1> HIDE DEF Eq
<1> QED BY <1>1, <1>2, Zenon

\* The equations of the first leaves, one by one.
LEMMA FirstsAt ==
  ASSUME NEW e, NEW f, Firsts(f, e), Len(e) \in Nat
  PROVE  /\ f[0] = 0
         /\ \A n \in 1 .. Len(e) : f[n] = FirstOf(f, n, e[n].kids)
<1> DEFINE If(n) == IF n = 0 THEN 0 ELSE FirstOf(f, n, e[n].kids)
<1>1. f = [n \in 0 .. Len(e) |-> If(n)]
  BY Zenon DEF Firsts
<1>2. If(0) = 0 /\ \A n \in 1 .. Len(e) : If(n) = FirstOf(f, n, e[n].kids)
  OBVIOUS
<1> HIDE DEF If
<1>3. \A n \in 0 .. Len(e) : f[n] = If(n)
  BY <1>1
<1> QED BY <1>2, <1>3

LEMMA SameFirst ==
  ASSUME NEW f, NEW g, NEW n, NEW kids, \A k \in 1 .. Len(kids) : f[kids[k]] = g[kids[k]],
         Len(kids) \in Nat, kids # <<>> => Len(kids) # 0
  PROVE  FirstOf(f, n, kids) = FirstOf(g, n, kids)
<1>1. kids # <<>> => 1 \in 1 .. Len(kids)
  OBVIOUS
<1> QED BY <1>1 DEF FirstOf

Extension(e, node, f, g) ==
  /\ Firsts(g, e)
  /\ \A n \in 0 .. Len(e) : f[n] = g[n]
  /\ f[0] = 0 /\ f[Len(e) + 1] = FirstOf(f, Len(e) + 1, node.kids)

\* The first leaves stay as they are when an expression is made.
LEMMA Restricted ==
  ASSUME NEW e, NEW node, e \in Seq({e[n] : n \in DOMAIN e}),
         \A n \in 1 .. Len(e) : IsExpression(e[n], n), IsExpression(node, Len(e) + 1),
         NEW f, Firsts(f, Append(e, node))
  PROVE  \E g : Extension(e, node, f, g)
<1> DEFINE d == Append(e, node)
           g == [n \in 0 .. Len(e) |-> f[n]]
<1>1. /\ Len(e) \in Nat /\ Len(d) = Len(e) + 1 /\ d[Len(e) + 1] = node
      /\ \A n \in 1 .. Len(e) : d[n] = e[n]
  OBVIOUS
<1>a. Firsts(f, d)
  OBVIOUS
<1> HIDE DEF d
<1>b. Len(d) \in Nat
  BY <1>1
<1>2. /\ f[0] = 0 /\ \A n \in 1 .. Len(d) : f[n] = FirstOf(f, n, d[n].kids)
  BY <1>a, <1>b, FirstsAt
<1>3. /\ \A n \in 0 .. Len(e) : f[n] = g[n] /\ DOMAIN g = 0 .. Len(e)
  OBVIOUS
<1>g. g = [n \in 0 .. Len(e) |-> g[n]]
  OBVIOUS
<1> HIDE DEF g
<1>4. ASSUME NEW n \in 1 .. Len(e) PROVE FirstOf(f, n, e[n].kids) = FirstOf(g, n, e[n].kids)
  <2>1. e[n].kids \in Seq(0 .. n - 1)
    BY DEF IsExpression
  <2>2. /\ Len(e[n].kids) \in Nat /\ (e[n].kids # <<>> => Len(e[n].kids) # 0)
        /\ \A k \in 1 .. Len(e[n].kids) : e[n].kids[k] \in 0 .. n - 1
    BY <2>1
  <2>3. \A m \in 0 .. n - 1 : m \in 0 .. Len(e)
    BY <1>1
  <2>4. \A k \in 1 .. Len(e[n].kids) : f[e[n].kids[k]] = g[e[n].kids[k]]
    BY <1>3, <2>2, <2>3
  <2> DEFINE kids == e[n].kids
  <2>5. Len(kids) \in Nat /\ (kids # <<>> => Len(kids) # 0)
        /\ \A k \in 1 .. Len(kids) : f[kids[k]] = g[kids[k]]
    BY <2>2, <2>4
  <2> HIDE DEF kids
  <2>6. FirstOf(f, n, kids) = FirstOf(g, n, kids)
    BY <2>5, SameFirst
  <2> QED BY <2>6 DEF kids
<1>5. \A n \in 0 .. Len(e) : g[n] = IF n = 0 THEN 0 ELSE FirstOf(g, n, e[n].kids)
  <2> TAKE n \in 0 .. Len(e)
  <2>1. CASE n = 0
    BY <1>2, <1>3, <2>1
  <2>2. CASE n # 0
    <3>1. n \in 1 .. Len(e) /\ n \in 1 .. Len(d)
      BY <1>1, <2>2
    <3> QED BY <1>1, <1>2, <1>3, <1>4, <2>2, <3>1
  <2> QED BY <2>1, <2>2
<1>6. Firsts(g, e)
  BY <1>g, <1>5, Zenon DEF Firsts
<1>7. f[Len(e) + 1] = FirstOf(f, Len(e) + 1, node.kids)
  BY <1>1, <1>2
<1> QED BY <1>2, <1>3, <1>6, <1>7 DEF Extension

\* The new expression gets one that follows from those of its operands.
LEMMA Extended ==
  ASSUME NEW e, NEW node, e \in Seq({e[n] : n \in DOMAIN e}),
         \A n \in 1 .. Len(e) : IsExpression(e[n], n), IsExpression(node, Len(e) + 1),
         NEW g, Firsts(g, e)
  PROVE  \E f : Firsts(f, Append(e, node))
<1> DEFINE d == Append(e, node)
           f == [n \in 0 .. Len(e) + 1 |-> IF n = Len(e) + 1 THEN FirstOf(g, n, node.kids) ELSE g[n]]
<1>1. /\ Len(e) \in Nat /\ Len(d) = Len(e) + 1 /\ d[Len(e) + 1] = node
      /\ \A n \in 1 .. Len(e) : d[n] = e[n]
  OBVIOUS
<1> HIDE DEF d
<1>2. /\ g[0] = 0 /\ \A n \in 1 .. Len(e) : g[n] = FirstOf(g, n, e[n].kids)
  BY <1>1, FirstsAt
<1>3. /\ \A n \in 0 .. Len(e) : f[n] = g[n]
      /\ f[Len(e) + 1] = FirstOf(g, Len(e) + 1, node.kids)
  BY <1>1
<1>f. f = [n \in 0 .. Len(d) |-> f[n]]
  BY <1>1
<1> HIDE DEF f
<1>4. ASSUME NEW n \in 1 .. Len(d) PROVE FirstOf(f, n, d[n].kids) = FirstOf(g, n, d[n].kids)
  <2>1. d[n].kids \in Seq(0 .. n - 1)
    <3>1. n \in 1 .. Len(e) \/ n = Len(e) + 1
      BY <1>1
    <3> QED BY <1>1, <3>1 DEF IsExpression
  <2>2. /\ Len(d[n].kids) \in Nat /\ (d[n].kids # <<>> => Len(d[n].kids) # 0)
        /\ \A k \in 1 .. Len(d[n].kids) : d[n].kids[k] \in 0 .. n - 1
    BY <2>1
  <2>3. \A m \in 0 .. n - 1 : m \in 0 .. Len(e)
    BY <1>1
  <2>4. \A k \in 1 .. Len(d[n].kids) : f[d[n].kids[k]] = g[d[n].kids[k]]
    BY <1>3, <2>2, <2>3
  <2> DEFINE kids == d[n].kids
  <2>5. Len(kids) \in Nat /\ (kids # <<>> => Len(kids) # 0)
        /\ \A k \in 1 .. Len(kids) : f[kids[k]] = g[kids[k]]
    BY <2>2, <2>4
  <2> HIDE DEF kids
  <2>6. FirstOf(f, n, kids) = FirstOf(g, n, kids)
    BY <2>5, SameFirst
  <2> QED BY <2>6 DEF kids
<1>5. \A n \in 0 .. Len(d) : f[n] = IF n = 0 THEN 0 ELSE FirstOf(f, n, d[n].kids)
  <2> TAKE n \in 0 .. Len(d)
  <2>1. CASE n = 0
    BY <1>1, <1>2, <1>3, <2>1
  <2>2. CASE n \in 1 .. Len(e)
    <3>1. n \in 0 .. Len(e) /\ n # 0 /\ n \in 1 .. Len(d)
      BY <1>1, <2>2
    <3> QED BY <1>1, <1>2, <1>3, <1>4, <2>2, <3>1
  <2>3. CASE n = Len(e) + 1
    <3>1. n # 0 /\ n \in 1 .. Len(d)
      BY <1>1, <2>3
    <3> QED BY <1>1, <1>3, <1>4, <2>3, <3>1
  <2> QED BY <1>1, <2>1, <2>2, <2>3
<1>6. Firsts(f, d)
  BY <1>f, <1>5, Zenon DEF Firsts
<1> QED BY <1>6 DEF d

-----------------------------------------------------------------------------
(* Where the trees of the expressions lie.                                 *)

\* What InPostOrder says of an expression with these operands.
Placed(f, kids, n) ==
  /\ f[n] \in 0 .. n
  /\ f[n] = 0 <=> \E k \in 1 .. Len(kids) : f[kids[k]] = 0
  /\ f[n] # 0 /\ kids = <<>> => f[n] = n
  /\ f[n] # 0 => \A k \in 1 .. Len(kids) :
       /\ f[n] <= f[kids[k]]
       /\ k = 1 => f[n] = f[kids[k]]
       /\ k > 1 => f[kids[k]] = kids[k - 1] + 1
       /\ k = Len(kids) => kids[k] = n - 1

\* The trees of s take up the numbers after lo up to hi, one after the other,
\* unless there is a null pointer in one of them.
Follows(f, s, lo, hi, k) ==
  /\ f[s[k]] \in Nat /\ lo < f[s[k]]
  /\ k = 1 => f[s[k]] = lo + 1
  /\ k > 1 => f[s[k]] = s[k - 1] + 1
  /\ k = Len(s) => s[k] = hi
Spans(f, s, lo, hi) ==
  /\ lo \in Nat /\ hi \in Nat /\ lo <= hi
  /\ (\A k \in 1 .. Len(s) : f[s[k]] # 0) =>
       /\ s = <<>> => lo = hi
       /\ \A k \in 1 .. Len(s) : Follows(f, s, lo, hi, k)

\* One after the other.
LEMMA SpansTwo ==
  ASSUME NEW f, NEW a \in Seq(Nat), NEW b \in Seq(Nat), NEW lo, NEW mid, NEW hi,
         Spans(f, a, lo, mid), Spans(f, b, mid, hi)
  PROVE  Spans(f, a \o b, lo, hi)
<1> DEFINE c == a \o b
<1>1. /\ Len(a) \in Nat /\ Len(b) \in Nat /\ Len(c) = Len(a) + Len(b)
      /\ \A k \in 1 .. Len(a) : c[k] = a[k]
      /\ \A k \in 1 .. Len(b) : c[k + Len(a)] = b[k]
      /\ a = <<>> <=> Len(a) = 0
      /\ b = <<>> <=> Len(b) = 0
      /\ c = <<>> <=> Len(c) = 0
      /\ \A k \in 1 .. Len(a) : a[k] \in Nat
      /\ \A k \in 1 .. Len(b) : b[k] \in Nat
  OBVIOUS
<1> HIDE DEF c
<1>2. lo \in Nat /\ mid \in Nat /\ hi \in Nat /\ lo <= mid /\ mid <= hi
  BY DEF Spans
<1>3. SUFFICES ASSUME \A k \in 1 .. Len(c) : f[c[k]] # 0
      PROVE  /\ c = <<>> => lo = hi
             /\ \A k \in 1 .. Len(c) : Follows(f, c, lo, hi, k)
  BY <1>2 DEF Spans, c
<1>4. /\ a = <<>> => lo = mid
      /\ \A k \in 1 .. Len(a) : Follows(f, a, lo, mid, k)
  <2>1. \A k \in 1 .. Len(a) : k \in 1 .. Len(c)
    BY <1>1
  <2>2. \A k \in 1 .. Len(a) : f[a[k]] # 0
    BY <1>1, <1>3, <2>1
  <2> QED BY <2>2, Zenon DEF Spans
<1>5. /\ b = <<>> => mid = hi
      /\ \A k \in 1 .. Len(b) : Follows(f, b, mid, hi, k)
  <2>1. \A k \in 1 .. Len(b) : k + Len(a) \in 1 .. Len(c)
    BY <1>1
  <2>2. \A k \in 1 .. Len(b) : f[b[k]] # 0
    BY <1>1, <1>3, <2>1
  <2> QED BY <2>2, Zenon DEF Spans
<1>6. c = <<>> => lo = hi
  BY <1>1, <1>2, <1>4, <1>5
<1>7. ASSUME NEW k \in 1 .. Len(c), k \in 1 .. Len(a)
      PROVE  Follows(f, c, lo, hi, k)
  <2>1. c[k] = a[k] /\ (k > 1 => k - 1 \in 1 .. Len(a) /\ c[k - 1] = a[k - 1])
    BY <1>1, <1>7
  <2>2. k = Len(c) => k = Len(a) /\ mid = hi
    BY <1>1, <1>5, <1>7
  <2>3. Follows(f, a, lo, mid, k)
    BY <1>4, <1>7
  <2> QED BY <2>1, <2>2, <2>3 DEF Follows
<1>8. ASSUME NEW k \in 1 .. Len(c), k \notin 1 .. Len(a)
      PROVE  Follows(f, c, lo, hi, k)
  <2> DEFINE j == k - Len(a)
  <2>1. j \in 1 .. Len(b) /\ k = j + Len(a) /\ (k = Len(c) <=> j = Len(b)) /\ c[k] = b[j]
    <3>1. /\ k - Len(a) \in 1 .. Len(b) /\ k = (k - Len(a)) + Len(a)
          /\ k = Len(c) <=> k - Len(a) = Len(b)
      BY <1>1, <1>8
    <3> HIDE DEF j
    <3>2. j \in 1 .. Len(b) /\ k = j + Len(a) /\ (k = Len(c) <=> j = Len(b))
      BY <3>1 DEF j
    <3>3. c[j + Len(a)] = b[j]
      BY <1>1, <3>2
    <3> QED BY <3>2, <3>3
  <2> HIDE DEF j
  <2>2. j > 1 => j - 1 \in 1 .. Len(b) /\ c[k - 1] = b[j - 1]
    <3> HAVE j > 1
    <3>1. j - 1 \in 1 .. Len(b) /\ (j - 1) + Len(a) = k - 1
      BY <1>1, <2>1
    <3> QED BY <1>1, <3>1
  <2>3. k > 1 /\ j = 1 => k - 1 \in 1 .. Len(a) /\ k - 1 = Len(a) /\ c[k - 1] = a[k - 1]
    BY <1>1, <2>1
  <2>4. k = 1 => a = <<>> /\ j = 1
    BY <1>1, <2>1
  <2>5. Follows(f, b, mid, hi, j)
    BY <1>5, <2>1
  <2>6. /\ f[c[k]] \in Nat /\ lo < f[c[k]]
        /\ k = Len(c) => c[k] = hi
    BY <1>2, <2>1, <2>5 DEF Follows
  <2>7. k = 1 => f[c[k]] = lo + 1
    BY <1>2, <1>4, <2>1, <2>4, <2>5 DEF Follows
  <2>8. k > 1 => f[c[k]] = c[k - 1] + 1
    <3>1. CASE j > 1
      BY <2>1, <2>2, <2>5, <3>1 DEF Follows
    <3>2. CASE ~(j > 1)
      <4>1. j = 1
        BY <2>1, <3>2
      <4>2. f[c[k]] = mid + 1
        BY <2>1, <2>5, <4>1 DEF Follows
      <4>3. k > 1 => c[k - 1] = mid
        <5>1. k > 1 => Follows(f, a, lo, mid, k - 1)
          BY <1>4, <2>3, <4>1
        <5> QED BY <2>3, <4>1, <5>1 DEF Follows
      <4> QED BY <4>2, <4>3
    <3> QED BY <3>1, <3>2
  <2> QED BY <2>6, <2>7, <2>8 DEF Follows
<1> QED BY <1>6, <1>7, <1>8

\* An expression made of the operands that lie behind lo.
LEMMA MadePlaced ==
  ASSUME NEW f, NEW n \in Nat \ {0}, NEW kids \in Seq(0 .. n - 1), NEW lo,
         f[0] = 0, f[n] = FirstOf(f, n, kids), Spans(f, kids, lo, n - 1)
  PROVE  Placed(f, kids, n) /\ Spans(f, <<n>>, lo, n)
<1>1. /\ Len(kids) \in Nat /\ (kids # <<>> => 1 \in 1 .. Len(kids)) /\ (kids = <<>> => Len(kids) = 0)
      /\ \A k \in 1 .. Len(kids) : kids[k] \in 0 .. n - 1
      /\ lo \in Nat /\ n - 1 \in Nat /\ lo <= n - 1
  BY DEF Spans
<1>2. CASE \E k \in 1 .. Len(kids) : f[kids[k]] = 0
  <2>1. f[n] = 0
    BY <1>2 DEF FirstOf
  <2> QED BY <1>1, <1>2, <2>1 DEF Placed, Spans
<1>3. CASE \A k \in 1 .. Len(kids) : f[kids[k]] # 0
  <2>1. f[n] = lo + 1
    <3>1. CASE kids = <<>>
      BY <1>1, <1>3, <3>1 DEF FirstOf, Spans
    <3>2. CASE kids # <<>>
      <4>1. f[n] = f[kids[1]]
        BY <1>3, <3>2 DEF FirstOf
      <4>2. Follows(f, kids, lo, n - 1, 1)
        BY <1>1, <1>3, <3>2 DEF Spans
      <4> QED BY <4>1, <4>2 DEF Follows
    <3> QED BY <3>1, <3>2
  <2>2. f[n] # 0 /\ f[n] \in 0 .. n /\ (kids = <<>> => f[n] = n)
    <3>1. kids = <<>> => lo = n - 1
      BY <1>3 DEF Spans
    <3> QED BY <1>1, <2>1, <3>1
  <2>3. ASSUME NEW k \in 1 .. Len(kids)
        PROVE  /\ f[n] <= f[kids[k]]
               /\ k = 1 => f[n] = f[kids[k]]
               /\ k > 1 => f[kids[k]] = kids[k - 1] + 1
               /\ k = Len(kids) => kids[k] = n - 1
    <3>1. Follows(f, kids, lo, n - 1, k)
      BY <1>3 DEF Spans
    <3>2. f[kids[k]] \in Nat /\ lo < f[kids[k]] /\ (k = 1 => f[kids[k]] = lo + 1)
      BY <3>1 DEF Follows
    <3>3. f[n] <= f[kids[k]] /\ (k = 1 => f[n] = f[kids[k]])
      BY <1>1, <2>1, <3>2
    <3> QED BY <3>1, <3>3 DEF Follows
  <2>4. Placed(f, kids, n)
    BY <1>3, <2>2, <2>3 DEF Placed
  <2>5. Spans(f, <<n>>, lo, n)
    <3>1. Follows(f, <<n>>, lo, n, 1)
      BY <1>1, <2>1 DEF Follows
    <3>2. \A k \in 1 .. Len(<<n>>) : k = 1
      OBVIOUS
    <3> QED BY <1>1, <3>1, <3>2 DEF Spans
  <2> QED BY <2>4, <2>5
<1> QED BY <1>2, <1>3

-----------------------------------------------------------------------------
(* The expressions that calls and units hold, and what is pending between  *)
(* them.                                                                   *)

\* The expressions that a frame holds, in the order they were made.
Own(g) ==
  CASE g.fn \in BinOpFrames      -> <<g.lhs>>
    [] g.fn \in {"call", "list"} -> g.kids
    [] OTHER                     -> <<>>

Among(x, s) == \E k \in 1 .. Len(s) : s[k] = x
IsBody(x, u) == \E v \in 1 .. Len(u) : u[v].kind = "def" /\ u[v].body = x
IsRoot(x, s, u, pend) ==
  (\E i \in 1 .. Len(s) : Among(x, Own(s[i]))) \/ Among(x, pend) \/ IsBody(x, u)

\* The frames' expressions lie between marks, those of the innermost frame
\* and the pending ones behind the others, up to the last one made.
Marks(f, c, s, pend, m) ==
  /\ m \in Seq(Nat) /\ Len(m) = Len(s) + 1 /\ (\A i \in 1 .. Len(m) : m[i] <= c)
  /\ \A i \in 1 .. Len(s) : Spans(f, Own(s[i]), m[i + 1], m[i])
  /\ Spans(f, pend, m[1], c)

Bodies(f, u, w) == \A v \in 1 .. w : u[v].kind = "def" => f[u[v].body] # 0
UpTo(x, u, w) == \E v \in 1 .. w : u[v].kind = "def" /\ x <= u[v].body

\* The units' expressions lie in front of the first mark.
Ends(f, c, u, hi) ==
  Bodies(f, u, Len(u)) => \A x \in 1 .. c : x <= hi <=> UpTo(x, u, Len(u))

\* What InPostOrder says of the units.
UnitsPlaced(f, c, u) ==
  \A w \in 1 .. Len(u) : Bodies(f, u, w) =>
    (u[w].kind = "def" => \A x \in 1 .. c : x < f[u[w].body] <=> UpTo(x, u, w - 1))

\* Unless a null pointer has been taken for an expression, none is in a
\* tree, and each expression made is part of another one or held.
Whole(f, n, s, u, pend) ==
  \/ \E x : IsRoot(x, s, u, pend) /\ f[x] = 0
  \/ \A x \in 1 .. Len(n) :
       f[x] # 0 /\ (IsRoot(x, s, u, pend) \/ \E y \in 1 .. Len(n) : Among(x, n[y].kids))

Laid(f, n, s, u, pend) ==
  /\ \A x : IsRoot(x, s, u, pend) => x \in 0 .. Len(n)
  /\ \E m : Marks(f, Len(n), s, pend, m) /\ Ends(f, Len(n), u, m[Len(m)])
  /\ UnitsPlaced(f, Len(n), u)
  /\ Whole(f, n, s, u, pend)

LEMMA OwnSeq ==
  ASSUME NEW g \in FrameType PROVE Own(g) \in Seq(Nat)
<1>1. g.lhs \in Nat /\ g.kids \in Seq(Nat)
  BY DEF FrameType
<1>2. <<g.lhs>> \in Seq(Nat) /\ <<>> \in Seq(Nat)
  BY <1>1
<1> QED BY <1>1, <1>2, Zenon DEF Own

LEMMA AmongTwo ==
  ASSUME NEW a \in Seq(Nat), NEW b \in Seq(Nat), NEW x
  PROVE  Among(x, a \o b) <=> Among(x, a) \/ Among(x, b)
<1> DEFINE c == a \o b
<1>1. /\ Len(a) \in Nat /\ Len(b) \in Nat /\ Len(c) = Len(a) + Len(b)
      /\ \A k \in 1 .. Len(a) : c[k] = a[k] /\ k \in 1 .. Len(c)
      /\ \A k \in 1 .. Len(b) : c[k + Len(a)] = b[k] /\ k + Len(a) \in 1 .. Len(c)
      /\ \A k \in 1 .. Len(c) : k \in 1 .. Len(a) \/ (k - Len(a) \in 1 .. Len(b) /\ c[k] = b[k - Len(a)])
  OBVIOUS
<1> HIDE DEF c
<1>2. Among(x, c) <=> Among(x, a) \/ Among(x, b)
  <2>1. ASSUME Among(x, c) PROVE Among(x, a) \/ Among(x, b)
    BY <1>1, <2>1 DEF Among
  <2>2. ASSUME Among(x, a) PROVE Among(x, c)
    BY <1>1, <2>2 DEF Among
  <2>3. ASSUME Among(x, b) PROVE Among(x, c)
    BY <1>1, <2>3 DEF Among
  <2> QED BY <2>1, <2>2, <2>3
<1> QED BY <1>2 DEF c

LEMMA AmongOne ==
  /\ \A x, y : Among(x, <<y>>) <=> x = y
  /\ \A x : ~Among(x, <<>>)
BY DEF Among

\* What a frame in front of others adds.
LEMMA FrontRoots ==
  ASSUME NEW g \in FrameType, NEW s \in Seq(FrameType), NEW u, NEW pend, NEW x
  PROVE  IsRoot(x, <<g>> \o s, u, pend) <=> Among(x, Own(g)) \/ IsRoot(x, s, u, pend)
<1> DEFINE t == <<g>> \o s
<1>1. /\ Len(t) = Len(s) + 1 /\ t[1] = g /\ Len(s) \in Nat
      /\ \A i \in 1 .. Len(s) : i + 1 \in 1 .. Len(t) /\ t[i + 1] = s[i]
      /\ \A i \in 1 .. Len(t) : i = 1 \/ (i - 1 \in 1 .. Len(s) /\ t[i] = s[i - 1])
  BY InFront
<1>2. 1 \in 1 .. Len(t)
  BY <1>1
<1> HIDE DEF t
<1>3. (\E i \in 1 .. Len(t) : Among(x, Own(t[i])))
        <=> Among(x, Own(g)) \/ \E i \in 1 .. Len(s) : Among(x, Own(s[i]))
  <2>1. ASSUME NEW i \in 1 .. Len(t), Among(x, Own(t[i]))
        PROVE  Among(x, Own(g)) \/ \E j \in 1 .. Len(s) : Among(x, Own(s[j]))
    <3>1. i = 1 \/ (i - 1 \in 1 .. Len(s) /\ t[i] = s[i - 1])
      BY <1>1
    <3> QED BY <1>1, <2>1, <3>1
  <2>2. ASSUME NEW i \in 1 .. Len(s), Among(x, Own(s[i]))
        PROVE  \E j \in 1 .. Len(t) : Among(x, Own(t[j]))
    <3>1. i + 1 \in 1 .. Len(t) /\ t[i + 1] = s[i]
      BY <1>1
    <3> QED BY <2>2, <3>1
  <2> QED BY <1>1, <1>2, <2>1, <2>2
<1> QED BY <1>3, Zenon DEF IsRoot, t

\* A frame that takes over what is pending goes on the stack.
LEMMA PushLaid ==
  ASSUME NEW f, NEW n, Len(n) \in Nat, NEW g \in FrameType, NEW s \in Seq(FrameType), NEW u,
         Laid(f, n, s, u, Own(g))
  PROVE  Laid(f, n, <<g>> \o s, u, <<>>)
<1> DEFINE t == <<g>> \o s
<1>1. /\ Len(t) = Len(s) + 1 /\ t[1] = g /\ Len(s) \in Nat
      /\ \A i \in 1 .. Len(t) : i = 1 \/ (i - 1 \in 1 .. Len(s) /\ t[i] = s[i - 1])
  BY InFront
<1>2. \A x : IsRoot(x, t, u, <<>>) <=> IsRoot(x, s, u, Own(g))
  <2> TAKE x
  <2>1. IsRoot(x, t, u, <<>>) <=> Among(x, Own(g)) \/ IsRoot(x, s, u, <<>>)
    BY FrontRoots
  <2> HIDE DEF t
  <2> QED BY <2>1, AmongOne DEF IsRoot
<1> HIDE DEF t
<1>3. PICK m : Marks(f, Len(n), s, Own(g), m) /\ Ends(f, Len(n), u, m[Len(m)])
  BY DEF Laid
<1> DEFINE l == <<Len(n)>> \o m
<1>4. m \in Seq(Nat) /\ Len(m) = Len(s) + 1
  BY <1>3 DEF Marks
<1>5. /\ Len(l) = Len(m) + 1 /\ l[1] = Len(n) /\ l \in Seq(Nat)
      /\ \A i \in 1 .. Len(m) : l[i + 1] = m[i]
  BY <1>4
<1>6. l[Len(l)] = m[Len(m)] /\ l[2] = m[1]
  BY <1>1, <1>4, <1>5
<1> HIDE DEF l
<1>7. \A i \in 1 .. Len(t) : Spans(f, Own(t[i]), l[i + 1], l[i])
  <2> TAKE i \in 1 .. Len(t)
  <2>1. CASE i = 1
    <3>1. Spans(f, Own(g), m[1], Len(n))
      BY <1>3 DEF Marks
    <3> QED BY <1>1, <1>5, <1>6, <2>1, <3>1
  <2>2. CASE i # 1
    <3>1. i - 1 \in 1 .. Len(s) /\ t[i] = s[i - 1]
      BY <1>1, <2>2
    <3>2. Spans(f, Own(s[i - 1]), m[(i - 1) + 1], m[i - 1])
      BY <1>3, <3>1 DEF Marks
    <3>3. i \in 1 .. Len(m) /\ i - 1 \in 1 .. Len(m) /\ (i - 1) + 1 = i
      BY <1>1, <1>4, <3>1
    <3>4. l[i + 1] = m[i] /\ l[(i - 1) + 1] = m[i - 1]
      BY <1>5, <3>3
    <3> QED BY <3>1, <3>2, <3>3, <3>4
  <2> QED BY <2>1, <2>2
<1>8. Spans(f, <<>>, l[1], Len(n))
  BY <1>5 DEF Spans
<1>b. \A i \in 1 .. Len(l) : l[i] <= Len(n)
  <2> TAKE i \in 1 .. Len(l)
  <2>1. i = 1 \/ (i - 1 \in 1 .. Len(m) /\ l[i] = m[i - 1])
    <3>1. i = 1 \/ (i - 1 \in 1 .. Len(m) /\ (i - 1) + 1 = i)
      BY <1>4, <1>5
    <3> QED BY <1>5, <3>1
  <2>2. \A j \in 1 .. Len(m) : m[j] <= Len(n)
    BY <1>3 DEF Marks
  <2> QED BY <1>5, <2>1, <2>2
<1>9. Marks(f, Len(n), t, <<>>, l) /\ Ends(f, Len(n), u, l[Len(l)])
  BY <1>1, <1>3, <1>4, <1>5, <1>6, <1>7, <1>8, <1>b DEF Marks
<1>10. Laid(f, n, t, u, <<>>)
  BY <1>2, <1>9, Zenon DEF Laid, Whole
<1> QED BY <1>10 DEF t

\* What the innermost frame holds and what is pending are handed on.
LEMMA PopLaid ==
  ASSUME NEW f, NEW n, Len(n) \in Nat, NEW g \in FrameType, NEW s \in Seq(FrameType), NEW u,
         NEW pend \in Seq(Nat), Laid(f, n, <<g>> \o s, u, pend)
  PROVE  Laid(f, n, s, u, Own(g) \o pend)
<1> DEFINE t == <<g>> \o s
<1>1. /\ Len(t) = Len(s) + 1 /\ t[1] = g /\ Len(s) \in Nat
      /\ \A i \in 1 .. Len(s) : i + 1 \in 1 .. Len(t) /\ t[i + 1] = s[i]
  BY InFront
<1>2. \A x : IsRoot(x, t, u, pend) <=> IsRoot(x, s, u, Own(g) \o pend)
  <2> TAKE x
  <2>1. IsRoot(x, t, u, pend) <=> Among(x, Own(g)) \/ IsRoot(x, s, u, pend)
    BY FrontRoots
  <2>2. Among(x, Own(g) \o pend) <=> Among(x, Own(g)) \/ Among(x, pend)
    BY OwnSeq, AmongTwo
  <2> HIDE DEF t
  <2> QED BY <2>1, <2>2, Zenon DEF IsRoot
<1>h. Laid(f, n, t, u, pend)
  OBVIOUS
<1> HIDE DEF t
<1>3. PICK m : Marks(f, Len(n), t, pend, m) /\ Ends(f, Len(n), u, m[Len(m)])
  BY <1>h DEF Laid
<1> DEFINE l == Tail(m)
<1>4. m \in Seq(Nat) /\ Len(m) = Len(s) + 2
  BY <1>1, <1>3 DEF Marks
<1>5. /\ Len(l) = Len(s) + 1 /\ l \in Seq(Nat)
      /\ \A i \in 1 .. Len(l) : l[i] = m[i + 1]
  BY <1>1, <1>4
<1>6. l[Len(l)] = m[Len(m)] /\ l[1] = m[2]
  BY <1>1, <1>4, <1>5
<1> HIDE DEF l
<1>7. \A i \in 1 .. Len(s) : Spans(f, Own(s[i]), l[i + 1], l[i])
  <2> TAKE i \in 1 .. Len(s)
  <2>1. i + 1 \in 1 .. Len(t) /\ t[i + 1] = s[i]
    BY <1>1
  <2>2. Spans(f, Own(s[i]), m[(i + 1) + 1], m[i + 1])
    BY <1>3, <2>1 DEF Marks
  <2>3. i \in 1 .. Len(l) /\ i + 1 \in 1 .. Len(l)
    BY <1>1, <1>5
  <2> QED BY <1>5, <2>2, <2>3
<1>8. Spans(f, Own(g) \o pend, l[1], Len(n))
  <2>1. 1 \in 1 .. Len(t)
    BY <1>1
  <2>2. Spans(f, Own(g), m[1 + 1], m[1]) /\ Spans(f, pend, m[1], Len(n))
    BY <1>1, <1>3, <2>1 DEF Marks
  <2> QED BY <1>6, <2>2, SpansTwo, OwnSeq
<1>b. \A i \in 1 .. Len(l) : l[i] <= Len(n)
  <2>1. \A i \in 1 .. Len(l) : i + 1 \in 1 .. Len(m)
    BY <1>1, <1>4, <1>5
  <2>2. \A j \in 1 .. Len(m) : m[j] <= Len(n)
    BY <1>3 DEF Marks
  <2> QED BY <1>5, <2>1, <2>2
<1>9. Marks(f, Len(n), s, Own(g) \o pend, l) /\ Ends(f, Len(n), u, l[Len(l)])
  <2>1. Ends(f, Len(n), u, l[Len(l)])
    BY <1>3, <1>6
  <2> QED BY <1>5, <1>7, <1>8, <1>b, <2>1, Zenon DEF Marks
<1> QED BY <1>2, <1>9, <1>h, Zenon DEF Laid, Whole

\* The innermost frame becomes one that holds the same.
LEMMA SwapLaid ==
  ASSUME NEW f, NEW n, Len(n) \in Nat, NEW g \in FrameType, NEW h \in FrameType, Own(h) = Own(g),
         NEW s \in Seq(FrameType), NEW u, NEW pend, Laid(f, n, <<g>> \o s, u, pend)
  PROVE  Laid(f, n, <<h>> \o s, u, pend)
<1> DEFINE a == <<g>> \o s
           b == <<h>> \o s
<1>1. /\ Len(a) = Len(s) + 1 /\ a[1] = g /\ Len(b) = Len(s) + 1 /\ b[1] = h
      /\ \A i \in 1 .. Len(a) : i = 1 \/ (i - 1 \in 1 .. Len(s) /\ a[i] = s[i - 1])
      /\ \A i \in 1 .. Len(b) : i = 1 \/ (i - 1 \in 1 .. Len(s) /\ b[i] = s[i - 1])
  BY InFront
<1>2. \A x : IsRoot(x, a, u, pend) <=> IsRoot(x, b, u, pend)
  <2> TAKE x
  <2>1. IsRoot(x, a, u, pend) <=> Among(x, Own(g)) \/ IsRoot(x, s, u, pend)
    BY FrontRoots
  <2>2. IsRoot(x, b, u, pend) <=> Among(x, Own(h)) \/ IsRoot(x, s, u, pend)
    BY FrontRoots
  <2> HIDE DEF a, b
  <2> QED BY <2>1, <2>2
<1>3. Laid(f, n, a, u, pend)
  OBVIOUS
<1> HIDE DEF a, b
<1>4. \A i \in 1 .. Len(a) : Own(b[i]) = Own(a[i])
  BY <1>1
<1>5. PICK m : Marks(f, Len(n), a, pend, m) /\ Ends(f, Len(n), u, m[Len(m)])
  BY <1>3 DEF Laid
<1>6. Marks(f, Len(n), b, pend, m)
  BY <1>1, <1>4, <1>5, Zenon DEF Marks
<1>7. Laid(f, n, b, u, pend)
  BY <1>2, <1>3, <1>5, <1>6, Zenon DEF Laid, Whole
<1> QED BY <1>7 DEF b

\* An error loses what is pending: a null pointer may stand for it.
LEMMA DropLaid ==
  ASSUME NEW f, f[0] = 0, NEW n, Len(n) \in Nat, NEW s, NEW u, NEW pend, Laid(f, n, s, u, pend)
  PROVE  Laid(f, n, s, u, <<0>>)
<1>1. PICK m : Marks(f, Len(n), s, pend, m) /\ Ends(f, Len(n), u, m[Len(m)])
  BY DEF Laid
<1>2. Spans(f, <<0>>, m[1], Len(n))
  <2>1. m[1] \in Nat /\ m[1] <= Len(n)
    BY <1>1 DEF Marks, Spans
  <2> QED BY <2>1 DEF Spans
<1>3. Marks(f, Len(n), s, <<0>>, m)
  BY <1>1, <1>2 DEF Marks
<1>4. \A x : IsRoot(x, s, u, <<0>>) => x = 0 \/ IsRoot(x, s, u, pend)
  BY AmongOne, Zenon DEF IsRoot
<1>5. IsRoot(0, s, u, <<0>>)
  BY AmongOne, Zenon DEF IsRoot
<1>6. \A x : IsRoot(x, s, u, <<0>>) => x \in 0 .. Len(n)
  BY <1>4 DEF Laid
<1> QED BY <1>1, <1>3, <1>5, <1>6, Zenon DEF Laid, Whole

\* The bodies of the units, when there is one more.
LEMMA MoreUnits ==
  ASSUME NEW f, NEW u \in Seq(UnitType), NEW w \in UnitType
  PROVE  LET v == Append(u, w)
         IN  /\ Len(u) \in Nat /\ Len(v) = Len(u) + 1 /\ v[Len(v)] = w
             /\ \A i \in 1 .. Len(u) : v[i] = u[i]
             /\ \A i \in 0 .. Len(u) : /\ Bodies(f, v, i) <=> Bodies(f, u, i)
                                     /\ \A x : UpTo(x, v, i) <=> UpTo(x, u, i)
             /\ Bodies(f, v, Len(v)) <=> Bodies(f, u, Len(u)) /\ (w.kind = "def" => f[w.body] # 0)
             /\ \A x : UpTo(x, v, Len(v)) <=> UpTo(x, u, Len(u)) \/ (w.kind = "def" /\ x <= w.body)
             /\ \A x : IsBody(x, v) <=> IsBody(x, u) \/ (w.kind = "def" /\ w.body = x)
<1> DEFINE v == Append(u, w)
<1>1. /\ Len(u) \in Nat /\ Len(v) = Len(u) + 1 /\ v[Len(v)] = w
      /\ \A i \in 1 .. Len(u) : v[i] = u[i]
  OBVIOUS
<1> HIDE DEF v
<1>2. ASSUME NEW i \in 0 .. Len(u)
      PROVE  /\ Bodies(f, v, i) <=> Bodies(f, u, i)
             /\ \A x : UpTo(x, v, i) <=> UpTo(x, u, i)
  <2>1. \A j \in 1 .. i : v[j] = u[j]
    BY <1>1
  <2> QED BY <2>1, Zenon DEF Bodies, UpTo
<1>3. \A j \in 1 .. Len(v) : j \in 1 .. Len(u) \/ j = Len(v)
  BY <1>1
<1>4. /\ Len(v) \in 1 .. Len(v)
      /\ \A j \in 1 .. Len(u) : j \in 1 .. Len(v)
  BY <1>1
<1>5. Bodies(f, v, Len(v)) <=> Bodies(f, u, Len(u)) /\ (w.kind = "def" => f[w.body] # 0)
  <2>1. Bodies(f, v, Len(v)) => Bodies(f, u, Len(u)) /\ (w.kind = "def" => f[w.body] # 0)
    BY <1>1, <1>4, Zenon DEF Bodies
  <2>2. Bodies(f, u, Len(u)) /\ (w.kind = "def" => f[w.body] # 0) => Bodies(f, v, Len(v))
    BY <1>1, <1>3, Zenon DEF Bodies
  <2> QED BY <2>1, <2>2
<1>6. ASSUME NEW x
      PROVE  /\ UpTo(x, v, Len(v)) <=> UpTo(x, u, Len(u)) \/ (w.kind = "def" /\ x <= w.body)
             /\ IsBody(x, v) <=> IsBody(x, u) \/ (w.kind = "def" /\ w.body = x)
  <2>1. UpTo(x, v, Len(v)) => UpTo(x, u, Len(u)) \/ (w.kind = "def" /\ x <= w.body)
    BY <1>1, <1>3, Zenon DEF UpTo
  <2>2. UpTo(x, u, Len(u)) \/ (w.kind = "def" /\ x <= w.body) => UpTo(x, v, Len(v))
    BY <1>1, <1>4, Zenon DEF UpTo
  <2>3. IsBody(x, v) => IsBody(x, u) \/ (w.kind = "def" /\ w.body = x)
    BY <1>1, <1>3, Zenon DEF IsBody
  <2>4. IsBody(x, u) \/ (w.kind = "def" /\ w.body = x) => IsBody(x, v)
    BY <1>1, <1>4, Zenon DEF IsBody
  <2> QED BY <2>1, <2>2, <2>3, <2>4
<1>7. QED
  BY <1>1, <1>2, <1>5, <1>6, Zenon DEF v

\* A function takes over what is pending.
LEMMA UnitLaid ==
  ASSUME NEW f, NEW n, Len(n) \in Nat, NEW u \in Seq(UnitType), NEW w \in UnitType,
         w.kind = "def", Laid(f, n, <<>>, u, <<w.body>>)
  PROVE  Laid(f, n, <<>>, Append(u, w), <<>>)
<1> DEFINE v == Append(u, w)
<1>0. /\ Len(u) \in Nat /\ Len(v) = Len(u) + 1 /\ v[Len(v)] = w
      /\ \A i \in 1 .. Len(u) : v[i] = u[i]
      /\ \A i \in 0 .. Len(u) : /\ Bodies(f, v, i) <=> Bodies(f, u, i)
                              /\ \A x : UpTo(x, v, i) <=> UpTo(x, u, i)
      /\ Bodies(f, v, Len(v)) <=> Bodies(f, u, Len(u)) /\ (w.kind = "def" => f[w.body] # 0)
      /\ \A x : UpTo(x, v, Len(v)) <=> UpTo(x, u, Len(u)) \/ (w.kind = "def" /\ x <= w.body)
      /\ \A x : IsBody(x, v) <=> IsBody(x, u) \/ (w.kind = "def" /\ w.body = x)
  BY MoreUnits, Zenon
<1> HIDE DEF v
<1>1. /\ Bodies(f, v, Len(v)) <=> Bodies(f, u, Len(u)) /\ f[w.body] # 0
      /\ \A x : UpTo(x, v, Len(v)) <=> UpTo(x, u, Len(u)) \/ x <= w.body
      /\ \A x : IsBody(x, v) <=> IsBody(x, u) \/ w.body = x
  BY <1>0
<1>2. \A x : IsRoot(x, <<>>, v, <<>>) <=> IsRoot(x, <<>>, u, <<w.body>>)
  <2>1. \A i \in 1 .. Len(<<>>) : FALSE
    OBVIOUS
  <2>2. \A x, b, p : IsRoot(x, <<>>, b, p) <=> Among(x, p) \/ IsBody(x, b)
    BY <2>1, Zenon DEF IsRoot
  <2> QED BY <1>0, <1>1, <2>2, AmongOne, Zenon
<1>3. PICK m : Marks(f, Len(n), <<>>, <<w.body>>, m) /\ Ends(f, Len(n), u, m[Len(m)])
  BY DEF Laid
<1> DEFINE hi == m[1]
<1>4. Len(m) = 1 /\ Spans(f, <<w.body>>, hi, Len(n)) /\ Ends(f, Len(n), u, hi)
  <2>1. Len(m) = 1
    BY <1>3 DEF Marks
  <2> QED BY <1>3, <2>1 DEF Marks
<1> HIDE DEF hi
<1>5. f[w.body] # 0 => f[w.body] = hi + 1 /\ hi \in Nat /\ w.body = Len(n)
  <2> HAVE f[w.body] # 0
  <2>1. Follows(f, <<w.body>>, hi, Len(n), 1) /\ hi \in Nat
    BY <1>4 DEF Spans
  <2> QED BY <2>1 DEF Follows
<1>6. Marks(f, Len(n), <<>>, <<>>, <<Len(n)>>) /\ <<Len(n)>>[Len(<<Len(n)>>)] = Len(n)
  BY DEF Marks, Spans
<1>7. Ends(f, Len(n), v, Len(n))
  <2>1. ASSUME Bodies(f, v, Len(v)), NEW x \in 1 .. Len(n)
        PROVE  x <= Len(n) /\ UpTo(x, v, Len(v))
    <3>1. w.body = Len(n)
      BY <1>0, <1>1, <1>5, <2>1
    <3> QED BY <1>0, <1>1, <3>1
  <2> QED BY <2>1, Zenon DEF Ends
<1>8. UnitsPlaced(f, Len(n), v)
  <2>1. ASSUME NEW i \in 1 .. Len(u), Bodies(f, v, i), v[i].kind = "def", NEW x \in 1 .. Len(n)
        PROVE  x < f[v[i].body] <=> UpTo(x, v, i - 1)
    <3>1. i \in 0 .. Len(u) /\ i - 1 \in 0 .. Len(u)
      BY <1>0, <1>1
    <3>2. UnitsPlaced(f, Len(n), u)
      BY DEF Laid
    <3>3. Bodies(f, u, i) /\ u[i].kind = "def" /\ v[i] = u[i]
      BY <1>0, <1>1, <2>1, <3>1
    <3>4. x < f[u[i].body] <=> UpTo(x, u, i - 1)
      BY <3>2, <3>3, Zenon DEF UnitsPlaced
    <3> QED BY <1>0, <1>1, <3>1, <3>3, <3>4
  <2>2. ASSUME Bodies(f, v, Len(v)), NEW x \in 1 .. Len(n)
        PROVE  x < f[v[Len(v)].body] <=> UpTo(x, v, Len(v) - 1)
    <3>1. f[v[Len(v)].body] = hi + 1 /\ hi \in Nat
      BY <1>0, <1>1, <1>5, <2>2
    <3>2. x <= hi <=> UpTo(x, u, Len(u))
      BY <1>0, <1>1, <1>4, <2>2 DEF Ends
    <3>3. UpTo(x, v, Len(v) - 1) <=> UpTo(x, u, Len(u))
      <4>1. Len(v) - 1 = Len(u) /\ Len(u) \in 0 .. Len(u)
        BY <1>0, <1>1
      <4> QED BY <1>0, <1>1, <4>1
    <3>4. x < hi + 1 <=> x <= hi
      BY <3>1
    <3> QED BY <3>1, <3>2, <3>3, <3>4
  <2>3. \A i \in 1 .. Len(v) : i \in 1 .. Len(u) \/ i = Len(v)
    BY <1>0, <1>1
  <2> QED BY <2>1, <2>2, <2>3, Zenon DEF UnitsPlaced
<1>9. Laid(f, n, <<>>, v, <<>>)
  BY <1>2, <1>6, <1>7, <1>8, Zenon DEF Laid, Whole
<1> QED BY <1>9 DEF v

\* A declaration has no body.
LEMMA ExternLaid ==
  ASSUME NEW f, NEW n, Len(n) \in Nat, NEW s, NEW pend, NEW u \in Seq(UnitType), NEW w \in UnitType,
         w.kind # "def", Laid(f, n, s, u, pend)
  PROVE  Laid(f, n, s, Append(u, w), pend)
<1> DEFINE v == Append(u, w)
<1>1. /\ Len(u) \in Nat /\ Len(v) = Len(u) + 1 /\ v[Len(v)] = w
      /\ \A i \in 1 .. Len(u) : v[i] = u[i]
      /\ \A i \in 0 .. Len(u) : /\ Bodies(f, v, i) <=> Bodies(f, u, i)
                              /\ \A x : UpTo(x, v, i) <=> UpTo(x, u, i)
      /\ Bodies(f, v, Len(v)) <=> Bodies(f, u, Len(u))
      /\ \A x : UpTo(x, v, Len(v)) <=> UpTo(x, u, Len(u))
      /\ \A x : IsBody(x, v) <=> IsBody(x, u)
  BY MoreUnits, Zenon
<1> HIDE DEF v
<1>2. \A x : IsRoot(x, s, v, pend) <=> IsRoot(x, s, u, pend)
  BY <1>1, Zenon DEF IsRoot
<1>3. \A hi : Ends(f, Len(n), u, hi) => Ends(f, Len(n), v, hi)
  BY <1>1, Zenon DEF Ends
<1>4. UnitsPlaced(f, Len(n), v)
  <2>1. ASSUME NEW i \in 1 .. Len(u), Bodies(f, v, i), v[i].kind = "def", NEW x \in 1 .. Len(n)
        PROVE  x < f[v[i].body] <=> UpTo(x, v, i - 1)
    <3>1. i \in 0 .. Len(u) /\ i - 1 \in 0 .. Len(u)
      BY <1>1
    <3>2. UnitsPlaced(f, Len(n), u)
      BY DEF Laid
    <3>3. Bodies(f, u, i) /\ u[i].kind = "def" /\ v[i] = u[i]
      BY <1>1, <2>1, <3>1
    <3>4. x < f[u[i].body] <=> UpTo(x, u, i - 1)
      BY <3>2, <3>3, Zenon DEF UnitsPlaced
    <3> QED BY <1>1, <3>1, <3>3, <3>4
  <2>3. \A i \in 1 .. Len(v) : i \in 1 .. Len(u) \/ i = Len(v)
    BY <1>1
  <2> QED BY <1>1, <2>1, <2>3, Zenon DEF UnitsPlaced
<1>5. Laid(f, n, s, v, pend)
  BY <1>2, <1>3, <1>4, Zenon DEF Laid, Whole
<1> QED BY <1>5 DEF v

\* Trees that stay as they are lie where they lay.
LEMMA SameSpans ==
  ASSUME NEW f, NEW g, NEW s, NEW lo, NEW hi, Spans(g, s, lo, hi),
         \A k \in 1 .. Len(s) : f[s[k]] = g[s[k]]
  PROVE  Spans(f, s, lo, hi)
<1>1. \A k \in 1 .. Len(s) : Follows(g, s, lo, hi, k) => Follows(f, s, lo, hi, k)
  BY DEF Follows
<1> QED BY <1>1 DEF Spans

\* An expression is made of what is pending, and pending itself.
LEMMA MadeLaid ==
  ASSUME NEW e \in Seq(ExprType), NEW node, NEW f, NEW g, NEW s \in Seq(FrameType), NEW u,
         IsExpression(node, Len(e) + 1), Extension(e, node, f, g),
         \A n \in 1 .. Len(e) : g[n] \in 0 .. n, g[0] = 0,
         Laid(g, e, s, u, node.kids)
  PROVE  /\ Placed(f, node.kids, Len(e) + 1)
         /\ Laid(f, Append(e, node), s, u, <<Len(e) + 1>>)
<1> DEFINE d == Append(e, node)
           c == Len(e) + 1
           kids == node.kids
<1>1. /\ Len(e) \in Nat /\ c \in Nat /\ Len(d) = c /\ d[c] = node
      /\ \A n \in 1 .. Len(e) : d[n] = e[n] /\ n \in 1 .. c
      /\ \A n \in 1 .. c : n \in 1 .. Len(e) \/ n = c
      /\ \A n \in 0 .. Len(e) : n \in 0 .. c
      /\ c \in 0 .. c /\ c \in 1 .. c /\ c # 0 /\ c - 1 = Len(e)
  OBVIOUS
<1>2. /\ \A n \in 0 .. Len(e) : f[n] = g[n]
      /\ f[0] = 0 /\ f[c] = FirstOf(f, c, kids)
  BY DEF Extension
<1>k. kids \in Seq(0 .. c - 1) /\ Len(kids) \in Nat
  BY <1>1 DEF IsExpression
<1>3. PICK m : Marks(g, Len(e), s, kids, m) /\ Ends(g, Len(e), u, m[Len(m)])
  BY DEF Laid
<1>4. \A x : IsRoot(x, s, u, kids) => x \in 0 .. Len(e) /\ f[x] = g[x]
  BY <1>2 DEF Laid
<1>h. Laid(g, e, s, u, kids)
  OBVIOUS
<1> HIDE DEF d, c, kids
<1>5. \A i \in 1 .. Len(s) : Spans(f, Own(s[i]), m[i + 1], m[i])
  <2> TAKE i \in 1 .. Len(s)
  <2>1. \A k \in 1 .. Len(Own(s[i])) : IsRoot(Own(s[i])[k], s, u, kids)
    BY Zenon DEF IsRoot, Among
  <2>2. Spans(g, Own(s[i]), m[i + 1], m[i])
    BY <1>3 DEF Marks
  <2> QED BY <1>4, <2>1, <2>2, SameSpans
<1>6. Spans(f, kids, m[1], c - 1)
  <2>1. \A k \in 1 .. Len(kids) : IsRoot(kids[k], s, u, kids)
    BY Zenon DEF IsRoot, Among
  <2>2. Spans(g, kids, m[1], c - 1)
    BY <1>1, <1>3 DEF Marks
  <2> QED BY <1>4, <2>1, <2>2, SameSpans
<1>7. Placed(f, kids, c) /\ Spans(f, <<c>>, m[1], c)
  BY <1>1, <1>2, <1>k, <1>6, MadePlaced
<1>8. m \in Seq(Nat) /\ Len(m) = Len(s) + 1 /\ Len(s) \in Nat /\ m[Len(m)] \in Nat /\ m[Len(m)] <= Len(e)
      /\ \A i \in 1 .. Len(m) : m[i] <= c
  <2>1. m \in Seq(Nat) /\ Len(m) = Len(s) + 1 /\ Len(s) \in Nat /\ \A i \in 1 .. Len(m) : m[i] <= Len(e)
    BY <1>3 DEF Marks
  <2>2. Len(m) \in 1 .. Len(m) /\ \A i \in 1 .. Len(m) : m[i] \in Nat
    BY <2>1
  <2>3. c = Len(e) + 1
    BY DEF c
  <2> QED BY <1>1, <2>1, <2>2, <2>3
<1>9. Marks(f, c, s, <<c>>, m)
  BY <1>5, <1>7, <1>8 DEF Marks
<1>10. \A v \in 1 .. Len(u) : u[v].kind = "def" => u[v].body \in 0 .. Len(e) /\ f[u[v].body] = g[u[v].body]
  <2>1. \A v \in 1 .. Len(u) : u[v].kind = "def" => IsRoot(u[v].body, s, u, kids)
    BY Zenon DEF IsRoot, IsBody
  <2> QED BY <1>4, <2>1
<1>11. \A w \in 1 .. Len(u) : /\ Bodies(f, u, w) <=> Bodies(g, u, w)
                             /\ ~UpTo(c, u, w) /\ ~UpTo(c, u, w - 1)
  <2> TAKE w \in 1 .. Len(u)
  <2>1. \A v \in 1 .. w : v \in 1 .. Len(u)
    OBVIOUS
  <2>2. \A v \in 1 .. w - 1 : v \in 1 .. Len(u)
    OBVIOUS
  <2>3. Bodies(f, u, w) <=> Bodies(g, u, w)
    BY <1>10, <2>1, Zenon DEF Bodies
  <2>4. \A b \in 0 .. Len(e) : ~(c <= b)
    BY <1>1 DEF c
  <2> QED BY <1>10, <2>1, <2>2, <2>3, <2>4, Zenon DEF UpTo
<1>12. Bodies(f, u, Len(u)) <=> Bodies(g, u, Len(u))
  BY <1>10, Zenon DEF Bodies
<1>13. ~UpTo(c, u, Len(u))
  <2>1. \A b \in 0 .. Len(e) : ~(c <= b)
    BY <1>1 DEF c
  <2> QED BY <1>10, <2>1, Zenon DEF UpTo
<1>14. Ends(f, c, u, m[Len(m)])
  <2>1. ~(c <= m[Len(m)])
    BY <1>1, <1>8 DEF c
  <2> QED BY <1>1, <1>3, <1>12, <1>13, <2>1, Zenon DEF Ends
<1>15. UnitsPlaced(f, c, u)
  <2>1. ASSUME NEW w \in 1 .. Len(u), Bodies(f, u, w), u[w].kind = "def", NEW x \in 1 .. c
        PROVE  x < f[u[w].body] <=> UpTo(x, u, w - 1)
    <3>1. u[w].body \in 0 .. Len(e) /\ f[u[w].body] = g[u[w].body]
      BY <1>10, <2>1
    <3>2. CASE x \in 1 .. Len(e)
      <4>1. UnitsPlaced(g, Len(e), u)
        BY <1>h DEF Laid
      <4>2. Bodies(g, u, w)
        BY <1>11, <2>1
      <4>3. x < g[u[w].body] <=> UpTo(x, u, w - 1)
        BY <2>1, <3>2, <4>1, <4>2, Zenon DEF UnitsPlaced
      <4> QED BY <3>1, <4>3
    <3>3. CASE x = c
      <4> DEFINE b == u[w].body
      <4>1. g[b] \in 0 .. b /\ b \in 0 .. Len(e)
        <5>1. b = 0 \/ b \in 1 .. Len(e)
          BY <3>1
        <5> QED BY <3>1, <5>1
      <4> HIDE DEF b
      <4>2. ~(c < g[b])
        BY <1>1, <4>1 DEF c
      <4>3. ~(x < f[u[w].body])
        BY <3>1, <3>3, <4>2 DEF b
      <4> QED BY <1>11, <3>3, <4>3
    <3> QED BY <1>1, <3>2, <3>3
  <2> QED BY <2>1, Zenon DEF UnitsPlaced
<1>16. \A x : IsRoot(x, s, u, <<c>>) <=> x = c \/ IsRoot(x, s, u, <<>>)
  BY AmongOne, Zenon DEF IsRoot
<1>17. \A x : IsRoot(x, s, u, kids) <=> Among(x, kids) \/ IsRoot(x, s, u, <<>>)
  BY AmongOne, Zenon DEF IsRoot
<1>18. \A x : IsRoot(x, s, u, <<c>>) => x \in 0 .. c
  BY <1>1, <1>4, <1>16, <1>17
<1>19. Whole(f, d, s, u, <<c>>)
  <2>1. CASE \E x : IsRoot(x, s, u, kids) /\ g[x] = 0
    <3>1. PICK x : IsRoot(x, s, u, kids) /\ f[x] = 0
      BY <1>4, <2>1
    <3>2. CASE Among(x, kids)
      <4>1. f[c] = 0
        BY <1>2, <3>1, <3>2 DEF FirstOf, Among
      <4> QED BY <1>16, <4>1, Zenon DEF Whole
    <3>3. CASE ~Among(x, kids)
      <4>1. IsRoot(x, s, u, <<c>>)
        BY <1>16, <1>17, <3>1, <3>3
      <4> QED BY <3>1, <4>1, Zenon DEF Whole
    <3> QED BY <3>2, <3>3
  <2>2. CASE ~\E x : IsRoot(x, s, u, kids) /\ g[x] = 0
    <3>1. \A x \in 1 .. Len(e) :
            g[x] # 0 /\ (IsRoot(x, s, u, kids) \/ \E y \in 1 .. Len(e) : Among(x, e[y].kids))
      BY <1>h, <2>2, Zenon DEF Laid, Whole
    <3>2. f[c] # 0
      <4>1. Placed(f, kids, c)
        BY <1>7
      <4>2. \A k \in 1 .. Len(kids) : f[kids[k]] # 0
        <5>1. \A k \in 1 .. Len(kids) : IsRoot(kids[k], s, u, kids)
          BY Zenon DEF IsRoot, Among
        <5> QED BY <1>4, <2>2, <5>1
      <4> QED BY <4>1, <4>2, Zenon DEF Placed
    <3>3. ASSUME NEW x \in 1 .. Len(e)
          PROVE  f[x] # 0 /\ (IsRoot(x, s, u, <<c>>) \/ \E y \in 1 .. c : Among(x, d[y].kids))
      <4>1. f[x] # 0
        BY <1>2, <3>1
      <4>2. CASE IsRoot(x, s, u, <<>>)
        BY <1>16, <4>1, <4>2
      <4>3. CASE Among(x, kids)
        <5>1. c \in 1 .. c /\ d[c].kids = kids
          BY <1>1 DEF kids
        <5> QED BY <4>1, <4>3, <5>1
      <4>4. CASE \E y \in 1 .. Len(e) : Among(x, e[y].kids)
        BY <1>1, <4>1, <4>4
      <4> QED BY <1>17, <3>1, <4>2, <4>3, <4>4
    <3>4. IsRoot(c, s, u, <<c>>)
      BY <1>16
    <3> QED BY <1>1, <3>2, <3>3, <3>4, Zenon DEF Whole
  <2> QED BY <2>1, <2>2
<1>20. Laid(f, d, s, u, <<c>>)
  BY <1>1, <1>9, <1>14, <1>15, <1>18, <1>19, Zenon DEF Laid
<1> QED BY <1>7, <1>20 DEF d, c, kids

-----------------------------------------------------------------------------
(* The same for all first leaves that the expressions can have.            *)

Trees(n) ==
  /\ \A i \in 1 .. Len(n) : IsExpression(n[i], i)
  /\ \E f : Firsts(f, n)
  /\ \A f : Firsts(f, n) => \A i \in 1 .. Len(n) : Placed(f, n[i].kids, i)

AllLaid(n, s, u, pend) == \A f : Firsts(f, n) => Laid(f, n, s, u, pend)

LEMMA PushAll ==
  ASSUME NEW n \in Seq(ExprType), NEW g \in FrameType, NEW s \in Seq(FrameType), NEW u,
         AllLaid(n, s, u, Own(g))
  PROVE  AllLaid(n, <<g>> \o s, u, <<>>)
<1>1. Len(n) \in Nat
  OBVIOUS
<1> SUFFICES ASSUME NEW f, Firsts(f, n) PROVE Laid(f, n, <<g>> \o s, u, <<>>)
  BY Zenon DEF AllLaid
<1>2. Laid(f, n, s, u, Own(g))
  BY Zenon DEF AllLaid
<1> QED BY <1>1, <1>2, PushLaid

LEMMA PopAll ==
  ASSUME NEW n \in Seq(ExprType), NEW g \in FrameType, NEW s \in Seq(FrameType), NEW u,
         NEW pend \in Seq(Nat), AllLaid(n, <<g>> \o s, u, pend)
  PROVE  AllLaid(n, s, u, Own(g) \o pend)
<1>1. Len(n) \in Nat
  OBVIOUS
<1> SUFFICES ASSUME NEW f, Firsts(f, n) PROVE Laid(f, n, s, u, Own(g) \o pend)
  BY Zenon DEF AllLaid
<1>2. Laid(f, n, <<g>> \o s, u, pend)
  BY Zenon DEF AllLaid
<1> QED BY <1>1, <1>2, PopLaid

LEMMA SwapAll ==
  ASSUME NEW n \in Seq(ExprType), NEW g \in FrameType, NEW h \in FrameType, Own(h) = Own(g),
         NEW s \in Seq(FrameType), NEW u, NEW pend, AllLaid(n, <<g>> \o s, u, pend)
  PROVE  AllLaid(n, <<h>> \o s, u, pend)
<1>1. Len(n) \in Nat
  OBVIOUS
<1> SUFFICES ASSUME NEW f, Firsts(f, n) PROVE Laid(f, n, <<h>> \o s, u, pend)
  BY Zenon DEF AllLaid
<1>2. Laid(f, n, <<g>> \o s, u, pend)
  BY Zenon DEF AllLaid
<1> QED BY <1>1, <1>2, SwapLaid

LEMMA DropAll ==
  ASSUME NEW n \in Seq(ExprType), NEW s, NEW u, NEW pend, AllLaid(n, s, u, pend)
  PROVE  AllLaid(n, s, u, <<0>>)
<1>1. Len(n) \in Nat
  OBVIOUS
<1> SUFFICES ASSUME NEW f, Firsts(f, n) PROVE Laid(f, n, s, u, <<0>>)
  BY Zenon DEF AllLaid
<1>2. Laid(f, n, s, u, pend)
  BY Zenon DEF AllLaid
<1>3. f[0] = 0
  BY <1>1, FirstsAt
<1> QED BY <1>1, <1>2, <1>3, DropLaid

LEMMA UnitAll ==
  ASSUME NEW n \in Seq(ExprType), NEW u \in Seq(UnitType), NEW w \in UnitType,
         w.kind = "def", AllLaid(n, <<>>, u, <<w.body>>)
  PROVE  AllLaid(n, <<>>, Append(u, w), <<>>)
<1>1. Len(n) \in Nat
  OBVIOUS
<1> SUFFICES ASSUME NEW f, Firsts(f, n) PROVE Laid(f, n, <<>>, Append(u, w), <<>>)
  BY Zenon DEF AllLaid
<1>2. Laid(f, n, <<>>, u, <<w.body>>)
  BY Zenon DEF AllLaid
<1> QED BY <1>1, <1>2, UnitLaid

LEMMA ExternAll ==
  ASSUME NEW n \in Seq(ExprType), NEW s, NEW pend, NEW u \in Seq(UnitType), NEW w \in UnitType,
         w.kind # "def", AllLaid(n, s, u, pend)
  PROVE  AllLaid(n, s, Append(u, w), pend)
<1>1. Len(n) \in Nat
  OBVIOUS
<1> SUFFICES ASSUME NEW f, Firsts(f, n) PROVE Laid(f, n, s, Append(u, w), pend)
  BY Zenon DEF AllLaid
<1>2. Laid(f, n, s, u, pend)
  BY Zenon DEF AllLaid
<1> QED BY <1>1, <1>2, ExternLaid

\* What is pending was made before.
LEMMA PendingMade ==
  ASSUME NEW n \in Seq(ExprType), Trees(n), NEW s, NEW u, NEW pend \in Seq(Nat), AllLaid(n, s, u, pend)
  PROVE  pend \in Seq(0 .. Len(n))
<1>1. PICK f : Firsts(f, n)
  BY DEF Trees
<1>2. Laid(f, n, s, u, pend)
  BY <1>1, Zenon DEF AllLaid
<1>3. \A k \in 1 .. Len(pend) : pend[k] \in 0 .. Len(n)
  <2>1. \A k \in 1 .. Len(pend) : IsRoot(pend[k], s, u, pend)
    BY Zenon DEF IsRoot, Among
  <2> QED BY <1>2, <2>1, Zenon DEF Laid
<1> QED BY <1>3

LEMMA MadeAll ==
  ASSUME NEW n \in Seq(ExprType), Trees(n), NEW node \in ExprType, IsExpression(node, Len(n) + 1),
         NEW s \in Seq(FrameType), NEW u, AllLaid(n, s, u, node.kids)
  PROVE  /\ Trees(Append(n, node))
         /\ AllLaid(Append(n, node), s, u, <<Len(n) + 1>>)
<1> DEFINE d == Append(n, node)
<1>1. /\ Len(n) \in Nat /\ Len(d) = Len(n) + 1 /\ d[Len(n) + 1] = node
      /\ \A i \in 1 .. Len(n) : d[i] = n[i] /\ i \in 0 .. Len(n)
      /\ \A i \in 1 .. Len(d) : i \in 1 .. Len(n) \/ i = Len(n) + 1
      /\ n \in Seq({n[i] : i \in DOMAIN n})
  OBVIOUS
<1>2. \A i \in 1 .. Len(n) : IsExpression(n[i], i)
  BY DEF Trees
<1>3. \A i \in 1 .. Len(d) : IsExpression(d[i], i)
  <2> HIDE DEF d
  <2> QED BY <1>1, <1>2
<1>4. \E f : Firsts(f, d)
  <2>1. PICK g : Firsts(g, n)
    BY DEF Trees
  <2> QED BY <1>1, <1>2, <2>1, Extended
<1>5. ASSUME NEW f, Firsts(f, d)
      PROVE  /\ \A i \in 1 .. Len(d) : Placed(f, d[i].kids, i)
             /\ Laid(f, d, s, u, <<Len(n) + 1>>)
  <2>1. PICK g : Extension(n, node, f, g)
    BY <1>1, <1>2, <1>5, Restricted
  <2>2. Firsts(g, n) /\ \A i \in 0 .. Len(n) : f[i] = g[i]
    BY <2>1 DEF Extension
  <2>3. g[0] = 0
    BY <1>1, <2>2, FirstsAt
  <2>4. \A i \in 1 .. Len(n) : Placed(g, n[i].kids, i)
    BY <2>2, Zenon DEF Trees
  <2>5. \A i \in 1 .. Len(n) : g[i] \in 0 .. i
    BY <2>4, Zenon DEF Placed
  <2>6. Laid(g, n, s, u, node.kids)
    BY <2>2, Zenon DEF AllLaid
  <2>7. Placed(f, node.kids, Len(n) + 1) /\ Laid(f, d, s, u, <<Len(n) + 1>>)
    BY <2>1, <2>3, <2>5, <2>6, MadeLaid
  <2>8. ASSUME NEW i \in 1 .. Len(n) PROVE Placed(f, n[i].kids, i)
    <3> DEFINE kids == n[i].kids
    <3>1. kids \in Seq(0 .. i - 1)
      BY <1>2 DEF IsExpression
    <3>2. \A k \in 1 .. Len(kids) : f[kids[k]] = g[kids[k]]
      <4>1. \A k \in 1 .. Len(kids) : kids[k] \in 0 .. i - 1
        BY <3>1
      <4>2. \A j \in 0 .. i - 1 : j \in 0 .. Len(n)
        BY <1>1
      <4> QED BY <2>2, <4>1, <4>2
    <3>3. f[i] = g[i]
      BY <1>1, <2>2
    <3>4. Placed(g, kids, i)
      BY <2>4
    <3> HIDE DEF kids
    <3>5. Placed(f, kids, i)
      BY <3>2, <3>3, <3>4 DEF Placed
    <3> QED BY <3>5 DEF kids
  <2> HIDE DEF d
  <2> QED BY <1>1, <2>7, <2>8
<1> HIDE DEF d
<1>6. Trees(d) /\ AllLaid(d, s, u, <<Len(n) + 1>>)
  BY <1>3, <1>4, <1>5, Zenon DEF Trees, AllLaid
<1> QED BY <1>6 DEF d

-----------------------------------------------------------------------------
(* The inductive invariant of the parser.                                  *)

BinOps == {"<", ">", "+", "-", "*"}

\* What is pending in a state: the expression on its way to the caller, or
\* the null pointer that may come of an error.
Pend ==
  CASE pc \in {"fail", "rejected"} -> <<0>>
    [] ReturnsExpr                 -> <<ret>>
    [] OTHER                       -> <<>>

\* An expression is never parsed for a type, and types are not nested in
\* other calls than those of parsePrototype.
StackPlaced(s) ==
  \A i \in 1 .. Len(s) :
    /\ s[i].fn \in {"arg", "result"} => i = Len(s)
    /\ s[i].fn \notin TypeFrames /\ i < Len(s) => s[i + 1].fn \notin TypeFrames
    /\ s[i].fn \in {"rhs", "merge"} => s[i].name \in BinOps

Between == {"parse", "name", "open", "args", "result", "accepted"}

PlaceInv ==
  /\ StackPlaced(stack)
  /\ pc \in Between => stack = <<>>
  /\ pc = "primary" => stack # <<>> /\ Top.fn \notin TypeFrames
  /\ ReturnsExpr \/ (stack # <<>> /\ Top.fn \notin TypeFrames) => unit.kind = "def"
  /\ \A v \in 1 .. Len(units) : units[v].kind \in {"def", "extern"}

LayoutInv == PlaceInv /\ Trees(nodes) /\ AllLaid(nodes, stack, units, Pend)

LEMMA PendIs ==
  /\ pc \in {"fail", "rejected"} => Pend = <<0>>
  /\ pc \notin {"fail", "rejected", "return"} => Pend = <<>>
  /\ pc = "return" /\ (stack = <<>> \/ Top.fn \notin TypeFrames) => Pend = <<ret>> /\ ReturnsExpr
  /\ pc = "return" /\ stack # <<>> /\ Top.fn \in TypeFrames => Pend = <<>>
BY DEF Pend, ReturnsExpr, TypeFrames

\* A frame in front of others.
LEMMA FrontPlaced ==
  ASSUME NEW g \in FrameType, NEW s \in Seq(FrameType)
  PROVE  StackPlaced(<<g>> \o s) <=>
           /\ StackPlaced(s)
           /\ g.fn \in {"arg", "result"} => s = <<>>
           /\ g.fn \notin TypeFrames /\ s # <<>> => Head(s).fn \notin TypeFrames
           /\ g.fn \in {"rhs", "merge"} => g.name \in BinOps
<1> DEFINE t == <<g>> \o s
           Ok(r, i) == /\ r[i].fn \in {"arg", "result"} => i = Len(r)
                       /\ r[i].fn \notin TypeFrames /\ i < Len(r) => r[i + 1].fn \notin TypeFrames
                       /\ r[i].fn \in {"rhs", "merge"} => r[i].name \in BinOps
<1>1. /\ Len(t) = Len(s) + 1 /\ t[1] = g /\ Len(s) \in Nat /\ 1 \in 1 .. Len(t)
      /\ \A i \in 1 .. Len(s) : i + 1 \in 1 .. Len(t) /\ t[i + 1] = s[i]
      /\ \A i \in 1 .. Len(t) : i = 1 \/ (i - 1 \in 1 .. Len(s) /\ t[i] = s[i - 1])
      /\ (s # <<>> => 1 \in 1 .. Len(s) /\ Head(s) = s[1]) /\ (s = <<>> <=> Len(s) = 0)
  BY InFront
<1> HIDE DEF t
<1>2. Ok(t, 1) <=> /\ g.fn \in {"arg", "result"} => s = <<>>
                   /\ g.fn \notin TypeFrames /\ s # <<>> => Head(s).fn \notin TypeFrames
                   /\ g.fn \in {"rhs", "merge"} => g.name \in BinOps
  <2>1. (1 = Len(t) <=> s = <<>>) /\ (1 < Len(t) <=> s # <<>>)
    BY <1>1
  <2>2. s # <<>> => t[1 + 1] = Head(s)
    BY <1>1
  <2> QED BY <1>1, <2>1, <2>2
<1>3. ASSUME NEW i \in 1 .. Len(s) PROVE Ok(t, i + 1) <=> Ok(s, i)
  <2>1. /\ i + 1 \in 1 .. Len(t) /\ t[i + 1] = s[i] /\ (i + 1 = Len(t) <=> i = Len(s))
        /\ (i + 1 < Len(t) <=> i < Len(s))
    BY <1>1
  <2>2. i < Len(s) => t[(i + 1) + 1] = s[i + 1]
    BY <1>1
  <2> QED BY <2>1, <2>2
<1> HIDE DEF Ok
<1>4. (\A i \in 1 .. Len(t) : Ok(t, i)) <=> Ok(t, 1) /\ \A i \in 1 .. Len(s) : Ok(s, i)
  <2>1. ASSUME \A i \in 1 .. Len(t) : Ok(t, i) PROVE Ok(t, 1) /\ \A i \in 1 .. Len(s) : Ok(s, i)
    BY <1>1, <1>3, <2>1
  <2>2. ASSUME Ok(t, 1), \A i \in 1 .. Len(s) : Ok(s, i), NEW j \in 1 .. Len(t) PROVE Ok(t, j)
    <3>1. CASE j = 1
      BY <2>2, <3>1
    <3>2. CASE j # 1
      <4>1. j - 1 \in 1 .. Len(s) /\ (j - 1) + 1 = j
        BY <1>1, <3>2
      <4>2. Ok(t, (j - 1) + 1) <=> Ok(s, j - 1)
        BY <1>3, <4>1
      <4> QED BY <2>2, <4>1, <4>2
    <3> QED BY <3>1, <3>2
  <2> QED BY <2>1, <2>2
<1>5. \A r : StackPlaced(r) <=> \A i \in 1 .. Len(r) : Ok(r, i)
  BY Zenon DEF StackPlaced, Ok
<1>6. StackPlaced(t) <=> Ok(t, 1) /\ StackPlaced(s)
  BY <1>4, <1>5, Zenon
<1> QED BY <1>2, <1>6, Zenon DEF t

\* The innermost frame.
LEMMA TopPlaced ==
  ASSUME TypeOK, OwnerInv, PlaceInv, stack # <<>>
  PROVE  /\ Top \in FrameType /\ Tail(stack) \in Seq(FrameType) /\ stack = <<Top>> \o Tail(stack)
         /\ StackPlaced(Tail(stack))
         /\ Top.fn \in {"arg", "result"} => Tail(stack) = <<>>
         /\ Top.fn \notin TypeFrames /\ Tail(stack) # <<>> => Head(Tail(stack)).fn \notin TypeFrames
         /\ Top.fn \in {"rhs", "merge"} => Top.name \in BinOps
         /\ Top.fn = "template" => Tail(stack) # <<>> /\ Head(Tail(stack)).fn \in TypeFrames
<1>1. Top \in FrameType /\ Tail(stack) \in Seq(FrameType)
  BY TopType
<1>2. stack = <<Top>> \o Tail(stack)
  <2>1. stack \in Seq(FrameType)
    BY DEF TypeOK
  <2> QED BY <2>1 DEF Top
<1>3. StackPlaced(<<Top>> \o Tail(stack))
  BY <1>2, Zenon DEF PlaceInv
<1>4. Top.fn = "template" => Tail(stack) # <<>> /\ Head(Tail(stack)).fn \in TypeFrames
  BY TopOff
<1> QED BY <1>1, <1>2, <1>3, <1>4, FrontPlaced

-----------------------------------------------------------------------------
(* The steps of the parser, as such moves.                                 *)

\* What is pending after a step.
LEMMA PendNext ==
  /\ pc' \in {"fail", "rejected"} => Pend' = <<0>>
  /\ pc' \notin {"fail", "rejected", "return"} => Pend' = <<>>
  /\ pc' = "return" /\ (stack' = <<>> \/ Head(stack').fn \notin TypeFrames) => Pend' = <<ret'>>
  /\ pc' = "return" /\ stack' # <<>> /\ Head(stack').fn \in TypeFrames => Pend' = <<>>
BY DEF Pend, ReturnsExpr, TypeFrames, Top

\* The invariant from where a step puts things.
LEMMA LayoutIntro ==
  ASSUME NEW pend, Pend' = pend, Trees(nodes'), AllLaid(nodes', stack', units', pend), PlaceInv'
  PROVE  LayoutInv'
BY DEF LayoutInv

\* A function is under construction while an expression is parsed.
LEMMA InFunction ==
  ASSUME TypeOK, PlaceInv,
         \/ pc \in {"primary", "list", "binop"}
         \/ pc = "return" /\ (stack = <<>> \/ Top.fn \notin TypeFrames)
         \/ stack # <<>> /\ Top.fn \notin TypeFrames
  PROVE  unit.kind = "def" /\ (pc \in {"primary", "list", "binop"} => stack # <<>> /\ Top.fn \notin TypeFrames)
<1>1. pc = "return" /\ (stack = <<>> \/ Top.fn \notin TypeFrames) => ReturnsExpr
  BY DEF ReturnsExpr, TypeFrames
<1>2. pc \in {"list", "binop"} => stack # <<>> /\ Top.fn \notin TypeFrames
  BY DEF TypeOK, LoopFrames, TypeFrames
<1> QED BY <1>1, <1>2 DEF PlaceInv

\* A step of parsing an expression.
LEMMA ExprPlaced ==
  ASSUME PlaceInv, StackPlaced(stack'), pc' \notin Between, unit'.kind = "def", UNCHANGED units,
         pc' = "primary" => stack' # <<>> /\ Head(stack').fn \notin TypeFrames
  PROVE  PlaceInv'
BY DEF PlaceInv, Top

\* A frame that holds nothing goes on the stack.
LEMMA EmptyFrame ==
  ASSUME NEW n \in Seq(ExprType), NEW s \in Seq(FrameType), NEW u, AllLaid(n, s, u, <<>>),
         NEW fn \in FrameName, NEW name \in Name, fn \notin BinOpFrames
  PROVE  /\ AllLaid(n, <<NamedFrame(fn, name)>> \o s, u, <<>>)
         /\ <<NamedFrame(fn, name)>> \o s \in Seq(FrameType)
         /\ <<NamedFrame(fn, name)>> \o s # <<>>
         /\ Head(<<NamedFrame(fn, name)>> \o s).fn = fn
<1> DEFINE g == NamedFrame(fn, name)
<1>1. g \in FrameType /\ g.fn = fn /\ g.kids = <<>>
  BY MakeFrame DEF NamedFrame
<1>2. Own(g) = <<>>
  BY <1>1 DEF Own
<1> HIDE DEF g
<1>3. AllLaid(n, <<g>> \o s, u, <<>>)
  BY <1>1, <1>2, PushAll
<1> QED BY <1>1, <1>3, PushFrame DEF g

\* A call of parseExpression.
LEMMA CallLaid ==
  ASSUME NEW n \in Seq(ExprType), NEW frames \in Seq(FrameType), NEW u, AllLaid(n, frames, u, <<>>),
         StackPlaced(frames), frames # <<>> => Head(frames).fn \notin TypeFrames,
         CallExpression(frames)
  PROVE  /\ AllLaid(n, stack', u, <<>>) /\ StackPlaced(stack') /\ pc' = "primary"
         /\ stack' # <<>> /\ Head(stack').fn \notin TypeFrames
<1> DEFINE g == NamedFrame("expression", "")
<1>1. "expression" \in FrameName /\ "" \in Name /\ "expression" \notin BinOpFrames
      /\ "expression" \notin TypeFrames /\ "expression" \notin {"arg", "result", "rhs", "merge"}
  BY DEF FrameName, Name, BinOpFrames, TypeFrames
<1>2. /\ AllLaid(n, <<g>> \o frames, u, <<>>) /\ <<g>> \o frames # <<>>
      /\ Head(<<g>> \o frames).fn = "expression"
  BY <1>1, EmptyFrame, ZenonT(60)
<1>3. g \in FrameType /\ g.fn = "expression"
  BY <1>1, MakeFrame DEF NamedFrame
<1> HIDE DEF g
<1>4. StackPlaced(<<g>> \o frames)
  BY <1>1, <1>3, FrontPlaced
<1>5. stack' = <<g>> \o frames /\ pc' = "primary"
  BY Zenon DEF CallExpression, ExpressionFrame, Frame, g
<1> QED BY <1>1, <1>2, <1>4, <1>5

\* Calling parseExpression for a function, with nothing pending.
LEMMA CallLayout ==
  ASSUME PlaceInv, Trees(nodes), nodes \in Seq(ExprType), NEW frames \in Seq(FrameType),
         AllLaid(nodes, frames, units, <<>>), StackPlaced(frames),
         frames # <<>> => Head(frames).fn \notin TypeFrames,
         CallExpression(frames), UNCHANGED <<nodes, units>>, unit'.kind = "def"
  PROVE  LayoutInv'
<1>1. /\ AllLaid(nodes, stack', units, <<>>) /\ StackPlaced(stack') /\ pc' = "primary"
      /\ stack' # <<>> /\ Head(stack').fn \notin TypeFrames
  BY CallLaid
<1>2. PlaceInv'
  BY <1>1, ExprPlaced DEF Between
<1>3. Pend' = <<>>
  BY <1>1, PendNext
<1> QED BY <1>1, <1>2, <1>3, LayoutIntro

\* What the invariant says of the innermost frame when its function goes on.
LEMMA TopLaid ==
  ASSUME TypeOK, OwnerInv, LayoutInv, stack # <<>>
  PROVE  /\ Own(Top) \in Seq(Nat) /\ Pend \in Seq(Nat)
         /\ AllLaid(nodes, Tail(stack), units, Own(Top) \o Pend)
<1>1. Top \in FrameType /\ Tail(stack) \in Seq(FrameType) /\ stack = <<Top>> \o Tail(stack)
  BY TopPlaced DEF LayoutInv
<1>2. Pend \in Seq(Nat)
  BY DEF Pend, TypeOK
<1>3. AllLaid(nodes, <<Top>> \o Tail(stack), units, Pend)
  BY <1>1, Zenon DEF LayoutInv
<1>4. nodes \in Seq(ExprType)
  BY DEF TypeOK
<1> QED BY <1>1, <1>2, <1>3, <1>4, OwnSeq, PopAll

\* An expression is made of what is pending.
LEMMA MakeLaid ==
  ASSUME TypeOK, Trees(nodes), NEW s \in Seq(FrameType), NEW node \in ExprType,
         AllLaid(nodes, s, units, node.kids), nodes' = Append(nodes, node),
         \/ node.kind \in {"literal", "var", "subscript"} /\ node.kids = <<>>
         \/ node.kind = "binary" /\ Len(node.kids) = 2 /\ node.name \in BinOps
         \/ node.kind \in {"list", "call"},
         node.kind = "literal" => node.name \in Literal
  PROVE  Trees(nodes') /\ AllLaid(nodes', s, units, <<Len(nodes) + 1>>)
<1>1. nodes \in Seq(ExprType) /\ Len(nodes) \in Nat /\ (Len(nodes) + 1) - 1 = Len(nodes)
  BY DEF TypeOK
<1>2. node.kids \in Seq(Nat)
  BY DEF ExprType
<1>3. node.kids \in Seq(0 .. Len(nodes))
  BY <1>1, <1>2, PendingMade
<1>4. IsExpression(node, Len(nodes) + 1)
  BY <1>1, <1>3 DEF IsExpression, BinOps
<1> QED BY <1>1, <1>4, MadeAll

\* A step that makes an expression and returns it.
LEMMA MakeLayout ==
  ASSUME TypeOK, PlaceInv, Trees(nodes), NEW node \in ExprType, stack' \in Seq(FrameType),
         AllLaid(nodes, stack', units, node.kids), nodes' = Append(nodes, node),
         \/ node.kind \in {"literal", "var", "subscript"} /\ node.kids = <<>>
         \/ node.kind \in {"list", "call"},
         node.kind = "literal" => node.name \in Literal,
         Return(Len(nodes) + 1), unit.kind = "def", UNCHANGED <<unit, units>>,
         StackPlaced(stack'), stack' # <<>> => Head(stack').fn \notin TypeFrames
  PROVE  LayoutInv'
<1>1. Trees(nodes') /\ AllLaid(nodes', stack', units, <<Len(nodes) + 1>>)
  BY MakeLaid
<1>2. pc' = "return" /\ ret' = Len(nodes) + 1
  BY DEF Return
<1>3. PlaceInv'
  BY <1>2, ExprPlaced DEF Between
<1>4. Pend' = <<Len(nodes) + 1>>
  BY <1>2, PendNext
<1> QED BY <1>1, <1>3, <1>4, LayoutIntro

\* Steps between the expressions of a unit.
LEMMA QuietLayout ==
  ASSUME TypeOK, OwnerInv, LayoutInv,
         \/ ParseEnd \/ ParseSemicolon \/ ParseKeyword \/ PrototypeName
         \/ PrototypeOpen \/ PrototypeClose \/ Reject
  PROVE  LayoutInv'
<1>1. /\ UNCHANGED <<nodes, stack, units>>
      /\ \/ pc \in Between /\ pc' \in Between
         \/ pc = "fail" /\ pc' = "rejected" /\ stack = <<>> /\ UNCHANGED unit
  BY Zenon DEF ParseEnd, ParseSemicolon, ParseKeyword, PrototypeName, PrototypeOpen,
               PrototypeClose, Reject, heap, Between
<1>2. stack = <<>>
  BY <1>1 DEF LayoutInv, PlaceInv
<1>3. Pend' = Pend
  BY <1>1, PendIs, PendNext DEF Between
<1>4. pc' \notin {"return", "primary"}
  BY <1>1 DEF Between
<1>5. PlaceInv'
  BY <1>1, <1>2, <1>4 DEF LayoutInv, PlaceInv, ReturnsExpr
<1> QED BY <1>1, <1>3, <1>5 DEF LayoutInv

\* The frames of types, on the empty stack or on one another.
LEMMA TypePlaced ==
  ASSUME PlaceInv, StackPlaced(stack'), stack' # <<>>, Head(stack').fn \in TypeFrames,
         pc' \in {"type", "return"}, UNCHANGED units
  PROVE  PlaceInv'
BY DEF PlaceInv, Between, ReturnsExpr, Top, TypeFrames

\* An argument's or a result's type is begun, or a list or a parenthesis.
LEMMA PushLayout ==
  ASSUME TypeOK, InBounds, OwnerInv, LayoutInv,
         \/ PrototypeArg \/ PrototypeType \/ ParseListExpr \/ ParseParenExpr
         \/ ParseTopLevelExpr \/ ParseListElement
  PROVE  LayoutInv'
<1>0. /\ stack \in Seq(FrameType) /\ unit \in UnitType /\ nodes \in Seq(ExprType)
      /\ PlaceInv /\ Trees(nodes) /\ AllLaid(nodes, stack, units, Pend) /\ StackPlaced(stack)
      /\ UNCHANGED <<nodes, units>>
      /\ pc \in {"args", "result", "primary", "parse", "list"}
  BY Zenon DEF TypeOK, LayoutInv, PlaceInv, PrototypeArg, PrototypeType, ParseListExpr, ParseParenExpr,
               ParseTopLevelExpr, ParseListElement, heap
<1>1. AllLaid(nodes, stack, units, <<>>)
  BY <1>0, PendIs
<1>2. /\ "" \in Name /\ {"arg", "result", "list", "paren"} \subseteq FrameName
      /\ \A fn \in {"arg", "result", "list", "paren"} : fn \notin BinOpFrames
      /\ \A fn \in {"arg", "result"} : fn \in TypeFrames
      /\ \A fn \in {"list", "paren"} : fn \notin TypeFrames \cup {"arg", "result", "rhs", "merge"}
  BY DEF FrameName, Name, BinOpFrames, TypeFrames
<1>3. ASSUME NEW fn \in {"arg", "result", "list", "paren"}
      PROVE  LET g == NamedFrame(fn, "")
             IN  /\ AllLaid(nodes, <<g>> \o stack, units, <<>>)
                 /\ <<g>> \o stack \in Seq(FrameType) /\ <<g>> \o stack # <<>>
                 /\ Head(<<g>> \o stack).fn = fn /\ g \in FrameType /\ g.fn = fn
  <2>1. NamedFrame(fn, "") \in FrameType /\ NamedFrame(fn, "").fn = fn
    BY <1>2, MakeFrame DEF NamedFrame
  <2>2. fn \in FrameName /\ fn \notin BinOpFrames
    BY <1>2
  <2>3. "" \in Name /\ stack \in Seq(FrameType) /\ nodes \in Seq(ExprType)
    BY <1>0, <1>2
  <2>4. /\ AllLaid(nodes, <<NamedFrame(fn, "")>> \o stack, units, <<>>)
        /\ <<NamedFrame(fn, "")>> \o stack \in Seq(FrameType) /\ <<NamedFrame(fn, "")>> \o stack # <<>>
        /\ Head(<<NamedFrame(fn, "")>> \o stack).fn = fn
    BY <1>1, <2>2, <2>3, EmptyFrame, ZenonT(60)
  <2> QED BY <2>1, <2>4
<1>4. ASSUME PrototypeArg \/ PrototypeType PROVE LayoutInv'
  <2>1. /\ pc \in Between /\ pc' = "type"
        /\ \E fn \in {"arg", "result"} : stack' = <<NamedFrame(fn, "")>> \o stack
    BY <1>4, Zenon DEF PrototypeArg, PrototypeType, Push, Frame, Between
  <2>2. PICK fn \in {"arg", "result"} : stack' = <<NamedFrame(fn, "")>> \o stack
    BY <2>1
  <2> DEFINE g == NamedFrame(fn, "")
  <2>3. /\ AllLaid(nodes', stack', units', <<>>) /\ stack' # <<>> /\ Head(stack').fn \in TypeFrames
        /\ g \in FrameType /\ g.fn = fn /\ stack' = <<g>> \o stack
    BY <1>0, <1>2, <1>3, <2>2
  <2> HIDE DEF g
  <2>4. stack = <<>> /\ fn \notin {"rhs", "merge"} /\ fn \in TypeFrames
    BY <1>0, <1>2, <2>1 DEF PlaceInv
  <2>5. StackPlaced(stack')
    BY <1>0, <2>3, <2>4, FrontPlaced
  <2>6. PlaceInv' /\ Pend' = <<>>
    BY <1>0, <2>1, <2>3, <2>5, TypePlaced, PendNext
  <2> QED BY <1>0, <2>3, <2>6, LayoutIntro
<1>5. ASSUME ParseListExpr \/ ParseParenExpr PROVE LayoutInv'
  <2>1. /\ pc = "primary" /\ UNCHANGED unit
        /\ \/ stack' = <<NamedFrame("list", "")>> \o stack /\ pc' = "list"
           \/ CallExpression(<<NamedFrame("paren", "")>> \o stack)
    BY <1>5, Zenon DEF ParseListExpr, ParseParenExpr, Push, Frame
  <2>2. unit.kind = "def" /\ stack # <<>> /\ Top.fn \notin TypeFrames
    BY <1>0, <2>1, InFunction
  <2>3. ASSUME NEW fn \in {"list", "paren"} PROVE StackPlaced(<<NamedFrame(fn, "")>> \o stack)
    <3> DEFINE g == NamedFrame(fn, "")
    <3>1. g \in FrameType /\ g.fn = fn /\ fn \notin TypeFrames \cup {"arg", "result", "rhs", "merge"}
      BY <1>2, <1>3
    <3> HIDE DEF g
    <3>2. StackPlaced(<<g>> \o stack)
      BY <1>0, <2>2, <3>1, FrontPlaced DEF Top
    <3> QED BY <3>2 DEF g
  <2>4. CASE stack' = <<NamedFrame("list", "")>> \o stack /\ pc' = "list"
    <3>1. AllLaid(nodes', stack', units', <<>>) /\ StackPlaced(stack')
      BY <1>0, <1>3, <2>3, <2>4
    <3>2. PlaceInv'
      BY <1>0, <2>1, <2>2, <2>4, <3>1, ExprPlaced DEF Between
    <3>3. Pend' = <<>>
      BY <2>4, PendNext
    <3> QED BY <1>0, <3>1, <3>2, <3>3, LayoutIntro
  <2>5. CASE CallExpression(<<NamedFrame("paren", "")>> \o stack)
    <3> DEFINE frames == <<NamedFrame("paren", "")>> \o stack
    <3>1. /\ AllLaid(nodes, frames, units, <<>>) /\ frames \in Seq(FrameType)
          /\ Head(frames).fn = "paren" /\ StackPlaced(frames) /\ CallExpression(frames)
      BY <1>3, <2>3, <2>5
    <3> HIDE DEF frames
    <3>2. Head(frames).fn \notin TypeFrames
      BY <1>2, <3>1
    <3>3. unit'.kind = "def"
      BY <2>1, <2>2
    <3> QED BY <1>0, <3>1, <3>2, <3>3, CallLayout
  <2> QED BY <2>1, <2>4, <2>5
<1>6. ASSUME ParseTopLevelExpr \/ ParseListElement PROVE LayoutInv'
  <2>1. /\ CallExpression(stack)
        /\ \/ pc = "list" /\ unit' = unit
           \/ pc = "parse" /\ unit' = [NoUnit EXCEPT !.kind = "def", !.name = "__anon_expr"]
    BY <1>6, Zenon DEF ParseTopLevelExpr, ParseListElement
  <2>2. [NoUnit EXCEPT !.kind = "def", !.name = "__anon_expr"].kind = "def"
    BY DEF NoUnit
  <2>3. pc = "list" => unit.kind = "def" /\ Top.fn \notin TypeFrames
    BY <1>0, InFunction
  <2>4. pc = "parse" => stack = <<>>
    BY <1>0 DEF PlaceInv, Between
  <2>5. unit'.kind = "def" /\ (stack # <<>> => Head(stack).fn \notin TypeFrames)
    BY <2>1, <2>2, <2>3, <2>4 DEF Top
  <2> QED BY <1>0, <1>1, <2>1, <2>5, CallLayout
<1> QED BY <1>4, <1>5, <1>6

\* A literal, a variable, a subscript or a call without arguments is made,
\* or the error found before it.
LEMMA LeafLayout ==
  ASSUME TypeOK, InBounds, OwnerInv, LayoutInv,
         ParseLiteral \/ ParseVariable \/ ParseSubscript \/ ParseCall
  PROVE  LayoutInv'
<1>0. /\ stack \in Seq(FrameType) /\ nodes \in Seq(ExprType) /\ pc = "primary"
      /\ PlaceInv /\ Trees(nodes) /\ AllLaid(nodes, stack, units, Pend) /\ StackPlaced(stack)
      /\ UNCHANGED <<units, unit>> /\ Tok \in Name
  BY Names, Zenon DEF TypeOK, LayoutInv, PlaceInv, ParseLiteral, ParseVariable, ParseSubscript, ParseCall
<1>1. AllLaid(nodes, stack, units, <<>>)
  BY <1>0, PendIs
<1>2. unit.kind = "def" /\ stack # <<>> /\ Top.fn \notin TypeFrames
  BY <1>0, InFunction
<1>3. ASSUME NEW node \in ExprType, node.kids = <<>>, nodes' = Append(nodes, node), Return(Len(nodes) + 1),
             UNCHANGED stack, node.kind \in {"literal", "var", "subscript", "call"},
             node.kind = "literal" => node.name \in Literal
      PROVE  LayoutInv'
  BY <1>0, <1>1, <1>2, <1>3, MakeLayout DEF Top
<1>4. ASSUME NEW kind \in {"literal", "var", "call"}, MakeExpr(kind, Tok, <<>>), UNCHANGED stack,
             kind = "literal" => Tok \in Literal
      PROVE  LayoutInv'
  <2> DEFINE e == [kind |-> kind, name |-> Tok, kids |-> <<>>, index |-> ""]
  <2>1. e \in ExprType /\ e.kids = <<>> /\ e.kind = kind /\ e.name = Tok
    BY <1>0, NewNode, NoKids DEF ExprKind
  <2>2. nodes' = Append(nodes, e) /\ Return(Len(nodes) + 1)
    BY <1>4, Zenon DEF MakeExpr, NewExpr
  <2> HIDE DEF e
  <2> QED BY <1>3, <1>4, <2>1, <2>2
<1>5. ASSUME ParseSubscript PROVE LayoutInv'
  <2>1. UNCHANGED stack /\ \/ pc' = "fail" /\ UNCHANGED nodes
                           \/ /\ tokens[pos + 2] \in RealLiteral /\ NewSubscript(Tok, tokens[pos + 2])
                              /\ Return(Len(nodes) + 1)
    BY <1>5, Zenon DEF ParseSubscript, Fail, heap
  <2>2. CASE pc' = "fail" /\ UNCHANGED nodes
    <3>1. Pend' = <<0>> /\ AllLaid(nodes', stack', units', <<0>>)
      BY <1>0, <1>1, <2>1, <2>2, DropAll, PendNext
    <3>2. PlaceInv'
      BY <1>0, <1>2, <2>1, <2>2, ExprPlaced DEF Between
    <3> QED BY <1>0, <2>2, <3>1, <3>2, LayoutIntro
  <2>3. CASE /\ tokens[pos + 2] \in RealLiteral /\ NewSubscript(Tok, tokens[pos + 2])
             /\ Return(Len(nodes) + 1)
    <3> DEFINE index == tokens[pos + 2]
               e == [kind |-> "subscript", name |-> Tok, kids |-> <<>>, index |-> index]
    <3>1. index \in Name
      BY <2>3 DEF Name, Token, Literal
    <3>2. e \in ExprType /\ e.kids = <<>> /\ e.kind = "subscript"
      BY <1>0, <3>1, NoKids DEF ExprType, ExprKind
    <3>3. nodes' = Append(nodes, e)
      BY <2>3, Zenon DEF NewSubscript
    <3> HIDE DEF e
    <3> QED BY <1>3, <2>1, <2>3, <3>2, <3>3
  <2> QED BY <2>1, <2>2, <2>3
<1>6. ASSUME ParseCall PROVE LayoutInv'
  <2>1. \/ MakeExpr("call", Tok, <<>>) /\ UNCHANGED stack
        \/ CallExpression(<<NamedFrame("call", Tok)>> \o stack) /\ UNCHANGED nodes
    BY <1>6, Zenon DEF ParseCall, heap
  <2>2. CASE MakeExpr("call", Tok, <<>>) /\ UNCHANGED stack
    BY <1>4, <2>2
  <2>3. CASE CallExpression(<<NamedFrame("call", Tok)>> \o stack) /\ UNCHANGED nodes
    <3> DEFINE g == NamedFrame("call", Tok)
               frames == <<g>> \o stack
    <3>1. "call" \in FrameName /\ "call" \notin BinOpFrames
          /\ "call" \notin TypeFrames \cup {"arg", "result", "rhs", "merge"}
      BY DEF FrameName, BinOpFrames, TypeFrames
    <3>2. g \in FrameType /\ g.fn = "call"
      BY <1>0, <3>1, MakeFrame DEF NamedFrame
    <3>3. /\ AllLaid(nodes, <<g>> \o stack, units, <<>>) /\ <<g>> \o stack \in Seq(FrameType)
          /\ Head(<<g>> \o stack).fn = "call"
      BY <1>0, <1>1, <3>1, EmptyFrame, ZenonT(60)
    <3> HIDE DEF g
    <3>4. StackPlaced(<<g>> \o stack)
      BY <1>0, <1>2, <3>1, <3>2, FrontPlaced DEF Top
    <3>5. frames \in Seq(FrameType) /\ AllLaid(nodes, frames, units, <<>>) /\ StackPlaced(frames)
          /\ Head(frames).fn \notin TypeFrames /\ CallExpression(frames)
      BY <2>3, <3>1, <3>3, <3>4 DEF g
    <3>6. unit'.kind = "def"
      BY <1>0, <1>2
    <3> HIDE DEF frames
    <3> QED BY <1>0, <2>3, <3>5, <3>6, CallLayout
  <2> QED BY <2>1, <2>2, <2>3
<1>7. ASSUME ParseLiteral \/ ParseVariable PROVE LayoutInv'
  <2>1. \/ MakeExpr("literal", Tok, <<>>) /\ UNCHANGED stack /\ Tok \in Literal
        \/ MakeExpr("var", Tok, <<>>) /\ UNCHANGED stack
    BY <1>7, Zenon DEF ParseLiteral, ParseVariable
  <2> QED BY <1>4, <2>1
<1> QED BY <1>5, <1>6, <1>7

\* A call or a list takes the expression that was returned.
LEMMA GrownLaid ==
  ASSUME TypeOK, OwnerInv, LayoutInv, stack # <<>>, pc = "return", Top.fn \in {"call", "list"}
  PROVE  LET g == [Top EXCEPT !.kids = Append(@, ret)]
             kids == Append(Top.kids, ret)
         IN  /\ g \in FrameType /\ g.fn = Top.fn /\ Own(g) = kids /\ kids \in Seq(Nat)
             /\ AllLaid(nodes, Tail(stack), units, kids)
             /\ StackPlaced(<<g>> \o Tail(stack)) /\ Tail(stack) \in Seq(FrameType)
<1> DEFINE g == [Top EXCEPT !.kids = Append(@, ret)]
           kids == Append(Top.kids, ret)
<1>1. Top.fn \notin TypeFrames \cup BinOpFrames \cup {"arg", "result", "rhs", "merge"}
  BY DEF TypeFrames, BinOpFrames
<1>2. Pend = <<ret>> /\ Own(Top) = Top.kids
  BY <1>1, PendIs DEF Own
<1>3. Top.kids \in Seq(Nat) /\ ret \in Nat /\ Append(Top.kids, ret) = Top.kids \o <<ret>>
  <2>1. Top.kids \in Seq(Nat) /\ ret \in Nat
    BY TopType DEF TypeOK
  <2>2. \A s \in Seq(Nat) : \A r \in Nat : Append(s, r) = s \o <<r>>
    OBVIOUS
  <2> QED BY <2>1, <2>2
<1>4. AllLaid(nodes, Tail(stack), units, kids)
  <2>1. AllLaid(nodes, Tail(stack), units, Own(Top) \o Pend)
    BY TopLaid
  <2> QED BY <1>2, <1>3, <2>1
<1>5. g \in FrameType /\ g.fn = Top.fn /\ kids \in Seq(Nat)
  <2>1. kids \in Seq(Nat) /\ Top \in FrameType /\ "call" \in FrameName /\ "" \in Name
    BY TopType DEF FrameName, Name
  <2> QED BY <2>1, UpdateFrame
<1>6. g.kids = kids
  <2>1. Top \in FrameType
    BY TopType
  <2> QED BY <2>1 DEF FrameType
<1> HIDE DEF g, kids
<1>7. Own(g) = kids
  BY <1>1, <1>5, <1>6 DEF Own
<1>8. StackPlaced(<<g>> \o Tail(stack)) /\ Tail(stack) \in Seq(FrameType)
  <2>1. /\ Tail(stack) \in Seq(FrameType) /\ StackPlaced(Tail(stack))
        /\ Tail(stack) # <<>> => Head(Tail(stack)).fn \notin TypeFrames
    BY <1>1, TopPlaced DEF LayoutInv
  <2> QED BY <1>1, <1>5, <2>1, FrontPlaced
<1> QED BY <1>4, <1>5, <1>7, <1>8 DEF g, kids

\* The arguments of a call,
LEMMA CallArgLayout ==
  ASSUME TypeOK, InBounds, OwnerInv, LayoutInv, ParseCallArg
  PROVE  LayoutInv'
<1> DEFINE g == [Top EXCEPT !.kids = Append(@, ret)]
           kids == Append(Top.kids, ret)
           rest == Tail(stack)
<1>1. /\ stack # <<>> /\ pc = "return" /\ Top.fn = "call" /\ UNCHANGED <<units, unit>>
      /\ \/ MakeExpr("call", Top.name, kids) /\ stack' = rest
         \/ CallExpression(<<g>> \o rest) /\ UNCHANGED nodes
  BY Zenon DEF ParseCallArg, Pop, heap
<1>2. /\ g \in FrameType /\ g.fn = Top.fn /\ Own(g) = kids /\ kids \in Seq(Nat)
      /\ AllLaid(nodes, rest, units, kids)
      /\ StackPlaced(<<g>> \o rest) /\ rest \in Seq(FrameType)
  BY <1>1, GrownLaid
<1> HIDE DEF g
<1>3. /\ PlaceInv /\ Trees(nodes) /\ nodes \in Seq(ExprType) /\ Top.fn \notin TypeFrames /\ Top.name \in Name
  BY <1>1, TopType DEF LayoutInv, TypeOK, TypeFrames
<1>4. unit.kind = "def"
  BY <1>1, <1>3, InFunction
<1>5. CASE MakeExpr("call", Top.name, kids) /\ stack' = rest
  <2> DEFINE e == [kind |-> "call", name |-> Top.name, kids |-> kids, index |-> ""]
  <2>1. e \in ExprType /\ e.kids = kids /\ e.kind = "call"
    <3>1. "call" \in ExprKind
      BY DEF ExprKind
    <3> QED BY <1>2, <1>3, <3>1, NewNode
  <2>2. nodes' = Append(nodes, e) /\ Return(Len(nodes) + 1)
    BY <1>5, Zenon DEF MakeExpr, NewExpr
  <2>3. StackPlaced(rest) /\ (rest # <<>> => Head(rest).fn \notin TypeFrames)
    BY <1>1, <1>3, TopPlaced
  <2> HIDE DEF e, kids, rest
  <2> QED BY <1>1, <1>2, <1>3, <1>4, <1>5, <2>1, <2>2, <2>3, MakeLayout
<1>6. CASE CallExpression(<<g>> \o rest) /\ UNCHANGED nodes
  <2> DEFINE frames == <<g>> \o rest
  <2> HIDE DEF kids, rest
  <2>1. AllLaid(nodes, frames, units, <<>>) /\ frames \in Seq(FrameType) /\ Head(frames) = g
    BY <1>2, <1>3, PushAll, PushFrame
  <2>2. StackPlaced(frames) /\ CallExpression(frames) /\ unit'.kind = "def" /\ Head(frames).fn \notin TypeFrames
    BY <1>1, <1>2, <1>3, <1>4, <1>6, <2>1
  <2> HIDE DEF frames
  <2> QED BY <1>1, <1>3, <1>6, <2>1, <2>2, CallLayout
<1> QED BY <1>1, <1>5, <1>6

\* and the elements of a list.
LEMMA ListLayout ==
  ASSUME TypeOK, InBounds, OwnerInv, LayoutInv, EndListElement \/ CloseList
  PROVE  LayoutInv'
<1> DEFINE rest == Tail(stack)
<1>0. /\ PlaceInv /\ Trees(nodes) /\ nodes \in Seq(ExprType) /\ UNCHANGED <<units, unit>>
      /\ stack # <<>> /\ Top.fn = "list" /\ Top.fn \notin TypeFrames
  <2>1. pc = "list" => stack # <<>> /\ Top.fn = "list"
    BY DEF TypeOK, LoopFrames
  <2>2. UNCHANGED <<units, unit>> /\ (pc = "list" \/ (stack # <<>> /\ Top.fn = "list"))
    BY Zenon DEF EndListElement, CloseList, heap
  <2> QED BY <2>1, <2>2 DEF LayoutInv, TypeOK, TypeFrames
<1>1. unit.kind = "def"
  BY <1>0, InFunction
<1>2. ASSUME EndListElement PROVE LayoutInv'
  <2> DEFINE g == [Top EXCEPT !.kids = Append(@, ret)]
             kids == Append(Top.kids, ret)
  <2>1. pc = "return" /\ stack' = <<g>> \o rest /\ pc' = "list" /\ UNCHANGED nodes
    BY <1>2, Zenon DEF EndListElement, Replace, heap
  <2>2. /\ g \in FrameType /\ Own(g) = kids
        /\ AllLaid(nodes, rest, units, kids)
        /\ StackPlaced(<<g>> \o rest) /\ rest \in Seq(FrameType)
    BY <1>0, <2>1, GrownLaid
  <2> HIDE DEF g, kids, rest
  <2>3. AllLaid(nodes, <<g>> \o rest, units, <<>>)
    BY <1>0, <2>2, PushAll
  <2>4. PlaceInv' /\ Pend' = <<>>
    BY <1>0, <1>1, <2>1, <2>2, ExprPlaced, PendNext DEF Between
  <2> QED BY <1>0, <2>1, <2>3, <2>4, LayoutIntro
<1>3. ASSUME CloseList PROVE LayoutInv'
  <2>1. pc = "list" /\ MakeExpr("list", "", Top.kids) /\ stack' = rest
    BY <1>3, Zenon DEF CloseList, Pop
  <2>2. Own(Top) = Top.kids /\ Pend = <<>> /\ Top.kids \in Seq(Nat) /\ Top.kids \o <<>> = Top.kids
    <3>1. Top.kids \in Seq(Nat)
      BY <1>0, TopType
    <3>2. Top.kids \o <<>> = Top.kids
      BY <3>1
    <3> QED BY <1>0, <2>1, <3>1, <3>2, PendIs DEF Own, BinOpFrames
  <2>3. AllLaid(nodes, rest, units, Top.kids)
    <3>1. AllLaid(nodes, rest, units, Own(Top) \o Pend)
      BY <1>0, TopLaid
    <3> QED BY <2>2, <3>1
  <2> DEFINE kids == Top.kids
             e == [kind |-> "list", name |-> "", kids |-> kids, index |-> ""]
  <2>4. e \in ExprType /\ e.kids = kids /\ e.kind = "list"
    <3>1. "list" \in ExprKind /\ "" \in Name
      BY DEF ExprKind, Name
    <3> QED BY <2>2, <3>1, NewNode
  <2>5. nodes' = Append(nodes, e) /\ Return(Len(nodes) + 1)
    BY <2>1, Zenon DEF MakeExpr, NewExpr
  <2>6. StackPlaced(rest) /\ (rest # <<>> => Head(rest).fn \notin TypeFrames) /\ rest \in Seq(FrameType)
    BY <1>0, TopPlaced
  <2>7. AllLaid(nodes, rest, units, kids) /\ stack' = rest
    BY <2>1, <2>3
  <2> HIDE DEF e, kids, rest
  <2> QED BY <1>0, <1>1, <2>4, <2>5, <2>6, <2>7, MakeLayout
<1> QED BY <1>2, <1>3

\* A step that leaves a function of an expression, with what it returns.
LEMMA LeaveLayout ==
  ASSUME TypeOK, OwnerInv, LayoutInv, stack # <<>>, stack' = Tail(stack), Top.fn \notin TypeFrames,
         UNCHANGED <<nodes, units, unit>>,
         \/ pc' = "fail"
         \/ pc' = "return" /\ ret' = 0
         \/ pc' = "return" /\ <<ret'>> = Own(Top) \o Pend
  PROVE  LayoutInv'
<1>1. /\ Tail(stack) \in Seq(FrameType) /\ StackPlaced(Tail(stack))
      /\ Tail(stack) # <<>> => Head(Tail(stack)).fn \notin TypeFrames
      /\ nodes \in Seq(ExprType) /\ PlaceInv /\ Trees(nodes)
  BY TopPlaced DEF LayoutInv, TypeOK
<1>2. unit.kind = "def"
  BY <1>1, InFunction
<1>3. AllLaid(nodes, Tail(stack), units, Own(Top) \o Pend)
  BY TopLaid
<1>4. AllLaid(nodes, Tail(stack), units, <<0>>)
  BY <1>1, <1>3, DropAll
<1>5. PlaceInv'
  BY <1>1, <1>2, ExprPlaced DEF Between
<1>6. Pend' = <<0>> \/ Pend' = Own(Top) \o Pend
  BY <1>1, PendNext
<1> QED BY <1>1, <1>3, <1>4, <1>5, <1>6, LayoutIntro

\* A parenthesis returns what is in it, and an error takes all with it, or
\* leaves a null pointer.
LEMMA ErrorLayout ==
  ASSUME TypeOK, InBounds, OwnerInv, LayoutInv,
         CloseParen \/ PropagateError \/ SwallowError \/ SyntaxError
  PROVE  LayoutInv'
<1>0. PlaceInv /\ Trees(nodes) /\ nodes \in Seq(ExprType) /\ Pend \in Seq(Nat)
      /\ AllLaid(nodes, stack, units, Pend)
  BY DEF LayoutInv, TypeOK, Pend
<1>1. ASSUME CloseParen PROVE LayoutInv'
  <2>1. /\ stack # <<>> /\ stack' = Tail(stack) /\ pc = "return" /\ Top.fn = "paren"
        /\ UNCHANGED <<nodes, units, unit>> /\ pc' = "return" /\ ret' = ret
    BY <1>1, Zenon DEF CloseParen, Pop, heap
  <2>2. Top.fn \notin TypeFrames /\ Own(Top) = <<>> /\ Pend = <<ret>>
    BY <2>1, PendIs DEF Own, TypeFrames, BinOpFrames
  <2>3. <<ret'>> = Own(Top) \o Pend
    BY <2>1, <2>2
  <2> QED BY <2>1, <2>2, <2>3, LeaveLayout
<1>2. ASSUME SwallowError PROVE LayoutInv'
  <2>1. /\ stack # <<>> /\ stack' = Tail(stack) /\ Top.fn \in {"paren", "list"}
        /\ UNCHANGED <<nodes, units, unit>> /\ pc' = "return" /\ ret' = 0
    BY <1>2, Zenon DEF SwallowError, Pop, Return, heap
  <2>2. Top.fn \notin TypeFrames
    BY <2>1 DEF TypeFrames
  <2> QED BY <2>1, <2>2, LeaveLayout
<1>3. ASSUME pc' = "fail", UNCHANGED <<nodes, units, unit>>,
             stack' = stack \/ (stack # <<>> /\ stack' = Tail(stack)),
             pc \in Between => stack = <<>>
      PROVE  LayoutInv'
  <2>1. CASE stack' = stack
    <3>1. AllLaid(nodes, stack, units, <<0>>)
      BY <1>0, DropAll
    <3>2. PlaceInv'
      BY <1>0, <1>3, <2>1 DEF PlaceInv, Between, ReturnsExpr, Top
    <3>3. Pend' = <<0>>
      BY <1>3, PendNext
    <3> QED BY <1>0, <1>3, <2>1, <3>1, <3>2, <3>3, LayoutIntro
  <2>2. CASE stack # <<>> /\ stack' = Tail(stack) /\ Top.fn \notin TypeFrames
    BY <1>3, <2>2, LeaveLayout
  <2>3. CASE stack # <<>> /\ stack' = Tail(stack) /\ Top.fn \in TypeFrames
    <3>1. /\ Tail(stack) \in Seq(FrameType) /\ StackPlaced(Tail(stack))
          /\ Tail(stack) # <<>> => Head(Tail(stack)).fn \in TypeFrames
      <4>1. Top.fn \in {"arg", "result"} \/ Top.fn = "template"
        BY <2>3 DEF TypeFrames
      <4> QED BY <1>0, <2>3, <4>1, TopPlaced
    <3>2. AllLaid(nodes, Tail(stack), units, <<0>>)
      BY <1>0, <2>3, TopLaid, DropAll
    <3>3. PlaceInv'
      BY <1>0, <1>3, <2>3, <3>1 DEF PlaceInv, Between, ReturnsExpr, Top
    <3>4. Pend' = <<0>>
      BY <1>3, PendNext
    <3> QED BY <1>0, <1>3, <2>3, <3>2, <3>3, <3>4, LayoutIntro
  <2> QED BY <1>3, <2>1, <2>2, <2>3
<1>4. ASSUME PropagateError \/ SyntaxError PROVE LayoutInv'
  <2>1. /\ pc' = "fail" /\ UNCHANGED <<nodes, units, unit>>
        /\ stack' = stack \/ (stack # <<>> /\ stack' = Tail(stack))
    BY <1>4, Zenon DEF PropagateError, SyntaxError, Unexpected, Fail, Pop, heap
  <2>2. pc \in Between => stack = <<>>
    BY <1>0 DEF PlaceInv
  <2> QED BY <1>3, <2>1, <2>2
<1> QED BY <1>1, <1>2, <1>4

\* The frames of parseBinOpRHS hold their left operand.
LEMMA BinOpOwn ==
  ASSUME NEW g \in FrameType
  PROVE  /\ g.fn \in BinOpFrames => Own(g) = <<g.lhs>>
         /\ \A fn \in BinOpFrames : \A name \in Name :
              LET h == [g EXCEPT !.fn = fn, !.name = name]
              IN  h \in FrameType /\ h.fn = fn /\ h.name = name /\ Own(h) = <<g.lhs>>
         /\ \A fn \in BinOpFrames :
              LET h == [g EXCEPT !.fn = fn]
              IN  h \in FrameType /\ h.fn = fn /\ h.name = g.name /\ Own(h) = <<g.lhs>>
         /\ \A prec \in Nat, lhs \in Nat :
              LET h == BinOpFrame(prec, lhs)
              IN  h \in FrameType /\ h.fn = "binop" /\ Own(h) = <<lhs>>
<1>1. \A fn \in BinOpFrames : fn \in FrameName
  BY ExprFrames
<1>2. \A h : h.fn \in BinOpFrames => Own(h) = <<h.lhs>>
  BY DEF Own, BinOpFrames
<1>3. ASSUME NEW fn \in BinOpFrames, NEW name \in Name
      PROVE  LET h == [g EXCEPT !.fn = fn, !.name = name]
             IN  h \in FrameType /\ h.fn = fn /\ h.name = name /\ Own(h) = <<g.lhs>>
  <2> DEFINE h == [g EXCEPT !.fn = fn, !.name = name]
  <2>1. h \in FrameType /\ h.fn = fn /\ h.name = name /\ h.lhs = g.lhs
    BY <1>1 DEF FrameType
  <2> HIDE DEF h
  <2>2. Own(h) = <<g.lhs>>
    BY <1>2, <2>1
  <2> QED BY <2>1, <2>2 DEF h
<1>4. ASSUME NEW fn \in BinOpFrames
      PROVE  LET h == [g EXCEPT !.fn = fn]
             IN  h \in FrameType /\ h.fn = fn /\ h.name = g.name /\ Own(h) = <<g.lhs>>
  <2> DEFINE h == [g EXCEPT !.fn = fn]
  <2>1. h \in FrameType /\ h.fn = fn /\ h.name = g.name /\ h.lhs = g.lhs
    BY <1>1 DEF FrameType
  <2> HIDE DEF h
  <2>2. Own(h) = <<g.lhs>>
    BY <1>2, <2>1
  <2> QED BY <2>1, <2>2 DEF h
<1>5. ASSUME NEW prec \in Nat, NEW lhs \in Nat
      PROVE  LET h == BinOpFrame(prec, lhs)
             IN  h \in FrameType /\ h.fn = "binop" /\ Own(h) = <<lhs>>
  <2> DEFINE h == BinOpFrame(prec, lhs)
  <2>1. h \in FrameType /\ h.fn = "binop" /\ h.lhs = lhs
    BY MakeFrame DEF BinOpFrame
  <2> HIDE DEF h
  <2>2. Own(h) = <<lhs>>
    BY <1>2, <2>1, ExprFrames
  <2> QED BY <2>1, <2>2 DEF h
<1> QED BY <1>2, <1>3, <1>4, <1>5, Zenon

\* A new operand is pending, and becomes the left one of parseBinOpRHS.
LEMMA OperandLayout ==
  ASSUME TypeOK, PlaceInv, NEW rest \in Seq(FrameType), NEW prec \in Nat, NEW lhs \in Nat,
         nodes' \in Seq(ExprType), Trees(nodes'), AllLaid(nodes', rest, units, <<lhs>>),
         StackPlaced(rest), rest # <<>> => Head(rest).fn \notin TypeFrames,
         stack' = <<BinOpFrame(prec, lhs)>> \o rest, pc' = "binop",
         unit.kind = "def", UNCHANGED <<unit, units>>
  PROVE  LayoutInv'
<1> DEFINE h == BinOpFrame(prec, lhs)
<1>1. h \in FrameType /\ h.fn = "binop" /\ Own(h) = <<lhs>>
  <2>1. \A p \in Nat, l \in Nat : LET k == BinOpFrame(p, l)
                                  IN  k \in FrameType /\ k.fn = "binop" /\ Own(k) = <<l>>
    BY BinOpOwn, MakeFrame, Zenon
  <2> QED BY <2>1, Zenon
<1> HIDE DEF h
<1>2. AllLaid(nodes', <<h>> \o rest, units, <<>>)
  BY <1>1, PushAll
<1>3. StackPlaced(<<h>> \o rest)
  BY <1>1, FrontPlaced
<1>4. stack' = <<h>> \o rest
  BY DEF h
<1>5. PlaceInv' /\ Pend' = <<>>
  BY <1>3, <1>4, ExprPlaced, PendNext DEF Between
<1> QED BY <1>2, <1>4, <1>5, LayoutIntro

\* The sides of an operator are pending one after the other,
LEMMA BinOpLayout ==
  ASSUME TypeOK, InBounds, OwnerInv, LayoutInv, EndPrimary \/ EatBinOp \/ BinOpDone
  PROVE  LayoutInv'
<1> DEFINE rest == Tail(stack)
<1>0. /\ PlaceInv /\ Trees(nodes) /\ nodes \in Seq(ExprType) /\ AllLaid(nodes, stack, units, Pend)
      /\ ret \in Nat /\ stack # <<>> /\ UNCHANGED <<nodes, units, unit>>
      /\ Top.fn \notin TypeFrames
  <2>1. stack # <<>> /\ Top.fn \in {"expression", "binop"} /\ UNCHANGED <<nodes, units, unit>>
    BY Zenon DEF EndPrimary, EatBinOp, BinOpDone, TypeOK, LoopFrames, heap
  <2> QED BY <2>1 DEF LayoutInv, TypeOK, TypeFrames
<1>1. unit.kind = "def"
  BY <1>0, InFunction
<1>2. /\ rest \in Seq(FrameType) /\ StackPlaced(rest) /\ Top \in FrameType /\ stack = <<Top>> \o rest
      /\ rest # <<>> => Head(rest).fn \notin TypeFrames
  BY <1>0, TopPlaced
<1>3. ASSUME EndPrimary PROVE LayoutInv'
  <2>1. /\ pc = "return" /\ Top.fn = "expression" /\ pc' = "binop"
        /\ stack' = <<BinOpFrame(0, ret)>> \o rest
    BY <1>3, Zenon DEF EndPrimary, Replace
  <2>2. Own(Top) = <<>> /\ Pend = <<ret>>
    BY <1>0, <2>1, PendIs DEF Own, BinOpFrames
  <2>3. AllLaid(nodes, rest, units, Own(Top) \o Pend)
    BY <1>0, TopLaid
  <2>4. <<>> \o <<ret>> = <<ret>> /\ 0 \in Nat
    OBVIOUS
  <2>5. AllLaid(nodes', rest, units, <<ret>>) /\ Trees(nodes') /\ nodes' \in Seq(ExprType)
    BY <1>0, <2>2, <2>3, <2>4
  <2> HIDE DEF rest
  <2> QED BY <1>0, <1>1, <1>2, <2>1, <2>4, <2>5, OperandLayout
<1>4. ASSUME EatBinOp PROVE LayoutInv'
  <2> DEFINE g == [Top EXCEPT !.fn = "rhs", !.name = Tok]
  <2>1. /\ pc = "binop" /\ stack' = <<g>> \o rest /\ pc' = "primary"
        /\ tokPrecedence(Tok) >= Top.prec
    BY <1>4, Zenon DEF EatBinOp, Replace
  <2>2. Tok \in BinOps /\ Tok \in Name
    <3>1. tokPrecedence(Tok) # -1
      BY <1>0, <2>1, TopType
    <3> QED BY <3>1, Names DEF tokPrecedence, BinOps
  <2>3. Top.fn = "binop" /\ Top.fn \in BinOpFrames /\ "rhs" \in BinOpFrames
    BY <1>0, <2>1, ExprFrames DEF TypeOK, LoopFrames
  <2>4. Own(Top) = <<Top.lhs>> /\ g \in FrameType /\ g.fn = "rhs" /\ g.name = Tok /\ Own(g) = <<Top.lhs>>
    <3>1. /\ Own(Top) = <<Top.lhs>>
          /\ \A fn \in BinOpFrames : \A name \in Name :
               LET h == [Top EXCEPT !.fn = fn, !.name = name]
               IN  h \in FrameType /\ h.fn = fn /\ h.name = name /\ Own(h) = <<Top.lhs>>
      BY <1>2, <2>3, BinOpOwn, Zenon
    <3> QED BY <2>2, <2>3, <3>1, Zenon
  <2> HIDE DEF g
  <2>5. AllLaid(nodes, <<Top>> \o rest, units, <<>>)
    <3>1. Pend = <<>>
      BY <2>1, PendIs
    <3> QED BY <1>0, <1>2, <3>1
  <2> HIDE DEF rest
  <2>6. AllLaid(nodes, <<g>> \o rest, units, <<>>)
    BY <1>0, <1>2, <2>4, <2>5, SwapAll
  <2>7. StackPlaced(<<g>> \o rest)
    BY <1>2, <2>2, <2>4, FrontPlaced
  <2>8. stack' # <<>> /\ Head(stack') = g /\ "rhs" \notin TypeFrames
    BY <1>2, <2>1, <2>4, PushFrame DEF TypeFrames
  <2>9. PlaceInv' /\ Pend' = <<>>
    BY <1>0, <1>1, <2>1, <2>4, <2>7, <2>8, ExprPlaced, PendNext DEF Between
  <2> QED BY <1>0, <2>1, <2>6, <2>9, LayoutIntro
<1>5. ASSUME BinOpDone PROVE LayoutInv'
  <2>1. pc = "binop" /\ stack' = rest /\ pc' = "return" /\ ret' = Top.lhs
    BY <1>5, Zenon DEF BinOpDone, Return, Pop
  <2>2. Top.fn \in BinOpFrames
    BY <1>0, <2>1, ExprFrames DEF TypeOK, LoopFrames
  <2>3. Own(Top) = <<Top.lhs>> /\ Pend = <<>>
    BY <1>2, <2>1, <2>2, BinOpOwn, PendIs
  <2>4. <<ret'>> = Own(Top) \o Pend
    BY <2>1, <2>3
  <2> QED BY <1>0, <2>1, <2>4, LeaveLayout
<1> QED BY <1>3, <1>4, <1>5

\* an operand may wait for a tighter operator,
LEMMA TightenLayout ==
  ASSUME TypeOK, InBounds, OwnerInv, LayoutInv, TightenBinOp
  PROVE  LayoutInv'
<1> DEFINE rest == Tail(stack)
           g == [Top EXCEPT !.fn = "merge"]
           under == <<g>> \o rest
           prec == tokPrecedence(Top.name) + 1
           h == BinOpFrame(prec, ret)
<1>0. /\ PlaceInv /\ Trees(nodes) /\ nodes \in Seq(ExprType) /\ AllLaid(nodes, stack, units, Pend)
      /\ ret \in Nat
  BY DEF LayoutInv, TypeOK
<1>1. /\ stack # <<>> /\ Top.fn = "rhs" /\ pc = "return" /\ pc' = "binop"
      /\ stack' = <<h, g>> \o rest /\ UNCHANGED <<nodes, units, unit>>
  BY Zenon DEF TightenBinOp, heap
<1>2. Top.fn \in BinOpFrames /\ Top.fn \notin TypeFrames /\ "merge" \in BinOpFrames
  BY <1>1, ExprFrames
<1>3. unit.kind = "def" /\ Pend = <<ret>>
  BY <1>0, <1>1, <1>2, InFunction, PendIs
<1>4. /\ rest \in Seq(FrameType) /\ StackPlaced(rest) /\ Top \in FrameType /\ stack = <<Top>> \o rest
      /\ rest # <<>> => Head(rest).fn \notin TypeFrames
      /\ Top.name \in BinOps
  BY <1>0, <1>1, <1>2, TopPlaced
<1>5. /\ Own(Top) = <<Top.lhs>> /\ g \in FrameType /\ g.fn = "merge" /\ g.name = Top.name
      /\ Own(g) = <<Top.lhs>>
  BY <1>2, <1>4, BinOpOwn, Zenon
<1>6. prec \in Nat
  BY Precedences
<1>7. h \in FrameType
  BY <1>0, <1>6, MakeFrame
<1> HIDE DEF g, rest, prec
<1>8. stack' = <<h>> \o under
  <2> HIDE DEF h
  <2>1. <<h, g>> \o rest = <<h>> \o (<<g>> \o rest)
    <3>1. h \in FrameType /\ g \in FrameType /\ rest \in Seq(FrameType)
      BY <1>4, <1>5, <1>7
    <3> QED BY <3>1, TwoInFront, SMTT(60)
  <2> QED BY <1>1, <2>1, Zenon
<1>9. AllLaid(nodes, under, units, <<ret>>)
  BY <1>0, <1>3, <1>4, <1>5, SwapAll
<1>10. under \in Seq(FrameType) /\ Head(under) = g
  BY <1>4, <1>5, PushFrame
<1>11. StackPlaced(under)
  BY <1>4, <1>5, FrontPlaced DEF TypeFrames
<1>12. Head(under).fn \notin TypeFrames
  BY <1>5, <1>10 DEF TypeFrames
<1> HIDE DEF under
<1>13. Trees(nodes') /\ nodes' \in Seq(ExprType) /\ AllLaid(nodes', under, units, <<ret>>)
  BY <1>0, <1>1, <1>9
<1> QED BY <1>0, <1>1, <1>3, <1>6, <1>8, <1>10, <1>11, <1>12, <1>13, OperandLayout

\* Two operands in a row.
LEMMA TwoOperands == \A a, b \in Nat : <<a>> \o <<b>> = <<a, b>>
<1> SUFFICES ASSUME NEW a \in Nat, NEW b \in Nat PROVE <<a>> \o <<b>> = <<a, b>>
  OBVIOUS
<1> DEFINE x == <<a>>
           y == <<b>>
           s == x \o y
           t == <<a, b>>
<1>1. x \in Seq(Nat) /\ y \in Seq(Nat) /\ Len(x) = 1 /\ Len(y) = 1 /\ x[1] = a /\ y[1] = b
  OBVIOUS
<1> HIDE DEF x, y
<1>2. /\ s \in Seq(Nat) /\ Len(s) = Len(x) + Len(y)
      /\ \A k \in 1 .. Len(x) : s[k] = x[k]
      /\ \A k \in 1 .. Len(y) : s[k + Len(x)] = y[k]
  <2>1. x \in Seq(Nat) /\ y \in Seq(Nat)
    BY <1>1
  <2> QED BY <2>1
<1> HIDE DEF s
<1>3. s[1] = a /\ s[2] = b /\ Len(s) = 2
  <2>1. s[1 + 1] = b
    BY <1>1, <1>2
  <2> QED BY <1>1, <1>2, <2>1
<1>4. t \in Seq(Nat) /\ Len(t) = 2 /\ t[1] = a /\ t[2] = b
  OBVIOUS
<1> HIDE DEF t
<1>5. s \in Seq(Nat) /\ t \in Seq(Nat) /\ Len(s) = Len(t)
  BY <1>2, <1>3, <1>4
<1>6. ASSUME NEW i \in 1 .. Len(s) PROVE s[i] = t[i]
  <2>1. i = 1 \/ i = 2
    BY <1>3
  <2> QED BY <1>3, <1>4, <2>1
<1>7. s = t
  BY <1>5, <1>6
<1> QED BY <1>7 DEF s, t, x, y

\* and the operator is made of both.
LEMMA MergeLayout ==
  ASSUME TypeOK, InBounds, OwnerInv, LayoutInv, MergeBinOp
  PROVE  LayoutInv'
<1> DEFINE rest == Tail(stack)
           kids == <<Top.lhs, ret>>
           e == [kind |-> "binary", name |-> Top.name, kids |-> kids, index |-> ""]
           new == Len(nodes) + 1
<1>0. /\ PlaceInv /\ Trees(nodes) /\ nodes \in Seq(ExprType) /\ ret \in Nat /\ new \in Nat
  BY DEF LayoutInv, TypeOK
<1>1. /\ stack # <<>> /\ Top.fn \in {"rhs", "merge"} /\ pc = "return" /\ pc' = "binop"
      /\ NewExpr("binary", Top.name, kids)
      /\ stack' = <<BinOpFrame(Top.prec, new)>> \o rest /\ UNCHANGED <<units, unit>>
  BY Zenon DEF MergeBinOp, Replace
<1>2. Top.fn \in BinOpFrames /\ Top.fn \notin TypeFrames
  BY <1>1, ExprFrames
<1>3. unit.kind = "def" /\ Pend = <<ret>>
  BY <1>0, <1>1, <1>2, InFunction, PendIs
<1>4. /\ rest \in Seq(FrameType) /\ StackPlaced(rest) /\ Top \in FrameType
      /\ rest # <<>> => Head(rest).fn \notin TypeFrames
      /\ Top.name \in BinOps /\ Top.name \in Name /\ Top.lhs \in Nat /\ Top.prec \in Nat
  BY <1>0, <1>1, <1>2, TopPlaced, TopType
<1>5. Own(Top) = <<Top.lhs>>
  BY <1>2, <1>4, BinOpOwn, Zenon
<1>6. AllLaid(nodes, rest, units, kids)
  <2>1. AllLaid(nodes, rest, units, Own(Top) \o Pend)
    BY <1>1, TopLaid
  <2>2. Top.lhs \in Nat /\ ret \in Nat
    BY <1>0, <1>4
  <2>3. <<Top.lhs>> \o <<ret>> = kids
    BY <2>2, TwoOperands
  <2> QED BY <1>3, <1>5, <2>1, <2>3
<1>7. kids \in Seq(Nat) /\ Len(kids) = 2
  BY <1>0, <1>4
<1>8. e \in ExprType /\ e.kids = kids /\ e.kind = "binary" /\ e.name = Top.name
  <2>1. "binary" \in ExprKind
    BY DEF ExprKind
  <2> QED BY <1>4, <1>7, <2>1, NewNode
<1>9. nodes' = Append(nodes, e)
  BY <1>1, Zenon DEF NewExpr
<1> HIDE DEF e, kids, rest
<1>10. Trees(nodes') /\ AllLaid(nodes', rest, units, <<new>>)
  BY <1>0, <1>4, <1>6, <1>7, <1>8, <1>9, MakeLaid
<1>11. nodes' \in Seq(ExprType)
  BY <1>0, <1>8, <1>9
<1> HIDE DEF new
<1> QED BY <1>0, <1>1, <1>3, <1>4, <1>10, <1>11, OperandLayout

\* The types of a prototype have no part in it.
LEMMA TypeLayout ==
  ASSUME TypeOK, InBounds, OwnerInv, LayoutInv, TypeName \/ TypeTemplateArg \/ PrototypeArgName
  PROVE  LayoutInv'
<1> DEFINE rest == Tail(stack)
<1>0. /\ PlaceInv /\ Trees(nodes) /\ nodes \in Seq(ExprType) /\ AllLaid(nodes, stack, units, Pend)
      /\ stack \in Seq(FrameType) /\ StackPlaced(stack)
      /\ stack # <<>> /\ Top.fn \in TypeFrames /\ Pend = <<>>
      /\ UNCHANGED <<nodes, units>>
  <2>1. stack # <<>> /\ Top.fn \in TypeFrames /\ UNCHANGED <<nodes, units>> /\ pc \in {"type", "return"}
    BY DEF TypeName, TypeTemplateArg, PrototypeArgName, MakeType, OwnerInv, TypeFrames, heap
  <2> QED BY <2>1, PendIs DEF LayoutInv, PlaceInv, TypeOK
<1>1. /\ rest \in Seq(FrameType) /\ StackPlaced(rest) /\ Top \in FrameType /\ stack = <<Top>> \o rest
      /\ Top.fn \in {"arg", "result"} => rest = <<>>
      /\ Top.fn = "template" => rest # <<>> /\ Head(rest).fn \in TypeFrames
  BY <1>0, TopPlaced
<1>2. \A g \in FrameType : g.fn \in TypeFrames => Own(g) = <<>>
  BY DEF Own, TypeFrames, BinOpFrames
<1>3. AllLaid(nodes, rest, units, <<>>)
  <2>1. AllLaid(nodes, rest, units, Own(Top) \o Pend)
    BY <1>0, TopLaid
  <2>2. Own(Top) = <<>> /\ <<>> \o <<>> = <<>>
    BY <1>0, <1>1, <1>2
  <2> QED BY <1>0, <2>1, <2>2
<1>4. ASSUME NEW frames, stack' = frames, frames # <<>>, Head(frames).fn \in TypeFrames, StackPlaced(frames),
             AllLaid(nodes, frames, units, <<>>), pc' \in {"type", "return"}
      PROVE  LayoutInv'
  <2>1. PlaceInv'
    BY <1>0, <1>4, TypePlaced
  <2>2. Pend' = <<>>
    BY <1>4, PendNext
  <2> QED BY <1>0, <1>4, <2>1, <2>2, LayoutIntro
<1>5. ASSUME PrototypeArgName PROVE LayoutInv'
  <2>1. Top.fn = "arg" /\ stack' = rest /\ pc' = "args"
    BY <1>5, Zenon DEF PrototypeArgName, Pop
  <2>2. stack' = <<>>
    BY <1>1, <2>1
  <2>3. PlaceInv' /\ Pend' = <<>>
    BY <1>0, <1>1, <2>1, <2>2, PendNext DEF PlaceInv, Between, ReturnsExpr
  <2> QED BY <1>0, <1>3, <2>1, <2>3, LayoutIntro
<1>6. ASSUME TypeName PROVE LayoutInv'
  <2>1. \/ stack' = <<NamedFrame("template", Tok)>> \o stack /\ pc' = "type"
        \/ UNCHANGED stack /\ pc' = "return"
    BY <1>6, Zenon DEF TypeName, Push, MakeType, Return
  <2>2. CASE UNCHANGED stack /\ pc' = "return"
    <3>1. Head(stack).fn \in TypeFrames /\ AllLaid(nodes, stack, units, <<>>)
      BY <1>0 DEF Top
    <3> QED BY <1>0, <1>4, <2>2, <3>1
  <2>3. CASE stack' = <<NamedFrame("template", Tok)>> \o stack /\ pc' = "type"
    <3> DEFINE g == NamedFrame("template", Tok)
               frames == <<g>> \o stack
    <3>1. /\ "template" \in FrameName /\ "template" \notin BinOpFrames /\ "template" \in TypeFrames
          /\ Tok \in Name /\ "template" \notin {"arg", "result", "rhs", "merge"}
      BY Names DEF FrameName, BinOpFrames, TypeFrames
    <3>2. g \in FrameType /\ g.fn = "template"
      BY <3>1, MakeFrame DEF NamedFrame
    <3>3. AllLaid(nodes, <<g>> \o stack, units, <<>>)
      <4>1. AllLaid(nodes, stack, units, <<>>)
        BY <1>0
      <4> QED BY <1>0, <3>1, <4>1, EmptyFrame, ZenonT(60)
    <3> HIDE DEF g
    <3>4. StackPlaced(frames)
      BY <1>0, <3>1, <3>2, FrontPlaced
    <3>5. frames # <<>> /\ Head(frames) = g /\ AllLaid(nodes, frames, units, <<>>)
      BY <1>0, <3>2, <3>3, PushFrame
    <3>6. stack' = frames
      BY <2>3 DEF g
    <3> HIDE DEF frames
    <3> QED BY <1>4, <2>3, <3>1, <3>2, <3>4, <3>5, <3>6
  <2> QED BY <2>1, <2>2, <2>3
<1>7. ASSUME TypeTemplateArg PROVE LayoutInv'
  <2> DEFINE g == [Top EXCEPT !.kids = Append(@, ret)]
             frames == <<g>> \o rest
  <2>1. /\ Top.fn = "template"
        /\ \/ stack' = rest /\ pc' = "return"
           \/ stack' = frames /\ pc' = "type"
    BY <1>7, Zenon DEF TypeTemplateArg, MakeType, Return, Pop, Replace
  <2>2. CASE stack' = rest /\ pc' = "return"
    <3> HIDE DEF rest
    <3> QED BY <1>1, <1>3, <1>4, <2>1, <2>2
  <2>3. CASE stack' = frames /\ pc' = "type"
    <3>1. g \in FrameType /\ g.fn = "template"
      <4>1. Append(Top.kids, ret) \in Seq(Nat) /\ "call" \in FrameName /\ "" \in Name
        BY <1>0, TopType DEF FrameName, Name
      <4> QED BY <1>1, <2>1, <4>1, UpdateFrame
    <3>2. Own(g) = <<>> /\ "template" \in TypeFrames
      BY <1>2, <3>1 DEF TypeFrames
    <3> HIDE DEF g, rest
    <3>3. AllLaid(nodes, frames, units, <<>>)
      BY <1>0, <1>1, <1>3, <3>1, <3>2, PushAll
    <3>4. StackPlaced(frames) /\ frames # <<>> /\ Head(frames).fn \in TypeFrames
      <4>1. StackPlaced(frames)
        BY <1>1, <3>1, <3>2, FrontPlaced
      <4> QED BY <1>1, <3>1, <3>2, <4>1, PushFrame
    <3> HIDE DEF frames
    <3> QED BY <1>4, <2>3, <3>3, <3>4
  <2> QED BY <2>1, <2>2, <2>3
<1> QED BY <1>5, <1>6, <1>7

\* A declaration is complete with its prototype, a definition goes on.
LEMMA AfterLayout ==
  ASSUME TypeOK, PlaceInv, Trees(nodes), AllLaid(nodes, <<>>, units, <<>>), NEW proto \in UnitType,
         AfterPrototype(proto, <<>>), UNCHANGED nodes
  PROVE  LayoutInv'
<1>0. nodes \in Seq(ExprType) /\ units \in Seq(UnitType) /\ <<>> \in Seq(FrameType)
  BY DEF TypeOK
<1>s. StackPlaced(<<>>)
  BY DEF StackPlaced
<1>1. CASE /\ proto.kind = "extern" /\ units' = Append(units, proto) /\ unit' = NoUnit
           /\ stack' = <<>> /\ pc' = "parse"
  <2>1. AllLaid(nodes, <<>>, units', <<>>)
    BY <1>0, <1>1, ExternAll
  <2>2. \A v \in 1 .. Len(units') : units'[v].kind \in {"def", "extern"}
    BY <1>0, <1>1 DEF PlaceInv
  <2>3. PlaceInv'
    BY <1>s, <1>1, <2>2 DEF PlaceInv, ReturnsExpr
  <2>4. Pend' = <<>>
    BY <1>1, PendNext
  <2> QED BY <1>1, <2>1, <2>3, <2>4, LayoutIntro
<1>2. CASE proto.kind = "def" /\ unit' = proto /\ CallExpression(<<>>) /\ UNCHANGED units
  BY <1>0, <1>s, <1>2, CallLayout
<1> QED BY <1>1, <1>2, Zenon DEF AfterPrototype

\* The body of a function is what was pending.
LEMMA UnitLayout ==
  ASSUME TypeOK, OwnerInv, LayoutInv, PrototypeEnd \/ EndFunction
  PROVE  LayoutInv'
<1>0. /\ PlaceInv /\ Trees(nodes) /\ nodes \in Seq(ExprType) /\ AllLaid(nodes, stack, units, Pend)
      /\ unit \in UnitType /\ ret \in Nat /\ units \in Seq(UnitType) /\ StackPlaced(stack)
  BY DEF LayoutInv, PlaceInv, TypeOK
<1> DEFINE typed == [unit EXCEPT !.type = ret]
           whole == [unit EXCEPT !.body = ret]
<1>1. typed \in UnitType /\ whole \in UnitType /\ whole.body = ret /\ whole.kind = unit.kind
  <2>1. typed \in UnitType /\ whole \in UnitType
    BY <1>0, UpdateUnit
  <2>2. whole.body = ret /\ whole.kind = unit.kind
    BY <1>0 DEF UnitType
  <2> QED BY <2>1, <2>2
<1>2. ASSUME PrototypeEnd PROVE LayoutInv'
  <2>1. /\ UNCHANGED nodes
        /\ \/ pc = "result" /\ AfterPrototype(unit, stack)
           \/ Returned("result") /\ AfterPrototype(typed, Tail(stack))
    BY <1>2, Zenon DEF PrototypeEnd, heap
  <2>2. CASE pc = "result" /\ AfterPrototype(unit, stack)
    <3>1. stack = <<>> /\ Pend = <<>>
      BY <1>0, <2>2, PendIs DEF PlaceInv, Between
    <3>2. AfterPrototype(unit, <<>>) /\ AllLaid(nodes, <<>>, units, <<>>)
      BY <1>0, <2>2, <3>1
    <3> QED BY <1>0, <2>1, <3>2, AfterLayout
  <2>3. CASE Returned("result") /\ AfterPrototype(typed, Tail(stack))
    <3>1. stack # <<>> /\ Top.fn = "result" /\ pc = "return"
      BY <2>3
    <3>2. Tail(stack) = <<>> /\ Pend = <<>> /\ Own(Top) = <<>>
      BY <1>0, <3>1, TopPlaced, PendIs DEF TypeFrames, Own, BinOpFrames
    <3>3. AllLaid(nodes, <<>>, units, <<>>)
      <4>1. AllLaid(nodes, Tail(stack), units, Own(Top) \o Pend)
        BY <3>1, TopLaid
      <4>2. <<>> \o <<>> = <<>>
        OBVIOUS
      <4> QED BY <3>2, <4>1, <4>2
    <3>4. AfterPrototype(typed, <<>>)
      BY <2>3, <3>2
    <3> HIDE DEF typed
    <3> QED BY <1>0, <1>1, <2>1, <3>3, <3>4, AfterLayout
  <2> QED BY <2>1, <2>2, <2>3
<1>3. ASSUME EndFunction PROVE LayoutInv'
  <2>1. /\ pc = "return" /\ stack = <<>> /\ units' = Append(units, whole) /\ unit' = NoUnit
        /\ pc' = "parse" /\ UNCHANGED <<nodes, stack>>
    BY <1>3, Zenon DEF EndFunction, heap
  <2>2. unit.kind = "def" /\ Pend = <<ret>>
    BY <1>0, <2>1, InFunction, PendIs
  <2>3. whole.kind = "def" /\ AllLaid(nodes, <<>>, units, <<whole.body>>)
    BY <1>0, <1>1, <2>1, <2>2
  <2> HIDE DEF whole
  <2>4. AllLaid(nodes, <<>>, units', <<>>)
    BY <1>0, <1>1, <2>1, <2>3, UnitAll
  <2>5. \A v \in 1 .. Len(units') : units'[v].kind \in {"def", "extern"}
    BY <1>0, <1>1, <2>1, <2>2 DEF PlaceInv
  <2>6. PlaceInv'
    BY <1>0, <2>1, <2>5 DEF PlaceInv, ReturnsExpr
  <2>7. Pend' = <<>>
    BY <2>1, PendNext
  <2> QED BY <1>0, <2>1, <2>4, <2>6, <2>7, LayoutIntro
<1> QED BY <1>2, <1>3

-----------------------------------------------------------------------------
\* Nothing is made and nothing pending when parse() is called,
LEMMA InitLayout == Init => LayoutInv
<1> SUFFICES ASSUME Init PROVE LayoutInv
  OBVIOUS
<1>1. nodes = <<>> /\ stack = <<>> /\ units = <<>> /\ pc = "parse"
  BY DEF Init
<1>2. PlaceInv
  BY <1>1 DEF PlaceInv, StackPlaced, Between, ReturnsExpr
<1>3. Trees(<<>>)
  <2> DEFINE If(f, n) == IF n = 0 THEN 0 ELSE FirstOf(f, n, <<>>[n].kids)
             f == [n \in 0 .. 0 |-> 0]
  <2>1. f = [n \in 0 .. Len(<<>>) |-> If(f, n)]
    <3>1. \A n \in 0 .. 0 : If(f, n) = 0 /\ Len(<<>>) = 0
      OBVIOUS
    <3> HIDE DEF If
    <3> QED BY <3>1
  <2>2. Firsts(f, <<>>)
    BY <2>1, Zenon DEF Firsts
  <2> QED BY <2>2 DEF Trees
<1>4. ASSUME NEW f PROVE Laid(f, <<>>, <<>>, <<>>, <<>>)
  <2>1. Marks(f, Len(<<>>), <<>>, <<>>, <<0>>)
    BY DEF Marks, Spans
  <2>2. Ends(f, Len(<<>>), <<>>, <<0>>[Len(<<0>>)])
    BY DEF Ends
  <2>3. UnitsPlaced(f, Len(<<>>), <<>>) /\ Whole(f, <<>>, <<>>, <<>>, <<>>)
    BY DEF UnitsPlaced, Whole
  <2>4. \A x : ~IsRoot(x, <<>>, <<>>, <<>>)
    BY DEF IsRoot, Among, IsBody
  <2> QED BY <2>1, <2>2, <2>3, <2>4, Zenon DEF Laid
<1>5. Pend = <<>>
  BY <1>1, PendIs
<1> QED BY <1>1, <1>2, <1>3, <1>4, <1>5, Zenon DEF LayoutInv, AllLaid

\* and every step of the parser puts what it makes behind what it made it of.
LEMMA NextLayout == IInv /\ OwnerInv /\ LayoutInv /\ [Next]_vars => LayoutInv'
<1> SUFFICES ASSUME IInv, OwnerInv, LayoutInv, [Next]_vars PROVE LayoutInv'
  OBVIOUS
<1>1. TypeOK /\ InBounds
  BY DEF IInv
<1>2. CASE Next
  BY <1>1, <1>2, QuietLayout, PushLayout, LeafLayout, CallArgLayout, ListLayout, ErrorLayout,
     BinOpLayout, TightenLayout, MergeLayout, TypeLayout, UnitLayout, Zenon DEF Next
<1>3. CASE UNCHANGED vars
  <2>1. UNCHANGED <<nodes, stack, units, unit, pc, ret>>
    BY <1>3, Zenon DEF vars, heap
  <2>2. Pend' = Pend /\ PlaceInv'
    BY <2>1 DEF Pend, ReturnsExpr, Top, LayoutInv, PlaceInv
  <2> QED BY <2>1, <2>2 DEF LayoutInv
<1> QED BY <1>2, <1>3

-----------------------------------------------------------------------------
(* The type descriptors.  Each is made of older ones, and those that a     *)
(* template or a unit holds have been made: read as trees, they are trees. *)

Made(h) == \A t \in 1 .. Len(h) : h[t].name \in Ident /\ h[t].args \in Seq(1 .. t - 1)
FrameMade(f, n) == f.fn = "template" => f.name \in Ident /\ f.kids \in Seq(1 .. n)
StackMade(s, n) == \A i \in 1 .. Len(s) : FrameMade(s[i], n)
UnitMade(u, n) == u.type \in 0 .. n /\ \A k \in 1 .. Len(u.args) : u.args[k].type \in 1 .. n
UnitsMade(us, n) == \A v \in 1 .. Len(us) : UnitMade(us[v], n)

\* A type is on its way to a prototype or to another type.
TypeReturned(point, s) == point = "return" /\ s # <<>> /\ Head(s).fn \in TypeFrames

TreeOf(f, d) == [name |-> d.name, args |-> [k \in 1 .. Len(d.args) |-> f[d.args[k]]]]
AsTrees(f, h) == f = [t \in 1 .. Len(h) |-> TreeOf(f, h[t])]

DescriptorInv ==
  /\ Made(types) /\ \E f : AsTrees(f, types)
  /\ StackMade(stack, Len(types))
  /\ UnitMade(unit, Len(types)) /\ UnitsMade(units, Len(types))
  /\ TypeReturned(pc, stack) => ret \in 1 .. Len(types)

\* A frame in front of others.
LEMMA FrontMade ==
  ASSUME NEW g \in FrameType, NEW s \in Seq(FrameType), NEW n
  PROVE  StackMade(<<g>> \o s, n) <=> FrameMade(g, n) /\ StackMade(s, n)
<1> DEFINE t == <<g>> \o s
<1>1. /\ Len(t) = Len(s) + 1 /\ t[1] = g /\ Len(s) \in Nat /\ 1 \in 1 .. Len(t)
      /\ \A i \in 1 .. Len(s) : i + 1 \in 1 .. Len(t) /\ t[i + 1] = s[i]
      /\ \A i \in 1 .. Len(t) : i = 1 \/ (i - 1 \in 1 .. Len(s) /\ t[i] = s[i - 1])
  BY InFront
<1> HIDE DEF t
<1>2. (\A i \in 1 .. Len(t) : FrameMade(t[i], n)) <=> FrameMade(g, n) /\ \A i \in 1 .. Len(s) : FrameMade(s[i], n)
  <2>1. ASSUME \A i \in 1 .. Len(t) : FrameMade(t[i], n)
        PROVE  FrameMade(g, n) /\ \A i \in 1 .. Len(s) : FrameMade(s[i], n)
    BY <1>1, <2>1
  <2>2. ASSUME FrameMade(g, n), \A i \in 1 .. Len(s) : FrameMade(s[i], n), NEW i \in 1 .. Len(t)
        PROVE  FrameMade(t[i], n)
    BY <1>1, <2>2
  <2> QED BY <2>1, <2>2
<1> QED BY <1>2, Zenon DEF StackMade, t

\* More descriptors do no harm.
LEMMA MoreMade ==
  ASSUME NEW n \in Nat
  PROVE  /\ \A f : FrameMade(f, n) => FrameMade(f, n + 1)
         /\ \A s : StackMade(s, n) => StackMade(s, n + 1)
         /\ \A u : UnitMade(u, n) => UnitMade(u, n + 1)
         /\ \A us : UnitsMade(us, n) => UnitsMade(us, n + 1)
<1>1. /\ 1 .. n \subseteq 1 .. n + 1 /\ 0 .. n \subseteq 0 .. n + 1
      /\ Seq(1 .. n) \subseteq Seq(1 .. n + 1)
  OBVIOUS
<1>2. \A f : FrameMade(f, n) => FrameMade(f, n + 1)
  BY <1>1, Zenon DEF FrameMade
<1>3. \A u : UnitMade(u, n) => UnitMade(u, n + 1)
  BY <1>1, Zenon DEF UnitMade
<1> QED BY <1>2, <1>3, Zenon DEF StackMade, UnitsMade

\* A new descriptor has its tree, and no other changes.
LEMMA TreeMade ==
  ASSUME NEW h, h \in Seq({h[t] : t \in DOMAIN h}), NEW d, Made(h), NEW f, AsTrees(f, h),
         d.name \in Ident, d.args \in Seq(1 .. Len(h))
  PROVE  Made(Append(h, d)) /\ \E g : AsTrees(g, Append(h, d))
<1> DEFINE e == Append(h, d)
           g == [t \in 1 .. Len(h) + 1 |-> IF t = Len(h) + 1 THEN TreeOf(f, d) ELSE f[t]]
<1>1. /\ Len(h) \in Nat /\ Len(e) = Len(h) + 1 /\ e[Len(h) + 1] = d
      /\ \A t \in 1 .. Len(h) : e[t] = h[t]
  OBVIOUS
<1> HIDE DEF e
<1>2. \A t \in 1 .. Len(e) : t = Len(h) + 1 \/ t \in 1 .. Len(h)
  BY <1>1
<1>3. \A t \in 1 .. Len(e) : e[t].name \in Ident /\ e[t].args \in Seq(1 .. t - 1)
  <2>1. (Len(h) + 1) - 1 = Len(h)
    BY <1>1
  <2> QED BY <1>1, <1>2, <2>1 DEF Made
<1>4. Made(e)
  BY <1>3 DEF Made
<1>5. \A t \in 1 .. Len(h) : f[t] = TreeOf(f, h[t])
  <2> DEFINE If(t) == TreeOf(f, h[t])
  <2>1. f = [t \in 1 .. Len(h) |-> If(t)]
    BY DEF AsTrees
  <2> HIDE DEF If
  <2>2. \A t \in 1 .. Len(h) : f[t] = If(t)
    BY <2>1, Zenon
  <2> QED BY <2>2 DEF If
<1>6. /\ \A t \in 1 .. Len(h) : g[t] = f[t]
      /\ g[Len(h) + 1] = TreeOf(f, d)
  BY <1>1
<1>7. g = [t \in 1 .. Len(e) |-> g[t]]
  BY <1>1
<1> HIDE DEF g
<1>8. ASSUME NEW t \in 1 .. Len(e) PROVE TreeOf(g, e[t]) = TreeOf(f, e[t])
  <2>1. \A k \in 1 .. Len(e[t].args) : e[t].args[k] \in 1 .. Len(h)
    <3>1. e[t].args \in Seq(1 .. t - 1) /\ 1 .. t - 1 \subseteq 1 .. Len(h)
      BY <1>1, <1>3
    <3> QED BY <3>1
  <2>2. \A k \in 1 .. Len(e[t].args) : g[e[t].args[k]] = f[e[t].args[k]]
    BY <1>6, <2>1
  <2> QED BY <2>2 DEF TreeOf
<1>9. \A t \in 1 .. Len(e) : g[t] = TreeOf(g, e[t])
  <2> TAKE t \in 1 .. Len(e)
  <2>1. CASE t \in 1 .. Len(h)
    <3>1. g[t] = TreeOf(f, h[t]) /\ e[t] = h[t]
      BY <1>1, <1>5, <1>6, <2>1
    <3> QED BY <1>8, <3>1
  <2>2. CASE t = Len(h) + 1
    <3>1. g[t] = TreeOf(f, e[t])
      BY <1>1, <1>6, <2>2
    <3> QED BY <1>8, <3>1
  <2> QED BY <1>2, <2>1, <2>2
<1>10. AsTrees(g, e)
  BY <1>7, <1>9, Zenon DEF AsTrees
<1> QED BY <1>4, <1>10 DEF e

\* What the stack below the innermost frame holds.
LEMMA RestMade ==
  ASSUME TypeOK, OwnerInv, PlaceInv, stack # <<>>, StackMade(stack, Len(types))
  PROVE  FrameMade(Top, Len(types)) /\ StackMade(Tail(stack), Len(types))
<1>1. Top \in FrameType /\ Tail(stack) \in Seq(FrameType) /\ stack = <<Top>> \o Tail(stack)
  BY TopPlaced
<1>2. StackMade(<<Top>> \o Tail(stack), Len(types))
  BY <1>1, Zenon
<1> QED BY <1>1, <1>2, FrontMade

\* Steps that do not parse a type leave the descriptors alone, and put no
\* template on the stack.
LEMMA OtherStacks ==
  ASSUME TypeOK, InBounds, OwnerInv, PlaceInv, StackMade(stack, Len(types)), Next,
         ~TypeName, ~TypeTemplateArg
  PROVE  StackMade(stack', Len(types))
<1> DEFINE Ok(s) == StackMade(s, Len(types))
<1>0. /\ stack \in Seq(FrameType) /\ Ok(stack) /\ Tok \in Name /\ "" \in Name /\ ret \in Nat /\ LoopFrames
      /\ {"expression", "binop", "rhs", "merge", "paren", "list", "call",
          "arg", "result", "template"} \subseteq FrameName
  BY Names DEF TypeOK, FrameName
<1>1. stack # <<>> => Tail(stack) \in Seq(FrameType) /\ Top \in FrameType /\ Ok(Tail(stack))
  BY TopType, RestMade
<1>2. ASSUME NEW g \in FrameType, NEW s \in Seq(FrameType), g.fn # "template", Ok(s)
      PROVE  <<g>> \o s \in Seq(FrameType) /\ Ok(<<g>> \o s)
  <2>1. FrameMade(g, Len(types))
    BY <1>2 DEF FrameMade
  <2> QED BY <1>2, <2>1, FrontMade, PushFrame
<1> SUFFICES Ok(stack')
  OBVIOUS
<1> HIDE DEF Ok
<1>3. ASSUME NEW s \in Seq(FrameType), Ok(s), CallExpression(s) PROVE Ok(stack')
  <2>1. ExpressionFrame \in FrameType /\ ExpressionFrame.fn = "expression"
    BY MakeFrame DEF ExpressionFrame, Frame, NamedFrame
  <2> QED BY <1>2, <1>3, <2>1 DEF CallExpression
<1>4. CASE \/ ParseEnd \/ ParseSemicolon \/ ParseKeyword \/ EndFunction
           \/ PrototypeName \/ PrototypeOpen \/ PrototypeClose
           \/ ParseLiteral \/ ParseVariable \/ ParseSubscript \/ Reject
  <2>1. UNCHANGED stack
    BY <1>4, Zenon
       DEF ParseEnd, ParseSemicolon, ParseKeyword, EndFunction, PrototypeName,
           PrototypeOpen, PrototypeClose, ParseLiteral, ParseVariable,
           ParseSubscript, Reject, MakeExpr, Return, Fail
  <2> QED BY <1>0, <2>1
<1>5. CASE \/ PrototypeArgName \/ CloseParen \/ CloseList \/ BinOpDone
           \/ PropagateError \/ SwallowError \/ SyntaxError
  <2>1. (stack # <<>> /\ stack' = Tail(stack)) \/ UNCHANGED stack
    BY <1>0, <1>5, Zenon
       DEF LoopFrames, PrototypeArgName, CloseParen, CloseList, BinOpDone, Pop,
           PropagateError, SwallowError, MakeExpr, Return, SyntaxError, Unexpected, Fail
  <2> QED BY <1>0, <1>1, <2>1
<1>6. CASE PrototypeArg \/ PrototypeType \/ ParseListExpr
  <2>1. PICK fn \in {"arg", "result", "list"} : stack' = <<Frame(fn)>> \o stack
    BY <1>6, Zenon DEF PrototypeArg, PrototypeType, ParseListExpr, Push
  <2>2. Frame(fn) \in FrameType /\ Frame(fn).fn # "template"
    BY <1>0, MakeFrame DEF Frame, NamedFrame
  <2> QED BY <1>0, <1>2, <2>1, <2>2
<1>7. CASE ParseTopLevelExpr \/ ParseListElement
  BY <1>0, <1>3, <1>7, Zenon DEF ParseTopLevelExpr, ParseListElement
<1>8. CASE ParseParenExpr
  <2>1. Frame("paren") \in FrameType /\ Frame("paren").fn # "template"
    BY <1>0, MakeFrame DEF Frame, NamedFrame
  <2>2. <<Frame("paren")>> \o stack \in Seq(FrameType) /\ Ok(<<Frame("paren")>> \o stack)
    BY <1>0, <1>2, <2>1
  <2> QED BY <1>3, <1>8, <2>2, Zenon DEF ParseParenExpr
<1>9. CASE ParseCall
  <2>1. NamedFrame("call", Tok) \in FrameType /\ NamedFrame("call", Tok).fn # "template"
    BY <1>0, MakeFrame DEF NamedFrame
  <2>2. <<NamedFrame("call", Tok)>> \o stack \in Seq(FrameType) /\ Ok(<<NamedFrame("call", Tok)>> \o stack)
    BY <1>0, <1>2, <2>1
  <2> QED BY <1>0, <1>3, <1>9, <2>2, Zenon DEF ParseCall
<1> DEFINE grown == [Top EXCEPT !.kids = Append(@, ret)]
<1>10. stack # <<>> => grown \in FrameType /\ grown.fn = Top.fn
  BY <1>0, <1>1, TopType, UpdateFrame
<1>11. CASE ParseCallArg
  <2>1. /\ stack # <<>> /\ Top.fn = "call"
        /\ stack' = Tail(stack) \/ CallExpression(<<grown>> \o Tail(stack))
    BY <1>11, Zenon DEF ParseCallArg, Pop
  <2>2. <<grown>> \o Tail(stack) \in Seq(FrameType) /\ Ok(<<grown>> \o Tail(stack))
    <3> HIDE DEF grown
    <3> QED BY <1>1, <1>2, <1>10, <2>1
  <2> QED BY <1>1, <1>3, <2>1, <2>2
<1>12. CASE EndListElement
  <2>1. stack # <<>> /\ Top.fn = "list" /\ stack' = <<grown>> \o Tail(stack)
    BY <1>12, Zenon DEF EndListElement, Replace
  <2> HIDE DEF grown
  <2> QED BY <1>1, <1>2, <1>10, <2>1
<1>13. CASE PrototypeEnd
  <2>1. \/ stack' = stack \/ (stack # <<>> /\ stack' = Tail(stack))
        \/ CallExpression(stack)
        \/ stack # <<>> /\ CallExpression(Tail(stack))
    BY <1>13, Zenon DEF PrototypeEnd, AfterPrototype
  <2> QED BY <1>0, <1>1, <1>3, <2>1
<1>14. CASE EndPrimary \/ MergeBinOp
  <2>1. PICK prec \in Nat, lhs \in Nat : stack # <<>> /\ stack' = <<BinOpFrame(prec, lhs)>> \o Tail(stack)
    <3>1. stack # <<>> /\ Top.prec \in Nat /\ Len(nodes) + 1 \in Nat
      BY <1>14, TopType DEF EndPrimary, MergeBinOp, TypeOK
    <3> QED BY <1>0, <1>14, <3>1, Zenon DEF EndPrimary, MergeBinOp, Replace
  <2>2. BinOpFrame(prec, lhs) \in FrameType /\ BinOpFrame(prec, lhs).fn = "binop"
    BY MakeFrame DEF BinOpFrame
  <2> QED BY <1>1, <1>2, <2>1, <2>2
<1>15. CASE EatBinOp
  <2>1. stack # <<>> /\ stack' = <<[Top EXCEPT !.fn = "rhs", !.name = Tok]>> \o Tail(stack)
    BY <1>0, <1>15, Zenon DEF EatBinOp, LoopFrames, Replace
  <2>2. /\ [Top EXCEPT !.fn = "rhs", !.name = Tok] \in FrameType
        /\ [Top EXCEPT !.fn = "rhs", !.name = Tok].fn = "rhs"
    <3>1. [Top EXCEPT !.fn = "rhs", !.name = Tok] \in FrameType
      BY <1>0, <1>1, <2>1, UpdateFrame, NoKids
    <3> QED BY <1>1, <2>1, <3>1 DEF FrameType
  <2> QED BY <1>1, <1>2, <2>1, <2>2
<1>16. CASE TightenBinOp
  <2> DEFINE tighter == BinOpFrame(tokPrecedence(Top.name) + 1, ret)
             merge == [Top EXCEPT !.fn = "merge"]
  <2>1. stack # <<>> /\ stack' = <<tighter, merge>> \o Tail(stack)
    BY <1>16, Zenon DEF TightenBinOp
  <2>2. tighter \in FrameType /\ tighter.fn = "binop"
    BY <1>0, Precedences, MakeFrame DEF BinOpFrame
  <2>3. merge \in FrameType /\ merge.fn = "merge"
    <3>1. merge \in FrameType
      BY <1>0, <1>1, <2>1, UpdateFrame, NoKids
    <3> QED BY <1>1, <2>1, <3>1 DEF FrameType
  <2> HIDE DEF tighter, merge
  <2>4. <<merge>> \o Tail(stack) \in Seq(FrameType) /\ Ok(<<merge>> \o Tail(stack))
    BY <1>1, <1>2, <2>1, <2>3
  <2>5. Ok(<<tighter>> \o (<<merge>> \o Tail(stack)))
    BY <1>2, <2>2, <2>4
  <2>6. stack' = <<tighter>> \o (<<merge>> \o Tail(stack))
    <3>1. tighter \in FrameType /\ merge \in FrameType /\ Tail(stack) \in Seq(FrameType)
      BY <1>1, <2>1, <2>2, <2>3
    <3>2. <<tighter, merge>> \o Tail(stack) = <<tighter>> \o (<<merge>> \o Tail(stack))
      BY <3>1, TwoInFront, SMTT(60)
    <3> QED BY <2>1, <3>2
  <2> QED BY <2>5, <2>6
<1> QED
  BY <1>4, <1>5, <1>6, <1>7, <1>8, <1>9, <1>11, <1>12, <1>13, <1>14, <1>15, <1>16, Zenon DEF Next

\* What other calls return is not taken for a type.
LEMMA OtherReturns ==
  ASSUME TypeOK, InBounds, OwnerInv, PlaceInv, Next, ~TypeName, ~TypeTemplateArg
  PROVE  ~TypeReturned(pc', stack')
<1>1. CASE ParseLiteral \/ ParseVariable \/ ParseSubscript \/ ParseCall
  <2>1. /\ pc = "primary" /\ (UNCHANGED stack \/ pc' # "return")
    <3>1. \A s : CallExpression(s) => pc' # "return"
      BY DEF CallExpression
    <3> QED BY <1>1, <3>1, Zenon DEF ParseLiteral, ParseVariable, ParseSubscript, ParseCall
  <2> QED BY <2>1 DEF PlaceInv, TypeReturned, Top
<1>2. CASE ParseCallArg \/ CloseParen \/ CloseList \/ BinOpDone \/ SwallowError
  <2>1. /\ stack # <<>> /\ Top.fn \in {"call", "paren", "list", "binop"}
        /\ stack' = Tail(stack) \/ pc' # "return"
    <3>1. \A s : CallExpression(s) => pc' # "return"
      BY DEF CallExpression
    <3>2. stack # <<>> /\ Top.fn \in {"call", "paren", "list", "binop"}
      BY <1>2 DEF ParseCallArg, CloseParen, CloseList, BinOpDone, SwallowError, TypeOK, LoopFrames
    <3> QED BY <1>2, <3>1, <3>2, Zenon DEF ParseCallArg, CloseParen, CloseList, BinOpDone, SwallowError, Pop
  <2>2. Tail(stack) # <<>> => Head(Tail(stack)).fn \notin TypeFrames
    BY <2>1, TopPlaced DEF TypeFrames
  <2> QED BY <2>1, <2>2 DEF TypeReturned
<1>3. CASE \/ ParseEnd \/ ParseSemicolon \/ ParseKeyword \/ ParseTopLevelExpr \/ EndFunction
           \/ PrototypeName \/ PrototypeOpen \/ PrototypeClose \/ PrototypeArg \/ PrototypeArgName
           \/ PrototypeType \/ PrototypeEnd \/ ParseParenExpr \/ ParseListExpr \/ ParseListElement
           \/ EndListElement \/ EndPrimary \/ EatBinOp \/ TightenBinOp \/ MergeBinOp
           \/ SyntaxError \/ PropagateError \/ Reject
  <2>1. pc' # "return"
    BY <1>3 DEF ParseEnd, ParseSemicolon, ParseKeyword, ParseTopLevelExpr, EndFunction,
           PrototypeName, PrototypeOpen, PrototypeClose, PrototypeArg, PrototypeArgName,
           PrototypeType, PrototypeEnd, ParseParenExpr, ParseListExpr, ParseListElement,
           EndListElement, EndPrimary, EatBinOp, TightenBinOp, MergeBinOp,
           SyntaxError, PropagateError, Reject, CallExpression, AfterPrototype, Fail
  <2> QED BY <2>1 DEF TypeReturned
<1> QED BY <1>1, <1>2, <1>3, Zenon DEF Next

\* A unit gets its name, its arguments and its result one by one.
LEMMA UnitsMadeStep ==
  ASSUME TypeOK, InBounds, OwnerInv, PlaceInv, DescriptorInv, Next
  PROVE  UnitMade(unit', Len(types)) /\ UnitsMade(units', Len(types))
<1> DEFINE n == Len(types)
<1>0. /\ unit \in UnitType /\ units \in Seq(UnitType) /\ UnitMade(unit, n) /\ UnitsMade(units, n)
      /\ n \in Nat
  BY DEF TypeOK, DescriptorInv
<1> HIDE DEF n
<1>1. UnitMade(NoUnit, n)
  BY <1>0 DEF UnitMade, NoUnit
<1>2. ASSUME NEW u \in UnitType, UnitMade(u, n) PROVE UnitsMade(Append(units, u), n)
  BY <1>0, <1>2 DEF UnitsMade
<1>3. \A u, v : u.type = v.type /\ u.args = v.args /\ UnitMade(u, n) => UnitMade(v, n)
  BY DEF UnitMade
<1>4. CASE \/ ParseEnd \/ ParseSemicolon \/ PrototypeOpen \/ PrototypeClose \/ PrototypeArg
           \/ PrototypeType \/ TypeName \/ TypeTemplateArg
           \/ ParseLiteral \/ ParseVariable \/ ParseSubscript
           \/ ParseCall \/ ParseCallArg \/ ParseParenExpr \/ CloseParen
           \/ ParseListExpr \/ ParseListElement \/ EndListElement \/ CloseList
           \/ EndPrimary \/ BinOpDone \/ EatBinOp \/ TightenBinOp \/ MergeBinOp
           \/ SyntaxError \/ PropagateError \/ SwallowError \/ Reject
  <2>1. UNCHANGED <<unit, units>>
    BY <1>4, Zenon
       DEF ParseEnd, ParseSemicolon, PrototypeOpen, PrototypeClose, PrototypeArg,
           PrototypeType, TypeName, TypeTemplateArg, ParseLiteral, ParseVariable,
           ParseSubscript, ParseCall, ParseCallArg, ParseParenExpr, CloseParen,
           ParseListExpr, ParseListElement, EndListElement, CloseList, EndPrimary,
           BinOpDone, EatBinOp, TightenBinOp, MergeBinOp, SyntaxError,
           PropagateError, SwallowError, Reject
  <2> QED BY <1>0, <2>1 DEF n
<1>5. CASE ParseKeyword \/ ParseTopLevelExpr \/ PrototypeName
  <2>1. /\ UNCHANGED units
        /\ \/ unit' = [NoUnit EXCEPT !.kind = Tok]
           \/ unit' = [NoUnit EXCEPT !.kind = "def", !.name = "__anon_expr"]
           \/ unit' = [unit EXCEPT !.name = Tok]
    BY <1>5, Zenon DEF ParseKeyword, ParseTopLevelExpr, PrototypeName
  <2>2. (unit'.type = NoUnit.type /\ unit'.args = NoUnit.args) \/ (unit'.type = unit.type /\ unit'.args = unit.args)
    BY <1>0, <2>1 DEF NoUnit, UnitType
  <2> QED BY <1>0, <1>1, <1>3, <2>1, <2>2 DEF n
<1>6. CASE EndFunction
  <2>1. units' = Append(units, [unit EXCEPT !.body = ret]) /\ unit' = NoUnit
    BY <1>6, Zenon DEF EndFunction
  <2>2. [unit EXCEPT !.body = ret] \in UnitType
    BY <1>0, UpdateUnit DEF TypeOK
  <2>3. UnitMade([unit EXCEPT !.body = ret], n)
    BY <1>0, <1>3 DEF UnitType
  <2> QED BY <1>1, <1>2, <2>1, <2>2, <2>3 DEF n
<1>7. CASE PrototypeArgName
  <2>1. /\ unit' = [unit EXCEPT !.args = Append(@, [type |-> ret, name |-> Tok])] /\ UNCHANGED units
        /\ TypeReturned(pc, stack)
    <3>1. Returned("arg")
      BY <1>7 DEF PrototypeArgName
    <3> QED BY <1>7, <3>1, Zenon DEF PrototypeArgName, TypeReturned, TypeFrames, Top
  <2>2. ret \in 1 .. n
    BY <2>1 DEF DescriptorInv, n
  <2>3. unit.args \in Seq([type : Nat, name : Ident]) /\ unit.type \in 0 .. n
        /\ \A k \in 1 .. Len(unit.args) : unit.args[k].type \in 1 .. n
    BY <1>0 DEF UnitType, UnitMade
  <2>4. unit'.type = unit.type /\ unit'.args = Append(unit.args, [type |-> ret, name |-> Tok])
    BY <1>0, <2>1 DEF UnitType
  <2>5. \A k \in 1 .. Len(unit'.args) : unit'.args[k].type \in 1 .. n
    BY <2>2, <2>3, <2>4
  <2> QED BY <1>0, <2>1, <2>3, <2>4, <2>5 DEF UnitMade, n
<1>8. CASE PrototypeEnd
  <2> DEFINE typed == [unit EXCEPT !.type = ret]
  <2>1. \/ AfterPrototype(unit, stack)
        \/ TypeReturned(pc, stack) /\ AfterPrototype(typed, Tail(stack))
    <3>1. Returned("result") => TypeReturned(pc, stack)
      BY DEF TypeReturned, TypeFrames, Top
    <3> QED BY <1>8, <3>1, Zenon DEF PrototypeEnd
  <2>2. ASSUME NEW u \in UnitType, UnitMade(u, n), NEW s, AfterPrototype(u, s)
        PROVE  UnitMade(unit', n) /\ UnitsMade(units', n)
    <3>1. \/ units' = Append(units, u) /\ unit' = NoUnit
          \/ unit' = u /\ UNCHANGED units
      BY <2>2, Zenon DEF AfterPrototype
    <3> QED BY <1>0, <1>1, <1>2, <2>2, <3>1
  <2>3. TypeReturned(pc, stack) => typed \in UnitType /\ UnitMade(typed, n)
    <3> SUFFICES ASSUME TypeReturned(pc, stack) PROVE typed \in UnitType /\ UnitMade(typed, n)
      OBVIOUS
    <3>1. ret \in 1 .. n
      BY DEF DescriptorInv, n
    <3>2. typed \in UnitType
      BY <1>0, UpdateUnit DEF TypeOK
    <3>3. typed.type = ret /\ typed.args = unit.args
      BY <1>0 DEF UnitType
    <3> HIDE DEF typed
    <3> QED BY <1>0, <3>1, <3>2, <3>3 DEF UnitMade
  <2> HIDE DEF typed
  <2> QED BY <1>0, <2>1, <2>2, <2>3 DEF n
<1> QED BY <1>4, <1>5, <1>6, <1>7, <1>8, Zenon DEF Next

\* A type is made of those that its template holds.
LEMMA TypesMade ==
  ASSUME TypeOK, InBounds, OwnerInv, PlaceInv, DescriptorInv, TypeName \/ TypeTemplateArg
  PROVE  DescriptorInv'
<1> DEFINE n == Len(types)
<1>0. /\ types \in Seq(DescType) /\ n \in Nat /\ stack \in Seq(FrameType) /\ StackMade(stack, n)
      /\ Made(types) /\ UnitMade(unit, n) /\ UnitsMade(units, n) /\ UNCHANGED <<unit, units>>
      /\ types \in Seq({types[t] : t \in DOMAIN types})
  <2>1. UNCHANGED <<unit, units>>
    BY Zenon DEF TypeName, TypeTemplateArg
  <2>2. types \in Seq(DescType) /\ stack \in Seq(FrameType)
    BY DEF TypeOK
  <2>3. types \in Seq({types[t] : t \in DOMAIN types}) /\ n \in Nat
    BY <2>2
  <2> QED BY <2>1, <2>2, <2>3, Zenon DEF DescriptorInv
<1>1. PICK f : AsTrees(f, types)
  BY DEF DescriptorInv
<1>2. stack # <<>> /\ Top.fn \in TypeFrames
  <2>1. pc = "type" \/ (stack # <<>> /\ Top.fn = "template")
    BY Zenon DEF TypeName, TypeTemplateArg
  <2> QED BY <2>1 DEF OwnerInv, TypeFrames
<1>3. /\ Top \in FrameType /\ Tail(stack) \in Seq(FrameType) /\ stack = <<Top>> \o Tail(stack)
      /\ FrameMade(Top, n) /\ StackMade(Tail(stack), n)
      /\ Top.fn = "template" => Tail(stack) # <<>> /\ Head(Tail(stack)).fn \in TypeFrames
  BY <1>0, <1>2, TopPlaced, RestMade
<1>4. ASSUME NEW name \in Ident, NEW args \in Seq(1 .. n), MakeType(name, args), StackMade(stack', n)
      PROVE  DescriptorInv'
  <2>1. /\ types' = Append(types, [name |-> name, args |-> args]) /\ ret' = n + 1
    BY <1>4, Zenon DEF MakeType, Return
  <2>2. Made(types') /\ \E g : AsTrees(g, types')
    <3> DEFINE d == [name |-> name, args |-> args]
    <3>1. d.name \in Ident /\ d.args \in Seq(1 .. Len(types))
      OBVIOUS
    <3> HIDE DEF d, n
    <3> QED BY <1>0, <1>1, <2>1, <3>1, TreeMade DEF d
  <2>3. Len(types') = n + 1 /\ n + 1 \in 1 .. n + 1
    BY <1>0, <2>1
  <2> HIDE DEF n
  <2>4. /\ StackMade(stack', n + 1) /\ UnitMade(unit', n + 1) /\ UnitsMade(units', n + 1)
    BY <1>0, <1>4, MoreMade
  <2> QED BY <2>1, <2>2, <2>3, <2>4, Zenon DEF DescriptorInv
<1>5. ASSUME UNCHANGED types, pc' = "type", StackMade(stack', n)
      PROVE  DescriptorInv'
  <2>1. ~TypeReturned(pc', stack')
    BY <1>5 DEF TypeReturned
  <2> QED BY <1>0, <1>1, <1>5, <2>1 DEF DescriptorInv
<1> HIDE DEF n
<1>6. CASE TypeName
  <2>1. /\ Tok \in Ident
        /\ \/ stack' = <<NamedFrame("template", Tok)>> \o stack /\ pc' = "type" /\ UNCHANGED types
           \/ MakeType(Tok, <<>>) /\ UNCHANGED stack
    BY <1>6, Zenon DEF TypeName, Push, heap
  <2>2. CASE MakeType(Tok, <<>>) /\ UNCHANGED stack
    <3>1. <<>> \in Seq(1 .. n)
      OBVIOUS
    <3> QED BY <1>0, <1>4, <2>1, <2>2, <3>1
  <2>3. CASE stack' = <<NamedFrame("template", Tok)>> \o stack /\ pc' = "type" /\ UNCHANGED types
    <3> DEFINE g == NamedFrame("template", Tok)
    <3>1. g \in FrameType /\ FrameMade(g, n)
      <4>1. "template" \in FrameName /\ Tok \in Name
        BY Names DEF FrameName
      <4>2. <<>> \in Seq(1 .. n)
        OBVIOUS
      <4> QED BY <2>1, <4>1, <4>2, MakeFrame DEF FrameMade, NamedFrame
    <3> HIDE DEF g
    <3>2. StackMade(<<g>> \o stack, n)
      BY <1>0, <3>1, FrontMade
    <3> QED BY <1>5, <2>3, <3>2 DEF g
  <2> QED BY <2>1, <2>2, <2>3
<1>7. CASE TypeTemplateArg
  <2> DEFINE grown == [Top EXCEPT !.kids = Append(@, ret)]
  <2>1. /\ TypeReturned(pc, stack) /\ Top.fn = "template"
        /\ \/ MakeType(Top.name, Append(Top.kids, ret)) /\ stack' = Tail(stack)
           \/ stack' = <<grown>> \o Tail(stack) /\ pc' = "type" /\ UNCHANGED types
    <3>1. Returned("template") => TypeReturned(pc, stack) /\ Top.fn = "template"
      BY DEF TypeReturned, TypeFrames, Top
    <3> QED BY <1>7, <3>1, Zenon DEF TypeTemplateArg, Pop, Replace, heap
  <2>2. ret \in 1 .. n
    BY <2>1 DEF DescriptorInv, n
  <2>3. Top.name \in Ident /\ Top.kids \in Seq(1 .. n)
    BY <1>3, <2>1 DEF FrameMade
  <2>4. Append(Top.kids, ret) \in Seq(1 .. n)
    BY <2>2, <2>3
  <2>5. grown \in FrameType /\ FrameMade(grown, n)
    <3>1. grown \in FrameType /\ grown.name = Top.name /\ grown.kids = Append(Top.kids, ret)
      <4>1. Append(Top.kids, ret) \in Seq(Nat) /\ "call" \in FrameName /\ "" \in Name
        BY <1>2, TopType DEF FrameName, Name
      <4>2. grown \in FrameType
        BY <1>3, <4>1, UpdateFrame
      <4> QED BY <1>3, <4>2 DEF FrameType
    <3> QED BY <2>3, <2>4, <3>1 DEF FrameMade
  <2> HIDE DEF grown
  <2>6. StackMade(<<grown>> \o Tail(stack), n)
    BY <1>3, <2>5, FrontMade
  <2> QED BY <1>3, <1>4, <1>5, <2>1, <2>3, <2>4, <2>6
<1> QED BY <1>6, <1>7

\* No type has been made when parse() is called,
LEMMA InitDescriptors == Init => DescriptorInv
<1> SUFFICES ASSUME Init PROVE DescriptorInv
  OBVIOUS
<1>1. types = <<>> /\ stack = <<>> /\ units = <<>> /\ unit = NoUnit /\ pc = "parse"
  BY DEF Init
<1>2. \E f : AsTrees(f, types)
  <2> DEFINE If(t) == TreeOf(<<>>, types[t])
             f == [t \in 1 .. 0 |-> If(t)]
  <2>1. f = [t \in 1 .. Len(types) |-> TreeOf(f, types[t])]
    <3>1. Len(types) = 0 /\ 1 .. 0 = {}
      BY <1>1
    <3> QED BY <3>1
  <2> HIDE DEF f
  <2> QED BY <2>1 DEF AsTrees
<1>3. Made(types) /\ StackMade(stack, Len(types)) /\ UnitsMade(units, Len(types))
  BY <1>1 DEF Made, StackMade, UnitsMade
<1>4. UnitMade(unit, Len(types))
  <2>1. unit.type = 0 /\ unit.args = <<>> /\ Len(types) = 0
    BY <1>1 DEF NoUnit
  <2> QED BY <2>1 DEF UnitMade
<1>5. ~TypeReturned(pc, stack)
  BY <1>1 DEF TypeReturned
<1> QED BY <1>2, <1>3, <1>4, <1>5, Zenon DEF DescriptorInv

\* and every step makes one of others, or none.
LEMMA NextDescriptors == IInv /\ OwnerInv /\ LayoutInv /\ DescriptorInv /\ [Next]_vars => DescriptorInv'
<1> SUFFICES ASSUME IInv, OwnerInv, LayoutInv, DescriptorInv, [Next]_vars PROVE DescriptorInv'
  OBVIOUS
<1>1. TypeOK /\ InBounds /\ PlaceInv
  BY DEF IInv, LayoutInv
<1>2. CASE TypeName \/ TypeTemplateArg
  BY <1>1, <1>2, TypesMade
<1>3. CASE Next /\ ~TypeName /\ ~TypeTemplateArg
  <2>1. UNCHANGED types
    BY <1>3, Zenon
       DEF Next, ParseEnd, ParseSemicolon, ParseKeyword, ParseTopLevelExpr, EndFunction,
           PrototypeName, PrototypeOpen, PrototypeClose, PrototypeArg, PrototypeArgName,
           PrototypeType, PrototypeEnd, ParseLiteral, ParseVariable, ParseSubscript, ParseCall, ParseCallArg,
           ParseParenExpr, CloseParen, ParseListExpr, ParseListElement, EndListElement, CloseList,
           EndPrimary, BinOpDone, EatBinOp, TightenBinOp, MergeBinOp,
           SyntaxError, PropagateError, SwallowError, Reject, MakeExpr, heap
  <2>2. StackMade(stack', Len(types)) /\ ~TypeReturned(pc', stack')
    BY <1>1, <1>3, OtherStacks, OtherReturns DEF DescriptorInv
  <2>3. UnitMade(unit', Len(types)) /\ UnitsMade(units', Len(types))
    BY <1>1, <1>3, UnitsMadeStep
  <2> QED BY <2>1, <2>2, <2>3 DEF DescriptorInv
<1>4. CASE UNCHANGED vars
  BY <1>4 DEF vars, heap, DescriptorInv
<1> QED BY <1>2, <1>3, <1>4

\* Whatever nests in the types of a file, a descriptor is made of a name of
\* the file and of descriptors that were made before it, and the units and the
\* templates under construction hold only such: the types that types::build is
\* given are finite trees, although a pointer is all that the parser keeps.
THEOREM DescriptorsAreTrees == Spec => []DescriptorInv
<1>1. Init => IInv /\ OwnerInv /\ LayoutInv /\ DescriptorInv
  BY InitIInv, InitOwners, InitLayout, InitDescriptors
<1>2. IInv /\ OwnerInv /\ LayoutInv /\ DescriptorInv /\ [Next]_vars
        => (IInv /\ OwnerInv /\ LayoutInv /\ DescriptorInv)'
  BY NextIInv, NextOwners, NextLayout, NextDescriptors
<1> QED BY <1>1, <1>2, PTL DEF Spec

-----------------------------------------------------------------------------
(* What parse() has returned.                                              *)

\* A TopLevel with the bodies of the units that were parsed.
SameUnits(p) ==
  /\ p.nodes = nodes
  /\ p.units \in Seq({p.units[u] : u \in DOMAIN p.units}) /\ Len(p.units) = Len(units)
  /\ \A u \in 1 .. Len(units) :
       p.units[u].kind = units[u].kind /\ p.units[u].body = units[u].body /\ IsUnit(p.units[u])

\* Its expressions are numbered in post-order,
LEMMA AcceptedPlaced ==
  ASSUME TypeOK, LayoutInv, pc = "accepted", NEW p, SameUnits(p)
  PROVE  /\ IsProgram(p) /\ InPostOrder(p)
         /\ Firsts(Leftmost(p), nodes) /\ Laid(Leftmost(p), nodes, <<>>, units, <<>>)
<1> DEFINE f == Leftmost(p)
           c == Len(nodes)
<1>0. /\ nodes \in Seq(ExprType) /\ units \in Seq(UnitType) /\ p.nodes = nodes /\ c \in Nat
      /\ Trees(nodes) /\ AllLaid(nodes, stack, units, Pend)
      /\ Len(p.units) = Len(units) /\ Len(units) \in Nat
  BY DEF TypeOK, LayoutInv, SameUnits
<1>1. stack = <<>> /\ Pend = <<>>
  BY PendIs DEF LayoutInv, PlaceInv, Between
<1>2. Firsts(f, nodes)
  <2>1. \E g : Firsts(g, p.nodes)
    BY <1>0 DEF Trees
  <2>2. Firsts(Leftmost(p), p.nodes)
    BY <2>1, LeftmostFirsts
  <2> QED BY <1>0, <2>2
<1>3. Laid(f, nodes, <<>>, units, <<>>)
  BY <1>0, <1>1, <1>2, Zenon DEF AllLaid
<1>4. /\ \A n \in 1 .. c : IsExpression(nodes[n], n) /\ Placed(f, nodes[n].kids, n)
      /\ f[0] = 0
  BY <1>0, <1>2, FirstsAt DEF Trees
<1>5. \A u \in 1 .. Len(units) : units[u].kind = "def" => units[u].body \in 0 .. c
  <2>1. \A u \in 1 .. Len(units) : units[u].kind = "def" => IsRoot(units[u].body, <<>>, units, <<>>)
    BY Zenon DEF IsRoot, IsBody
  <2> QED BY <1>3, <2>1, Zenon DEF Laid
<1>6. IsProgram(p)
  <2>1. nodes \in Seq({nodes[n] : n \in DOMAIN nodes})
    BY <1>0
  <2>2. \A u \in 1 .. Len(units) :
          p.units[u].kind = units[u].kind /\ p.units[u].body = units[u].body /\ IsUnit(p.units[u])
    BY DEF SameUnits
  <2>3. p.units \in Seq({p.units[u] : u \in DOMAIN p.units})
    BY DEF SameUnits
  <2> QED BY <1>0, <1>4, <1>5, <2>1, <2>2, <2>3 DEF IsProgram
<1>7. ASSUME NEW u \in 1 .. Len(p.units),
             \A v \in 1 .. u : p.units[v].kind = "def" => f[p.units[v].body] # 0,
             p.units[u].kind = "def", NEW n \in 1 .. c
      PROVE  n < f[p.units[u].body] <=> \E v \in 1 .. u - 1 : p.units[v].kind = "def" /\ n <= p.units[v].body
  <2>1. /\ u \in 1 .. Len(units) /\ \A v \in 1 .. u : v \in 1 .. Len(units)
        /\ \A v \in 1 .. u - 1 : v \in 1 .. Len(units)
        /\ \A v \in 1 .. Len(units) : p.units[v].kind = units[v].kind /\ p.units[v].body = units[v].body
    BY <1>0 DEF SameUnits
  <2>2. Bodies(f, units, u) /\ units[u].kind = "def"
    BY <1>7, <2>1 DEF Bodies
  <2>3. n < f[units[u].body] <=> UpTo(n, units, u - 1)
    <3>1. UnitsPlaced(f, c, units)
      BY <1>3 DEF Laid
    <3> HIDE DEF f, c
    <3> QED BY <2>1, <2>2, <3>1 DEF UnitsPlaced
  <2>4. UpTo(n, units, u - 1) <=> \E v \in 1 .. u - 1 : p.units[v].kind = "def" /\ n <= p.units[v].body
    BY <2>1, Zenon DEF UpTo
  <2> QED BY <2>1, <2>3, <2>4
<1>8. InPostOrder(p)
  <2> HIDE DEF f
  <2>1. \A n \in 1 .. Len(p.nodes) : Placed(f, p.nodes[n].kids, n)
    BY <1>0, <1>4
  <2>2. \A u \in 1 .. Len(p.units) :
          (\A v \in 1 .. u : p.units[v].kind = "def" => f[p.units[v].body] # 0) =>
            (p.units[u].kind = "def" => \A n \in 1 .. Len(p.nodes) :
               n < f[p.units[u].body]
                 <=> \E v \in 1 .. u - 1 : p.units[v].kind = "def" /\ n <= p.units[v].body)
    BY <1>0, <1>7
  <2> QED BY <1>4, <2>1, <2>2, Zenon DEF InPostOrder, Placed, f
<1> QED BY <1>2, <1>3, <1>6, <1>8

\* and unless one of the bodies has a null pointer in it, none has, and every
\* expression belongs to a unit.
LEMMA AcceptedWhole ==
  ASSUME TypeOK, LayoutInv, pc = "accepted", NEW p, SameUnits(p),
         \A u \in 1 .. Len(units) : units[u].kind = "def" => Leftmost(p)[units[u].body] # 0
  PROVE  \A n \in 1 .. Len(nodes) :
           /\ \A k \in 1 .. Len(nodes[n].kids) : nodes[n].kids[k] # 0
           /\ \/ \E u \in 1 .. Len(units) : units[u].kind = "def" /\ units[u].body = n
              \/ \E m \in 1 .. Len(nodes) : \E k \in 1 .. Len(nodes[m].kids) : nodes[m].kids[k] = n
<1> DEFINE f == Leftmost(p)
<1>1. Firsts(f, nodes) /\ Laid(f, nodes, <<>>, units, <<>>)
  BY AcceptedPlaced
<1>2. Len(nodes) \in Nat /\ Trees(nodes)
  BY DEF TypeOK, LayoutInv
<1>3. f[0] = 0 /\ \A n \in 1 .. Len(nodes) : Placed(f, nodes[n].kids, n)
  BY <1>1, <1>2, FirstsAt DEF Trees
<1>4. \A u \in 1 .. Len(units) : units[u].kind = "def" => f[units[u].body] # 0
  OBVIOUS
<1> HIDE DEF f
<1>5. \A x : IsRoot(x, <<>>, units, <<>>) <=> IsBody(x, units)
  BY AmongOne DEF IsRoot
<1>6. ~\E x : IsRoot(x, <<>>, units, <<>>) /\ f[x] = 0
  BY <1>4, <1>5, Zenon DEF IsBody
<1>7. \A x \in 1 .. Len(nodes) :
        f[x] # 0 /\ (IsBody(x, units) \/ \E y \in 1 .. Len(nodes) : Among(x, nodes[y].kids))
  BY <1>1, <1>5, <1>6, Zenon DEF Laid, Whole
<1>8. ASSUME NEW n \in 1 .. Len(nodes), NEW k \in 1 .. Len(nodes[n].kids)
      PROVE  nodes[n].kids[k] # 0
  <2>1. f[nodes[n].kids[k]] # 0
    BY <1>3, <1>7, Zenon DEF Placed
  <2> QED BY <1>3, <2>1
<1> QED BY <1>7, <1>8, Zenon DEF IsBody, Among

\* What parse() returns has its expressions numbered in post-order, over all
\* units together, with gaps only where an error left a null pointer behind:
\* the numbers that the analysis cuts its tables by.
THEOREM ParsedInOrder == Spec => []ParsedInPostOrder
<1> DEFINE p == [nodes |-> nodes, units |-> units]
<1>1. ASSUME TypeOK, LayoutInv, pc = "accepted" PROVE IsProgram(p) /\ InPostOrder(p)
  <2>1. units \in Seq(UnitType) /\ p.nodes = nodes /\ p.units = units /\ Len(units) \in Nat
    BY <1>1 DEF TypeOK
  <2>2. units \in Seq({units[u] : u \in DOMAIN units})
    BY <2>1
  <2>3. ASSUME NEW u \in 1 .. Len(units) PROVE IsUnit(units[u])
    <3>1. units[u] \in UnitType /\ units[u].kind \in {"def", "extern"}
      BY <1>1, <2>1 DEF LayoutInv, PlaceInv
    <3>2. units[u].args \in Seq({units[u].args[i] : i \in DOMAIN units[u].args})
      <4>1. units[u].args \in Seq([type : Nat, name : Ident])
        BY <3>1 DEF UnitType
      <4> QED BY <4>1
    <3> QED BY <3>1, <3>2 DEF IsUnit
  <2> HIDE DEF p
  <2>4. SameUnits(p)
    BY <2>1, <2>2, <2>3 DEF SameUnits
  <2> QED BY <1>1, <2>4, AcceptedPlaced
<1>2. IInv /\ LayoutInv => ParsedInPostOrder
  BY <1>1 DEF IInv, ParsedInPostOrder
<1>3. Init => IInv /\ OwnerInv /\ LayoutInv
  BY InitIInv, InitOwners, InitLayout
<1>4. IInv /\ OwnerInv /\ LayoutInv /\ [Next]_vars => (IInv /\ OwnerInv /\ LayoutInv)'
  BY NextIInv, NextOwners, NextLayout
<1> QED BY <1>2, <1>3, <1>4, PTL DEF Spec
=============================================================================
