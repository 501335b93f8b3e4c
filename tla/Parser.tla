------------------------------- MODULE Parser -------------------------------
(***************************************************************************)
(* The recursive-descent parser of packages/pom/pom_parser.cpp as a stack  *)
(* machine: one frame for each active call whose locals are still needed,  *)
(* the caller's frame below the callee's.  A parse function that returns   *)
(* an expression sets pc to "return" and ret to the node, 0 standing for a *)
(* null pointer; one that returns an unexpected sets pc to "fail".         *)
(***************************************************************************)
EXTENDS Integers, Sequences, PostOrder

CONSTANTS
  Ident,    \* the names that identifier tokens carry
  Inputs    \* the token vectors to parse, as the lexer returns them

Operator == {"(", ")", "[", "]", "<", ">", "+", "-", "*", "/", ",", ":", ";"}
Token    == Ident \cup Operator \cup Literal \cup {"def", "extern", "eof"}

ASSUME IdentAssumption ==
  Ident \cap (Operator \cup Literal \cup {"def", "extern", "eof"}) = {}

ASSUME LiteralAssumption == Literal \cap (Operator \cup {"def", "extern", "eof"}) = {}

\* A vector that lex() returns ends in Eof, and no token before is Eof.
EndsInEof(t) ==
  /\ t \in Seq(Token)
  /\ t # <<>>
  /\ \A i \in 1 .. Len(t) : t[i] = "eof" <=> i = Len(t)

ASSUME InputAssumption == \A t \in Inputs : EndsInEof(t)

VARIABLES
  tokens,   \* the tokens to parse
  pos,      \* tok_it
  pc,       \* the point the running parse function has reached
  stack,    \* the frames of the active calls, the innermost one first
  ret,      \* the pointer the last call returned
  nodes,    \* the expressions made so far; node n has ExprId n - 1
  types,    \* the type descriptors made so far
  unit,     \* the top-level unit under construction
  units     \* the TopLevel vector parse() returns

heap == <<nodes, types>>
vars == <<tokens, pos, pc, stack, ret, nodes, types, unit, units>>

Tok == tokens[pos]
Eat(n) == pos' = pos + n

tokPrecedence(tok) ==
  CASE tok \in {"<", ">"} -> 10
    [] tok \in {"+", "-"} -> 20
    [] tok = "*"          -> 40
    [] OTHER              -> -1

-----------------------------------------------------------------------------
(* Frames and results.                                                     *)

NamedFrame(fn, name) ==
  [fn |-> fn, prec |-> 0, lhs |-> 0, name |-> name, kids |-> <<>>]
Frame(fn) == NamedFrame(fn, "")
ExpressionFrame == Frame("expression")
BinOpFrame_NoMinimum(prec, lhs) ==
  [fn |-> "binop", prec |-> 0, lhs |-> lhs, name |-> "", kids |-> <<>>]
BinOpFrame(prec, lhs) ==
  [fn |-> "binop", prec |-> prec, lhs |-> lhs, name |-> "", kids |-> <<>>]

Top == Head(stack)
Returned(fn) == pc = "return" /\ stack # <<>> /\ Top.fn = fn
Pop == stack' = Tail(stack)
Push(frame) == stack' = <<frame>> \o stack
Replace(frame) == stack' = <<frame>> \o Tail(stack)

\* A call of parseExpression, which starts with one of parsePrimary.
CallExpression(frames) ==
  /\ stack' = <<ExpressionFrame>> \o frames
  /\ pc' = "primary"

Return(ptr) == pc' = "return" /\ ret' = ptr
Fail == pc' = "fail" /\ UNCHANGED ret

\* ctx.nextId() is called once for every expression made.
NewExpr(kind, name, kids) ==
  nodes' = Append(nodes, [kind |-> kind, name |-> name, kids |-> kids, index |-> ""])

\* A variable with a subscript, which is the literal between the brackets.
NewSubscript(name, index) ==
  nodes' = Append(nodes, [kind |-> "subscript", name |-> name, kids |-> <<>>, index |-> index])

MakeExpr(kind, name, kids) ==
  /\ NewExpr(kind, name, kids)
  /\ Return(Len(nodes) + 1)
  /\ UNCHANGED types

MakeType(name, args) ==
  /\ types' = Append(types, [name |-> name, args |-> args])
  /\ Return(Len(types) + 1)
  /\ UNCHANGED nodes

NoUnit == [kind |-> "none", name |-> "", args |-> <<>>, type |-> 0, body |-> 0]

-----------------------------------------------------------------------------
Init ==
  /\ tokens \in Inputs
  /\ pos = 1
  /\ pc = "parse"
  /\ stack = <<>>
  /\ ret = 0
  /\ nodes = <<>>
  /\ types = <<>>
  /\ unit = NoUnit
  /\ units = <<>>

(* parse(): the loop over top-level units.                                 *)

ParseEnd ==
  /\ pc = "parse" /\ Tok = "eof"
  /\ pc' = "accepted"
  /\ UNCHANGED <<pos, stack, ret, heap, unit, units>>

ParseSemicolon ==
  /\ pc = "parse" /\ Tok = ";"
  /\ Eat(1)
  /\ UNCHANGED <<pc, stack, ret, heap, unit, units>>

\* parseDefinition and parseExtern begin with the prototype.
ParseKeyword ==
  /\ pc = "parse" /\ Tok \in {"def", "extern"}
  /\ Eat(1) /\ pc' = "name" /\ unit' = [NoUnit EXCEPT !.kind = Tok]
  /\ UNCHANGED <<stack, ret, heap, units>>

ParseTopLevelExpr ==
  /\ pc = "parse" /\ Tok \notin {"eof", ";", "def", "extern"}
  /\ unit' = [NoUnit EXCEPT !.kind = "def", !.name = "__anon_expr"]
  /\ CallExpression(stack)
  /\ UNCHANGED <<pos, ret, heap, units>>

\* The body of a definition or of an anonymous function is complete.
EndFunction ==
  /\ pc = "return"
  /\ stack = <<>>
  /\ units' = Append(units, [unit EXCEPT !.body = ret])
  /\ unit' = NoUnit
  /\ pc' = "parse"
  /\ UNCHANGED <<pos, stack, ret, heap>>

-----------------------------------------------------------------------------
(* parsePrototype and parseType.                                           *)

PrototypeName ==
  /\ pc = "name" /\ Tok \in Ident
  /\ Eat(1)
  /\ unit' = [unit EXCEPT !.name = Tok]
  /\ pc' = "open"
  /\ UNCHANGED <<stack, ret, heap, units>>

PrototypeOpen ==
  /\ pc = "open" /\ Tok = "("
  /\ Eat(1) /\ pc' = "args"
  /\ UNCHANGED <<stack, ret, heap, unit, units>>

PrototypeClose ==
  /\ pc = "args" /\ Tok = ")"
  /\ Eat(1) /\ pc' = "result"
  /\ UNCHANGED <<stack, ret, heap, unit, units>>

\* Every argument but the first one follows a comma.
PrototypeArg ==
  /\ pc = "args" /\ Tok # ")"
  /\ \/ unit.args = <<>> /\ UNCHANGED pos
     \/ unit.args # <<>> /\ Tok = "," /\ Eat(1)
  /\ Push(Frame("arg")) /\ pc' = "type"
  /\ UNCHANGED <<ret, heap, unit, units>>

PrototypeArgName ==
  /\ Returned("arg") /\ Tok \in Ident
  /\ Eat(1)
  /\ unit' = [unit EXCEPT !.args = Append(@, [type |-> ret, name |-> Tok])]
  /\ Pop /\ pc' = "args"
  /\ UNCHANGED <<ret, heap, units>>

PrototypeType ==
  /\ pc = "result" /\ Tok = ":"
  /\ Eat(1) /\ Push(Frame("result")) /\ pc' = "type"
  /\ UNCHANGED <<ret, heap, unit, units>>

\* An extern declaration ends with its prototype, a definition goes on.
AfterPrototype(proto, frames) ==
  \/ /\ proto.kind = "extern"
     /\ units' = Append(units, proto)
     /\ unit' = NoUnit
     /\ stack' = frames
     /\ pc' = "parse"
  \/ /\ proto.kind = "def"
     /\ unit' = proto
     /\ CallExpression(frames)
     /\ UNCHANGED units

PrototypeEnd ==
  \/ /\ pc = "result" /\ Tok # ":"
     /\ AfterPrototype(unit, stack)
     /\ UNCHANGED <<pos, ret, heap>>
  \/ /\ Returned("result")
     /\ AfterPrototype([unit EXCEPT !.type = ret], Tail(stack))
     /\ UNCHANGED <<pos, ret, heap>>

TypeName ==
  /\ pc = "type" /\ Tok \in Ident
  /\ \/ /\ tokens[pos + 1] = "<"
        /\ Eat(2) /\ Push(NamedFrame("template", Tok))
        /\ UNCHANGED <<pc, ret, heap>>
     \/ /\ tokens[pos + 1] # "<"
        /\ Eat(1) /\ MakeType(Tok, <<>>)
        /\ UNCHANGED stack
  /\ UNCHANGED <<unit, units>>

TypeTemplateArg ==
  /\ Returned("template")
  /\ \/ /\ Tok = ">"
        /\ MakeType(Top.name, Append(Top.kids, ret))
        /\ Pop
     \/ /\ Tok = ","
        /\ Replace([Top EXCEPT !.kids = Append(@, ret)]) /\ pc' = "type"
        /\ UNCHANGED <<ret, heap>>
  /\ Eat(1)
  /\ UNCHANGED <<unit, units>>

-----------------------------------------------------------------------------
(* parsePrimary and the functions it dispatches to.                        *)

ParseLiteral ==
  /\ pc = "primary" /\ Tok \in Literal
  /\ Eat(1) /\ MakeExpr("literal", Tok, <<>>)
  /\ UNCHANGED <<stack, unit, units>>

ParseVariable ==
  /\ pc = "primary" /\ Tok \in Ident
  /\ tokens[pos + 1] \notin {"(", "["}
  /\ Eat(1) /\ MakeExpr("var", Tok, <<>>)
  /\ UNCHANGED <<stack, unit, units>>

\* Only a literal that the lexer read as a Real is a subscript.  The tokens
\* in front of an unexpected one stay eaten.
ParseSubscript ==
  /\ pc = "primary" /\ Tok \in Ident
  /\ tokens[pos + 1] = "["
  /\ \/ /\ tokens[pos + 2] \notin RealLiteral
        /\ Eat(2) /\ Fail
        /\ UNCHANGED heap
     \/ /\ tokens[pos + 2] \in RealLiteral
        /\ tokens[pos + 3] # "]"
        /\ Eat(3) /\ Fail
        /\ UNCHANGED heap
     \/ /\ tokens[pos + 2] \in RealLiteral
        /\ tokens[pos + 3] = "]"
        /\ Eat(4) /\ NewSubscript(Tok, tokens[pos + 2])
        /\ Return(Len(nodes) + 1) /\ UNCHANGED types
  /\ UNCHANGED <<stack, unit, units>>

ParseCall_NoEmptyArgs ==
  /\ pc = "primary" /\ Tok \in Ident
  /\ tokens[pos + 1] = "("
  /\ Eat(2) /\ CallExpression(<<NamedFrame("call", Tok)>> \o stack)
  /\ UNCHANGED <<ret, heap, unit, units>>

ParseCall ==
  /\ pc = "primary" /\ Tok \in Ident
  /\ tokens[pos + 1] = "("
  /\ \/ /\ tokens[pos + 2] = ")"
        /\ Eat(3) /\ MakeExpr("call", Tok, <<>>)
        /\ UNCHANGED stack
     \/ /\ tokens[pos + 2] # ")"
        /\ Eat(2)
        /\ CallExpression(<<NamedFrame("call", Tok)>> \o stack)
        /\ UNCHANGED <<ret, heap>>
  /\ UNCHANGED <<unit, units>>

ParseCallArg ==
  /\ Returned("call")
  /\ \/ /\ Tok = ")"
        /\ MakeExpr("call", Top.name, Append(Top.kids, ret)) /\ Pop
     \/ /\ Tok = ","
        /\ CallExpression(<<[Top EXCEPT !.kids = Append(@, ret)]>> \o Tail(stack))
        /\ UNCHANGED <<ret, heap>>
  /\ Eat(1)
  /\ UNCHANGED <<unit, units>>

ParseParenExpr ==
  /\ pc = "primary" /\ Tok = "("
  /\ Eat(1)
  /\ CallExpression(<<Frame("paren")>> \o stack)
  /\ UNCHANGED <<ret, heap, unit, units>>

CloseParen_Unchecked ==
  /\ Returned("paren")
  /\ Eat(1) /\ Pop
  /\ UNCHANGED <<pc, ret, heap, unit, units>>

CloseParen ==
  /\ Returned("paren") /\ Tok = ")"
  /\ Eat(1) /\ Pop
  /\ UNCHANGED <<pc, ret, heap, unit, units>>

ParseListExpr ==
  /\ pc = "primary" /\ Tok = "["
  /\ Eat(1) /\ Push(Frame("list")) /\ pc' = "list"
  /\ UNCHANGED <<ret, heap, unit, units>>

\* The elements of a list follow one another without a separator.
ParseListElement ==
  /\ pc = "list" /\ Tok # "]"
  /\ CallExpression(stack)
  /\ UNCHANGED <<pos, ret, heap, unit, units>>

EndListElement_PushFront ==
  /\ Returned("list")
  /\ Replace([Top EXCEPT !.kids = <<ret>> \o @]) /\ pc' = "list"
  /\ UNCHANGED <<pos, ret, heap, unit, units>>

EndListElement ==
  /\ Returned("list")
  /\ Replace([Top EXCEPT !.kids = Append(@, ret)]) /\ pc' = "list"
  /\ UNCHANGED <<pos, ret, heap, unit, units>>

CloseList ==
  /\ pc = "list" /\ Tok = "]"
  /\ Eat(1) /\ MakeExpr("list", "", Top.kids) /\ Pop
  /\ UNCHANGED <<unit, units>>

-----------------------------------------------------------------------------
(* parseExpression and parseBinOpRHS.                                      *)

EndPrimary_NoFrame ==
  /\ Returned("expression")
  /\ pc' = "binop"
  /\ UNCHANGED <<pos, stack, ret, heap, unit, units>>

\* parseExpression ends with a call of parseBinOpRHS.
EndPrimary ==
  /\ Returned("expression")
  /\ Replace(BinOpFrame(0, ret)) /\ pc' = "binop"
  /\ UNCHANGED <<pos, ret, heap, unit, units>>

BinOpDone ==
  /\ pc = "binop" /\ tokPrecedence(Tok) < Top.prec
  /\ Return(Top.lhs) /\ Pop
  /\ UNCHANGED <<pos, heap, unit, units>>

\* No precedence passed is negative: a token that gets here is an operator.
EatBinOp ==
  /\ pc = "binop" /\ tokPrecedence(Tok) >= Top.prec
  /\ Eat(1) /\ Replace([Top EXCEPT !.fn = "rhs", !.name = Tok]) /\ pc' = "primary"
  /\ UNCHANGED <<ret, heap, unit, units>>

\* The next operator binds tighter: it takes the operand as its left side.
TightenBinOp ==
  /\ Returned("rhs")
  /\ tokPrecedence(Top.name) < tokPrecedence(Tok)
  /\ stack' = <<BinOpFrame(tokPrecedence(Top.name) + 1, ret),
                [Top EXCEPT !.fn = "merge"]>> \o Tail(stack)
  /\ pc' = "binop"
  /\ UNCHANGED <<pos, ret, heap, unit, units>>

MergeBinOp_CopiesLhs ==
  /\ Returned("rhs") \/ Returned("merge")
  /\ NewExpr("binary", Top.name, <<Top.lhs, Top.lhs>>)
  /\ Replace(BinOpFrame(Top.prec, Len(nodes) + 1)) /\ pc' = "binop"
  /\ UNCHANGED <<pos, ret, types, unit, units>>

MergeBinOp ==
  /\ \/ Returned("rhs") /\ tokPrecedence(Top.name) >= tokPrecedence(Tok)
     \/ Returned("merge")
  /\ NewExpr("binary", Top.name, <<Top.lhs, ret>>)
  /\ Replace(BinOpFrame(Top.prec, Len(nodes) + 1)) /\ pc' = "binop"
  /\ UNCHANGED <<pos, ret, types, unit, units>>

-----------------------------------------------------------------------------
(* Errors.                                                                 *)

\* The token is none of those the running function goes on with.
Unexpected ==
  \/ pc = "primary" /\ Tok \notin Ident \cup Literal \cup {"(", "["}
  \/ pc \in {"name", "type"} /\ Tok \notin Ident
  \/ pc = "open" /\ Tok # "("
  \/ pc = "args" /\ Tok \notin {")", ","} /\ unit.args # <<>>
  \/ Returned("paren")    /\ Tok # ")"
  \/ Returned("call")     /\ Tok \notin {")", ","}
  \/ Returned("template") /\ Tok \notin {">", ","}
  \/ Returned("arg")      /\ Tok \notin Ident

\* The function that found the error returns it; its frame, if any, goes.
SyntaxError ==
  /\ Unexpected
  /\ Fail
  /\ stack' = IF pc = "return" THEN Tail(stack) ELSE stack
  /\ UNCHANGED <<pos, heap, unit, units>>

\* Most callers pass an unexpected on.
PropagateError ==
  /\ pc = "fail"
  /\ stack # <<>> /\ Top.fn \notin {"paren", "list"}
  /\ Pop
  /\ UNCHANGED <<pos, pc, ret, heap, unit, units>>

SwallowError_GoesOn ==
  /\ pc = "fail"
  /\ stack # <<>> /\ Top.fn \in {"paren", "list"}
  /\ \/ Top.fn = "paren" /\ Return(0) /\ Pop
     \/ Top.fn = "list" /\ pc' = "list" /\ UNCHANGED <<ret, stack>>
  /\ UNCHANGED <<pos, heap, unit, units>>

\* parseParenExpr and parseListExpr return nullptr instead, as a success.
SwallowError ==
  /\ pc = "fail"
  /\ stack # <<>> /\ Top.fn \in {"paren", "list"}
  /\ Return(0) /\ Pop
  /\ UNCHANGED <<pos, heap, unit, units>>

Reject ==
  /\ pc = "fail"
  /\ stack = <<>>
  /\ pc' = "rejected"
  /\ UNCHANGED <<pos, stack, ret, heap, unit, units>>

-----------------------------------------------------------------------------
Next ==
  /\ UNCHANGED tokens
  /\ \/ ParseEnd \/ ParseSemicolon \/ ParseKeyword \/ ParseTopLevelExpr
     \/ EndFunction
     \/ PrototypeName \/ PrototypeOpen \/ PrototypeClose
     \/ PrototypeArg \/ PrototypeArgName \/ PrototypeType \/ PrototypeEnd
     \/ TypeName \/ TypeTemplateArg
     \/ ParseLiteral \/ ParseVariable \/ ParseSubscript
     \/ ParseCall \/ ParseCallArg \/ ParseParenExpr \/ CloseParen
     \/ ParseListExpr \/ ParseListElement \/ EndListElement \/ CloseList
     \/ EndPrimary \/ BinOpDone \/ EatBinOp \/ TightenBinOp \/ MergeBinOp
     \/ SyntaxError \/ PropagateError \/ SwallowError \/ Reject

Spec == Init /\ [][Next]_vars

\* parse() is one sequential function: it goes on until it returns.
FairSpec == Spec /\ WF_vars(Next)

-----------------------------------------------------------------------------
(* Types and pointers.                                                     *)

Point == {"parse", "name", "open", "args", "result", "type", "primary",
          "list", "binop", "return", "fail", "accepted", "rejected"}
Name == Token \cup {"", "__anon_expr"}
FrameName == {"expression", "binop", "rhs", "merge", "paren", "list", "call",
              "arg", "result", "template"}
FrameType == [fn : FrameName, prec : Nat, lhs : Nat, name : Name, kids : Seq(Nat)]
ExprKind == {"literal", "var", "subscript", "call", "list", "binary"}
ExprType == [kind : ExprKind, name : Name, kids : Seq(Nat), index : Name]
DescType == [name : Name, args : Seq(Nat)]
UnitType == [kind : {"none", "def", "extern"}, name : Name,
             args : Seq([type : Nat, name : Ident]), type : Nat, body : Nat]

\* The loops of parseListExpr and parseBinOpRHS run in their own frame.
LoopFrames ==
  pc \in {"list", "binop"} => stack # <<>> /\ Top.fn = pc

TypeOK ==
  /\ EndsInEof(tokens)
  /\ pos \in Nat
  /\ pc \in Point
  /\ stack \in Seq(FrameType)
  /\ ret \in Nat
  /\ nodes \in Seq(ExprType)
  /\ types \in Seq(DescType)
  /\ unit \in UnitType
  /\ units \in Seq(UnitType)
  /\ LoopFrames

\* The token iterator, which no parse function compares with end(), never
\* moves past the Eof token.
InBounds == pos \in 1 .. Len(tokens)

Halted == pc \in {"accepted", "rejected"}

\* Every pointer to an expression that something still holds: an expression
\* its operand, a frame its locals, the caller the result, a unit its body.
ReturnsExpr ==
  /\ pc = "return"
  /\ stack # <<>> => Top.fn \notin {"arg", "result", "template"}

OwnersOf(n) ==
  {o \in {"node"} \X (1 .. Len(nodes)) \X (1 .. Len(tokens)) :
     /\ o[3] <= Len(nodes[o[2]].kids)
     /\ nodes[o[2]].kids[o[3]] = n}
  \cup
  {o \in {"kid"} \X (1 .. Len(stack)) \X (1 .. Len(tokens)) :
     /\ stack[o[2]].fn # "template"
     /\ o[3] <= Len(stack[o[2]].kids)
     /\ stack[o[2]].kids[o[3]] = n}
  \cup
  {o \in {"lhs"} \X (1 .. Len(stack)) \X {0} : stack[o[2]].lhs = n}
  \cup
  {o \in {"unit"} \X (1 .. Len(units)) \X {0} : units[o[2]].body = n}
  \cup
  {o \in {"ret"} \X {0} \X {0} : ReturnsExpr /\ ret = n}

\* No expression is ever part of two others, or of one other twice: the
\* passes after the parser key what they know of an expression by its ExprId
\* and count on meeting each one once.
SingleOwner ==
  \A n \in 1 .. Len(nodes) : \A a, b \in OwnersOf(n) : a = b

\* What parse() returns is numbered as the analysis counts on.
ParsedInPostOrder ==
  pc = "accepted" => LET p == [nodes |-> nodes, units |-> units]
                     IN  IsProgram(p) /\ InPostOrder(p)

\* parse() returns on every token vector.
Terminates == <>Halted
=============================================================================
