------------------------------- MODULE Lexer -------------------------------
(***************************************************************************)
(* The lexer of packages/pom/pom_lexer.cpp: lex() calls nexttok() until it *)
(* returns Eof, and nexttok() reads the stream one character at a time,    *)
(* always one character ahead of the token it builds (lastChar).           *)
(***************************************************************************)
EXTENDS Chars

CONSTANT Inputs     \* the programs to lex, sequences of characters

\* A file holds any characters; the byte 0xFF is EofChar as well.
ASSUME InputsAreText == \A chars \in Inputs : chars \in Seq(STRING)

VARIABLES
  input,    \* the contents of the stream
  at,       \* how many characters get() has consumed; lastChar is the last
            \* one, and at = Len(input) + 1 once get() has hit the end
  pc,       \* where nexttok is: between tokens or in one of its three loops
  text,     \* the identifier or numStr being accumulated
  tokens    \* the vector lex() returns

vars == <<input, at, pc, text, tokens>>

LastChar ==
  CASE at = 0            -> " "
    [] at > Len(input)   -> EofChar
    [] OTHER             -> input[at]

NextChar_PastEnd == at' = at + 1

\* lastChar = nextch(): at the end of the stream get() keeps returning eof.
NextChar == at' = IF at > Len(input) THEN at ELSE at + 1

Push(kind, lexeme) ==
  tokens' = Append(tokens, [kind |-> kind, text |-> lexeme])

Init ==
  /\ input \in Inputs
  /\ at = 0
  /\ pc = "start"
  /\ text = <<>>
  /\ tokens = <<>>

SkipSpace ==
  /\ pc = "start"
  /\ LastChar \in Space
  /\ NextChar
  /\ UNCHANGED <<pc, text, tokens>>

-----------------------------------------------------------------------------
StartWord ==
  /\ pc = "start"
  /\ LastChar \in Letter
  /\ text' = <<LastChar>>
  /\ NextChar
  /\ pc' = "word"
  /\ UNCHANGED tokens

ExtendWord ==
  /\ pc = "word"
  /\ LastChar \in Alnum
  /\ text' = Append(text, LastChar)
  /\ NextChar
  /\ UNCHANGED <<pc, tokens>>

EndWord_EatsOne ==
  /\ pc = "word"
  /\ LastChar \notin Alnum
  /\ Push(WordKind(text), text) /\ NextChar
  /\ pc' = "start" /\ text' = <<>>

EndWord ==
  /\ pc = "word"
  /\ LastChar \notin Alnum
  /\ Push(WordKind(text), text)
  /\ pc' = "start"
  /\ text' = <<>>
  /\ UNCHANGED at

-----------------------------------------------------------------------------
StartNumber ==
  /\ pc = "start"
  /\ LastChar \in Numeric
  /\ text' = <<LastChar>>
  /\ NextChar
  /\ pc' = "number"
  /\ UNCHANGED tokens

ExtendNumber ==
  /\ pc = "number"
  /\ LastChar \in Numeric
  /\ text' = Append(text, LastChar)
  /\ NextChar
  /\ UNCHANGED <<pc, tokens>>

EndReal ==
  /\ pc = "number"
  /\ LastChar \notin Numeric \cup {SuffixI}
  /\ Push("real", RealText(text))
  /\ pc' = "start"
  /\ text' = <<>>
  /\ UNCHANGED at

EndInteger ==
  /\ pc = "number"
  /\ LastChar = SuffixI
  /\ NextChar
  /\ text' = <<>>
  /\ IF HasPeriod(text) \/ NumberValue(text) > MaxInt
       THEN pc' = "failed" /\ UNCHANGED tokens
       ELSE pc' = "start" /\ Push("integer", text)

-----------------------------------------------------------------------------
StartComment ==
  /\ pc = "start"
  /\ LastChar = Hash
  /\ NextChar
  /\ pc' = "comment"
  /\ UNCHANGED <<text, tokens>>

ExtendComment_OverLines ==
  /\ pc = "comment"
  /\ LastChar # Nul
  /\ NextChar
  /\ UNCHANGED <<pc, text, tokens>>

\* At the end of the stream this step reads eof again and changes nothing.
ExtendComment ==
  /\ pc = "comment"
  /\ LastChar \notin CommentEnd
  /\ NextChar
  /\ UNCHANGED <<pc, text, tokens>>

\* lex() drops the Comment token and calls nexttok again.
EndComment ==
  /\ pc = "comment"
  /\ LastChar \in CommentEnd
  /\ pc' = "start"
  /\ UNCHANGED <<at, text, tokens>>

-----------------------------------------------------------------------------
EndOfFile_GoesOn ==
  /\ pc = "start"
  /\ LastChar = EofChar
  /\ Push("eof", <<>>)
  /\ UNCHANGED <<at, pc, text>>

EndOfFile ==
  /\ pc = "start"
  /\ LastChar = EofChar
  /\ Push("eof", <<>>)
  /\ pc' = "done"
  /\ UNCHANGED <<at, text>>

SingleChar ==
  /\ pc = "start"
  /\ LastChar \notin Space \cup Letter \cup Numeric \cup {Hash, EofChar}
  /\ Push("operator", <<LastChar>>)
  /\ NextChar
  /\ UNCHANGED <<pc, text>>

Next ==
  /\ UNCHANGED input
  /\ \/ SkipSpace
     \/ StartWord \/ ExtendWord \/ EndWord
     \/ StartNumber \/ ExtendNumber \/ EndReal \/ EndInteger
     \/ StartComment \/ ExtendComment \/ EndComment
     \/ EndOfFile \/ SingleChar

Spec == Init /\ [][Next]_vars

\* lex() is a single-threaded loop: it goes on for as long as it can.
FairSpec == Spec /\ WF_vars(Next)

-----------------------------------------------------------------------------
Token == [kind : {"operator", "identifier", "real", "integer", "eof"}
                   \cup {Keyword[w] : w \in DOMAIN Keyword},
          text : Seq(STRING)]

TypeOK ==
  /\ input \in Seq(STRING)
  /\ at \in 0 .. Len(input) + 1
  /\ pc \in {"start", "word", "number", "comment", "done", "failed"}
  /\ text \in Seq(STRING)
  /\ tokens \in Seq(Token)

\* What the parser relies on when it dereferences its token iterator: a
\* vector that lex() returns ends in Eof, and no token before is Eof.
EofEndsTokens ==
  \A i \in DOMAIN tokens :
    tokens[i].kind = "eof" <=> (pc = "done" /\ i = Len(tokens))

\* Cut points of the abstract specification: everything before the lexeme
\* under construction has been cut off.
Cut ==
  LET ahead == IF at = 0 THEN 1 ELSE at
  IN  IF pc \in {"word", "number"} THEN ahead - Len(text) ELSE ahead

Outcome == IF pc \in {"done", "failed"} THEN pc ELSE "running"

Promise == INSTANCE Lexemes WITH pos <- Cut, outcome <- Outcome

\* The character loops of nexttok implement left-to-right longest-match
\* lexing: no character is lost, split off or read into two tokens.
ImplementsLexemes == Promise!Spec

\* Every '#' is followed by a character that ends a comment.
CommentsClosed ==
  \A i \in DOMAIN input :
    input[i] = Hash => \E j \in i .. Len(input) : input[j] \in CommentEnd

Halted == pc \in {"done", "failed"}

\* lex() returns on every program whose comments end before the file does.
ClosedCommentsTerminate == CommentsClosed => <>Halted

\* lex() returns on every program: a comment runs until the end of its line,
\* and the end of the file is checked for and not eaten.
Terminates == <>Halted
=============================================================================
