---------------------------- MODULE LexerProofs ----------------------------
(***************************************************************************)
(* The lexer, for every set of texts and every choice of character         *)
(* classes: its types, that Eof is the last token and only the last, and   *)
(* that its loops implement longest-match lexing (module Lexemes).  The    *)
(* inductive invariant says what the loop in progress has read: the word   *)
(* or number is a stretch of the text in front of lastChar, all of one     *)
(* class, and every comment in front of it has ended.                      *)
(***************************************************************************)
EXTENDS Lexer, SequenceTheorems, FiniteSetTheorems, TLAPS

\* The lexeme under construction is what stands in front of lastChar.
Building(First, Class) ==
  /\ Len(text) \in 1 .. at - 1
  /\ text[1] \in First
  /\ \A i \in 1 .. Len(text) :
       text[i] = input[at - Len(text) + i - 1] /\ text[i] \in Class

\* Every comment that begins before p has been ended, at p at the latest.
CommentsEnded(p) ==
  \A j \in 1 .. p - 1 :
    input[j] = Hash => \E m \in j .. p : m <= Len(input) /\ input[m] \in CommentEnd

\* A comment is open in front of p.
CommentOpen(p) ==
  \E j \in 1 .. p - 1 : /\ input[j] = Hash
                        /\ \A m \in j .. p - 1 : input[m] \notin CommentEnd

Reading ==
  /\ at = 0 => pc = "start"
  /\ pc = "word" => Building(Letter, Alnum)
  /\ pc = "number" => Building(Numeric, Numeric)
  /\ pc \in {"start", "word", "number"} => CommentsEnded(Cut)
  /\ pc = "comment" => CommentOpen(at)

Inv == TypeOK /\ Reading

-----------------------------------------------------------------------------
\* The classes the steps tell apart.
LEMMA Classes ==
  /\ EofChar \notin Alnum \cup Numeric \cup Space \cup CommentEnd \cup {Hash, SuffixI}
  /\ " " \in Space /\ " " \notin Letter \cup Numeric \cup {Hash, EofChar}
  /\ Hash \notin Alnum \cup Numeric \cup Space \cup CommentEnd
  /\ Letter \subseteq Alnum
  /\ (Letter \cup Numeric) \cap (Space \cup {EofChar}) = {}
<1>1. /\ SuffixI \in Letter /\ " " \in Space /\ LineEnd \subseteq Space
      /\ \A c \in Letter : c \notin Numeric \cup Space \cup {Hash, Nul, EofChar}
      /\ \A c \in Numeric : c \notin Space \cup {Hash, Nul, EofChar}
      /\ \A c \in Space : c \notin {Hash, Nul, EofChar}
      /\ Hash \notin {Nul, EofChar} /\ Nul # EofChar
  BY CharClasses
<1>2. Alnum \subseteq Letter \cup Numeric /\ Letter \subseteq Alnum
  BY DEF Alnum, Numeric
<1> QED BY <1>1, <1>2 DEF CommentEnd

\* What lastChar is, and what reading the next character does.
LEMMA LastCharIs ==
  ASSUME TypeOK
  PROVE  /\ at = 0 => LastChar = " "
         /\ at \in 1 .. Len(input) => LastChar = input[at]
         /\ at = Len(input) + 1 => LastChar = EofChar
         /\ at \in Nat /\ Len(input) \in Nat
         /\ at = 0 \/ at \in 1 .. Len(input) \/ at = Len(input) + 1
         /\ LastChar \in STRING
<1>1. at \in 0 .. Len(input) + 1 /\ Len(input) \in Nat /\ input \in Seq(STRING)
  BY DEF TypeOK
<1>2. at = 0 => LastChar = " "
  <2>1. HAVE at = 0
  <2>2. ~(at > Len(input))
    BY <1>1, <2>1
  <2> QED BY Zenon, <2>1, <2>2 DEF LastChar
<1>3. at \in 1 .. Len(input) => LastChar = input[at] /\ input[at] \in STRING
  <2>1. HAVE at \in 1 .. Len(input)
  <2>2. at # 0 /\ ~(at > Len(input)) /\ input[at] \in STRING
    BY <1>1, <2>1
  <2> QED BY Zenon, <2>2 DEF LastChar
<1>4. at = Len(input) + 1 => LastChar = EofChar
  <2>1. HAVE at = Len(input) + 1
  <2>2. at # 0 /\ at > Len(input)
    BY <1>1, <2>1
  <2> QED BY Zenon, <2>2 DEF LastChar
<1>5. /\ at \in Nat /\ Len(input) \in Nat
      /\ at = 0 \/ at \in 1 .. Len(input) \/ at = Len(input) + 1
  BY <1>1
<1>6. EofChar \in STRING /\ " " \in STRING
  BY Zenon, CharClasses
<1> QED BY Zenon, <1>2, <1>3, <1>4, <1>5, <1>6

\* A character other than eof and the initial space is one of the text.
LEMMA InText ==
  ASSUME TypeOK, LastChar \notin {" ", EofChar}
  PROVE  at \in 1 .. Len(input) /\ LastChar = input[at]
BY Zenon, LastCharIs

LEMMA NextCharIs ==
  ASSUME TypeOK, NextChar
  PROVE  /\ at' \in at .. at + 1 /\ at' \in 0 .. Len(input) + 1
         /\ at <= Len(input) => at' = at + 1
         /\ at > Len(input) => at' = at
<1>1. at \in 0 .. Len(input) + 1 /\ Len(input) \in Nat
  BY DEF TypeOK
<1> QED BY <1>1 DEF NextChar

\* Before the end of the stream the next character is read.
LEMMA Advances ==
  ASSUME TypeOK, NextChar, at # Len(input) + 1
  PROVE  at' = at + 1 /\ at' # 0
<1>1. at \in 0 .. Len(input) + 1 /\ Len(input) \in Nat
  BY DEF TypeOK
<1>2. ~(at > Len(input)) /\ at + 1 # 0
  BY <1>1
<1> QED BY <1>2 DEF NextChar

LEMMA Counts ==
  ASSUME TypeOK
  PROVE  /\ at \in Nat /\ Len(input) \in Nat /\ Len(input) + 1 \in Nat
         /\ at \in 1 .. Len(input) => at # Len(input) + 1 /\ at <= Len(input)
         /\ at = 0 => at + 1 = 1
BY DEF TypeOK

LEMMA BeforeEnd ==
  ASSUME TypeOK, at # 0, LastChar # EofChar
  PROVE  /\ at \in 1 .. Len(input) /\ LastChar = input[at]
         /\ at # Len(input) + 1
BY Zenon, LastCharIs

-----------------------------------------------------------------------------
(* Type correctness.                                                       *)

\* strtod reads a part of the run.
LEMMA RealTextIsPart ==
  ASSUME NEW run \in Seq(STRING)
  PROVE  RealText(run) \in Seq(STRING)
<1> DEFINE Read == {n \in 1 .. Len(run) :
                      \A i, j \in 1 .. n : run[i] = Period /\ run[j] = Period => i = j}
<1>1. IsFiniteSet(1 .. Len(run)) /\ Cardinality(1 .. Len(run)) = Len(run)
  <2>1. Len(run) \in Nat /\ 1 \in Int /\ Len(run) \in Int
    OBVIOUS
  <2>2. /\ IsFiniteSet(1 .. Len(run))
        /\ Cardinality(1 .. Len(run)) = IF 1 > Len(run) THEN 0 ELSE Len(run) - 1 + 1
    BY Zenon, <2>1, FS_Interval
  <2> QED BY <2>1, <2>2
<1>2. Read \in SUBSET (1 .. Len(run))
  OBVIOUS
<1>3. IsFiniteSet(Read) /\ Cardinality(Read) <= Len(run)
  BY <1>1, <1>2, FS_Subset
<1>4. Cardinality(Read) \in Nat
  BY <1>3, FS_CardinalityType
<1> HIDE DEF Read
<1>5. \A i \in 1 .. Cardinality(Read) : run[i] \in STRING
  BY <1>3, <1>4
<1>6. SubSeq(run, 1, Cardinality(Read)) \in Seq(STRING)
  BY <1>4, <1>5, SubSeqProperties
<1> QED BY <1>6 DEF RealText, Read

\* Texts of no and of one character.
LEMMA ShortSeqs ==
  ASSUME NEW S, NEW elt \in S
  PROVE  <<>> \in Seq(S) /\ <<elt>> \in Seq(S)
OBVIOUS

\* A finished lexeme becomes a token of one of the kinds.
LEMMA PushToken ==
  ASSUME TypeOK, NEW kind, NEW lexeme \in Seq(STRING),
         Push(kind, lexeme),
         kind \in {"operator", "identifier", "real", "integer", "eof"}
                    \cup {Keyword[w] : w \in DOMAIN Keyword}
  PROVE  /\ tokens' \in Seq(Token)
         /\ Len(tokens') = Len(tokens) + 1
         /\ tokens'[Len(tokens')].kind = kind
         /\ \A i \in 1 .. Len(tokens) : tokens'[i] = tokens[i]
<1>1. [kind |-> kind, text |-> lexeme] \in Token
  BY Zenon DEF Token
<1>2. tokens \in Seq(Token)
  BY DEF TypeOK
<1> QED BY <1>1, <1>2, AppendProperties DEF Push

\* The kinds that are pushed, and which of them is Eof.
LEMMA WordKinds ==
  ASSUME NEW word
  PROVE  /\ WordKind(word) \in {"operator", "identifier", "real", "integer", "eof"}
                                 \cup {Keyword[w] : w \in DOMAIN Keyword}
         /\ WordKind(word) # "eof"
<1>1. CASE word \in DOMAIN Keyword
  BY <1>1, KeywordsAreNotEof DEF WordKind
<1>2. CASE word \notin DOMAIN Keyword
  BY <1>2 DEF WordKind
<1> QED BY <1>1, <1>2

\* Each action keeps the types of the variables.
LEMMA TypeStep ==
  ASSUME TypeOK, [Next]_vars
  PROVE  TypeOK'
<1> DEFINE Points == {"start", "word", "number", "comment", "done", "failed"}
<1> USE DEF TypeOK
<1>1. CASE UNCHANGED vars
  BY <1>1 DEF vars
<1>2. ASSUME Next PROVE input' \in Seq(STRING)
  BY <1>2 DEF Next
<1>3. ASSUME Next PROVE at' \in 0 .. Len(input') + 1
  <2>1. NextChar \/ UNCHANGED at
    BY Zenon, <1>3 DEF Next, SkipSpace, StartWord, ExtendWord, EndWord, StartNumber,
         ExtendNumber, EndReal, EndInteger, StartComment, ExtendComment, EndComment,
         EndOfFile, SingleChar
  <2>2. NextChar => at' \in 0 .. Len(input) + 1
    BY NextCharIs
  <2>3. input' = input
    BY <1>3 DEF Next
  <2> QED BY <2>1, <2>2, <2>3
<1>4. ASSUME Next PROVE pc' \in Points
  BY <1>4 DEF Next, SkipSpace, StartWord, ExtendWord, EndWord, StartNumber,
       ExtendNumber, EndReal, EndInteger, StartComment, ExtendComment, EndComment,
       EndOfFile, SingleChar
<1>5. ASSUME Next PROVE text' \in Seq(STRING)
  <2>1. \/ text' = text \/ text' = <<>>
        \/ text' = <<LastChar>> \/ text' = Append(text, LastChar)
    BY Zenon, <1>5 DEF Next, SkipSpace, StartWord, ExtendWord, EndWord, StartNumber,
         ExtendNumber, EndReal, EndInteger, StartComment, ExtendComment, EndComment,
         EndOfFile, SingleChar
  <2>2. LastChar \in STRING
    BY LastCharIs
  <2>3. /\ <<>> \in Seq(STRING) /\ <<LastChar>> \in Seq(STRING)
        /\ Append(text, LastChar) \in Seq(STRING)
    BY <2>2, AppendProperties
  <2> QED BY Zenon, <2>1, <2>3
<1>6. ASSUME Next PROVE tokens' \in Seq(Token)
  <2>1. CASE \/ SkipSpace \/ StartWord \/ ExtendWord \/ StartNumber \/ ExtendNumber
             \/ StartComment \/ ExtendComment \/ EndComment
    BY <2>1 DEF SkipSpace, StartWord, ExtendWord, StartNumber, ExtendNumber,
         StartComment, ExtendComment, EndComment
  <2>2. CASE EndWord
    BY <2>2, WordKinds, PushToken DEF EndWord
  <2>3. CASE EndReal
    BY <2>3, RealTextIsPart, PushToken DEF EndReal
  <2>4. CASE EndInteger
    BY <2>4, PushToken DEF EndInteger
  <2>5. CASE EndOfFile
    <3>1. <<>> \in Seq(STRING)
      BY Zenon, LastCharIs, ShortSeqs
    <3> QED BY <2>5, <3>1, PushToken DEF EndOfFile
  <2>6. CASE SingleChar
    <3>1. <<LastChar>> \in Seq(STRING)
      BY Zenon, LastCharIs, ShortSeqs
    <3> QED BY <2>6, <3>1, PushToken DEF SingleChar
  <2> QED BY <1>6, <2>1, <2>2, <2>3, <2>4, <2>5, <2>6 DEF Next
<1> QED BY <1>1, <1>2, <1>3, <1>4, <1>5, <1>6

\* The variables of nexttok and lex() have their types, for every set of
\* texts: get() never counts past the end, and only tokens are pushed.
THEOREM TypeCorrect == Spec => []TypeOK
<1>1. Init => TypeOK
  BY InputsAreText DEF Init, TypeOK
<1>2. TypeOK /\ [Next]_vars => TypeOK'
  BY TypeStep
<1> QED BY <1>1, <1>2, PTL DEF Spec

-----------------------------------------------------------------------------
\* The vector that lex() returns ends in Eof and has no Eof before, for every
\* text: what the parser's iterator relies on.
THEOREM EofIsLast == Spec => []EofEndsTokens
<1>1. Init => EofEndsTokens
  BY DEF Init, EofEndsTokens
<1>2. TypeOK /\ EofEndsTokens /\ [Next]_vars => EofEndsTokens'
  <2> SUFFICES ASSUME TypeOK, EofEndsTokens, [Next]_vars PROVE EofEndsTokens'
    OBVIOUS
  <2>1. tokens \in Seq(Token)
    BY DEF TypeOK
  <2>2. CASE UNCHANGED vars
    BY <2>2 DEF vars, EofEndsTokens
  <2>3. CASE pc # "done" /\ pc' # "done" /\ UNCHANGED tokens
    BY <2>3 DEF EofEndsTokens
  <2>4. ASSUME NEW kind, NEW lexeme \in Seq(STRING), Push(kind, lexeme),
               kind \in {"operator", "identifier", "real", "integer", "eof"}
                          \cup {Keyword[w] : w \in DOMAIN Keyword},
               pc # "done", kind = "eof" <=> pc' = "done"
        PROVE  EofEndsTokens'
    <3>1. /\ tokens' \in Seq(Token)
          /\ Len(tokens') = Len(tokens) + 1
          /\ tokens'[Len(tokens')].kind = kind
          /\ \A i \in 1 .. Len(tokens) : tokens'[i] = tokens[i]
      BY Zenon, <2>4, PushToken
    <3>2. DOMAIN tokens' = 1 .. Len(tokens) + 1 /\ DOMAIN tokens = 1 .. Len(tokens)
          /\ Len(tokens) \in Nat
      BY <2>1, <3>1
    <3>3. ASSUME NEW i \in 1 .. Len(tokens)
          PROVE  tokens'[i].kind = "eof" <=> (pc' = "done" /\ i = Len(tokens'))
      <4>1. tokens[i].kind # "eof"
        BY Zenon, <3>2, <2>4 DEF EofEndsTokens
      <4>2. i # Len(tokens')
        BY <3>1, <3>2
      <4> QED BY Zenon, <4>1, <4>2, <3>1
    <3>4. \A i \in DOMAIN tokens' : i \in 1 .. Len(tokens) \/ i = Len(tokens')
      BY <3>1, <3>2
    <3> QED BY Zenon, <3>1, <3>3, <3>4, <2>4 DEF EofEndsTokens
  <2>5. CASE \/ SkipSpace \/ StartWord \/ ExtendWord \/ StartNumber \/ ExtendNumber
             \/ StartComment \/ ExtendComment \/ EndComment
    BY <2>5, <2>3 DEF SkipSpace, StartWord, ExtendWord, StartNumber, ExtendNumber,
         StartComment, ExtendComment, EndComment
  <2>6. CASE EndWord
    BY <2>6, <2>4, WordKinds DEF EndWord, TypeOK
  <2>7. CASE EndReal
    BY <2>7, <2>4, RealTextIsPart DEF EndReal, TypeOK
  <2>8. CASE EndInteger
    BY <2>8, <2>3, <2>4 DEF EndInteger, TypeOK
  <2>9. CASE EndOfFile
    <3>1. <<>> \in Seq(STRING)
      BY Zenon, LastCharIs, ShortSeqs
    <3> QED BY <2>9, <3>1, <2>4 DEF EndOfFile
  <2>10. CASE SingleChar
    <3>1. <<LastChar>> \in Seq(STRING)
      BY Zenon, LastCharIs, ShortSeqs
    <3> QED BY <2>10, <3>1, <2>4 DEF SingleChar
  <2> QED BY <2>2, <2>5, <2>6, <2>7, <2>8, <2>9, <2>10 DEF Next
<1> QED BY <1>1, <1>2, TypeCorrect, PTL DEF Spec

-----------------------------------------------------------------------------
(* What the loop in progress has read.                                     *)

\* Where the abstract specification has cut, before and after a step.
LEMMA CutIs ==
  ASSUME TypeOK
  PROVE  /\ at = 0 /\ pc = "start" => Cut = 1
         /\ at # 0 /\ pc \notin {"word", "number"} => Cut = at
         /\ at # 0 /\ pc \in {"word", "number"} => Cut = at - Len(text)
<1>1. pc = "start" => pc \notin {"word", "number"}
  OBVIOUS
<1> QED BY Zenon, <1>1 DEF Cut

LEMMA CutWillBe ==
  ASSUME TypeOK'
  PROVE  /\ at' # 0 /\ pc' \notin {"word", "number"} => Cut' = at'
         /\ at' # 0 /\ pc' \in {"word", "number"} => Cut' = at' - Len(text')
BY Zenon DEF Cut

\* Text without a '#' leaves no comment open.
LEMMA EndedGrows ==
  ASSUME NEW p \in Nat, NEW q \in Nat, p <= q, CommentsEnded(p),
         \A i \in p .. q - 1 : input[i] # Hash
  PROVE  CommentsEnded(q)
<1>1. ASSUME NEW j \in 1 .. q - 1, input[j] = Hash
      PROVE  \E m \in j .. q : m <= Len(input) /\ input[m] \in CommentEnd
  <2>1. j \in 1 .. p - 1
    BY <1>1
  <2>2. PICK m \in j .. p : m <= Len(input) /\ input[m] \in CommentEnd
    BY <1>1, <2>1 DEF CommentsEnded
  <2>3. m \in j .. q
    BY <2>2
  <2> QED BY Zenon, <2>2, <2>3
<1> QED BY Zenon, <1>1 DEF CommentsEnded

\* A lexeme under construction lies inside the text.
LEMMA BuildingIs ==
  ASSUME TypeOK, NEW First, NEW Class, Building(First, Class),
         pc \in {"word", "number"}
  PROVE  /\ at \in 2 .. Len(input) + 1
         /\ Cut \in 1 .. at - 1
         /\ Cut = at - Len(text)
         /\ input[Cut] = text[1] /\ input[Cut] \in First
         /\ \A i \in Cut .. at - 1 : input[i] \in Class
         /\ text = SubSeq(input, Cut, at - 1)
<1>1. at \in 0 .. Len(input) + 1 /\ Len(input) \in Nat
      /\ text \in Seq(STRING) /\ input \in Seq(STRING)
  BY DEF TypeOK
<1>2. Len(text) \in 1 .. at - 1 /\ text[1] \in First
      /\ \A i \in 1 .. Len(text) :
           text[i] = input[at - Len(text) + i - 1] /\ text[i] \in Class
  BY Zenon DEF Building
<1>3. at \in 2 .. Len(input) + 1
  BY <1>1, <1>2
<1>4. Cut = at - Len(text)
  BY <1>3, CutIs
<1>5. Cut \in 1 .. at - 1
  BY <1>1, <1>2, <1>4
<1>6. ASSUME NEW i \in Cut .. at - 1
      PROVE  i - Cut + 1 \in 1 .. Len(text) /\ input[i] = text[i - Cut + 1]
  <2>1. i - Cut + 1 \in 1 .. Len(text)
    BY <1>1, <1>2, <1>4
  <2>2. text[i - Cut + 1] = input[at - Len(text) + (i - Cut + 1) - 1]
    BY Zenon, <1>2, <2>1
  <2>3. at - Len(text) + (i - Cut + 1) - 1 = i
    BY <1>1, <1>2, <1>4
  <2> QED BY <2>1, <2>2, <2>3
<1>7. \A i \in Cut .. at - 1 : input[i] \in Class
  BY <1>2, <1>6
<1>8. input[Cut] = text[1]
  <2>1. Cut \in Cut .. at - 1 /\ Cut - Cut + 1 = 1
    BY <1>5
  <2> QED BY <1>6, <2>1
<1>9. text = SubSeq(input, Cut, at - 1)
  <2> DEFINE sub == SubSeq(input, Cut, at - 1)
  <2>1. \A i \in Cut .. at - 1 : input[i] \in STRING
    BY <1>1, <1>3, <1>5
  <2>2. Cut \in Int /\ at - 1 \in Int
    BY <1>1, <1>5
  <2>3. /\ sub \in Seq(STRING)
        /\ Len(sub) = IF Cut <= at - 1 THEN at - 1 - Cut + 1 ELSE 0
        /\ \A i \in 1 .. at - 1 - Cut + 1 : sub[i] = input[Cut + i - 1]
    BY <2>1, <2>2, SubSeqProperties
  <2> HIDE DEF sub
  <2>4. Len(sub) = Len(text)
    BY <1>1, <1>2, <1>4, <2>3
  <2>5. ASSUME NEW i \in 1 .. Len(text) PROVE text[i] = sub[i]
    <3>1. sub[i] = input[Cut + i - 1]
      BY <1>1, <1>2, <1>4, <2>3
    <3> QED BY <3>1, <1>2, <1>4
  <2> QED BY <1>1, <2>3, <2>4, <2>5, SeqEqual DEF sub
<1> QED BY <1>2, <1>3, <1>4, <1>5, <1>7, <1>8, <1>9

\* Entering and extending a lexeme keeps it in front of lastChar.
LEMMA BuildingStarts ==
  ASSUME TypeOK, TypeOK', NEW First, NEW Class, at \in 1 .. Len(input),
         input' = input, at' = at + 1, text' = <<input[at]>>,
         input[at] \in First, First \subseteq Class
  PROVE  Building(First, Class)' /\ at' - Len(text') = at
<1>1. at \in Nat /\ Len(text') = 1 /\ text'[1] = input[at]
  BY DEF TypeOK
<1>2. Len(text') \in 1 .. at' - 1 /\ at' - Len(text') + 1 - 1 = at
  BY <1>1
<1>3. ASSUME NEW i \in 1 .. Len(text')
      PROVE  text'[i] = input'[at' - Len(text') + i - 1] /\ text'[i] \in Class
  <2>1. i = 1
    BY <1>1
  <2> QED BY <2>1, <1>1, <1>2
<1> QED BY <1>1, <1>2, <1>3 DEF Building

LEMMA BuildingGrows ==
  ASSUME TypeOK, TypeOK', NEW First, NEW Class, at \in 1 .. Len(input),
         input' = input, at' = at + 1, text' = Append(text, input[at]),
         input[at] \in Class, Building(First, Class)
  PROVE  Building(First, Class)' /\ at' - Len(text') = at - Len(text)
<1>1. at \in Nat /\ Len(text) \in Nat /\ input[at] \in STRING /\ text \in Seq(STRING)
  BY DEF TypeOK
<1>2. /\ Len(text') = Len(text) + 1
      /\ \A i \in 1 .. Len(text) : text'[i] = text[i]
      /\ text'[Len(text) + 1] = input[at]
  BY <1>1, AppendProperties
<1>3. Len(text) \in 1 .. at - 1 /\ text[1] \in First
      /\ \A i \in 1 .. Len(text) :
           text[i] = input[at - Len(text) + i - 1] /\ text[i] \in Class
  BY Zenon DEF Building
<1>4. Len(text') \in 1 .. at' - 1 /\ at' - Len(text') = at - Len(text)
  BY <1>1, <1>2, <1>3
<1>5. text'[1] \in First
  <2>1. 1 \in 1 .. Len(text)
    BY <1>3
  <2> QED BY <2>1, <1>2, <1>3
<1>6. ASSUME NEW i \in 1 .. Len(text')
      PROVE  text'[i] = input'[at' - Len(text') + i - 1] /\ text'[i] \in Class
  <2>1. CASE i \in 1 .. Len(text)
    BY <2>1, <1>2, <1>3, <1>4
  <2>2. CASE i = Len(text) + 1
    <3>1. at' - Len(text') + i - 1 = at
      BY <2>2, <1>1, <1>4
    <3> QED BY <2>2, <3>1, <1>2
  <2> QED BY <2>1, <2>2, <1>1, <1>2
<1> QED BY <1>4, <1>5, <1>6 DEF Building

\* After a lexeme, or where there is none, the comments have still ended.
LEMMA EndedMoves ==
  ASSUME TypeOK, TypeOK', NEW q \in Nat, CommentsEnded(Cut), Cut \in Nat, Cut <= q,
         \A i \in Cut .. q - 1 : input[i] # Hash,
         input' = input, Cut' = q
  PROVE  CommentsEnded(Cut)'
<1>1. CommentsEnded(q)
  BY EndedGrows
<1> QED BY <1>1 DEF CommentsEnded

\* Between lexemes lastChar is the initial space or the next character to cut.
LEMMA StartIs ==
  ASSUME Inv, pc = "start"
  PROVE  /\ Cut \in Nat /\ CommentsEnded(Cut)
         /\ LastChar # " " => at # 0 /\ Cut = at
         /\ LastChar \notin {" ", EofChar} =>
              at \in 1 .. Len(input) /\ LastChar = input[at]
<1>1. TypeOK /\ at \in Nat /\ CommentsEnded(Cut)
  BY LastCharIs DEF Inv, Reading
<1>2. at = 0 => LastChar = " " /\ Cut = 1
  BY <1>1, LastCharIs, CutIs
<1>3. at # 0 => Cut = at
  BY <1>1, CutIs
<1>4. Cut \in Nat
  <2>1. Cut = 1 \/ Cut = at
    BY Zenon, <1>2, <1>3
  <2> QED BY <1>1, <2>1
<1>5. LastChar \notin {" ", EofChar} => at \in 1 .. Len(input) /\ LastChar = input[at]
  BY Zenon, <1>1, InText
<1> QED BY <1>1, <1>2, <1>3, <1>4, <1>5

\* Each action keeps what the loop in progress has read.
LEMMA ReadingStep ==
  ASSUME Inv, [Next]_vars
  PROVE  Reading'
<1>1. TypeOK /\ TypeOK' /\ Reading
  BY TypeStep DEF Inv
<1>2. at \in Nat /\ Len(input) \in Nat
  BY <1>1, LastCharIs
<1>3. CASE UNCHANGED vars
  <2>1. Cut' = Cut
    BY <1>3 DEF vars, Cut
  <2> QED BY <1>1, <1>3, <2>1 DEF vars, Reading, Building, CommentsEnded, CommentOpen
<1>4. ASSUME Next PROVE input' = input
  BY <1>4 DEF Next
<1>5. ASSUME Next, SkipSpace PROVE Reading'
  <2>1. pc = "start" /\ pc' = "start" /\ NextChar /\ LastChar \in Space
    BY <1>5 DEF SkipSpace
  <2>2. at' = at + 1 /\ Cut' = at + 1
    <3>1. at # Len(input) + 1
      BY <1>1, <2>1, LastCharIs, Classes
    <3>2. at' = at + 1 /\ at' # 0
      BY Zenon, <1>1, <2>1, <3>1, Advances
    <3>3. pc' \notin {"word", "number"}
      BY <2>1
    <3> QED BY Zenon, <1>1, <3>2, <3>3, CutWillBe
  <2>3. CommentsEnded(Cut)'
    <3>1. Cut \in Nat /\ Cut <= at + 1 /\ CommentsEnded(Cut)
      <4>1. Cut \in Nat /\ CommentsEnded(Cut)
        BY Zenon, <2>1, StartIs
      <4>2. at = 0 \/ Cut = at
        BY Zenon, <1>1, <2>1, CutIs, StartIs
      <4>3. at = 0 => Cut = 1
        BY Zenon, <1>1, <2>1, CutIs
      <4> QED BY <1>2, <4>1, <4>2, <4>3
    <3>2. ASSUME NEW i \in Cut .. (at + 1) - 1 PROVE input[i] # Hash
      <4>1. at # 0 /\ i = at
        BY <1>1, <1>2, <2>1, CutIs
      <4>2. LastChar = input[at]
        BY <1>1, <1>2, <2>1, <4>1, LastCharIs, Classes
      <4> QED BY <2>1, <4>1, <4>2, Classes
    <3> QED BY <1>1, <1>2, <1>4, <1>5, <2>2, <3>1, <3>2, EndedMoves
  <2> QED BY <1>2, <2>1, <2>2, <2>3 DEF Reading
<1>6. ASSUME Next, NEW First, NEW Class, First \subseteq Class,
             First \cap (Space \cup {EofChar}) = {},
             pc = "start", LastChar \in First, text' = <<LastChar>>, NextChar,
             pc' \in {"word", "number"}
      PROVE  Building(First, Class)' /\ CommentsEnded(Cut)' /\ at' # 0
  <2>1. at \in 1 .. Len(input) /\ LastChar = input[at] /\ Cut = at /\ CommentsEnded(Cut)
    BY <1>6, StartIs, Classes
  <2>2. at' = at + 1
    BY <1>1, <1>6, <2>1, NextCharIs
  <2>3. Building(First, Class)' /\ at' - Len(text') = at
    BY <1>1, <1>4, <1>6, <2>1, <2>2, BuildingStarts
  <2>4. Cut' = Cut
    BY <1>1, <1>2, <1>6, <2>1, <2>2, <2>3, CutWillBe
  <2> QED BY <1>2, <1>4, <1>6, <2>1, <2>2, <2>3, <2>4 DEF CommentsEnded
<1>7. ASSUME Next, NEW First, NEW Class, EofChar \notin Class, Building(First, Class),
             CommentsEnded(Cut), pc \in {"word", "number"}, pc' = pc,
             LastChar \in Class, text' = Append(text, LastChar), NextChar
      PROVE  Building(First, Class)' /\ CommentsEnded(Cut)' /\ at' # 0
  <2>1. at \in 1 .. Len(input) /\ LastChar = input[at]
    <3>1. at \in 2 .. Len(input) + 1
      BY <1>1, <1>7, BuildingIs
    <3>2. at # Len(input) + 1
      BY <1>1, <1>7, LastCharIs
    <3>3. at \in 1 .. Len(input)
      BY <1>2, <3>1, <3>2
    <3> QED BY <1>1, <3>3, LastCharIs
  <2>2. at' = at + 1
    BY <1>1, <1>7, <2>1, NextCharIs
  <2>3. Building(First, Class)' /\ at' - Len(text') = at - Len(text)
    BY <1>1, <1>4, <1>7, <2>1, <2>2, BuildingGrows
  <2>4. Cut' = Cut
    BY <1>1, <1>2, <1>7, <2>1, <2>2, <2>3, CutIs, CutWillBe
  <2> QED BY <1>2, <1>4, <1>7, <2>1, <2>2, <2>3, <2>4 DEF CommentsEnded
<1>8. ASSUME Next, NEW First, NEW Class, Hash \notin Class, Building(First, Class),
             CommentsEnded(Cut), pc \in {"word", "number"},
             \/ UNCHANGED at
             \/ NextChar /\ LastChar = SuffixI,
             pc' = "start"
      PROVE  Reading'
  <2>1. /\ at \in 2 .. Len(input) + 1 /\ Cut \in 1 .. at - 1
        /\ \A i \in Cut .. at - 1 : input[i] \in Class
    BY <1>1, <1>8, BuildingIs
  <2>2. \/ at' = at
        \/ at' = at + 1 /\ at <= Len(input) /\ input[at] # Hash
    <3>1. CASE UNCHANGED at
      BY <3>1
    <3>2. CASE NextChar /\ LastChar = SuffixI
      <4>1. at \in 1 .. Len(input) /\ LastChar = input[at]
        <5>1. at # 0 /\ LastChar # EofChar
          <6>1. at # 0
            BY <2>1
          <6>2. LastChar # EofChar
            BY Zenon, <3>2, Classes
          <6> QED BY Zenon, <6>1, <6>2
        <5> QED BY Zenon, <1>1, <5>1, BeforeEnd
      <4>2. at # Len(input) + 1 /\ at <= Len(input)
        BY <1>2, <4>1
      <4>3. at' = at + 1
        BY Zenon, <1>1, <3>2, <4>2, Advances
      <4>4. input[at] # Hash
        BY <3>2, <4>1, Classes, CharClasses
      <4> QED BY Zenon, <4>2, <4>3, <4>4
    <3> QED BY <1>8, <3>1, <3>2
  <2>3. at' \in Nat /\ at' # 0 /\ Cut \in Nat /\ Cut <= at' /\ Cut' = at'
    BY <1>1, <1>2, <1>8, <2>1, <2>2, CutWillBe
  <2>4. \A i \in Cut .. at' - 1 : input[i] # Hash
    BY <1>2, <1>8, <2>1, <2>2
  <2>5. CommentsEnded(Cut)'
    BY <1>1, <1>4, <1>8, <2>3, <2>4, EndedMoves
  <2> QED BY <1>8, <2>3, <2>5 DEF Reading
<1>9. ASSUME Next, StartWord PROVE Reading'
  <2>1. Building(Letter, Alnum)' /\ CommentsEnded(Cut)' /\ at' # 0
    BY <1>6, <1>9, Classes DEF StartWord
  <2> QED BY <1>9, <2>1 DEF Reading, StartWord
<1>10. ASSUME Next, StartNumber PROVE Reading'
  <2>1. Building(Numeric, Numeric)' /\ CommentsEnded(Cut)' /\ at' # 0
    BY <1>6, <1>10, Classes DEF StartNumber
  <2> QED BY <1>10, <2>1 DEF Reading, StartNumber
<1>11. ASSUME Next, ExtendWord PROVE Reading'
  <2>1. Building(Letter, Alnum)' /\ CommentsEnded(Cut)' /\ at' # 0
    BY <1>1, <1>7, <1>11, Classes DEF ExtendWord, Reading
  <2> QED BY <1>11, <2>1 DEF Reading, ExtendWord
<1>12. ASSUME Next, ExtendNumber PROVE Reading'
  <2>1. Building(Numeric, Numeric)' /\ CommentsEnded(Cut)' /\ at' # 0
    BY <1>1, <1>7, <1>12, Classes DEF ExtendNumber, Reading
  <2> QED BY <1>12, <2>1 DEF Reading, ExtendNumber
<1>13. ASSUME Next, EndWord PROVE Reading'
  BY <1>1, <1>8, <1>13, Classes DEF EndWord, Reading
<1>14. ASSUME Next, EndReal PROVE Reading'
  BY <1>1, <1>8, <1>14, Classes DEF EndReal, Reading
<1>15. ASSUME Next, EndInteger PROVE Reading'
  <2>1. CASE pc' = "start"
    BY <1>1, <1>8, <1>15, <2>1, Classes DEF EndInteger, Reading
  <2>2. CASE pc' = "failed"
    <3>1. at' # 0
      <4>1. at \in 2 .. Len(input) + 1
        BY <1>1, <1>15, BuildingIs DEF EndInteger, Reading
      <4> QED BY <1>1, <1>15, <4>1, NextCharIs DEF EndInteger
    <3> QED BY <2>2, <3>1 DEF Reading
  <2> QED BY <1>15, <2>1, <2>2 DEF EndInteger
<1>16. ASSUME Next, StartComment PROVE Reading'
  <2>1. at \in 1 .. Len(input) /\ input[at] = Hash /\ NextChar /\ pc' = "comment"
    BY <1>16, StartIs, Classes DEF StartComment
  <2>2. at' = at + 1
    BY <1>1, <2>1, NextCharIs
  <2>3. CommentOpen(at)'
    <3>1. at \in 1 .. at' - 1 /\ \A m \in at .. at' - 1 : m = at
      BY <1>2, <2>1, <2>2
    <3> QED BY <1>4, <1>16, <2>1, <3>1, Classes DEF CommentOpen
  <2> QED BY <1>2, <2>1, <2>2, <2>3 DEF Reading
<1>17. ASSUME Next, ExtendComment PROVE Reading'
  <2>1. /\ pc' = "comment" /\ CommentOpen(at) /\ NextChar /\ at # 0
        /\ LastChar \notin CommentEnd
    BY <1>1, <1>17 DEF ExtendComment, Reading
  <2>2. CASE at > Len(input)
    <3>1. at' = at
      BY <1>1, <2>1, <2>2, NextCharIs
    <3> QED BY <1>4, <1>17, <2>1, <3>1 DEF Reading, CommentOpen
  <2>3. CASE at <= Len(input)
    <3>1. at' = at + 1 /\ LastChar = input[at]
      <4>1. at # Len(input) + 1 /\ at \in 1 .. Len(input)
        BY <1>2, <2>1, <2>3
      <4> QED BY Zenon, <1>1, <2>1, <4>1, Advances, LastCharIs
    <3>2. PICK j \in 1 .. at - 1 :
            input[j] = Hash /\ \A m \in j .. at - 1 : input[m] \notin CommentEnd
      BY <2>1 DEF CommentOpen
    <3>3. j \in 1 .. at' - 1 /\ \A m \in j .. at' - 1 : m \in j .. at - 1 \/ m = at
      BY <1>2, <3>1
    <3>4. CommentOpen(at)'
      BY <1>4, <1>17, <2>1, <3>1, <3>2, <3>3 DEF CommentOpen
    <3> QED BY <1>2, <2>1, <3>1, <3>4 DEF Reading
  <2> QED BY <1>2, <2>2, <2>3
<1>18. ASSUME Next, EndComment PROVE Reading'
  <2>1. pc = "comment" /\ pc' = "start" /\ at' = at /\ LastChar \in CommentEnd /\ at # 0
    BY <1>1, <1>18 DEF EndComment, Reading
  <2>2. at \in 1 .. Len(input) /\ input[at] \in CommentEnd
    BY <1>1, <2>1, LastCharIs, Classes
  <2>3. Cut' = at
    BY <1>1, <2>1, CutWillBe
  <2>4. \A j \in 1 .. at - 1 : at \in j .. at
    BY <1>2
  <2>5. CommentsEnded(Cut)'
    BY <1>2, <1>4, <1>18, <2>2, <2>3, <2>4 DEF CommentsEnded
  <2> QED BY <2>1, <2>5 DEF Reading
<1>19. ASSUME Next, EndOfFile PROVE Reading'
  <2>1. pc' = "done" /\ at' = at /\ at # 0
    BY <1>19, StartIs, Classes DEF EndOfFile
  <2> QED BY <2>1 DEF Reading
<1>20. ASSUME Next, SingleChar PROVE Reading'
  <2>1. /\ pc = "start" /\ pc' = "start" /\ NextChar
        /\ LastChar \notin {" ", Hash, EofChar}
    BY <1>20, Classes DEF SingleChar
  <2>2. at \in 1 .. Len(input) /\ LastChar = input[at] /\ Cut = at /\ CommentsEnded(Cut)
    BY <1>20, <2>1, StartIs
  <2>3. at' = at + 1 /\ Cut' = at + 1
    <3>1. at # Len(input) + 1
      BY <1>2, <2>2
    <3>2. pc' \notin {"word", "number"}
      BY Zenon, <2>1
    <3> QED BY Zenon, <1>1, <2>1, <3>1, <3>2, Advances, CutWillBe
  <2>4. \A i \in Cut .. (at + 1) - 1 : input[i] # Hash
    <3>1. \A i \in Cut .. (at + 1) - 1 : i = at
      BY <1>2, <2>2
    <3> QED BY <2>1, <2>2, <3>1
  <2>5. CommentsEnded(Cut)'
    BY <1>1, <1>2, <1>4, <1>20, <2>2, <2>3, <2>4, EndedMoves
  <2> QED BY <1>2, <2>1, <2>3, <2>5 DEF Reading
<1> QED
  BY Zenon, <1>3, <1>5, <1>9, <1>10, <1>11, <1>12, <1>13, <1>14, <1>15, <1>16, <1>17,
     <1>18, <1>19, <1>20 DEF Next

-----------------------------------------------------------------------------
(* The loops of nexttok implement the abstract specification.              *)

\* The operators of Chars mean the same there as here.
LEMMA SameClasses ==
  /\ Promise!Hash = Hash /\ Promise!Alnum = Alnum /\ Promise!Numeric = Numeric
  /\ Promise!CommentEnd = CommentEnd
BY Zenon DEF Hash, Promise!Hash, Alnum, Promise!Alnum, Numeric, Promise!Numeric,
     Period, Promise!Period, CommentEnd, Promise!CommentEnd

LEMMA SameWords ==
  ASSUME NEW word
  PROVE  /\ Promise!WordKind(word) = WordKind(word)
         /\ Promise!HasPeriod(word) <=> HasPeriod(word)
         /\ Promise!NumberValue(word) = NumberValue(word)
         /\ Promise!RealText(word) = RealText(word)
<1>1. Promise!WordKind(word) = WordKind(word)
  BY Zenon DEF WordKind, Promise!WordKind
<1>2. Promise!HasPeriod(word) <=> HasPeriod(word)
  BY Zenon DEF HasPeriod, Promise!HasPeriod, Period, Promise!Period
<1>3. Promise!NumberValue(word) = NumberValue(word)
  BY Zenon DEF NumberValue, Promise!NumberValue
<1>4. Promise!RealText(word) = RealText(word)
  BY Zenon DEF RealText, Promise!RealText, Period, Promise!Period,
       Cardinality, Promise!Cardinality
<1> QED BY Zenon, <1>1, <1>2, <1>3, <1>4

LEMMA SamePush ==
  ASSUME NEW kind, NEW lexeme, Push(kind, lexeme)
  PROVE  Promise!Emit(kind, lexeme)
BY Zenon DEF Push, Promise!Emit

\* In the abstract specification a lexeme may begin where the comments have
\* ended, and a character of an open comment is a gap.
LEMMA NoGap ==
  ASSUME NEW p \in Nat, p <= Len(input), Len(input) \in Nat, CommentsEnded(p),
         input[p] # Hash, input[p] \notin Space
  PROVE  ~Promise!InGap(p)
<1>1. ASSUME NEW j \in 1 .. p, input[j] = Hash,
             \A m \in j .. p : input[m] \notin CommentEnd
      PROVE  FALSE
  <2>1. j \in 1 .. p - 1
    BY <1>1
  <2>2. PICK m \in j .. p : input[m] \in CommentEnd
    BY <1>1, <2>1 DEF CommentsEnded
  <2> QED BY <1>1, <2>2
<1>2. ~Promise!InComment(p)
  BY Zenon, <1>1, SameClasses DEF Promise!InComment
<1> QED BY Zenon, <1>2 DEF Promise!InGap

LEMMA GapInComment ==
  ASSUME NEW p \in Nat, CommentOpen(p), input[p] \notin CommentEnd
  PROVE  Promise!InGap(p)
<1>1. PICK j \in 1 .. p - 1 :
        input[j] = Hash /\ \A m \in j .. p - 1 : input[m] \notin CommentEnd
  BY DEF CommentOpen
<1>2. j \in 1 .. p /\ \A m \in j .. p : m \in j .. p - 1 \/ m = p
  OBVIOUS
<1>3. \A m \in j .. p : input[m] \notin CommentEnd
  BY Zenon, <1>1, <1>2
<1> QED BY Zenon, <1>1, <1>2, <1>3, SameClasses DEF Promise!InGap, Promise!InComment

\* A lexeme is complete: it is a longest run at the cut point.
LEMMA CompleteLexeme ==
  ASSUME Inv, NEW First, NEW Class, Building(First, Class),
         First \cap (Space \cup {Hash}) = {},
         pc \in {"word", "number"}, LastChar \notin Class
  PROVE  /\ at - 1 \in Cut .. Len(input) /\ Cut \in 1 .. Len(input) /\ at \in Nat
         /\ ~Promise!InGap(Cut)
         /\ input[Cut] \in First
         /\ Promise!LongestRun(at - 1, Class)
         /\ text = SubSeq(input, Cut, at - 1)
         /\ LastChar # EofChar => at \in 1 .. Len(input) /\ LastChar = input[at]
         /\ at - 1 = Len(input) \/ (at - 1 + 1 = at /\ LastChar = input[at])
<1>1. TypeOK /\ Reading /\ at \in Nat /\ Len(input) \in Nat
  BY LastCharIs DEF Inv
<1>2. /\ at \in 2 .. Len(input) + 1
      /\ Cut \in 1 .. at - 1
      /\ input[Cut] \in First
      /\ \A i \in Cut .. at - 1 : input[i] \in Class
      /\ text = SubSeq(input, Cut, at - 1)
  BY Zenon, <1>1, BuildingIs
<1>3. at - 1 \in Cut .. Len(input) /\ Cut \in 1 .. Len(input) /\ Cut \in Nat
      /\ Cut <= Len(input)
  BY <1>1, <1>2
<1>4. CommentsEnded(Cut)
  BY <1>1 DEF Reading
<1>5. input[Cut] # Hash /\ input[Cut] \notin Space
  BY <1>2
<1>6. ~Promise!InGap(Cut)
  BY Zenon, <1>1, <1>3, <1>4, <1>5, NoGap
<1>7. at # 0 /\ at - 1 + 1 = at /\ (at - 1 = Len(input) <=> at = Len(input) + 1)
  BY <1>1, <1>2
<1>8. at - 1 = Len(input) \/ LastChar = input[at]
  BY Zenon, <1>1, <1>7, LastCharIs
<1>9. at - 1 = Len(input) \/ input[at - 1 + 1] \notin Class
  BY Zenon, <1>7, <1>8
<1>10. Promise!LongestRun(at - 1, Class)
  BY Zenon, <1>2, <1>9 DEF Promise!LongestRun
<1>11. LastChar # EofChar => at \in 1 .. Len(input) /\ LastChar = input[at]
  BY Zenon, <1>1, <1>7, BeforeEnd
<1> QED BY Zenon, <1>1, <1>2, <1>3, <1>6, <1>7, <1>8, <1>10, <1>11

\* Each step of the lexer is a step of the abstract specification or leaves
\* it where it is.
LEMMA StepImplements ==
  ASSUME Inv, [Next]_vars
  PROVE  [Promise!Next]_(Promise!vars)
<1>1. TypeOK /\ TypeOK' /\ Reading /\ Reading'
  BY TypeStep, ReadingStep DEF Inv
<1>2. at \in Nat /\ Len(input) \in Nat /\ Len(input) + 1 \in Nat
  BY <1>1, Counts
<1>3. ASSUME input' = input, tokens' = tokens, Cut' = Cut, Outcome' = Outcome
      PROVE  [Promise!Next]_(Promise!vars)
  BY Zenon, <1>3 DEF Promise!vars
<1>4. CASE UNCHANGED vars
  <2>1. Cut' = Cut /\ Outcome' = Outcome
    BY Zenon, <1>4 DEF vars, Cut, Outcome
  <2> QED BY Zenon, <1>3, <1>4, <2>1 DEF vars
<1>5. /\ pc \notin {"done", "failed"} => Outcome = "running"
      /\ pc' \notin {"done", "failed"} => Outcome' = "running"
  BY Zenon DEF Outcome
<1>6. ASSUME Next, pc \notin {"done", "failed"}, Cut <= Len(input),
             \/ Promise!SkipGap \/ Promise!TakeWord \/ Promise!TakeReal
             \/ Promise!TakeInteger \/ Promise!TakeOperator
      PROVE  [Promise!Next]_(Promise!vars)
  <2>1. input' = input
    BY Zenon, <1>6 DEF Next
  <2> QED BY Zenon, <1>5, <1>6, <2>1 DEF Promise!Next
<1>7. ASSUME Next, SkipSpace PROVE [Promise!Next]_(Promise!vars)
  <2>1. /\ pc = "start" /\ pc' = "start" /\ NextChar /\ LastChar \in Space
        /\ input' = input /\ tokens' = tokens
    BY Zenon, <1>7 DEF Next, SkipSpace
  <2>2. at # Len(input) + 1
    BY Zenon, <1>1, <2>1, LastCharIs, Classes
  <2>3. at' = at + 1 /\ at' # 0
    BY Zenon, <1>1, <2>1, <2>2, Advances
  <2>4. Outcome = "running" /\ Outcome' = "running" /\ Cut' = at + 1
    <3>1. pc \notin {"done", "failed"} /\ pc' \notin {"done", "failed", "word", "number"}
      BY Zenon, <2>1
    <3> QED BY Zenon, <1>1, <1>5, <2>3, <3>1, CutWillBe
  <2>5. CASE at = 0
    <3>1. Cut = 1 /\ at + 1 = 1
      BY Zenon, <1>1, <2>1, <2>5, CutIs, Counts
    <3> QED BY Zenon, <1>3, <2>1, <2>4, <3>1
  <2>6. CASE at # 0
    <3>1. Cut = at /\ at \in 1 .. Len(input) /\ input[at] \in Space
      <4>1. pc \notin {"word", "number"}
        BY Zenon, <2>1
      <4> QED BY Zenon, <1>1, <2>1, <2>2, <2>6, <4>1, LastCharIs, CutIs
    <3>2. Cut <= Len(input)
      BY <1>2, <3>1
    <3>3. Promise!SkipGap
      BY Zenon, <2>1, <2>4, <3>1 DEF Promise!SkipGap, Promise!InGap
    <3>4. pc \notin {"done", "failed"}
      BY Zenon, <2>1
    <3> QED BY Zenon, <1>6, <1>7, <3>2, <3>3, <3>4
  <2> QED BY Zenon, <2>5, <2>6
<1>8. ASSUME Next, StartWord \/ StartNumber PROVE [Promise!Next]_(Promise!vars)
  <2>1. /\ pc = "start" /\ pc' \in {"word", "number"} /\ NextChar
        /\ LastChar \in Letter \cup Numeric /\ text' = <<LastChar>>
        /\ input' = input /\ tokens' = tokens
    BY Zenon, <1>8 DEF Next, StartWord, StartNumber
  <2>2. at \in 1 .. Len(input) /\ Cut = at /\ LastChar # " " /\ LastChar # EofChar
    BY Zenon, <1>8, <2>1, StartIs, Classes
  <2>3. at # Len(input) + 1
    BY Zenon, <1>1, <2>2, Counts
  <2>4. at' = at + 1 /\ at' # 0 /\ Len(text') = 1 /\ at' - Len(text') = at
    <3>1. at' = at + 1 /\ at' # 0
      BY Zenon, <1>1, <2>1, <2>3, Advances
    <3>2. Len(text') = 1
      BY <2>1
    <3> QED BY <1>2, <3>1, <3>2
  <2>5. Cut' = Cut
    BY Zenon, <1>1, <2>1, <2>2, <2>4, CutWillBe
  <2>6. Outcome' = Outcome
    BY Zenon, <1>5, <2>1
  <2> QED BY Zenon, <1>3, <2>1, <2>5, <2>6
<1>9. ASSUME Next, ExtendWord \/ ExtendNumber PROVE [Promise!Next]_(Promise!vars)
  <2>1. /\ pc \in {"word", "number"} /\ pc' = pc /\ NextChar
        /\ LastChar \in Alnum \cup Numeric /\ text' = Append(text, LastChar)
        /\ input' = input /\ tokens' = tokens
    BY Zenon, <1>9 DEF Next, ExtendWord, ExtendNumber
  <2>2. at # 0 /\ at # Len(input) + 1
    <3>1. at = 0 => pc = "start"
      BY Zenon, <1>1 DEF Reading
    <3> QED BY Zenon, <1>1, <2>1, <3>1, LastCharIs, Classes
  <2>3. at' = at + 1 /\ at' # 0
    BY Zenon, <1>1, <2>1, <2>2, Advances
  <2>4. at' - Len(text') = at - Len(text)
    <3>1. Len(text') = Len(text) + 1 /\ Len(text) \in Nat
      <4>1. text \in Seq(STRING)
        BY <1>1 DEF TypeOK
      <4>2. LastChar \in STRING
        BY Zenon, <1>1, LastCharIs
      <4> QED BY <2>1, <4>1, <4>2, AppendProperties
    <3> QED BY <1>2, <2>3, <3>1
  <2>5. Cut' = Cut
    BY Zenon, <1>1, <2>1, <2>2, <2>3, <2>4, CutIs, CutWillBe
  <2>6. Outcome' = Outcome
    BY Zenon, <1>5, <2>1
  <2> QED BY Zenon, <1>3, <2>1, <2>5, <2>6
<1>10. ASSUME Next, EndWord PROVE [Promise!Next]_(Promise!vars)
  <2>1. /\ pc = "word" /\ pc' = "start" /\ at' = at /\ LastChar \notin Alnum
        /\ Push(WordKind(text), text) /\ Building(Letter, Alnum)
    BY Zenon, <1>1, <1>10 DEF EndWord, Reading
  <2>2. /\ at - 1 \in Cut .. Len(input) /\ Cut \in 1 .. Len(input)
        /\ ~Promise!InGap(Cut) /\ input[Cut] \in Letter
        /\ Promise!LongestRun(at - 1, Alnum) /\ text = SubSeq(input, Cut, at - 1)
    <3>1. Letter \cap (Space \cup {Hash}) = {} /\ pc \in {"word", "number"}
      BY Zenon, <2>1, CharClasses
    <3> QED BY Zenon, <2>1, <3>1, CompleteLexeme
  <2>3. Cut <= Len(input) /\ at # 0 /\ at - 1 + 1 = at
    BY <1>2, <2>2
  <2>4. Cut' = at - 1 + 1
    <3>1. pc' \notin {"word", "number"}
      BY Zenon, <2>1
    <3> QED BY Zenon, <1>1, <2>1, <2>3, <3>1, CutWillBe
  <2>5. pc \notin {"done", "failed"} /\ pc' \notin {"done", "failed"}
    BY Zenon, <2>1
  <2>6. Outcome' = Outcome
    BY Zenon, <1>5, <2>5
  <2>7. Promise!Emit(Promise!WordKind(text), text)
    BY Zenon, <2>1, SamePush, SameWords
  <2>8. Promise!TakeWord
    BY Zenon, <2>2, <2>4, <2>6, <2>7, SameClasses DEF Promise!TakeWord
  <2> QED BY Zenon, <1>6, <1>10, <2>3, <2>5, <2>8
<1>11. ASSUME pc = "number"
       PROVE  /\ Building(Numeric, Numeric)
              /\ pc \in {"word", "number"} /\ pc \notin {"done", "failed"}
              /\ Numeric \cap (Space \cup {Hash}) = {}
  BY Zenon, <1>1, <1>11, CharClasses DEF Reading
<1>12. ASSUME Next, EndReal PROVE [Promise!Next]_(Promise!vars)
  <2>1. /\ pc = "number" /\ pc' = "start" /\ at' = at
        /\ LastChar \notin Numeric /\ LastChar # SuffixI
        /\ Push("real", RealText(text))
    BY Zenon, <1>12 DEF EndReal
  <2>2. /\ at - 1 \in Cut .. Len(input) /\ Cut \in 1 .. Len(input)
        /\ ~Promise!InGap(Cut) /\ input[Cut] \in Numeric
        /\ Promise!LongestRun(at - 1, Numeric) /\ text = SubSeq(input, Cut, at - 1)
        /\ at - 1 = Len(input) \/ (at - 1 + 1 = at /\ LastChar = input[at])
    BY Zenon, <1>11, <2>1, CompleteLexeme
  <2>3. Cut <= Len(input) /\ at # 0 /\ at - 1 + 1 = at
    BY <1>2, <2>2
  <2>4. at - 1 = Len(input) \/ input[at - 1 + 1] # SuffixI
    BY Zenon, <2>1, <2>2, <2>3
  <2>5. Cut' = at - 1 + 1
    <3>1. pc' \notin {"word", "number"}
      BY Zenon, <2>1
    <3> QED BY Zenon, <1>1, <2>1, <2>3, <3>1, CutWillBe
  <2>6. pc \notin {"done", "failed"} /\ pc' \notin {"done", "failed"}
    BY Zenon, <2>1
  <2>7. Outcome' = Outcome
    BY Zenon, <1>5, <2>6
  <2>8. Promise!Emit("real", Promise!RealText(text))
    BY Zenon, <2>1, SamePush, SameWords
  <2>9. Promise!TakeReal
    BY Zenon, <2>2, <2>4, <2>5, <2>7, <2>8, SameClasses DEF Promise!TakeReal
  <2> QED BY Zenon, <1>6, <1>12, <2>3, <2>6, <2>9
<1>13. ASSUME Next, EndInteger PROVE [Promise!Next]_(Promise!vars)
  <2>1. /\ pc = "number" /\ LastChar = SuffixI /\ NextChar
        /\ IF HasPeriod(text) \/ NumberValue(text) > MaxInt
             THEN pc' = "failed" /\ UNCHANGED tokens
             ELSE pc' = "start" /\ Push("integer", text)
    BY Zenon, <1>13 DEF EndInteger
  <2>2. LastChar \notin Numeric /\ LastChar # EofChar
    <3>1. SuffixI \in Letter /\ Letter \cap Numeric = {}
      BY CharClasses
    <3> QED BY Zenon, <2>1, <3>1, Classes
  <2>3. /\ at - 1 \in Cut .. Len(input) /\ Cut \in 1 .. Len(input)
        /\ ~Promise!InGap(Cut) /\ input[Cut] \in Numeric
        /\ Promise!LongestRun(at - 1, Numeric) /\ text = SubSeq(input, Cut, at - 1)
        /\ at \in 1 .. Len(input) /\ LastChar = input[at]
    BY Zenon, <1>11, <2>1, <2>2, CompleteLexeme
  <2>4. /\ Cut <= Len(input) /\ at # 0 /\ at # Len(input) + 1 /\ at - 1 + 1 = at
        /\ at - 1 + 2 = at + 1 /\ at - 1 \in Cut .. Len(input) - 1
    BY <1>2, <2>3
  <2>5. Cut' = at - 1 + 2
    <3>1. pc' \notin {"word", "number"}
      BY Zenon, <2>1
    <3> QED BY Zenon, <1>1, <2>1, <2>4, <3>1, Advances, CutWillBe
  <2>6. pc \notin {"done", "failed"}
    BY Zenon, <2>1
  <2>7. IF Promise!HasPeriod(text) \/ Promise!NumberValue(text) > MaxInt
          THEN Promise!Fail
          ELSE Promise!Emit("integer", text) /\ Outcome' = Outcome
    <3>1. pc' = "failed" => Outcome' = "failed"
      BY Zenon DEF Outcome
    <3>2. pc' = "start" => Outcome' = Outcome
      BY Zenon, <1>5, <2>6
    <3> QED BY Zenon, <2>1, <3>1, <3>2, SamePush, SameWords DEF Promise!Fail
  <2>8. Promise!TakeInteger
    BY Zenon, <2>1, <2>3, <2>4, <2>5, <2>7, SameClasses DEF Promise!TakeInteger
  <2> QED BY Zenon, <1>6, <1>13, <2>4, <2>6, <2>8
<1>14. ASSUME Next, StartComment PROVE [Promise!Next]_(Promise!vars)
  <2>1. /\ pc = "start" /\ pc' = "comment" /\ NextChar /\ LastChar = Hash
        /\ tokens' = tokens
    BY Zenon, <1>14 DEF StartComment
  <2>2. at \in 1 .. Len(input) /\ input[at] = Hash /\ Cut = at /\ at # 0
    BY Zenon, <1>14, <2>1, StartIs, Classes
  <2>3. at \in 1 .. at /\ (\A m \in at .. at : m = at) /\ at # Len(input) + 1
        /\ Cut <= Len(input)
    BY <1>2, <2>2
  <2>4. Promise!InGap(Cut)
    BY Zenon, <2>2, <2>3, SameClasses, Classes DEF Promise!InGap, Promise!InComment
  <2>5. pc \notin {"done", "failed"} /\ pc' \notin {"done", "failed", "word", "number"}
    BY Zenon, <2>1
  <2>6. Cut' = Cut + 1 /\ Outcome' = Outcome
    BY Zenon, <1>1, <1>5, <2>1, <2>2, <2>3, <2>5, Advances, CutWillBe
  <2>7. Promise!SkipGap
    BY Zenon, <2>1, <2>4, <2>6 DEF Promise!SkipGap
  <2> QED BY Zenon, <1>6, <1>14, <2>3, <2>5, <2>7
<1>15. ASSUME Next, ExtendComment \/ EndComment PROVE [Promise!Next]_(Promise!vars)
  <2>1. /\ pc = "comment" /\ pc' \in {"comment", "start"}
        /\ tokens' = tokens /\ input' = input
        /\ at' = at \/ (NextChar /\ LastChar \notin CommentEnd)
    BY Zenon, <1>15 DEF Next, ExtendComment, EndComment
  <2>2. /\ pc \notin {"done", "failed", "word", "number", "start"}
        /\ pc' \notin {"done", "failed", "word", "number"}
    BY Zenon, <2>1
  <2>3. at # 0 /\ CommentOpen(at)
    BY Zenon, <1>1, <2>1, <2>2 DEF Reading
  <2>4. Cut = at /\ Outcome' = Outcome
    BY Zenon, <1>1, <1>5, <2>2, <2>3, CutIs
  <2>5. CASE at' = at
    BY Zenon, <1>1, <1>3, <2>1, <2>2, <2>3, <2>4, <2>5, CutWillBe
  <2>6. CASE NextChar /\ at = Len(input) + 1
    <3>1. at' = at
      BY <1>2, <2>6 DEF NextChar
    <3> QED BY Zenon, <2>5, <3>1
  <2>7. CASE NextChar /\ LastChar \notin CommentEnd /\ at # Len(input) + 1
    <3>1. at \in 1 .. Len(input) /\ LastChar = input[at]
      BY Zenon, <1>1, <2>3, <2>7, LastCharIs
    <3>2. Cut <= Len(input)
      BY <2>4, <3>1
    <3>3. Promise!InGap(Cut)
      BY Zenon, <1>2, <2>3, <2>4, <2>7, <3>1, GapInComment
    <3>4. Cut' = Cut + 1
      BY Zenon, <1>1, <2>2, <2>4, <2>7, Advances, CutWillBe
    <3>5. Promise!SkipGap
      BY Zenon, <2>1, <2>4, <3>3, <3>4 DEF Promise!SkipGap
    <3> QED BY Zenon, <1>6, <1>15, <2>2, <3>2, <3>5
  <2> QED BY Zenon, <2>1, <2>5, <2>6, <2>7
<1>16. ASSUME Next, EndOfFile PROVE [Promise!Next]_(Promise!vars)
  <2>1. /\ pc = "start" /\ pc' = "done" /\ at' = at /\ LastChar = EofChar
        /\ Push("eof", <<>>) /\ input' = input
    BY Zenon, <1>16 DEF Next, EndOfFile
  <2>2. at # 0 /\ Cut = at /\ CommentsEnded(Cut) /\ Cut \in Nat
    BY Zenon, <1>16, <2>1, StartIs, Classes
  <2>3. /\ pc \notin {"done", "failed"}
        /\ pc' \in {"done", "failed"} /\ pc' \notin {"word", "number"}
    BY Zenon, <2>1
  <2>4. Outcome = "running" /\ Outcome' = "done" /\ Cut' = Cut
    <3>1. Outcome' = "done"
      BY Zenon, <2>1, <2>3 DEF Outcome
    <3> QED BY Zenon, <1>1, <1>5, <2>1, <2>2, <2>3, <3>1, CutWillBe
  <2>5. Promise!Finish
    BY Zenon, <2>1, <2>4, SamePush DEF Promise!Finish
  <2>6. Cut = Len(input) + 1 \/ (~Promise!InGap(Cut) /\ input[Cut] = EofChar)
    <3>1. CASE at \in 1 .. Len(input)
      <4>1. input[Cut] = EofChar /\ Cut <= Len(input)
        BY Zenon, <1>1, <2>1, <2>2, <3>1, LastCharIs, Counts
      <4>2. input[Cut] # Hash /\ input[Cut] \notin Space
        BY Zenon, <4>1, Classes
      <4> QED BY Zenon, <1>2, <2>2, <4>1, <4>2, NoGap
    <3> QED BY Zenon, <1>1, <2>2, <3>1, LastCharIs
  <2> QED BY Zenon, <2>1, <2>4, <2>5, <2>6 DEF Promise!Next
<1>17. ASSUME Next, SingleChar PROVE [Promise!Next]_(Promise!vars)
  <2>1. /\ pc = "start" /\ pc' = "start" /\ NextChar /\ Push("operator", <<LastChar>>)
        /\ LastChar \notin Space \cup Letter \cup Numeric \cup {Hash, EofChar}
    BY Zenon, <1>17 DEF SingleChar
  <2>2. /\ at \in 1 .. Len(input) /\ LastChar = input[at] /\ Cut = at /\ at # 0
        /\ CommentsEnded(Cut) /\ Cut \in Nat
    BY Zenon, <1>17, <2>1, StartIs, Classes
  <2>3. Cut <= Len(input) /\ at # Len(input) + 1
    BY Zenon, <1>1, <2>2, Counts
  <2>4. ~Promise!InGap(Cut)
    BY Zenon, <1>2, <2>1, <2>2, <2>3, NoGap
  <2>5. input[Cut] \notin Alnum \cup Numeric \cup {EofChar}
    <3>1. Alnum \subseteq Letter \cup Numeric
      BY DEF Alnum, Numeric
    <3> QED BY Zenon, <2>1, <2>2, <3>1
  <2>6. pc \notin {"done", "failed"} /\ pc' \notin {"done", "failed", "word", "number"}
    BY Zenon, <2>1
  <2>7. Cut' = Cut + 1 /\ Outcome' = Outcome
    BY Zenon, <1>1, <1>5, <2>1, <2>2, <2>3, <2>6, Advances, CutWillBe
  <2>8. Promise!TakeOperator
    BY Zenon, <2>1, <2>2, <2>4, <2>5, <2>7, SamePush, SameClasses DEF Promise!TakeOperator
  <2> QED BY Zenon, <1>6, <1>17, <2>3, <2>6, <2>8
<1> QED
  BY Zenon, <1>4, <1>7, <1>8, <1>9, <1>10, <1>12, <1>13, <1>14, <1>15, <1>16, <1>17
     DEF Next

\* The character loops of nexttok cut every text into the lexemes that
\* longest-match lexing cuts it into, and skip what lies between them.
THEOREM LoopsImplementLexemes == Spec => ImplementsLexemes
<1>1. Init => Inv
  <2>1. Init => TypeOK
    BY InputsAreText DEF Init, TypeOK
  <2>2. Init => Reading
    <3>1. Init => Cut = 1
      BY Zenon DEF Init, Cut
    <3>2. \A j \in 1 .. 1 - 1 : FALSE
      OBVIOUS
    <3> QED BY <3>1, <3>2 DEF Init, Reading, CommentsEnded
  <2> QED BY <2>1, <2>2 DEF Inv
<1>2. Inv /\ [Next]_vars => Inv'
  BY TypeStep, ReadingStep DEF Inv
<1>3. Init => Promise!Init
  BY Zenon DEF Init, Promise!Init, Cut, Outcome
<1>4. Inv /\ [Next]_vars => [Promise!Next]_(Promise!vars)
  BY StepImplements
<1> QED BY <1>1, <1>2, <1>3, <1>4, PTL DEF Spec, ImplementsLexemes, Promise!Spec
=============================================================================
