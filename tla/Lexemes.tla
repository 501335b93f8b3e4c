------------------------------ MODULE Lexemes ------------------------------
(***************************************************************************)
(* What lexing promises, stated without the loops of nexttok: the text is  *)
(* cut from left to right into gaps (white space and comments) and         *)
(* lexemes, and every lexeme is the longest one that starts where it       *)
(* starts.  Each action takes one whole lexeme or one character of a gap.  *)
(* The text ends with the file, or before a character taken for its end.   *)
(***************************************************************************)
EXTENDS Chars

VARIABLES
  input,    \* the characters of the program
  pos,      \* the first character not yet cut off, Len(input) + 1 at the end
  tokens,   \* the tokens cut so far
  outcome   \* "running", "done" or "failed"

vars == <<input, pos, tokens, outcome>>

\* Character i belongs to a comment: a '#' at or before it opens one that no
\* character up to i ends.
InComment(i) ==
  \E j \in 1 .. i : /\ input[j] = Hash
                    /\ \A m \in j .. i : input[m] \notin CommentEnd

InGap(i) == input[i] \in Space \/ InComment(i)

\* The characters pos .. q are a longest run over Class.
LongestRun(q, Class) ==
  /\ \A i \in pos .. q : input[i] \in Class
  /\ q = Len(input) \/ input[q + 1] \notin Class

Emit(kind, text) == tokens' = Append(tokens, [kind |-> kind, text |-> text])

Fail == outcome' = "failed" /\ UNCHANGED tokens

Init ==
  /\ pos = 1
  /\ tokens = <<>>
  /\ outcome = "running"

SkipGap ==
  /\ InGap(pos)
  /\ pos' = pos + 1
  /\ UNCHANGED <<tokens, outcome>>

TakeWord ==
  \E q \in pos .. Len(input) :
    LET word == SubSeq(input, pos, q)
    IN  /\ ~InGap(pos)
        /\ input[pos] \in Letter
        /\ LongestRun(q, Alnum)
        /\ Emit(WordKind(word), word)
        /\ pos' = q + 1
        /\ UNCHANGED outcome

TakeReal ==
  \E q \in pos .. Len(input) :
    /\ ~InGap(pos)
    /\ input[pos] \in Numeric
    /\ LongestRun(q, Numeric)
    /\ q = Len(input) \/ input[q + 1] # SuffixI
    /\ Emit("real", RealText(SubSeq(input, pos, q)))
    /\ pos' = q + 1
    /\ UNCHANGED outcome

TakeInteger ==
  \E q \in pos .. Len(input) - 1 :
    LET digits == SubSeq(input, pos, q)
    IN  /\ ~InGap(pos)
        /\ input[pos] \in Numeric
        /\ LongestRun(q, Numeric)
        /\ input[q + 1] = SuffixI
        /\ IF HasPeriod(digits) \/ NumberValue(digits) > MaxInt
             THEN Fail
             ELSE Emit("integer", digits) /\ UNCHANGED outcome
        /\ pos' = q + 2

TakeOperator ==
  /\ ~InGap(pos)
  /\ input[pos] \notin Alnum \cup Numeric \cup {EofChar}
  /\ Emit("operator", <<input[pos]>>)
  /\ pos' = pos + 1
  /\ UNCHANGED outcome

Finish ==
  /\ Emit("eof", <<>>)
  /\ outcome' = "done"
  /\ UNCHANGED pos

Next ==
  /\ outcome = "running"
  /\ UNCHANGED input
  /\ \/ /\ pos <= Len(input)
        /\ SkipGap \/ TakeWord \/ TakeReal \/ TakeInteger \/ TakeOperator
     \/ /\ pos = Len(input) + 1 \/ (~InGap(pos) /\ input[pos] = EofChar)
        /\ Finish

Spec == Init /\ [][Next]_vars
=============================================================================
