------------------------------- MODULE Chars -------------------------------
(***************************************************************************)
(* The character classes, words and numbers the lexer's specifications     *)
(* share.  A character is a one-letter string; the classes are the tests   *)
(* nexttok makes on lastChar (std::isspace, std::isalpha, std::isdigit).   *)
(***************************************************************************)
EXTENDS Integers, Sequences, FiniteSets

CONSTANTS
  Letter,     \* the characters std::isalpha accepts
  SuffixI,    \* the letter 'i', which turns a number into an integer literal
  Digit,      \* the characters std::isdigit accepts
  DigitValue, \* the value of each digit
  Radix,      \* the base from_chars reads numbers in
  MaxInt,     \* the largest int64_t
  Space,      \* the characters std::isspace accepts
  LineEnd,    \* '\n' and '\r', two of the spaces
  Nul,        \* the character '\0'
  EofChar,    \* what get() returns at the end of the stream, as a char; the
              \* byte 0xFF of a file is the same char where char is signed
  Keyword     \* the four words that are not identifiers, with their kinds

Period  == "."
Hash    == "#"
Alnum   == Letter \cup Digit
Numeric == Digit \cup {Period}

ASSUME CharClasses ==
  /\ SuffixI \in Letter
  /\ " " \in Space
  /\ LineEnd \subseteq Space
  /\ Letter \cap (Numeric \cup Space \cup {Hash, Nul, EofChar}) = {}
  /\ Numeric \cap (Space \cup {Hash, Nul, EofChar}) = {}
  /\ Space \cap {Hash, Nul, EofChar} = {}
  /\ Hash \notin {Nul, EofChar}
  /\ Nul # EofChar
  /\ Space \cup {EofChar} \subseteq STRING

\* A keyword is not taken for the end of the file.
ASSUME KeywordsAreNotEof == \A word \in DOMAIN Keyword : Keyword[word] # "eof"

\* The characters that end a comment.
CommentEnd == LineEnd \cup {Nul}

\* The kind of token a complete word is.
WordKind(word) ==
  IF word \in DOMAIN Keyword THEN Keyword[word] ELSE "identifier"

\* The number from_chars reads from a run of digits, in unbounded arithmetic.
NumberValue(digits) ==
  LET Value[n \in 0 .. Len(digits)] ==
        IF n = 0 THEN 0 ELSE Value[n - 1] * Radix + DigitValue[digits[n]]
  IN  Value[Len(digits)]

HasPeriod(run) == \E i \in DOMAIN run : run[i] = Period

\* The part of a run of digits and periods that strtod reads: it stops at
\* the second period, and the rest of the run is dropped.
RealText(run) ==
  LET Read == {n \in 1 .. Len(run) :
                 \A i, j \in 1 .. n : run[i] = Period /\ run[j] = Period => i = j}
  IN  SubSeq(run, 1, Cardinality(Read))
=============================================================================
