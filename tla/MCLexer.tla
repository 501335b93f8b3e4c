------------------------------ MODULE MCLexer ------------------------------
(***************************************************************************)
(* The lexer on every text of at most MaxLength characters over an         *)
(* alphabet with one or two characters of every class nexttok tells apart. *)
(***************************************************************************)
EXTENDS Lexer, SequencesExt, TLC

CONSTANTS MaxLength, Alphabet

\* One-letter and two-letter words stand for the keywords of the language.
MCKeyword == (<<"d">> :> "def") @@ (<<"d", "i">> :> "extern")
MCDigitValue == [d \in Digit |-> IF d = "0" THEN 0 ELSE 1]
MCInputs == BoundedSeq(Alphabet, MaxLength)
=============================================================================
