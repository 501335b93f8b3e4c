----------------------------- MODULE MCConflake -----------------------------
(***************************************************************************)
(* The command line program on the examples of the repository, and on      *)
(* every short file over a few tokens.  Numbers of the examples that are   *)
(* not small stand as small ones here.                                     *)
(***************************************************************************)
EXTENDS Conflake, LlvmTypes

CONSTANTS FileLength, BodyLength

MCIdent == {"foo", "bar", "fib", "test", "mklist", "cos", "if", "and", "f", "a", "b", "x",
            "real", "integer", "boolean", "list", "fun"}
MCReal == {"1.0", "2.0", "3.0", "4.0"}
MCInteger == {"1i", "2i", "4i", "5i", "8i"}

MCNumberOf(literal) ==
  CASE literal = "false"                  -> 0
    [] literal \in {"1.0", "1i", "true"}  -> 1
    [] literal \in {"2.0", "2i"}          -> 2
    [] literal = "3.0"                    -> 3
    [] literal \in {"4.0", "4i"}          -> 4
    [] literal = "5i"                     -> 5
    [] literal = "8i"                     -> 8
MCRenamed(name, n) == name \o ToString(n)

\* A unit of an example and what the file evaluates to.
realArgs(name) == <<"def", name, "(", "real", "a", ",", "real", "b", ")">>
realArg(name, x) == <<"def", name, "(", "real", x, ")">>
Example(text, kind, number) ==
  [tokens |-> Append(text, "eof"), res |-> [kind |-> kind, value |-> number]]

Squares == <<"a", "*", "a", "+", "2.0", "*", "a", "*", "b", "+", "b", "*", "b">>

Examples ==
  {Example(<<"4.0", "+", "4.0", ";">>, "value", 8),
   Example(<<"4i", "+", "5i", ";">>, "value", 9),
   Example(<<"def", "foo", "(", "boolean", "x", ",", "real", "b", ")", ":", "real",
             "if", "(", "x", ",", "1.0", "+", "b", ",", "2.0", "*", "b", ")",
             "foo", "(", "false", ",", "3.0", ")">>, "value", 6),
   Example(realArgs("foo") \o <<":", "real">> \o Squares \o <<";">>, "void", 0),
   Example(realArgs("foo") \o Squares \o <<";">> \o realArg("bar", "a")
             \o <<":", "real", "foo", "(", "a", ",", "4.0", ")", "+", "bar", "(", "3.0", ")", ";">>,
           "void", 0),
   Example(<<"extern", "cos", "(", "real", "x", ")", ":", "real", ";",
             "cos", "(", "1.0", ")", ";">>, "unknown", 0),
   Example(realArg("test", "x")
             \o <<"(", "1.0", "+", "2.0", "+", "x", ")", "*", "(", "x", "+", "(", "1.0", "+", "2.0", ")", ")", ";",
                  "test", "(", "1.0", ")">>, "value", 16),
   Example(realArg("foo", "a") \o <<"a", "+", "2.0", "foo", "(", "4.0", ")">>, "value", 6),
   Example(<<"def", "foo", "(", "list", "<", "real", ">", "x", ")", "x", "[", "3.0", "]">>
             \o realArg("mklist", "a")
             \o <<"[", "a", "a", "+", "1.0", "a", "+", "2.0", "a", "+", "3.0", "]",
                  "foo", "(", "mklist", "(", "1.0", ")", ")">>, "value", 4),
   Example(realArgs("foo") \o <<"a", "<", "b">>
             \o <<"def", "bar", "(", "boolean", "x", ")", "x",
                  "and", "(", "foo", "(", "1.0", ",", "2.0", ")", ",", "bar", "(", "true", ")", ")">>,
           "value", 1),
   Example(<<"def", "fib", "(", "integer", "x", ")", ":", "integer",
             "if", "(", "x", "<", "2i", ",", "x", ",", "fib", "(", "x", "-", "1i", ")", "+",
             "fib", "(", "x", "-", "2i", ")", ")", "fib", "(", "8i", ")">>, "value", 21),
   Example(realArg("foo", "a") \o <<"(", "a", "*", "4.0", ")">>
             \o <<"def", "bar", "(", "fun", "<", "real", ",", "real", ">", "f", ")",
                  "f", "(", "2.0", ")", "bar", "(", "foo", ")">>, "value", 8)}

FileTokens == {"1.0", "x", "(", ")", "[", "]", "+"}
BodyTokens == {"1.0", "x", "(", ")", "[", "]", "foo"}
Headers == {<<"def", "foo", "(", ")">>, <<"def", "foo", "(", "real", "x", ")">>,
            <<"extern", "foo", "(", ")", ":", "real">>}
Corners == {<<"x", "[", "1.0", "]">>, <<"[", "[", "]", "[", "]", "]">>, <<"foo", "(", "1.0", ")">>,
            <<"[", "1.0", "]", "foo", "(", ")">>, <<"1.0", ";", "true">>}

\* Functions that get back to themselves, and functions that would if a later
\* definition of a name counted.
Again ==
  {<<"def", "foo", "(", ")", ":", "real", "foo", "(", ")", "eof">>,
   realArg("foo", "a") \o <<"a">> \o realArg("foo", "a")
     \o <<":", "real", "foo", "(", "a", ")", "foo", "(", "1.0", ")", "eof">>,
   realArg("foo", "a") \o <<"a">> \o realArg("bar", "a") \o <<":", "real", "foo", "(", "a", ")">>
     \o realArg("foo", "a") \o <<":", "real", "bar", "(", "a", ")", "bar", "(", "1.0", ")", "eof">>,
   <<"extern">> \o Tail(realArg("foo", "a")) \o <<":", "real">>
     \o realArg("bar", "a") \o <<"foo", "(", "a", ")">>
     \o realArg("foo", "a") \o <<":", "real", "bar", "(", "a", ")", "bar", "(", "1.0", ")", "eof">>}

MCInputs ==
  {example.tokens : example \in Examples} \cup Again
  \cup {Append(text, "eof") : text \in BoundedSeq(FileTokens, FileLength)}
  \cup {Append(header \o text, "eof") : header \in Headers,
                                          text \in Corners \cup BoundedSeq(BodyTokens, BodyLength)}

\* Two expressions in one file, an argument with the name of its function,
\* and a declaration without arguments.
TwoExpressions == {<<"4i", ";", "5i", "eof">>}
OwnName == {realArg("foo", "foo") \o <<"foo", "eof">>}
NoArguments == {<<"extern", "foo", "(", ")", ":", "real", "eof">>}

-----------------------------------------------------------------------------
\* Every example, once it has been read, is accepted by the analysis, compiled
\* without an error, and evaluated to what it should be.
ExamplesEvaluate ==
  (phase = "parse" /\ \E example \in Examples : tokens = example.tokens)
    ~> \E example \in Examples :
         /\ tokens = example.tokens /\ res = example.res
         /\ pc = "accepted" /\ gen = (IF res.kind = "void" THEN "done" ELSE "run")
=============================================================================
