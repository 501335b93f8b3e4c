------------------------------ MODULE Conflake ------------------------------
(***************************************************************************)
(* The command line program: main() of apps/conflake/conflake.cpp runs the *)
(* lexer, the parser, the semantic analysis and the code generator one     *)
(* after the other, and prints what each has made before the next starts.  *)
(***************************************************************************)
EXTENDS Compiler

CONSTANTS
  Ident, Inputs   \* the names and the token vectors of the parser

VARIABLES
  tokens, pos, parsePc, parseStack, parseRet, nodes, types, unit, units,
  phase           \* the phase of main, or how it has ended

Parse == INSTANCE Parser WITH pc <- parsePc, stack <- parseStack, ret <- parseRet

\* A name is no other token, and the lexer ends a file in Eof.
ASSUME FilesAssumption ==
  LET other == Parse!Operator \cup {"def", "extern", "eof"}
  IN  /\ Ident \cap (other \cup Literal) = {} /\ Literal \cap other = {}
      /\ \A t \in Inputs : Parse!EndsInEof(t)

parsing == <<tokens, pos, parsePc, parseStack, parseRet, nodes, types, unit, units>>
conflakevars == <<parsing, compilervars, phase>>

Enter(next) == phase' = next /\ UNCHANGED <<parsing, compilervars>>

\* The analysis has nothing to look at until the parser is done.
NoPrograms == {[nodes |-> <<>>, units |-> <<>>]}

ConflakeInit == Parse!Init /\ CompilerInit /\ phase = "lex"

-----------------------------------------------------------------------------
\* The lexer turns the file into the tokens, or cannot, or reads the end of
\* a file that a comment is open in again and again.
Lex == phase = "lex" /\ (Enter("parse") \/ Enter("failed") \/ Enter("endless"))

ParseTokens == phase = "parse" /\ Parse!Next /\ UNCHANGED <<compilervars, phase>>

ParserError == phase = "parse" /\ parsePc = "rejected" /\ Enter("failed")

(* Printing what the parser has made goes through every expression that    *)
(* hangs on a unit, and does not ask whether a pointer is null.            *)

WithNull_SkipsLists ==
  LET NullIn[n \in 0 .. Len(nodes)] ==
        n = 0 \/ \E k \in 1 .. Len(nodes[n].kids) : nodes[n].kind # "list" /\ NullIn[nodes[n].kids[k]]
  IN  {n \in 0 .. Len(nodes) : NullIn[n]}

WithNull ==
  LET NullIn[n \in 0 .. Len(nodes)] ==
        n = 0 \/ \E k \in 1 .. Len(nodes[n].kids) : NullIn[nodes[n].kids[k]]
  IN  {n \in 0 .. Len(nodes) : NullIn[n]}

PrintsNull ==
  \E u \in 1 .. Len(units) : units[u].kind = "def" /\ units[u].body \in WithNull

\* The TopLevel, with types as trees.
Descriptor ==
  LET Tree[t \in 1 .. Len(types)] ==
        [name |-> types[t].name,
         args |-> [k \in 1 .. Len(types[t].args) |-> Tree[types[t].args[k]]]]
  IN  Tree

Parsed ==
  [nodes |-> nodes,
   units |-> [u \in 1 .. Len(units) |->
     [kind |-> units[u].kind, name |-> units[u].name, body |-> units[u].body,
      args |-> [k \in 1 .. Len(units[u].args) |->
                  [type |-> Descriptor[units[u].args[k].type], name |-> units[u].args[k].name]],
      type |-> IF units[u].type = 0 THEN <<>> ELSE <<Descriptor[units[u].type]>>]]]

PrintTree ==
  /\ phase = "parse" /\ parsePc = "accepted"
  /\ \/ PrintsNull /\ Enter("killed")
     \/ /\ ~PrintsNull
        /\ phase' = "analyze" /\ program' = Parsed
        /\ UNCHANGED <<parsing, build, result, context, generated, machine>>

-----------------------------------------------------------------------------
AnalyzeTree_Early == Analyze /\ UNCHANGED <<parsing, phase>>

\* analyze() of what was parsed.
AnalyzeTree == phase = "analyze" /\ Analyze /\ UNCHANGED <<parsing, phase>>

SemanticError ==
  /\ phase = "analyze"
  /\ \/ pc = "error" /\ Enter("failed")
     \/ pc \in {"aborted", "crashed"} /\ Enter("killed")

\* The printer of the analysis describes the return type of each function;
\* its case for declarations asks for the parser's signatures.
PrintTypes ==
  /\ phase = "analyze" /\ pc = "accepted"
  /\ \/ (\E i \in Functions : HasNull(analyzed[i].sig.ret)) /\ Enter("killed")
     \/ (\A i \in Functions : ~HasNull(analyzed[i].sig.ret)) /\ Enter("generate")

\* codegen() of what was analyzed, and the code it has made.
GenerateAndRun == phase = "generate" /\ (Generate \/ Execute) /\ UNCHANGED <<parsing, phase>>

\* An error of the code generator is printed, and main returns 0 as it does
\* with a result.  Calls without end need memory without end.
EndOfMain ==
  /\ phase = "generate" /\ CompilerHalted
  /\ \/ (gen \in {"done", "error"} \/ res.kind = "value") /\ Enter("exited")
     \/ (gen \in {"aborted", "crashed", "undefined"} \/ res.kind = "undefined") /\ Enter("killed")
     \/ res.kind = "diverges" /\ (Enter("endless") \/ Enter("killed"))
     \/ res.kind = "unknown" /\ (Enter("exited") \/ Enter("endless") \/ Enter("killed"))

ConflakeNext ==
  \/ Lex \/ ParseTokens \/ ParserError \/ PrintTree
  \/ AnalyzeTree \/ SemanticError \/ PrintTypes
  \/ GenerateAndRun \/ EndOfMain

ConflakeSpec == ConflakeInit /\ [][ConflakeNext]_conflakevars

\* main() is one sequential function: it goes on until it returns.
FairConflakeSpec == ConflakeSpec /\ WF_conflakevars(ConflakeNext)

-----------------------------------------------------------------------------
\* The ways in which main() comes to an end, and the one in which it does not.
Endings == {"failed", "exited", "killed"}
Final == Endings \cup {"endless"}
Later == {"analyze", "generate"}

\* Shapes of the state, and who has run: no phase has begun before its turn.
ConflakeTypeOK ==
  /\ phase \in {"lex", "parse"} \cup Later \cup Final
  /\ phase \in Later => parsePc = "accepted"
  /\ pc # "analyze" \/ current > 1 => parsePc = "accepted"
  /\ phase = "generate" => pc = "accepted"
  /\ gen # "unit" \/ at > 1 \/ mod # <<>> => pc = "accepted"

\* The null pointers that the parser takes for expressions after some
\* errors, and the null types of the analysis, end in the printers: what the
\* later phases get to see has none, and no node that belongs to no unit.
LaterPhasesSeeNoNull ==
  /\ phase \in Later =>
       /\ \A n \in 1 .. Len(program.nodes) :
            /\ \A k \in 1 .. Len(Node(n).kids) : Node(n).kids[k] # 0
            /\ \/ \E u \in 1 .. Len(program.units) : program.units[u].body = n
               \/ \E m \in 1 .. Len(program.nodes) : \E k \in 1 .. Len(Node(m).kids) :
                    Node(m).kids[k] = n
       /\ \A u \in 1 .. Len(program.units) :
            program.units[u].kind = "def" => program.units[u].body # 0
  /\ phase = "generate" => \A i \in Functions : ~HasNull(analyzed[i].sig.ret)

\* Every function that a body names has been defined in a unit before it:
\* only later definitions of a name, which no call runs, can name it.
NamesEarlierOnly ==
  \A u, w \in 1 .. Len(program.units) :
    /\ program.units[u].kind = "def"
    /\ \E n \in IdsOf(u) : Node(n).name = program.units[w].name
    => \E v \in 1 .. u - 1 :
         program.units[v].kind = "def" /\ program.units[v].name = program.units[w].name

\* Once its file has been lexed, main() comes to an end: the phases on every
\* file, and the code that has been made unless a function can get back to
\* itself or out of the program, whatever is defined again later.
ConflakeTerminates ==
  phase = "parse" ~> phase \in Endings \/ (phase = "endless" /\ ~NamesEarlierOnly)
=============================================================================
