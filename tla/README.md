# conflake: specifications, model checks and proofs

conflake is a compiler for a small functional language: a text is cut into
tokens, parsed into expressions, typed, translated to LLVM and run.  These TLA+
modules model all of it, phase by phase, as the C++ code works: the front end in
`src/packages/pom`, the code generator in `src/packages/pol`, the code it makes,
and the program in `src/apps/conflake` that runs the phases in order.  Every
action is a step of a function; what the phases promise one another is stated as
invariants, as abstract specifications, or as a grammar and a language
definition that know nothing of the code.

## 1. The system

The program is sequential; there are no threads, no messages and nothing is
persisted.  What is hard is elsewhere: look-ahead of one character and of one
token, a token iterator that is never compared with its end, precedence by
recursion, errors that are passed on in one place and swallowed in another, null
pointers that travel through three phases, maps keyed by numbers another phase
handed out, lookups repeated by a later phase that asserts they succeed, and
undefined behaviour at the edges of argument vectors.

| component | state | operations | interacts with | what makes it correct |
|---|---|---|---|---|
| Lexer (`pom_lexer`) | the stream position, `lastChar`, the word or number under construction, the tokens | `nexttok`, `lex` | gives the parser a vector | longest lexemes, nothing lost between two tokens, one Eof and it is last, returns on every file |
| Parser (`pom_parser`) | `tok_it`, the locals of the active calls, `m_current_id`, the expressions, the units | one function per construct, `parse` | dereferences `tok_it` trusting the lexer's Eof; numbers expressions for the semantic analysis | never passes Eof, builds the tree the language has for the tokens, accepts what the language has a tree for, each expression has one owner and its post-order number |
| AST (`pom_ast`, `pom_astbuilder`) | none | `visitExprTree`, printers, equality | used for output and by the tests | visits in post-order |
| Types (`pom_type`, `pom_*type`, `pom_typebuilder`) | none | `build`, `mangled`, `==`, `callable`, `subscriptedType` | compared by mangled name everywhere | equal names mean equal types |
| Builtin operators (`pom_ops`) | a static table | `getBuiltin` | asked by the semantic analysis and again by the code generator | the second answer is the first |
| Semantic analysis (`pom_semantic`) | the outer context; per function a signature and a context (`m_variables`, `m_expressions`) | `analyze` of units, signatures, functions; `calculateType` | reads the parser's tree; its contexts are read by the code generator | a type for every expression, consistent with the language's rules; no crash on sound programs |
| Code generator (`pol_codegen`) | the LLVM module, the insertion point, `m_named_values`, the last function without arguments and its type | `codegen` of each node, signature and function | repeats the lookups of the analysis, links the result with the JIT and calls it | no second lookup fails or finds something else, the function that runs is the one whose type was kept, a definition once made is not changed |
| Basic operators (`pol_basicoperators`) | a static table of builders | `generate`, `execute`, `if_generic` | called by the code generator, which they call back for each operand | one builder for each table entry; every block ends in one branch, the phi names the blocks control comes from |
| LLVM types (`pol_basictypes`), malloc (`pol_llvm`), JIT (`pol_jit`) | LLVM's | conversions, `createMalloc`, `addModule`, `lookup` | called by the code generator | totality on the types the analysis produces; every symbol is found |
| Program (`apps/conflake`) | none | `main` | runs the phases in order and prints what each has made | stops at the first error; what a printer dereferences is there |

The two builds of the README matter: with `-DCMAKE_BUILD_TYPE=Release` the
assertions of the code are compiled out.  `build` says which one it is, from the
semantic analysis on.

## 2. Modules

| module | models | kind |
|---|---|---|
| `Chars` | character classes, keywords, number literals | shared operators |
| `Lexer` | `nexttok` and `lex`, one character a step | state machine |
| `Lexemes` | what lexing promises: gaps and longest lexemes, one lexeme a step | abstract specification |
| `LexerProofs` | types, Eof, and the refinement of `Lexemes` | proofs |
| `Parser` | `pom_parser.cpp` as a stack machine | state machine |
| `Grammar` | the language, as a layered grammar over stretches of tokens | reference definition |
| `ParserProofs` | type correctness, iterator bounds, one owner for each expression, post-order numbers, type descriptors that are trees | proofs |
| `Literals` | the kinds of literals | shared operators |
| `Types` | types, comparison, `getBuiltin`, `callable` | operators |
| `TypeTrees` | `types::build`, `mangled` | recursive operators, TLC only |
| `PostOrder` | the programs that `parse` returns, with the numbers of their expressions | shared operators |
| `Mangling` | what the name of a type is made of, as equations | shared operators |
| `Semantic` | `pom_semantic.cpp` as a stack machine | state machine |
| `SemanticProofs` | post-order numbers and the stack of the walk; type correctness of the analysis, completeness of what it records, the names in scope | proofs |
| `TypingProofs` | the rules of the language hold of what is recorded; what each name in scope means; what the analysis of harmless programs cannot do; mangled names tell types apart | proofs |
| `Ir` | functions, blocks, instructions of LLVM, and what its verifier checks | external, operators |
| `LlvmTypes` | `getType` | recursive operator, TLC only |
| `Codegen` | `pol_codegen.cpp`, `pol_basicoperators.cpp`, `createMalloc` as a stack machine over a module | state machine |
| `IrProofs` | what code appended to a function does to its control flow graph | lemmas |
| `CodegenProofs` | the inductive invariants of the code generator, step by step | proofs |
| `ValueProofs` | what the code generator finds behind a name is what the analysis found; the values it makes have the types that are recorded | lemmas |
| `Machine` | what the code of a module does when it is called | external, state machine |
| `Compiler` | analysis, code generator and machine, one after the other | composition |
| `Language` | which programs are typable and what they evaluate to | reference definition, TLC only |
| `Interpreter` | units are looked at in turn, then the last one is evaluated | abstract specification |
| `Meaning` | the refinement mapping from `Compiler` to `Interpreter` | composition |
| `Conflake` | `main`: parser, compiler and the printers between them | composition |
| `ConflakeProofs` | the invariants of the analysis and of the code generator in the compiler, and what the one takes from the other; the order of the phases in `main`, and all of them on parsed files | proofs |
| `MCLexer`, `MCParser`, `MCSemantic`, `MCCompiler`, `MCConflake` | instances for TLC | |

### Lexer

`at` counts the characters `get()` has consumed, so `LastChar` is a function of
it; at the end of the stream it is stuck on eof, as `get()` is.  Each loop of
`nexttok` has a start, an extend and an end action with the loop's condition as
guard, and a literal with the suffix `i` can fail in the two ways the code
reports.  Numbers keep their bound: `MaxInt` stands for the largest `int64_t`,
and `RealText` is the part of a run like `1.2.3` that `strtod` reads.  A word's
kind comes from the table `Keyword`; `True` and `False` are entries of it like
`def` and `extern`.

`get()` is kept in a `char`: `EofChar` may stand in a file, as byte 0xFF does where
`char` is signed, and ends it there unless a comment passes over it.

`Lexemes` states the result without the loops.  The refinement mapping puts its
cut `pos` in front of the lexeme under construction (`Cut`).

### Parser

A frame of `stack` is an active C++ call with the locals it will still use:
`prec` and `lhs` of `parseBinOpRHS`, the name and the arguments of a call, the
elements of a list.  `pc` is the point the running function has reached;
`"return"` and `"fail"` are the two ways a `tl::expected` comes back.  A pointer
to an expression is its index in `nodes`, 0 is null, and since `nextId()` is
called once for each expression made, expression *n* has ExprId *n* - 1.

`SwallowError` is the error path that differs: `parseParenExpr` and
`parseListExpr` turn an error into a null pointer and a success.

`Grammar` gives for every stretch of tokens all trees it can be read as, with
precedence levels and left association in the layers of the grammar instead of a
loop with an exception.

### Semantic analysis

`calculateType` is a stack machine like the parser's; `Receive...` actions are
what its loops do with an operand's type, `Finish...` what follows them.  `sig`
and `locals` are the copy of the outer context a function is analyzed in,
`expressions` its `m_expressions`.  `std::map::insert` does not replace (`Bind`).

Types are trees, and the code compares their mangled names: `Mangled` is a
constant operator of `Types`, given in `TypeTrees`, where an underscore is one
piece and a word is one piece, so the ambiguities concatenation could have are
there.  A type with a null pointer in it mangles to a name with the piece
`"null"`: that is where the code dereferences it.

`Compare`, `Matching`, `getBuiltin` and `Callable` return what the code *can* do.
`std::equal` with three iterators matches a shorter argument list and, for a
longer one, reads past the end of the other vector; the outcome is then any of
match, mismatch and crash, or a crash if that vector has no storage.  A null
dereference ends in `"crashed"`, a failed assertion (debug builds) in
`"aborted"`.

### Code generator

A frame of `frames` is an active `codegen` of an expression, together with the
`OpTable::generate`, `if_generic` and `execute` it is in: `how` is what it is
building, `values` are the operands it has so far, and an operand is generated
with the insertion point (`fun`, `point`) wherever the one before has left it.
`mod` is the module, a sequence of functions with their `blocks`; `listed` are
the blocks that have been pushed to the function, since `if_generic` makes three
blocks at once and pushes them one by one.

`GenFunction` takes up any function of the name, body and all, and appends an
entry block to it; `named` is then rebuilt from the parameters of that function.
`Failed` erases the function that is being generated, which LLVM does not allow
while another one calls it; `AssertionFails` depends on the build.  The verdict of
`verifyFunction` is dropped, as in the code: what `WellFormed` rejects ends in
`"undefined"`, and so does a builder that reads an operand the call does not have.
`FinishFunction` includes the optimization passes as far as they matter: blocks
that cannot be reached go.  `SymbolNotFound` and `RunLast` overlap where the passes
may have dropped the use of a symbol.

### Machine

The steps of `Machine` are those of the code in a module: calls, branches, a `phi`
that looks at where control came from, arithmetic, memory.  Integers have `Width`
bits and are compared as unsigned numbers; reals are exact.  Memory that has not
been stored to reads 0, and no load of generated code reaches any.  More than
`Depth` nested calls are a recursion without end.  The result is a value, or
`"undefined"`, or `"unknown"` where it depends on another program, on addresses or on
the bits of a number.

### Language and interpreter

`Language` types an expression as a function of it and of the types in scope, and
evaluates by substitution, eager but for `if`.  It never mentions nodes' numbers,
contexts, mangled names, blocks or frames.  Where no text of the repository says
what an expression means (behind the end of a list, the order of negative
integers, a function of another program) the outcome is `Unknown`, and
`Interpreter` allows any ending.  The refinement mapping of `Compiler` takes
`scope` from `globals`, counts finished units, and reads the status off the phases;
errors, aborts and crashes of the code generator have no counterpart, so that
`ImplementsInterpreter` says there are none for a program with a meaning.

### Program

`Conflake` composes an instance of `Parser` with `Compiler`.  `program` is empty until
`PrintTree` hands over what the parser has made (`Parsed` rebuilds the type
descriptors as trees).  The printers do not print here, but they dereference:
`PrintsNull` and `PrintTypes` are what the parser's and the analysis' printers
reach.  Tokens are enumerated, and the file that cannot be read or lexed,
and the one that `lex` never returns on, are one choice (`Lex`), which says nothing of
when; `Lexer` does, and `ConflakeTerminates` begins where `lex` has returned.  That
vectors end in their only Eof, which `Parser` assumes, is what the lexer's
`EofEndsTokens` says.

## 3. What TLC checks

| run | instance | shows |
|---|---|---|
| `lexer` | all texts of up to 5 characters over 9 that cover every class: two letters, one of them the suffix, a digit, a period, `#`, a line end, NUL, an operator and a byte that is taken for eof; `MaxInt` 2 in base 2 | `ImplementsLexemes`: the loops implement longest-match lexing; `EofEndsTokens`: what the parser relies on; `ClosedCommentsTerminate`: `lex` returns whenever comments are closed |
| `lexer_open_comment` | texts of up to 3 characters | `Terminates` fails: a comment at the end of the file (section 5) |
| `parser` | all token vectors of up to 3 tokens, up to 5 tokens of operators or of brackets, `def x (` and `extern x (` with up to 5 tokens, and chains of four operands with every three operators | `AcceptedIsDerivable` and `DerivableIsAccepted`: the parser and the grammar agree both ways; `PostOrderIds`, `ParsedInPostOrder`, `SingleOwner`: what the analysis keys its maps by; `InBounds`; `Terminates` |
| `parser_swallowed_error` | vectors of up to 2 tokens | `AcceptedIsNullFree` fails (section 5) |
| `semantic` | 3,700 programs, each in a debug and a release build: a function `f(T x)` with four types, three return types and every body one level deep over five leaves; every such body after four preludes; corners: recursion, nested calls and lists, null pointers, unbuildable types, two function types that are near-collisions when mangled | `ContextIsComplete`, `WellTyped`: the code generator's second lookup succeeds; `EqualIsSame`; `RecursionIsDeclared`; `HarmlessIsSafe`: the only ways to crash or to abort are the known ones; `GlobalsStable`; `Terminates` |
| `semantic_assertions` | functions whose body is a leaf or a list | `AssertionsHold` fails (section 5) |
| `compiler` | some 3,700 programs in both builds (129,000 states): a second definition of a name with other arguments, types and bodies; expressions that every phase has an opinion on after nine preludes; arguments named like functions, builtins or `malloc`; the bodies of `semantic` | `GeneratedIsStructured`: nested `if`s make a sound control flow graph; `LookupsSucceed`: the type of every operand is in the map of its function; `ValuesHaveTheirTypes`: the code generator's lookups find what the analysis typed; `TameIsTranslated`: no error, assertion or undefined behaviour but for the known reasons; `FirstDefinitionCounts`: no later step changes what a call runs; `CompilerTerminates` |
| `meaning` | some 850 programs in both builds (96,000 states): recursion and nested `if`s over integers, reals, lists made and subscripted, functions as arguments with names that are taken, declarations with and without definitions; typable and not | `ImplementsInterpreter`: a program is accepted if and only if the language can type it, and what the machine computes is what it means |
| `conflake` | the 12 programs of `src/examples`, whose results `pol_all.t.cpp` gives, all files of up to 4 tokens over seven, three headers with up to 3 tokens, and four files of functions that get back to themselves, or would if a later definition of a name counted, in both builds (142,000 states) | `ConflakeTerminates`: once its file is lexed `main` ends, unless a function that it runs gets back to itself or out of the program; `LaterPhasesSeeNoNull`: the parser's null pointers end in its printer; `ContextIsComplete` on parsed programs; `ExamplesEvaluate`: each example is accepted by the analysis, compiled and run, and gives its value, the two without an expression none |
| `two_expressions`, `own_name`, `no_arguments` | one file each | `ReusedIsDeclaration`, `GeneratedIsValid`, `GenAssertionsHold` fail (section 5) |

Why the bounds are enough.  The lexer remembers nothing of a finished lexeme, so
five characters hold every pair of lexemes with a gap, a comment between two
others, and a number past `MaxInt` with its suffix.  The parser's decisions look
at most at the token under the iterator and at the precedence of two operators;
four operands show each order of three precedences, five bracket tokens a call in
a list and a list in a call, and the prototypes a nested template argument.
`calculateType` is compositional: one level below the root gives each kind of
node each combination of operand types, null and empty-list types included, and
the corners nest where order matters.  The code generator remembers, between two
nodes, the insertion point, and between two units, the functions made: `if` is
nested to depth three in condition, branch and operand, and every way for two
units to share a name is tried.  Integers of 4 bits (`Width`) wrap in the programs
of `meaning`, and 4 calls (`Depth`) are more than any of its programs that ends
needs; the examples need 6 bits and `fib(8)` ten calls.

`CHECK_DEADLOCK FALSE` is set everywhere because the phases end.

Fairness.  Each phase, and `main` as a whole, is one function running on one
thread; `FairSpec`, `FairCompilerSpec` and `FairConflakeSpec` add weak fairness of
the next-state relation, that is, a thread that can take a step takes one.
Nothing more is assumed, and the actions leave a choice only where the code has
undefined behaviour, or where the result depends on what is not modelled.

Each property of a passing run is paired in `PROJECT.json` with a mutant of the
code (the definitions with an underscore in their name, each just in front of the
original) that violates it under the same configuration.

## 4. What is proved

### The lexer

`LexerProofs` proves for every set of texts, of any length, and all character
classes, keywords and bounds that `CharClasses` and `KeywordsAreNotEof` allow:

* `TypeCorrect`: `Spec => []TypeOK`;
* `EofIsLast`: `Spec => []EofEndsTokens`;
* `LoopsImplementLexemes`: `Spec => ImplementsLexemes`.

The refinement needs to know what the loop in progress has read.  The inductive
invariant is `TypeOK /\ Reading`: in a word or a number `text` is the stretch of the
input in front of `lastChar` that begins at `Cut`, all of one class (`Building`); in a
comment a `#` in front of `lastChar` has not been ended (`CommentOpen`); otherwise
every `#` in front of `Cut` has (`CommentsEnded`), without which the abstract
specification would take the next lexeme for a part of a gap.  `ReadingStep` has one
step for each action; `StepImplements` then maps `EndWord`, `EndReal`, `EndInteger` and
`SingleChar` to lexemes with the witness `at - 1` for their end (`CompleteLexeme`),
`EndOfFile` to `Finish`, white space and comments to `SkipGap`, and the rest to
stutters.  `NumberValue` is a recursive function, and not a fold, because the prover
does not see through operators with operator arguments in an instance.

### The parser

`ParserProofs` proves for every set of names and every Eof-terminated token
vector:

* `TypeCorrect`: `Spec => []TypeOK`;
* `NeverPastEof`: `Spec => []InBounds`, the iterator never leaves the vector;
* `ExpressionsHaveOneOwner`: `Spec => []SingleOwner`;
* `ParsedInOrder`: `Spec => []ParsedInPostOrder`, what the analysis assumes of programs;
* `DescriptorsAreTrees`: `Spec => []DescriptorInv`, what `types::build` relies on.

The inductive invariant of the first two is `TypeOK /\ InBounds`.  Neither half is
inductive alone: that a token eaten by `parseBinOpRHS` is not Eof follows from its
precedence being at least the one in the frame, which is a natural number by
`TypeOK` (frames in `FrameType`, and the conjunct `LoopFrames` that the frame on
top is the loop's own), while the type of what a step stores needs the token it
reads to be in the vector.  One lemma per group of variables shows that each of
the actions preserves its part: `BoundsStep`, `PointStep`, `StackStep`,
`HeapStep`, `UnitStep`.  The assumptions are `IdentAssumption` (names are not
tokens of another kind) and `InputAssumption` (vectors end in their only Eof),
the latter being what `EofIsLast` proves of the lexer.

`SingleOwner` counts owners by enumerating them and is not inductive: it says nothing
of a pointer to an expression that is not made yet.  `OwnerInv` says of the four
places a pointer can be in (operands of expressions, locals of frames, bodies of
units, the pointer being returned) that each holds an expression at most once, that
no two hold the same one, and that all they hold has been made (`Apart`); besides,
the unit under construction has no body, and types are parsed in the frame of an
argument, of a result or of another type, so that what a type returns, an index into
another heap, is never taken for an expression.  `Apart` takes the four places as
parameters, and four lemmas about it do all the work: `PopApart`, `PushApart`,
`MakeApart`, `UnitApart`.  Each action is a composition of these with
`Fewer`, the case that a pointer is dropped, as all error paths do.

`ParsedInOrder` needs to know, at every moment, where in the numbers made so far the
trees lie that somebody holds.  `LayoutInv` gives a witness: a sequence of marks, one
for each frame, such that the operands that a frame holds take up the numbers between
its mark and the next younger one's, one behind the other and without a gap
(`Spans`), the pointer being returned those behind the youngest, and the bodies of the
units those in front of the oldest (`Ends`, `UnitsPlaced`).  A new expression then has
its operands' trees right in front of it.  All of this is said of the first leaf of
each expression (`Firsts`, `Placed`), which is unchanged by later ones, and holds as long as
no null pointer is in a tree that is held; `Whole` says that either one is, or no
expression made has one and each is an operand or held, which is what the printers in
`main` rely on.  That `Leftmost`, a recursive function, exists for every list of
expressions is part of the invariant (`Trees`): it is extended with each expression.

`DescriptorsAreTrees` is about the other heap.  Each descriptor is made of a name of the
file and of older descriptors (`Made`), the templates under construction hold made ones,
and so do the arguments of every unit, while a result may also be missing.  Here too the
function that reads descriptors as trees, which is recursive in `Conflake`, is carried
along (`AsTrees`).

### The semantic analysis

Each theorem is for every set of programs that satisfy `ProgramsAssumption`; the first
four, of `SemanticProofs`, are for every `types::build` and every way of mangling as
well.

* `TypeCorrect`: `Spec => []TypeOK`;
* `EveryExpressionHasAType`: `Spec => []ContextIsComplete`;
* `RecursionNeedsAType`: `Spec => []RecursionIsDeclared`;
* `NamesKeepTheirTypes`: `Spec => GlobalsStable`.

`ProgramsAssumption` says that a program is what a parser makes: operands are older
than the expression, binary expressions have two, bodies are expressions
(`IsProgram`); and that numbers are in post-order (`InPostOrder`), stated over
`Leftmost`, the least number in the tree below each expression, because a proof
cannot do induction over trees.  TLC evaluates it on all programs of the runs, and
`ParsedInOrder` proves it of what the parser returns.

The inductive invariant is `SemanticInv` (`SemanticProofs`).  The frames on
the stack are a path through the tree of the body (each frame's node is the operand
its caller waits for), and the numbers of the function are split, at every moment,
into those recorded and those pending: the operand trees of waiting calls that are
still to come, together with the operands that are there but recorded only when their
operator is finished, as for binary expressions.  Post-order makes each side a union
of intervals, which is what a step moves the boundary of.  When the stack is empty
nothing is pending, and all numbers of the function are recorded.

* `MangledNamesDiffer`: two types in `T` that `*a == *b` finds equal are one type, under
  `TreeSet(T)` and `Mangles(T)`;
* `TypesAgree`: `Spec => []WellTyped`, under these two, the assumption that descriptors
  build types in `T` (`BuildsIn(T)`), and `Null \in T`;
* `EqualTypesAreOne`: `Spec => []EqualIsSame`, under the same four;
* `HarmlessProgramsAreSafe`: `Spec => []HarmlessIsSafe`, under the first three and
  `Null \notin T`.

Comparison goes by mangled name, so these three need that a name determines its type.
`TypingProofs` shows more, which is what makes concatenation unambiguous: no mangled name
begins another one.  The argument is by a least counterexample in the depth of
types, with `Mangling`'s equations in place of the recursive definition.  `T` stands for
the types in use: a set closed under taking arguments, with a depth (`TreeSet`), on
which `Mangled` obeys the equations (`Mangles`).  The finite trees with `MangleTree` and
`BuildTree` are such a set; that these two satisfy the equations is what the
assumptions `NamesAreMangled` of `MCCompiler` and `TreesAreBuilt` of `MCSemantic` say, which
TLC evaluates on a set of types of depth two and on the programs of the runs.

`TypingProofs` carries the rule of each kind of expression from the moment it is
applied to the moment the types are recorded; the operands of an open expression are
in its frame, those of finished ones in the map.  It shows as well that without null
pointers, empty lists, subscripts and surplus arguments the bad outcomes of
`Matching` are not there, by way of a bound on the arguments of everything a name can
mean (`Arities`).  `ScopeInv` says what a name in scope means: the first unit before the
function that has the name, the first parameter that has it, or, where the return
type is declared, the function itself.

### The code generator

* `FinishedFunctionsAreStructured`: `CompilerSpec => []GeneratedIsStructured`;
* `CompleteFunctionsStay`: `CompilerSpec => FirstDefinitionCounts`;
* `CompilerTypeCorrect`: `CompilerSpec => []CompilerTypeOK`;
* `OperandsHaveTypes`: `CompilerSpec => []LookupsSucceed`;
* `CompilerAnalyzes`: `CompilerSpec => Spec`, so that the theorems about the analysis
  hold in the compiler;
* `ValuesKeepTheirTypes`: `CompilerSpec => []ValuesHaveTheirTypes`, for a set of types
  under the assumptions of `TypesAgree` and `Lowered(T)`.

The first five hold for every set of programs in post-order, every mangling, conversion
of types, renaming and set of symbols.  Nothing is assumed of the types that were
recorded: control flow is sound even where values have the wrong type.

Graphs come first (`IrProofs`).  `Reachable` and dominance are fixed points over the
blocks of a function; two lemmas say that `ReachableAvoiding` is closed under
successors and is the least such set, and all else rests on these two.  `EditReaches`
says what an instruction at the end of a block does to either when it branches to
blocks that control does not leave yet: what was reached still is, a block that
dominated another one still does, and nothing else is reached but the targets.

The inductive invariant `GenInv` (`CodegenProofs`) has a part for each function of the
module.  One that is not under construction is `Sound` (instructions in order, each
operand usable where it is used, each `phi` with a value for every block that control
comes from), `Closed` (each block ends in a branch to a block of the function) and
`Reached` (nothing is left that control cannot reach).  The one under construction is
`Opened`, which has to say what the frames on the stack still owe it (`OpenAt`): all
its blocks but the insertion point have ended; they branch to blocks of the function
or to one that a frame of an `if` will push later (`Pending`), which no other frame
will, which is empty, and into which there is exactly the branch that the frame's
position calls for (`IfSound`).  Its blocks from `s` on are of the present definition:
control never goes from an earlier definition into them or back, which is why
`RunnableCode` of a function that has a body does not change.  `Computed` says of each
value that a frame holds that it dominates not only the insertion point but every
block still to be pushed by the frames inside, since an operand of `+` can be followed
by an `if`.  `SoundIsStructured` gets `WellStructured` from this when a function is
finished.  There is one lemma for each action.

The second invariant, `ShapeInv`, takes a set of expressions that is closed under
operands: the frames are at expressions of the set, each has at most as many values as
operands, and all but the innermost one wait for an operand.  `ConflakeProofs` gives it
the tree of the unit's body (`Tree`), whose numbers are those that `SemanticInv` says the
analysis has recorded; `LookupsSucceed` follows, and with it that the error of
`Context::expressionType`, which the model of the code generator leaves out, is never
returned.  `CompilerInv` joins the invariants of the analysis, of the code generator and of
the machine's calls.  The proofs about the code generator are instantiated (`P`) and not
extended, because the analysis and the code generator share names; `SameStep` shows that
a step of the instance in `Compiler` is one of the instance that the lemmas are about.

`ValuesKeepTheirTypes` relates the two walks over a function.  The analysis looks a name
up in `m_variables`, the code generator in `named`, which is keyed by what LLVM calls
the parameters, and then in the module by name; the operator tables are asked with
types that come from two different maps.  `ValueProofs` takes what the analysis promises
as a state predicate (`Ready`): the recorded types obey the rules of the language and each
name means what `ScopeInv` says (`Checked`), a name means one thing at a time (`Clear`),
and types are compared and translated as they should be (`Lowers`).  Its invariant
`ValueInv` says that each function of the module, but `malloc` and those without a name,
has the type and the parameters of the first unit with its name, and that every unit so
far has a function (`ModuleMeans`); that a name in scope has the type of the function of
that name or, where there is none, of the parameter in `named` (`NamesMean`); that the
operands of every frame have the LLVM types of the types recorded for them, and the frame
of an operator is at an entry of the table that fits (`CallsHold`).  A name
then leads to the same thing in both (`NamesMean`), and the value of a finished frame has
the type by the rule of its kind.  `ValuesInv(T)` joins it with the invariants of the
analysis, and says that nothing is generated before that is over.

`Lowered(T)` says what `getType` makes of each kind of type from what it makes of the
types in it; `TypesAreLowered` in `MCCompiler` has TLC evaluate it for `LlvmTree` on a set
of types of depth two.  It assumes nothing of types with a null pointer.

The theorem is about programs that are `Orderly`.  The proof needed more of this than was
first written down: that no function and no parameter is called `malloc`, since the code
generator takes the function of that name for memory; that none is without a name,
which LLVM also leaves to a second function of a name that is taken; and that no
parameter has a name that LLVM makes for another one (`Renamed`).

### The program

* `ConflakeTypeCorrect`: `ConflakeSpec => []ConflakeTypeOK`;
* `PrintersMeetEveryNull`: `ConflakeSpec => []LaterPhasesSeeNoNull`;
* `FilesAreAnalyzed`: `ConflakeSpec => []ContextIsComplete`;
* `FilesAreCompiled`: `ConflakeSpec => [](GeneratedIsStructured /\ LookupsSucceed)`;
* `FilesKeepTheirTypes`: `ConflakeSpec => [](WellTyped /\ EqualIsSame /\ ValuesHaveTheirTypes)`,
  for a set of types as above.

They hold for every set of token vectors.  `FilesAssumption` says of them what
`IdentAssumption` and `InputAssumption` say in `Parser`: names and literals are no other
tokens, and each vector ends in its only Eof.

`ConflakeInv` adds to `ConflakeTypeOK` that nothing has moved in the analysis while `main` is
at the lexer or the parser.  The others are about the phases together, and assume nothing
of what the parser makes (`Programs` and its assumption are here about the value that
`program` has before `PrintTree`, an empty one in the run): `FileInv` joins `ConflakeInv`, the invariants of the parser
(`ParserInv`) and `CompilerInv`.  The step that matters is `PrintTree`.  `AcceptedIsParsed` takes
`IsParsed(Parsed)` from `LayoutInv`, so that `HandOver` puts the compiler into a state it
can start from (`Starts`), whatever it was about to look at before.  `PrintedIsWhole` shows
that a null pointer anywhere in the program kills the printer: `NullsFound`, by a least
counterexample, that `WithNull` has every expression whose first leaf is 0, and
`AcceptedWhole`, from `Whole`, that an accepted program has no null pointer unless a
body has one in its tree.  `SameParserStep` and `SamePrograms` relate the two instances of
`Parser`, as `SameStep` does for the code generator.

`FilesKeepTheirTypes` has to know that the descriptors of a file build types of the
language.  This is assumed of a set `D` of trees that has every name with every sequence
of its elements below it (`DescriptorSet(D)`, `Builds(D, T)`): the finite trees over the
names are such a set.  `TypesAreTrees` shows, from `DescriptorInv` and by a least
counterexample, that the descriptors of a file are in every such `D`, and `ParsedBuilds`
that all types of the program handed over are among them.

### Not proved

Only model-checked:

* liveness (`Terminates`, `ClosedCommentsTerminate`, `CompilerTerminates`,
  `ConflakeTerminates`, `ExamplesEvaluate`), which the prover cannot do;
* what compares with a recursive definition: the agreement of parser and grammar
  (`AcceptedIsDerivable`, `DerivableIsAccepted`), `PostOrderIds`, the refinement of
  `Interpreter`;
* `TameIsTranslated`: that what is generated is accepted by the verifier and linked.  That
  values have their types is proved; that every `verifyFunction` and every lookup of a
  symbol succeeds is left to TLC.

## 5. Where code and intent differ

1. **A comment at the end of a file** (`pom_lexer.cpp:77`).  The loop ends at
   `\0`, `\n` or `\r`; at the end of the stream none of them comes and `lex`
   does not return.  Run `lexer_open_comment`.
2. **Swallowed syntax errors** (`pom_parser.cpp:57`, `:75`).  After `(` or `[`
   an error becomes a null expression and a success, so `(` alone is a program.
   The printer in `main` dereferences the pointer.  Run
   `parser_swallowed_error`.
3. **Subscript of what is not a list** (`pom_semantic.cpp:50`).  The null type
   reaches `assert(*ret_type)` or `assert(*res)`; a release build carries on
   with it.  Run `semantic_assertions`.
4. **Two expressions in a file** (`pol_codegen.cpp:378`).  The comment expects a
   function that is found to come from a declaration, but every expression has the
   same name: the second one is appended to the function of the first as a block
   that is never run, and `4i; 5i;` evaluates to 4.  Run `two_expressions`.
5. **The verifier's verdict is dropped** (`pol_codegen.cpp:407`).  In
   `def foo(real foo) foo` the analysis takes the argument and the code generator the
   function; the verifier rejects the result, which is run all the same.  Run
   `own_name`.
6. **Declarations without arguments** (`pol_codegen.cpp:425`) are taken for the
   function to run and fail `assert(fn)`.  Run `no_arguments`.

Seen and not counted as findings, because no text of the repository says
otherwise:

* a byte 0xFF between two tokens is the end of the file where `char` is signed
  (`pom_lexer.cpp:83`); `Lexemes` says so too;
* `.` and `1.2.3` are numbers, and `x` followed by `(` on the next line is a call;
* calls with too few arguments are accepted by the analysis; the code generator
  reports them for functions, and reads past the end for builtins;
* integers are compared as unsigned numbers, reals by unordered comparisons;
* a function called `malloc` is called for memory;
* the semantic printer asks for the parser's signatures, so that declarations are
  never printed;
* `main` returns 0 after an error of the code generator.

## 6. What is not modelled

The text that the phases print, options and the opening of files, argument parsing
(vendored).  Of LLVM and its JIT, what they do with a module is modelled as far as
the code relies on it (`Ir`, `Machine`, `Reachable`, `Used`); the optimization passes,
sessions and layers are not, nor is `initLlvm`, which registers targets.  The exact
values of reals, and NaN.  `operator==` of expressions and the builder of
expressions, which only tests use.  Deep recursion: the C++ stack is taken to be
large enough, and a compiled program that recurses without end is one outcome.

## 7. Plan

All phases are modelled and checked, and each has an inductive invariant that is
proved.  What is left, the most important first:

1. `TameIsTranslated`, from `ValueInv` and an invariant that says of the instructions what
   it says of values.
2. The lexer's tokens as the input of `Conflake`, in place of enumerated ones, which
   needs a map from lexemes to names and literals.
