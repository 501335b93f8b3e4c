----------------------------- MODULE MCCompiler -----------------------------
(***************************************************************************)
(* The compiler on small programs.  "All" are the ones any program that    *)
(* the parser returns may look like: bodies of every form after every kind *)
(* of definition, definitions again, names that collide.  "Meaningful" are *)
(* the ones whose meaning the language gives, and ill-typed ones.          *)
(***************************************************************************)
EXTENDS Meaning, MCSemantic, LlvmTypes, Mangling

MCNumberOf(literal) ==
  CASE literal \in {"0.0", "0i", "false"} -> 0
    [] literal \in {"1.0", "1i", "true"}  -> 1
    [] literal \in {"2.0", "2i"}          -> 2
MCRenamed(name, n) == name \o ToString(n)

call(name, args) == Tree("call", name, args)
binary(op, a, b) == Tree("binary", op, <<a, b>>)
if(c, a, b) == call("if", <<c, a, b>>)
list(kids) == Tree("list", "", kids)
listOf(desc) == Desc("list", <<desc>>)
boolean == Desc("boolean", <<>>)

-----------------------------------------------------------------------------
(* Programs with a meaning.                                                *)

Conditions == {Lit("true"), binary("<", Var("x"), Lit("2i")),
               call("or", <<binary(">", Var("x"), Lit("1i")), Lit("false")>>),
               call("and", <<Lit("true"), binary("<", Lit("1i"), Var("x"))>>)}
Small == {Lit("1i"), Var("x"), binary("-", Var("x"), Lit("2i"))}
Recursive == {call("f", <<binary("-", Var("x"), Lit("1i"))>>), call("f", <<Var("x")>>)}

Branches == {if(c, a, b) : c \in Conditions, a, b \in Small}
Nested ==
  {if(Var("b"), if(c, Lit("1i"), Lit("2i")), if(c, Var("x"), Lit("1i"))) : c \in {Lit("true")}}
    \cup {if(binary("<", i, Lit("2i")), i, binary("*", i, Lit("2i"))) :
            i \in {if(c, Lit("1i"), Var("x")) : c \in Conditions}}
    \cup {if(c, if(c, if(c, Lit("1i"), Lit("2i")), Lit("0i")),
             binary("+", if(c, Lit("0i"), Var("x")), Lit("2i"))) : c \in Conditions}
    \cup {if(c, a, binary("+", r, r)) : c \in Conditions, a \in Small, r \in Recursive}

\* Integer functions of one integer argument, declared and not.
IntegerPrograms ==
  {<<Def("f", <<Arg(integer, "x")>>, declared, body), Anon(call("f", <<Lit(arg)>>))>> :
     declared \in {<<>>, <<integer>>}, arg \in {"0i", "1i", "2i"}, body \in Branches \cup Nested}

\* Real functions, some of two arguments, and truth values.
RealPrograms ==
  LET a == Var("a")
      b == Var("b")
      Bodies2 == {binary(op, l, r) : op \in {"+", "-", "*", "<", ">"}, l, r \in {a, b, Lit("2.0")}}
                   \cup {if(binary("<", a, b), a, binary("*", b, Lit("2.0"))),
                         if(Lit("false"), a, Lit("1i")), call("or", <<a, b>>),
                         binary("+", binary("*", a, a), binary("-", b, a))}
  IN  {<<Def("f", <<Arg(real, "a"), Arg(real, "b")>>, declared, body), Anon(call("f", args))>> :
         declared \in {<<>>, <<real>>}, body \in Bodies2,
         args \in {<<Lit("1.0"), Lit("2.0")>>, <<Lit("2.0"), Lit("1i")>>}}

\* Lists made by one function and subscripted by another.
ListPrograms ==
  {<<Def("make", <<Arg(desc, "a")>>, <<>>, list(<<Var("a"), binary("+", Var("a"), Lit(one))>>)),
     Def("get", <<Arg(listOf(desc), "x")>>, <<desc>>, body),
     Anon(call("get", <<call("make", <<Lit(one)>>)>>))>> :
     desc \in {real, integer}, one \in {"1.0", "1i"},
     body \in {Item("x", i) : i \in {"0.0", "1.0", "2.0"}}
                \cup {binary("+", Item("x", "0.0"), Item("x", "1.0"))}}

\* Functions as arguments, with names that are taken.
FunctionPrograms ==
  {<<Def(name, <<Arg(real, "a")>>, <<>>, binary("*", Var("a"), Lit("2.0"))),
     Def("bar", <<Arg(funOf(<<real, real>>), given)>>, declared, body),
     Def("late", <<Arg(real, "a")>>, <<>>, Var("a"))>> \o last :
     name \in {"foo", "g"}, given \in {"foo", "late", "h"}, declared \in {<<>>, <<real>>},
     body \in {call("foo", <<Lit("1.0")>>), call("h", <<Lit("2.0")>>), call("late", <<Lit("1.0")>>),
               binary("+", call("g", <<Lit("1.0")>>), call("h", <<Lit("2.0")>>))},
     last \in {<<Anon(call("bar", <<Var("foo")>>))>>, <<Anon(call("bar", <<Var("late")>>))>>,
               <<Anon(Var("bar"))>>, <<>>}}

\* Declarations before and without a definition, and definitions after them.
ExternPrograms ==
  {prelude \o last :
     prelude \in {<<Extern("cos", <<Arg(real, "a")>>, <<real>>)>>,
                  <<Extern("f", <<Arg(integer, "a")>>, <<integer>>),
                    Def("f", <<Arg(integer, "a")>>, <<integer>>, binary("+", Var("a"), Lit("1i")))>>,
                  <<Extern("f", <<Arg(integer, "a")>>, <<integer>>),
                    Def("g", <<Arg(integer, "a")>>, <<>>, call("f", <<Var("a")>>)),
                    Def("f", <<Arg(integer, "a")>>, <<integer>>,
                        if(binary(">", Var("a"), Lit("1i")), call("g", <<Lit("0i")>>), Lit("2i")))>>,
                  <<Def("f", <<Arg(integer, "a")>>, <<>>, Var("a")),
                    Extern("f", <<Arg(integer, "a")>>, <<integer>>)>>},
     last \in {<<Anon(call(name, <<Lit(arg)>>))>> : name \in {"cos", "f"}, arg \in {"1.0", "1i", "2i"}}
                \cup {<<>>}}

MeaningfulPrograms ==
  {Parsed(units) : units \in IntegerPrograms \cup RealPrograms \cup ListPrograms
                               \cup FunctionPrograms \cup ExternPrograms}

-----------------------------------------------------------------------------
(* Programs with names that collide, and corners.                          *)

\* The second definition of f, or the first after a declaration.
AgainPrograms ==
  {<<first, Def("f", args, declared, body)>> \o last :
     first \in {Def("f", <<Arg(integer, "x")>>, <<>>, Var("x")),
                Def("f", <<>>, <<>>, Lit("1i")),
                Def("f", <<Arg(boolean, "x"), Arg(boolean, "y")>>, <<>>,
                    if(Var("x"), Lit("1i"), Lit("2i"))),
                Extern("f", <<Arg(integer, "x")>>, <<integer>>),
                Extern("f", <<Arg(boolean, "x"), Arg(boolean, "y")>>, <<boolean>>)},
     args \in {<<>>, <<Arg(integer, "x")>>, <<Arg(real, "x")>>, <<Arg(integer, "y")>>,
               <<Arg(integer, "x"), Arg(integer, "y")>>, <<Arg(integer, "x"), Arg(integer, "x")>>},
     declared \in {<<>>, <<integer>>},
     body \in {Lit("1i"), Lit("1.0"), Var("x"), Var("y"), binary("<", Var("x"), Var("y")),
               binary("+", Var("x"), Lit("1i")), call("f", <<Lit("1i")>>),
               if(binary("<", Var("x"), Lit("1i")), Var("x"), call("f", <<Var("x")>>)),
               if(binary("<", Var("x"), Lit("1i")), if(Lit("true"), Var("x"), Lit("1i")), Lit("2i"))},
     last \in {<<Anon(call("f", <<Lit("1i")>>))>>, <<Anon(Lit("1.0"))>>, <<>>}}

\* Expressions that every phase has an opinion on, after another definition.
Opinions ==
  {Lit("1i"), Lit("1.0"), Var("f"), Item("f", "1.0"), list(<<>>), list(<<Lit("1i")>>),
   list(<<Lit("true")>>), list(<<Var("f")>>), list(<<list(<<Lit("1i")>>)>>)}
  \cup {call(name, args) : name \in {"f", "or", "if"},
          args \in {<<>>, <<Lit("true")>>, <<Lit("true"), Lit("1i")>>,
                    <<Lit("true"), Lit("true"), Lit("1i")>>, <<Lit("true"), Lit("1i"), Lit("2i"), Lit("1.0")>>}}

OpinionPrograms ==
  {Append(prelude, Anon(body)) : body \in Opinions,
     prelude \in {<<>>, <<Anon(Lit("2i"))>>, <<Anon(Lit("1.0"))>>,
                  <<Def("f", <<>>, <<>>, Lit("1i"))>>,
                  <<Def("f", <<>>, <<>>, call("if", <<Lit("true")>>))>>,
                  <<Extern("f", <<>>, <<real>>)>>,
                  <<Extern("f", <<Arg(boolean, "x")>>, <<real>>)>>,
                  <<Def("or", <<Arg(boolean, "x"), Arg(boolean, "y"), Arg(integer, "z")>>, <<>>, Var("z"))>>,
                  <<Def("malloc", <<Arg(integer, "x")>>, <<>>, Var("x"))>>}}

\* Functions of one argument, called or given to another function.
ArgumentBodies(x) ==
  {Var(x), Item(x, "0.0"), call(x, <<Lit("1.0")>>), call(x, <<>>),
   call(x, <<Lit("true"), Lit("true"), Lit("true")>>),
   binary("+", Lit("1.0"), Var(x)),
   call("f", <<Var(x)>>), call("if", <<Lit("true"), Lit("1.0")>>),
   list(<<Lit("1.0"), if(Lit("true"), Var(x), Lit("1.0"))>>),
   if(Lit("true"), list(<<Lit("1.0")>>), Var(x)),
   if(binary("<", Lit("1.0"), Lit("2.0")), Lit("1.0"), call(x, <<Lit("1.0")>>))}

ArgumentPrograms ==
  UNION {{<<Def("g", <<Arg(real, "x")>>, <<>>, Var("x")),
            Def("f", <<Arg(type, x)>>, declared, body)>> \o last :
            body \in ArgumentBodies(x)} :
         type \in {real, listOf(real), funOf(<<real, real>>)},
         x \in {"x", "f", "g", "malloc", "or"},
         declared \in {<<>>, <<real>>},
         last \in {<<>>, <<Anon(call("f", <<Var("g")>>))>>, <<Anon(call("f", <<Lit("1.0")>>))>>}}

\* Null types, which a release build carries on with, and symbols that the
\* process does not have.
RarePrograms ==
  LET returnsFun == Def("f", <<>>, <<funOf(<<real, real>>)>>, Var("g"))
      g == Def("g", <<Arg(real, "y")>>, <<>>, Var("y"))
      unknown == Extern("f", <<Arg(integer, "x")>>, <<integer>>)
      again == Def("f", <<Arg(integer, "x")>>, <<integer>>, binary("+", Var("x"), Lit("1.0")))
  IN  {<<g, returnsFun, Def("f", <<>>, <<>>, Item("g", "1.0"))>>,
       <<g, returnsFun>>,
       <<Def("f", <<Arg(real, "x")>>, <<>>, Item("x", "1.0"))>>,
       <<Extern("f", <<Arg(real, "x")>>, <<real>>), Def("f", <<Arg(real, "x")>>, <<>>, Item("x", "1.0"))>>,
       <<Def("f", <<Arg(real, "x")>>, <<>>, list(<<Var("x"), list(<<>>)>>))>>,
       <<unknown, Anon(call("f", <<Lit("1i")>>))>>,
       <<unknown, Anon(if(Lit("true"), Lit("1i"), call("f", <<Lit("1i")>>)))>>,
       <<unknown, Def("g", <<Arg(integer, "x")>>, <<>>, call("f", <<Var("x")>>)),
         Def("f", <<Arg(integer, "z")>>, <<>>, Var("z"))>>,
       <<Def("f", <<Arg(real, "a"), Arg(integer, "a")>>, <<>>, Var("a")),
         Anon(call("f", <<Lit("1.0"), Lit("2i")>>))>>}

AllPrograms ==
  {Parsed(units) : units \in AgainPrograms \cup OpinionPrograms \cup ArgumentPrograms \cup RarePrograms}
  \cup {Parsed(Append(prelude, Anon(body))) : prelude \in Preludes, body \in Bodies}

-----------------------------------------------------------------------------
\* What the theorems suppose of Mangled: names are made as the equations of
\* Mangling say.  On all types of depth two, and some of depth three.
Deeper(S) ==
  S \cup {List(a) : a \in S}
    \cup {Function(r, args) : r \in S, args \in UNION {[1 .. n -> S] : n \in 0 .. 2}}
SmallTypes == Deeper({Real, Null} \cup {List(Real), Function(Integer, <<>>), Function(Null, <<Boolean>>)})

ASSUME NamesAreMangled ==
  \A t \in SmallTypes :
    NamedWith(t, [k \in 0 .. Len(t.args) |->
                    FoldLeft(LAMBDA name, arg : (name \o Mangled(arg)) \o <<"_">>,
                             FunFront, SubSeq(t.args, 2, k + 1))])

\* And of LlvmType: types are translated kind by kind.
ASSUME TypesAreLowered == \A t \in SmallTypes \cup {Integer, Boolean} : ~HasNull(t) => Gen!LoweredAs(t)
=============================================================================
