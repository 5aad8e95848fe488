--------------------------- MODULE MCShellScript ---------------------------
(* The scripts the shell is given: the shapes the formatter and the parser *)
(* meet, and the small programs the executor runs.                         *)
EXTENDS ShellScript

x == <<Ref("x")>>
Atoms == {x, <<W("1")>>, <<W("true")>>, <<Str("a", "double")>>, <<Str("a$", "single")>>,
          <<Adapter("x")>>,
          <<Interp(<<[lit |-> TRUE, t |-> "a"], [lit |-> FALSE, src |-> <<W("x")>>]>>)>>,
          <<Interp(<<[lit |-> FALSE, src |-> <<Ref("x"), W("+"), W("1")>>]>>)>>,
          <<W("["), W("]")>>}

\* The forms an expression takes, over operands a and b.
Forms(a, b) ==
    {a \o <<W(o)>> \o b : o \in {"or", "and", "==", "<=", "+", "-", "*"}}
    \cup {<<W("not")>> \o a, <<W("not-empty")>> \o a, <<W("-")>> \o a,
          <<W("jq")>> \o a \o b, <<W("range")>> \o a,
          <<W("[")>> \o a \o b \o <<W("]")>>,
          <<W("record"), W("{"), W("x:")>> \o a \o <<W("y:")>> \o b \o <<W("}")>>,
          a \o <<Thread, W("f")>> \o b,
          a \o <<W("matches"), W("{"), W("x:")>> \o b \o <<Newline, W("y:"), W("empty"), W("}")>>,
          a \o <<W("matches"), W("exhaustive"), W("{"), W("x:"), W("matches"), W("{"), W("y:")>> \o b
            \o <<Newline, W("}"), Newline, W("}")>>}

Terms    == Atoms \cup {Paren(e) : e \in Forms(x, <<W("1")>>)}
Compound == UNION {Forms(a, x) \cup Forms(x, a) : a \in Terms}
Exprs    == Atoms \cup Compound

\* The forms a statement takes, over an expression e and a body b.
Stmts(e, b) ==
    LET braced == <<W("{"), Newline>> \o b \o <<Newline, W("}")>> IN
    {<<W("let"), W("y"), Assign>> \o e,
     <<W("let"), W("("), W("y"), W("_"), W(")"), Assign>> \o e,
     <<W("return")>> \o e,
     <<W("retry")>> \o e,
     <<W("retry"), Str("a", "double"), W("unless")>> \o e,
     <<W("assert")>> \o e,
     <<W("require"), W("not"), W("ok"), W("f")>> \o Paren(e),
     <<W("f")>> \o Paren(e),
     <<W("defer"), W("f")>> \o Paren(e),
     <<W("let"), W("y"), Bind, W("f")>> \o Paren(e),
     Paren(e),
     <<W("if")>> \o e \o braced \o <<W("elif")>> \o e \o braced \o <<W("else")>> \o braced,
     <<W("foreach"), W("y"), W("in")>> \o e \o braced,
     <<W("guard"), W("y"), Bind, W("foreach"), W("("), W("x"), W("y"), W(")"), W("in")>> \o e \o braced,
     <<W("poll"), W("timeout"), W("dur"), W("every"), W("dur")>> \o braced,
     <<W("def"), W("f"), W("("), W("x:"), W("number"), W("y"), W(")")>> \o braced}

Bodies == {<<>>, <<W("break")>>, <<W("f"), Ref("x")>>, <<W("let"), W("y"), Assign, W("1"), Sep(";"), W("f")>>}

\* Operator chains: k operators between signed or negated operands.
Signed == {x, <<W("not")>> \o x, <<W("-")>> \o x}
Ops    == {"or", "and", "==", "-", "*"}
Chains == {a \o <<W(o)>> \o b \o <<W(p)>> \o c : a, b, c \in Signed, o, p \in Ops}
          \cup {a \o <<W(o)>> \o x \o <<W(p)>> \o x \o <<W(q)>> \o c :
                    a, c \in {x, <<W("not")>> \o x}, o, p, q \in Ops}

FormatSources ==
    {<<W("let"), W("y"), Assign>> \o e : e \in Exprs \cup Chains}
        \cup UNION {Stmts(e, <<>>) : e \in Atoms \cup Forms(x, x)}
        \cup UNION {Stmts(x, b) : b \in Bodies}

-----------------------------------------------------------------------------
(* Programs to run.                                                        *)

T(ws)       == [n \in DOMAIN ws |-> W(ws[n])]
Prog(ss)    == FlattenSeq([n \in DOMAIN ss |-> Append(ss[n], Newline)])
Braces(ss)  == <<W("{"), Newline>> \o Prog(ss) \o <<W("}")>>
PollOf(ss)  == T(<<"poll", "timeout", "dur", "every", "dur">>) \o Braces(ss)
Def(f, ps, ss) == T(<<"def", f, "(">> \o ps \o <<")">>) \o Braces(ss)
Let(v, e)   == T(<<"let", v>>) \o <<Assign>> \o e
LetB(v, c)  == T(<<"let", v>>) \o <<Bind>> \o c
Guard(v, c) == T(<<"guard", v>>) \o <<Bind>> \o c
Each(v, e, ss) == T(<<"foreach", v, "in">>) \o e \o Braces(ss)
If(e, ss)   == T(<<"if">>) \o e \o Braces(ss)
y           == <<Ref("y")>>
OneTwo      == T(<<"[", "1", "2", "]">>)
Defer       == T(<<"defer", "a">>)
Cmd         == T(<<"b">>)
Retry       == T(<<"retry">>)
Maybe       == T(<<"retry", "unless">>) \o T(<<"not-empty", "s">>)
Break       == T(<<"break">>)

\* What a helper does, and what its caller does, alone and inside a
\* statement with a body.
Helpers == {<<Defer, Cmd>>, <<Defer, Retry>>, <<Defer, Guard("y", Cmd), T(<<"return">>) \o y>>,
            <<Each("y", OneTwo, <<Defer, T(<<"return", "1">>)>>)>>,
            <<Defer, PollOf(<<T(<<"defer", "c">>), Maybe>>)>>,
            <<PollOf(<<Defer, T(<<"return", "true">>)>>)>>}
Callers == {<<T(<<"h">>)>>, <<Defer, T(<<"h">>)>>, <<Guard("y", T(<<"h">>)), Defer>>,
            <<LetB("y", T(<<"h">>)), Cmd>>, <<T(<<"defer", "h">>), Cmd>>,
            <<Defer, Maybe, T(<<"defer", "h">>)>>}
Nested  == {<<Guard("y", T(<<"h">>)), Defer>>, <<Defer, Maybe, T(<<"defer", "h">>)>>}
Wrap(ss) == {<<PollOf(ss)>>,
             <<Each("x", OneTwo, <<PollOf(ss)>>)>>, <<PollOf(<<Defer, Each("x", OneTwo, ss \o <<Break>>)>>)>>}
Calls == {Prog(<<Def("h", <<>>, h)>> \o c) : h \in Helpers, c \in Callers \cup UNION {Wrap(n) : n \in Nested}}

Others == {
  \* jobs: waited for, killed, signalled, leaked, reaped
  Prog(<<Guard("y", T(<<"start", "b">>)), T(<<"defer", "kill">>) \o y, LetB("x", T(<<"wait">>) \o y), T(<<"reap">>), T(<<"jobs">>)>>),
  Prog(<<LetB("y", T(<<"start", "b">>)), T(<<"reap">>), Cmd>>),
  Prog(<<Guard("y", T(<<"start", "b">>)), T(<<"kill", "--signal=KILL">>) \o y, T(<<"wait">>) \o y>>),
  Prog(<<Each("x", OneTwo, <<Guard("y", T(<<"start", "b">>)), T(<<"assert", "ok", "wait">>) \o y>>)>>),
  \* an assert that a poll reaches through a helper
  Prog(<<Def("h", <<>>, <<T(<<"assert", "ok", "b">>)>>), T(<<"h">>), PollOf(<<Defer, T(<<"h">>)>>)>>),
  \* loops
  Prog(<<Each("x", OneTwo, <<If(T(<<"not-empty">>) \o x, <<T(<<"continue">>)>>), Defer, Break>>), Cmd>>),
  Prog(<<Def("f", <<"x">>, <<Defer, T(<<"return">>) \o x>>),
         LetB("y", Each("x", OneTwo, <<T(<<"f">>) \o x>>)),
         Guard("x", T(<<"foreach", "(", "x", "_", ")", "in", "zip">>) \o OneTwo \o OneTwo \o Braces(<<Cmd>>)),
         Each("_", x, <<Cmd>>)>>),
  Prog(<<Let("x", T(<<"range", "2">>)), Each("y", x, <<Cmd>>)>>),
  Prog(<<Let("x", T(<<"jq", "a", "1">>)), T(<<"let", "(", "y", "_", ")">>) \o <<Assign>> \o x, If(y, <<Cmd>>)>>),
  \* recursion and parameters
  Prog(<<Def("f", <<"x:", "number">>, <<Defer, T(<<"f">>) \o x>>), T(<<"f", "1">>)>>),
  Prog(<<Def("f", <<"x", "y:", "bool">>, <<If(y, <<T(<<"return">>) \o x>>), T(<<"return", "1">>)>>),
         Let("x", T(<<"jq", "a", "1">>)), Guard("y", T(<<"f">>) \o x \o x), T(<<"assert">>) \o y \o T(<<"==", "1">>)>>),
  Prog(<<Def("f", <<"x">>, <<T(<<"return">>) \o x \o T(<<"+", "1">>)>>), Guard("y", T(<<"f", "2">>)),
         If(y \o T(<<"==", "1">>), <<Cmd>>) \o T(<<"elif">>) \o y \o T(<<">", "1">>) \o Braces(<<Cmd>>)
           \o T(<<"else">>) \o Braces(<<Defer>>)>>),
  \* expressions
  Prog(<<Let("x", T(<<"1", "+", "1">>)), T(<<"assert">>) \o x \o T(<<"==", "2">>), T(<<"require", "not", "ok", "b">>),
         Paren(x \o <<Thread>> \o Cmd), T(<<"assert", "fail", "b">>)>>),
  Prog(<<Guard("x", T(<<"registry", "a">>)), Let("y", x \o T(<<"/", "2">>)),
         T(<<"require">>) \o y \o T(<<">", "1", "and", "not">>) \o Paren(T(<<"null", "==">>) \o x)>>),
  Prog(<<Let("x", T(<<"null">>)), Let("y", T(<<"not-empty">>) \o x \o T(<<"or", "null", "==">>) \o x),
         T(<<"assert">>) \o y, Let("z", T(<<"1">>)), T(<<"b">>) \o Paren(<<W("-"), Ref("z")>>), LetB("_", T(<<"b">>) \o x)>>)}

\* A poll whose helper asks for the retry after a cleanup was deferred.
HelperRetries == {Prog(<<Def("h", <<>>, <<Retry>>), PollOf(<<Defer, T(<<"h">>)>>)>>)}

\* A poll in a loop that its body leaves by the loop's break or continue.
PollLeft == {Prog(<<Each("x", OneTwo, <<PollOf(<<T(<<w>>)>>), Cmd>>), Cmd>>) : w \in {"break", "continue"}}

\* A helper that is called before the name it reads is bound.
EarlyCall == {Prog(<<T(<<"h">>), Let("x", T(<<"1">>)), Def("h", <<>>, <<T(<<"b">>) \o x>>)>>)}

\* Programs in their canonical form, so that each is run once.
RunSources == {FormatSource(Parse(s)) : s \in Calls \cup Others \cup PollLeft \cup EarlyCall}
MCSources  == FormatSources \cup RunSources
=============================================================================
