---------------------------- MODULE ShellCheck ----------------------------
(***************************************************************************)
(* The static checker a script passes before it is run: names resolve,     *)
(* calls have the right number of arguments, operators get operands that   *)
(* can work, jobs are waited for, and control statements stand where they  *)
(* mean something.                                                         *)
(*                                                                         *)
(* A shape is its origin kind and, for the envelope of a value, the kind   *)
(* of that value.  Field and element shapes go with the paths of           *)
(* references; the wording of issues, imports and the spelling hint for    *)
(* unknown heads are left out.                                             *)
(***************************************************************************)
EXTENDS ShellSyntax, FiniteSets

KindShape(k) == [k |-> k, of |-> ""]
openShape    == KindShape("unknown")
joinReturnShapes(a, b) == IF a = b THEN a ELSE openShape

IsJSONNumber(t) == t \in {"0", "1", "2", "-1"}

\* The head of a command, as a bare word and as any literal.
commandHeadLiteral(es) == IF es # <<>> /\ es[1].op = "lit" THEN es[1].t ELSE ""
headText(es)           == IF es # <<>> /\ es[1].op \in {"lit", "quoted"} THEN es[1].t ELSE ""
isFlag(e)              == e.op \in {"lit", "quoted"} /\ e.t \in {"--signal=KILL", "--signal=NONE"}

(* Inspect: every expression and every command of a program.               *)

RECURSIVE ExprsOf(_)
ExprsOf(e) == {e} \cup UNION {ExprsOf(e.es[n]) : n \in DOMAIN e.es}

RECURSIVE StmtsOf(_)
StmtsOf(ss) == UNION {{ss[n]} \cup StmtsOf(ss[n].body) : n \in DOMAIN ss}

AllExprs(prog) == UNION {UNION {ExprsOf(s.es[n]) : n \in DOMAIN s.es} : s \in StmtsOf(prog)}
isCommand(s)   == s.op \in {"cmd", "defer"} \/ (s.op \in {"bind", "guard"} /\ s.body = <<>>)
Commands(prog) == {s.es : s \in {t \in StmtsOf(prog) : isCommand(t)}}

-----------------------------------------------------------------------------
(* Defs.                                                                   *)

\* prescanTopLevelDefs: the first top-level def of each name.
isDef(prog, n) == prog[n].op = "def" /\ \A m \in 1 .. n - 1 : prog[m].op = "def" => prog[m].t # prog[n].t
DefsOf(prog) ==
    LET is == {n \in DOMAIN prog : isDef(prog, n)} IN
    [x \in {prog[n].t : n \in is} |-> prog[CHOOSE n \in is : prog[n].t = x]]
duplicateDefs(prog) == \E n \in DOMAIN prog : prog[n].op = "def" /\ ~isDef(prog, n)

RECURSIVE bodyReturns(_)
bodyReturns(ss) == \E n \in DOMAIN ss : \/ ss[n].op = "return"
                                        \/ ss[n].op # "def" /\ bodyReturns(ss[n].body)

-----------------------------------------------------------------------------
(* Frames and shapes.  A frame maps a name to its shape and to the literal *)
(* it was bound to, if it was.  kinds remembers every kind a name got.     *)

newCheckFrame == <<>>
newChecker(defs) ==
    [defs |-> defs, frames |-> <<newCheckFrame>>, ok |-> TRUE, defDepth |-> 0, nested |-> 0,
     polls |-> 0, visiting |-> {}, kinds |-> {}]

issue(c, bad) == [c EXCEPT !.ok = @ /\ ~bad]

define(c, x, shape, lit) ==
    IF x = "_" THEN c
    ELSE [c EXCEPT !.frames[Len(c.frames)] = (x :> [shape |-> shape, lit |-> lit]) @@ @,
                   !.kinds = @ \cup {<<x, shape.k>>}]

holds(c, x)  == {n \in DOMAIN c.frames : x \in DOMAIN c.frames[n]}
lookupDefined(c, x) == holds(c, x) # {}
inner(c, x)  == LET n == CHOOSE n \in holds(c, x) : \A m \in holds(c, x) : m <= n IN c.frames[n][x]
lookupShape(c, x) == IF lookupDefined(c, x) THEN inner(c, x).shape ELSE openShape
\* The literal of the innermost frame that has one for x, or None.
lookupLiteral(c, x) ==
    LET ns == {n \in holds(c, x) : c.frames[n][x].lit # None}
    IN IF ns = {} THEN None ELSE c.frames[CHOOSE n \in ns : \A m \in ns : m <= n][x].lit

pushFrame(c) == [c EXCEPT !.frames = Append(@, newCheckFrame)]
popFrame(c)  == [c EXCEPT !.frames = Front(@)]
defineAll(c, ns) == FoldLeft(LAMBDA d, n : define(d, n.t, openShape, None), c, ns)

PureBuiltinReturnShape(name) ==
    CASE name \in {"u32le", "u64le"}        -> KindShape("scalar")
      [] name \in {"jq", "range", "zip"}    -> openShape
      [] OTHER                              -> KindShape("bool")

inferExprShape(c, e) ==
    CASE e.op = "lit" -> KindShape(CASE e.t \in {"true", "false"} -> "bool"
                                     [] e.t = "null" -> "null"
                                     [] OTHER -> "scalar")
      [] e.op \in {"quoted", "negate", "interp"} -> KindShape("scalar")
      [] e.op = "var" -> lookupShape(c, e.t)
      [] e.op = "binary" -> KindShape(IF e.t \in Arithmetic THEN "scalar" ELSE "bool")
      [] e.op \in {"logical", "not", "unary"} -> KindShape("bool")
      [] e.op = "pure" -> PureBuiltinReturnShape(e.t)
      [] OTHER -> openShape

\* InferBindShape: the primary value of each builtin that binds one.
subcommand(es) == IF Len(es) > 1 /\ es[2].op = "lit" THEN es[2].t ELSE ""
InferBindShape(es) ==
    LET head == es[1].t
        sub  == subcommand(es)
    IN CASE head \in {"start", "fire"} -> KindShape("job")
         [] head = "registry" -> KindShape("scalar")
         [] head \in {"file", "process", "tempdir"} -> openShape
         [] head = "net" -> (CASE sub = "veth-pair"       -> KindShape("pair")
                               [] sub = "netns-veth-pair" -> KindShape("netns-pair")
                               [] sub \in {"release", "exec"} -> KindShape("envelope")
                               [] sub = "start"           -> KindShape("job")
                               [] OTHER -> openShape)
         [] head \in DOMAIN PureArity -> PureBuiltinReturnShape(head)
         [] OTHER -> KindShape("envelope")

inferBindShape(es) == IF commandHeadLiteral(es) = "" THEN openShape ELSE InferBindShape(es)

outcomeShape(primary) == [k |-> "envelope", of |-> IF primary.k = "envelope" THEN "" ELSE primary.k]
collectOutcomeShape(primary) == [k |-> "envelope", of |-> "results of " \o primary.k]

(* What a def returns: whether some path returns, whether all do, and the  *)
(* shape the returns agree on.                                             *)

noReturn == [has |-> FALSE, always |-> FALSE, shape |-> openShape]
mergeReturnSummaries(a, b) ==
    CASE ~a.has -> b
      [] ~b.has -> a
      [] OTHER  -> [has |-> TRUE, always |-> FALSE, shape |-> joinReturnShapes(a.shape, b.shape)]

RECURSIVE inferBlockReturn(_, _)

\* A def without a return yields its envelope; a def being inferred is open.
inferDefReturnShape(c, name) ==
    LET def  == c.defs[name]
        in   == [c EXCEPT !.frames = <<newCheckFrame, newCheckFrame>>, !.visiting = @ \cup {name}]
        body == inferBlockReturn(defineAll(in, def.es), def.body)
    IN CASE ~bodyReturns(def.body) -> KindShape("envelope")
         [] bodyReturns(def.body) /\ (name \in c.visiting \/ ~body.always) -> openShape
         [] OTHER -> body.shape

bindHeadDef(c, es) == commandHeadLiteral(es) \in DOMAIN c.defs
bindPrimaryShape(c, es) == IF bindHeadDef(c, es) THEN inferDefReturnShape(c, commandHeadLiteral(es))
                                                 ELSE inferBindShape(es)
\* Mutant: a let's target has the shape of the value, as a guard's has.
bindTargetShapePrimary(c, s) == bindPrimaryShape(c, s.es)

bindTargetShape(c, s) == IF s.op = "guard" THEN bindPrimaryShape(c, s.es)
                                           ELSE outcomeShape(bindPrimaryShape(c, s.es))
bindCollectTargetShape(c, s) == IF s.op = "guard" THEN openShape
                                ELSE collectOutcomeShape(bindPrimaryShape(c, Last(s.body[1].body).es))

inferLoopBodyReturn(c, ns, body) == [inferBlockReturn(defineAll(pushFrame(c), ns), body) EXCEPT !.always = FALSE]

inferIfReturn(c, brs) ==
    LET each == [n \in DOMAIN brs |-> inferBlockReturn(pushFrame(c), brs[n].body)]
        all  == FoldLeft(mergeReturnSummaries, noReturn, each)
    IN [all EXCEPT !.always = /\ Last(brs).op = "else"
                              /\ \A n \in DOMAIN each : each[n].always
                              /\ all.has]

inferStmtReturn(c, s) ==
    CASE s.op = "return"  -> [has |-> TRUE, always |-> TRUE, shape |-> inferExprShape(c, s.es[1])]
      [] s.op = "if"      -> inferIfReturn(c, s.body)
      [] s.op = "foreach" -> inferLoopBodyReturn(c, Tail(s.es), s.body)
      [] s.op = "poll"    -> inferLoopBodyReturn(c, <<>>, s.body)
      [] s.op \in {"bind", "guard"} /\ s.body # <<>> ->
           inferLoopBodyReturn(c, Tail(s.body[1].es), s.body[1].body)
      [] OTHER -> noReturn

\* What a statement of a def's body defines while its return is inferred.
inferDefines(c, s) ==
    CASE s.op = "let"         -> define(c, s.t, inferExprShape(c, s.es[1]), None)
      [] s.op = "destructure" -> defineAll(c, Front(s.es))
      [] s.op \in {"bind", "guard"} /\ s.body = <<>> -> define(c, s.t, bindTargetShape(c, s), None)
      [] OTHER -> c

inferBlockReturn(c, ss) ==
    IF ss = <<>> THEN noReturn
    ELSE LET first == inferStmtReturn(c, ss[1]) IN
         IF first.always THEN first
         ELSE LET rest == inferBlockReturn(inferDefines(c, ss[1]), Tail(ss))
              IN [mergeReturnSummaries(first, rest) EXCEPT !.always = rest.always]

-----------------------------------------------------------------------------
(* Statements, in source order.                                            *)

\* PureBuiltinLiteralIssue: a literal bound must be an unsigned number.
literalIssue(e) ==
    /\ e.op = "pure" /\ e.t \in {"u32le", "u64le", "range"}
    /\ \/ e.es[1].op \in {"lit", "quoted"} /\ e.es[1].t \notin {"0", "1", "2"}
       \/ e.es[1].op = "negate" /\ e.es[1].es[1].op \in {"lit", "quoted"}

\* Mutant: names are not looked up.
exprIssueUnnamed(c, e) == \E x \in ExprsOf(e) : literalIssue(x)

exprIssue(c, e) ==
    \E x \in ExprsOf(e) : (x.op = "var" /\ ~lookupDefined(c, x.t)) \/ literalIssue(x)
checkExpr(c, e)   == issue(c, exprIssue(c, e))
checkExprs(c, es) == FoldLeft(checkExpr, c, es)

\* A literal argument of a typed parameter is of its type.
literalArgIssue(p, e) ==
    /\ p.es # <<>>
    /\ \/ e.op = "quoted" /\ p.es[1].t # "string"
       \/ e.op = "lit" /\ p.es[1].t = "number" /\ ~IsJSONNumber(e.t)
       \/ e.op = "lit" /\ p.es[1].t = "bool" /\ e.t \notin {"true", "false"}

\* Arguments of a def call; a threaded call's first parameter is its left side.
argsIssue(c, name, args, offset) ==
    LET ps == c.defs[name].es IN
    \/ Len(args) + offset # Len(ps)
    \/ \E n \in DOMAIN args : literalArgIssue(ps[n + offset], args[n])

checkDefArity(c, es) ==
    issue(c, bindHeadDef(c, es) /\ argsIssue(c, commandHeadLiteral(es), Tail(es), 0))

\* The first variable argument of wait or kill; None if there is none.
jobReferenceExpr(c, es) ==
    LET vs == {n \in 2 .. Len(es) : es[n].op = "var"}
    IN IF headText(es) \in {"wait", "kill"} \ DOMAIN c.defs /\ vs # {}
       THEN es[CHOOSE n \in vs : \A m \in vs : n <= m] ELSE None

checkJobArgShape(c, es) ==
    LET job == jobReferenceExpr(c, es) IN
    issue(c, job # None /\ lookupShape(c, job.t).k \notin {"unknown", "job"})

checkNetArgShape(c, es) ==
    LET k == inferExprShape(c, es[3]).k IN
    issue(c, /\ Len(es) >= 3 /\ commandHeadLiteral(es) = "net" /\ "net" \notin DOMAIN c.defs
             /\ es[3].op = "var"
             /\ \/ subcommand(es) \in {"exec", "start"} /\ k \notin {"unknown", "pair"}
                \/ subcommand(es) = "release" /\ k \notin {"unknown", "pair", "netns-pair"})

checkCommand(c, es) == checkNetArgShape(checkDefArity(checkExprs(c, es), es), es)

RECURSIVE walkStmt(_, _)
walkStmts(c, ss) == FoldLeft(walkStmt, c, ss)

\* A nested body in a frame of its own, with ns defined in it.
walkBody(c, ns, body) ==
    LET in == defineAll(pushFrame([c EXCEPT !.nested = @ + 1]), ns)
    IN popFrame([walkStmts(in, body) EXCEPT !.nested = c.nested])

walkLet(c, s) ==
    LET lit == IF s.es[1].op \in {"lit", "quoted"} THEN s.es[1] ELSE None
    IN define(issue(checkExpr(c, s.es[1]), lit.op = "lit" /\ lit.t \in DOMAIN c.defs),
              s.t, inferExprShape(c, s.es[1]), lit)

walkBind(c, s) ==
    LET pure == ~bindHeadDef(c, s.es) /\ commandHeadLiteral(s.es) \in DOMAIN PureArity
        d    == issue(checkCommand(c, s.es), pure)
    IN define(d, s.t, bindTargetShape(d, s), None)

walkBindCollect(c, s) ==
    LET fe == s.body[1]
        d  == walkBody(checkExpr(c, fe.es[1]), Tail(fe.es), fe.body)
    IN define(d, s.t, bindCollectTargetShape(d, s), None)

walkDef(c, s) ==
    LET in == issue([c EXCEPT !.defDepth = @ + 1], c.nested # 0)
    IN [walkBody(in, s.es, s.body) EXCEPT !.defDepth = c.defDepth]

walkBranch(c, b) == walkBody(checkExprs(c, b.es), <<>>, b.body)

\* Mutant: retry is allowed anywhere.
walkRetryAnywhere(c, s) == checkExprs(c, SelectSeq(s.es, LAMBDA e : e # None))

walkRetry(c, s) ==
    checkExprs(issue(c, c.polls = 0 /\ c.defDepth = 0), SelectSeq(s.es, LAMBDA e : e # None))

walkStmt(c, s) ==
    CASE s.op = "let"         -> walkLet(c, s)
      [] s.op = "destructure" -> defineAll(checkExpr(c, Last(s.es)), Front(s.es))
      [] s.op \in {"bind", "guard"} -> IF s.body = <<>> THEN walkBind(c, s) ELSE walkBindCollect(c, s)
      [] s.op = "foreach"     -> walkBody(checkExpr(c, s.es[1]), Tail(s.es), s.body)
      [] s.op = "def"         -> walkDef(c, s)
      [] s.op = "return"      -> checkExprs(issue(c, c.defDepth = 0), s.es)
      [] s.op = "if"          -> FoldLeft(walkBranch, c, s.body)
      [] s.op \in {"defer", "cmd"} -> checkJobArgShape(checkCommand(c, s.es), s.es)
      [] s.op = "poll"        -> [walkBody([c EXCEPT !.polls = @ + 1], <<>>, s.body) EXCEPT !.polls = c.polls]
      [] s.op \in {"assert", "require"} -> checkExprs(issue(c, s.op = "assert" /\ c.polls > 0), s.es)
      [] s.op = "retry"       -> walkRetry(c, s)
      [] s.op = "expr"        -> checkExprs(c, s.es)
      [] s.op \in {"break", "continue"} -> c

-----------------------------------------------------------------------------
(* Passes over the whole program, after the walk.                          *)

\* The statements of one body, without those of defs and collecting binds.
RECURSIVE bodyStmts(_)
bodyStmts(ss) ==
    UNION {{ss[n]} \cup (IF ss[n].op \in {"def", "bind", "guard"} THEN {} ELSE bodyStmts(ss[n].body))
             : n \in DOMAIN ss}

\* Every job a guard started is waited for, killed or returned in its body.
jobLeak(c, body) ==
    LET ss      == bodyStmts(body)
        started == {s.t : s \in {t \in ss : /\ t.op = "guard" /\ t.t # "_"
                                            /\ headText(t.es) = "start" /\ "start" \notin DOMAIN c.defs}}
        managed == {jobReferenceExpr(c, s.es).t : s \in {t \in ss : isCommand(t)}}
        returned == {s.es[1].t : s \in {t \in ss : t.op = "return" /\ t.es[1].op = "var"}}
    IN ~(started \subseteq managed \cup returned)

checkJobLeaks(c, prog) ==
    issue(c, \/ jobLeak(c, prog)
             \/ \E s \in StmtsOf(prog) : s.op = "def" /\ jobLeak(c, s.body))

nonNumericOperand(c, e) ==
    LET k   == lookupShape(c, e.t).k
        lit == lookupLiteral(c, e.t)
    IN \/ e.op \in {"lit", "quoted"} /\ ~IsJSONNumber(e.t)
       \/ e.op = "var" /\ k \notin {"scalar", "unknown"}
       \/ e.op = "var" /\ k \in {"scalar", "unknown"} /\ lit # None
          /\ (lit.op = "quoted" \/ ~IsJSONNumber(lit.t))

checkArithmeticOperands(c, prog) ==
    issue(c, \E e \in AllExprs(prog) : /\ e.op = "binary" /\ e.t \in Arithmetic
                                       /\ \E n \in {1, 2} : nonNumericOperand(c, e.es[n]))

isScalarLikeKind(k) == k \in {"scalar", "bool", "null"}
classifyComparison(l, r, op) ==
    /\ isScalarLikeKind(l) /\ isScalarLikeKind(r)
    /\ IF "null" \in {l, r} THEN op \in {"==", "!="}
       ELSE l = r /\ (l = "bool" => op \in {"==", "!="})

checkComparisonOperands(c, prog) ==
    LET k(e)     == inferExprShape(c, e).k
        named(e) == e.op = "lit" /\ e.t \in DOMAIN c.defs
    IN issue(c, \E e \in AllExprs(prog) :
            /\ e.op = "binary" /\ e.t \in BinaryOps
            /\ \/ named(e.es[1]) \/ named(e.es[2])
               \/ /\ "unknown" \notin {k(e.es[1]), k(e.es[2])}
                  /\ ~classifyComparison(k(e.es[1]), k(e.es[2]), e.t))

\* break and continue stand in a foreach of their own def or of the script.
RECURSIVE strayExit(_, _)
strayExit(ss, depth) ==
    \E n \in DOMAIN ss :
        CASE ss[n].op \in {"break", "continue"} -> depth = 0
          [] ss[n].op = "foreach" -> strayExit(ss[n].body, depth + 1)
          [] ss[n].op = "def"     -> strayExit(ss[n].body, 0)
          [] ss[n].op \in {"bind", "guard"} -> FALSE
          [] OTHER -> strayExit(ss[n].body, depth)
checkLoopExits(c, prog) == issue(c, strayExit(prog, 0))

checkBuiltinArity(c, prog) ==
    LET count(es) == Cardinality({n \in 2 .. Len(es) : ~isFlag(es[n])})
        wrong(es) == CASE headText(es) \in {"start", "fire"} -> count(es) < 1
                       [] headText(es) \in {"wait", "kill"}  -> count(es) # 1
                       [] headText(es) \in {"jobs", "reap"}  -> count(es) # 0
                       [] OTHER -> FALSE
    IN issue(c, \E es \in Commands(prog) : headText(es) \notin DOMAIN c.defs /\ wrong(es))

checkKillFlags(c, prog) ==
    issue(c, \E es \in Commands(prog) :
        /\ headText(es) = "kill" /\ "kill" \notin DOMAIN c.defs
        /\ \E n \in 2 .. Len(es) : es[n].op \in {"lit", "quoted"} /\ es[n].t = "--signal=NONE")

checkThreadDefArity(c, prog) ==
    issue(c, \E e \in AllExprs(prog) :
        /\ e.op = "thread" /\ commandHeadLiteral(Tail(e.es)) \in DOMAIN c.defs
        /\ argsIssue(c, e.es[2].t, SubSeq(e.es, 3, Len(e.es)), 1))

walkPass(c, prog)  == checkJobLeaks(walkStmts(c, prog), prog)
typePass(c, prog)  == checkComparisonOperands(checkArithmeticOperands(c, prog), prog)
callsPass(c, prog) == checkThreadDefArity(checkKillFlags(checkBuiltinArity(c, prog), prog), prog)
runCheckPass(c, prog) == callsPass(checkLoopExits(typePass(walkPass(c, prog), prog), prog), prog)

\* Whether a program has no issues, and the kinds its names were given.
Check(prog) == runCheckPass(issue(newChecker(DefsOf(prog)), duplicateDefs(prog)), prog)
=============================================================================
