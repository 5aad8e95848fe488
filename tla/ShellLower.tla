---------------------------- MODULE ShellLower ----------------------------
(***************************************************************************)
(* Lowering: a program's statements become units of basic blocks, one unit *)
(* for the program body and one for each top-level def.                    *)
(*                                                                         *)
(* An instruction is its ir type op with its names xs, its expressions es  *)
(* and the blocks to it may transfer to; at is what is lexically open      *)
(* there, or <<>> on the paths that leave several scopes at once.  Temps   *)
(* are left out (each is read by the next instruction), and so are traces, *)
(* spans and the order in which blocks are emitted.                        *)
(***************************************************************************)
EXTENDS ShellSyntax

\* Frames, defer scopes, polls and loops open around a statement of a unit.
Depth(f, s, p, l) == [frames |-> f, scopes |-> s, polls |-> p, loops |-> l]
InFrame(d) == [d EXCEPT !.frames = @ + 1]
InLoop(d)  == [d EXCEPT !.frames = @ + 1, !.loops = @ + 1]
InPoll(d)  == [d EXCEPT !.polls = @ + 1]
InScope(d) == [d EXCEPT !.frames = @ + 1, !.scopes = @ + 1]

\* The lowerer: blocks, the current one, and the context of lowerCtx.
newLowerer(policy) ==
    [bs |-> << <<>> >>, cur |-> 1, ok |-> TRUE, at |-> Depth(0, 0, 0, 0), policy |-> policy,
     ret |-> 0, attempt |-> FALSE, nested |-> FALSE, defs |-> <<>>]

newBlock(l)    == [l EXCEPT !.bs = Append(@, <<>>)]
Top(l)         == Len(l.bs)
In(l, b)       == [l EXCEPT !.cur = b]
Open(l, at)    == [l EXCEPT !.at = at]
Anywhere(l)    == [l EXCEPT !.at = <<>>]
Refuse(l)      == [l EXCEPT !.ok = FALSE]

emit(l, op, xs, es, to) ==
    [l EXCEPT !.bs[l.cur] = Append(@, [op |-> op, xs |-> xs, es |-> es, to |-> to, at |-> l.at])]
Emit(l, op) == emit(l, op, <<>>, <<>>, <<>>)

RECURSIVE lowerStmt(_, _)
lowerStmts(l, ss) == FoldLeft(lowerStmt, l, ss)

lowerCommandStmt(l, s) == emit(emit(l, "BuildArgs", <<>>, s.es, <<>>), "DispatchCommand", <<>>, s.es, <<>>)

lowerExprStmt(l, s) == Emit(emit(l, "Eval", <<>>, s.es, <<>>), "EmitResult")

lowerLetStmt(l, s) == emit(emit(l, "Eval", <<>>, s.es, <<>>), "BindName", <<s.t>>, <<>>, <<>>)

Texts(ns) == [n \in DOMAIN ns |-> ns[n].t]

lowerLetDestructureStmt(l, s) ==
    emit(emit(l, "Eval", <<>>, <<Last(s.es)>>, <<>>), "BindDestructure", Texts(Front(s.es)), <<>>, <<>>)

lowerDeferStmt(l, s) == emit(emit(l, "BuildArgs", <<>>, s.es, <<>>), "RegisterDefer", <<>>, s.es, <<>>)

lowerAssertStmt(l, s) == emit(l, "Assert", <<s.op, s.t>>, s.es, <<>>)

\* A branch runs in a frame of its own and rejoins at merge.
lowerIfBranchBody(l, b, body, merge) ==
    LET in   == [Open(Emit(In(l, b), "EnterFrame"), InFrame(l.at)) EXCEPT !.nested = TRUE]
        out  == [lowerStmts(in, body) EXCEPT !.nested = l.nested]
    IN emit(Open(Emit(out, "ExitFrame"), l.at), "Jump", <<>>, <<>>, <<merge>>)

RECURSIVE lowerIfChain(_, _, _)
lowerIfChain(l, brs, merge) ==
    LET evald == emit(l, "Eval", <<>>, brs[1].es, <<>>)
        then  == Top(l) + 1
        next  == Top(l) + 2
        split == emit(newBlock(newBlock(evald)), "Branch", <<>>, <<>>, <<then, next>>)
        taken == lowerIfBranchBody(split, then, brs[1].body, merge)
    IN IF Len(brs) = 1 THEN emit(In(taken, next), "Jump", <<>>, <<>>, <<merge>>)
       ELSE IF brs[2].op = "else" THEN lowerIfBranchBody(taken, next, brs[2].body, merge)
       ELSE lowerIfChain(In(taken, next), Tail(brs), merge)

lowerIfStmt(l, s) ==
    LET merge == Top(l) + 1 IN In(lowerIfChain(newBlock(l), s.body, merge), merge)

lowerForEachStmt(l, s) ==
    LET body == Top(l) + 1
        exit == Top(l) + 2
        head == emit(newBlock(newBlock(emit(l, "Eval", <<>>, <<s.es[1]>>, <<>>))),
                     "ForEach", Texts(Tail(s.es)), <<>>, <<body, exit>>)
        in   == [Open(In(head, body), InLoop(l.at)) EXCEPT !.nested = TRUE]
        out  == [Emit(lowerStmts(in, s.body), "ForEachContinue") EXCEPT !.nested = l.nested]
    IN Open(In(out, exit), l.at)

\* What follows on the line is unreachable and goes to a block of its own.
Unreachable(l) == LET n == newBlock(l) IN In(n, Top(n))

lowerBreakStmt(l)    == IF l.at.loops = 0 THEN Refuse(l) ELSE Unreachable(Emit(l, "ExitLoop"))
lowerContinueStmt(l) == IF l.at.loops = 0 THEN Refuse(l) ELSE Unreachable(Emit(l, "ForEachContinue"))

lowerPollStmt(l, s) ==
    LET attempt == Top(l) + 1
        timeout == Top(l) + 2
        done    == Top(l) + 3
        begin == emit(newBlock(newBlock(newBlock(l))), "BeginPoll", <<>>, <<>>, <<attempt, timeout, done>>)
        in    == [Open(In(begin, attempt), InPoll(l.at)) EXCEPT
                    !.attempt = TRUE, !.policy = "attempt", !.nested = TRUE]
        frame == Open(Emit(in, "EnterFrame"), InFrame(in.at))
        body  == lowerStmts(Open(Emit(frame, "EnterDeferScope"), InScope(in.at)), s.body)
        shut  == Emit(Open(emit(body, "RunDefers", <<"attempt">>, <<>>, <<>>), InFrame(in.at)), "ExitFrame")
        over  == [emit(Open(shut, in.at), "Jump", <<>>, <<>>, <<done>>) EXCEPT
                    !.attempt = l.attempt, !.policy = l.policy, !.nested = l.nested]
    IN Open(In(Emit(Open(In(over, timeout), in.at), "PropagateError"), done), l.at)

\* The attempt, or the helper's body, is left before the poll is asked to go again.
emitRetryStmt(l, s) ==
    LET msg == IF s.es[1] = None THEN l ELSE emit(l, "Eval", <<>>, <<s.es[1]>>, <<>>)
        run == Anywhere(emit(msg, "RunDefers", <<"attempt">>, <<>>, <<>>))
    IN Open(Unreachable(Emit(Emit(run, "ExitFrame"), "RetryPoll")), l.at)

lowerRetryStmt(l, s) ==
    LET cont   == Top(l) + 1
        again  == Top(l) + 2
        branch == emit(newBlock(newBlock(emit(l, "Eval", <<>>, <<s.es[2]>>, <<>>))),
                       "Branch", <<>>, <<>>, <<cont, again>>)
    IN CASE ~l.attempt /\ l.ret = 0 -> Refuse(l)
         [] s.es[2] = None          -> emitRetryStmt(l, s)
         [] OTHER -> In(emitRetryStmt(In(branch, again), s), cont)

RECURSIVE bodyHasReturn(_)
bodyHasReturn(ss) == \E n \in DOMAIN ss : \/ ss[n].op = "return"
                                          \/ ss[n].op # "def" /\ bodyHasReturn(ss[n].body)

\* A def gets a lowerer of its own; every way out of its body is the epilogue.
lowerDefStmt(l, s) ==
    LET new   == [newBlock(newLowerer("def")) EXCEPT !.ret = 2]
        frame == Open(Emit(new, "EnterFrame"), Depth(1, 0, 0, 0))
        entry == Open(Emit(frame, "EnterDeferScope"), Depth(1, 1, 0, 0))
        bind(d, n) == emit(d, "BindParam", <<s.es[n].t>>, <<>>, <<n>>)
        body  == lowerStmts(FoldLeft(bind, entry, [n \in DOMAIN s.es |-> n]), s.body)
        jump  == Anywhere(In(emit(body, "Jump", <<>>, <<>>, <<2>>), 2))
        done  == Emit(Emit(emit(jump, "RunDefers", <<"def">>, <<>>, <<>>), "ExitFrame"), "EmitBindResult")
        def   == [name |-> s.t, params |-> s.es, hasReturn |-> bodyHasReturn(s.body), blocks |-> done.bs]
    IN IF l.ret # 0 \/ l.nested THEN Refuse(l)
       ELSE [l EXCEPT !.defs = Append(@, def), !.ok = @ /\ body.ok]

lowerReturnStmt(l, s) ==
    IF l.ret = 0 THEN Refuse(l)
    ELSE Unreachable(emit(emit(l, "Eval", <<>>, s.es, <<>>), "ReturnValue", <<>>, <<>>, <<l.ret>>))

\* The block a failing guard goes to; the current block stays current.
buildGuardFailBlock(l) ==
    LET run  == Anywhere(emit(Unreachable(l), "RunDefers", <<IF l.attempt THEN "attempt" ELSE l.policy>>, <<>>, <<>>))
        exit == IF l.attempt \/ l.ret # 0 THEN Emit(run, "ExitFrame") ELSE run
    IN Open(In(Emit(exit, "PropagateError"), l.cur), l.at)

lowerBindCmd(l, s) ==
    LET sent == emit(emit(l, "BuildArgs", <<>>, s.es, <<>>), "DispatchBind", <<>>, s.es, <<>>)
        safe == buildGuardFailBlock(sent)
    IN IF s.op = "guard" THEN emit(safe, "ApplyBind", <<s.t, "guard">>, <<>>, <<Top(sent) + 1>>)
                         ELSE emit(sent, "ApplyBind", <<s.t, "let">>, <<>>, <<>>)

\* The last command of the body is dispatched as a bind and collected.
lowerBindCollect(l, s) ==
    LET fe   == s.body[1]
        body == Top(l) + 1
        exit == Top(l) + 2
        head == emit(newBlock(newBlock(emit(l, "Eval", <<>>, <<fe.es[1]>>, <<>>))), "ForEachCollect",
                     <<s.t, s.op>> \o Texts(Tail(fe.es)), <<>>, <<body, exit>>)
        run  == lowerStmts(Open(In(head, body), InLoop(l.at)), Front(fe.body))
        last == emit(emit(run, "BuildArgs", <<>>, Last(fe.body).es, <<>>),
                     "DispatchBind", <<>>, Last(fe.body).es, <<>>)
    IN Open(In(Emit(last, "CollectProduce"), exit), l.at)

lowerBindStmt(l, s) == IF s.body # <<>> THEN lowerBindCollect(l, s) ELSE lowerBindCmd(l, s)

lowerStmt(l, s) ==
    CASE s.op = "cmd"         -> lowerCommandStmt(l, s)
      [] s.op = "expr"        -> lowerExprStmt(l, s)
      [] s.op = "let"         -> lowerLetStmt(l, s)
      [] s.op = "destructure" -> lowerLetDestructureStmt(l, s)
      [] s.op \in {"bind", "guard"} -> lowerBindStmt(l, s)
      [] s.op = "defer"       -> lowerDeferStmt(l, s)
      [] s.op \in {"assert", "require"} -> lowerAssertStmt(l, s)
      [] s.op = "if"          -> lowerIfStmt(l, s)
      [] s.op = "foreach"     -> lowerForEachStmt(l, s)
      [] s.op = "break"       -> lowerBreakStmt(l)
      [] s.op = "continue"    -> lowerContinueStmt(l)
      [] s.op = "poll"        -> lowerPollStmt(l, s)
      [] s.op = "retry"       -> lowerRetryStmt(l, s)
      [] s.op = "def"         -> lowerDefStmt(l, s)
      [] s.op = "return"      -> lowerReturnStmt(l, s)

lowerBody(ss) ==
    LET entry == Open(Emit(newLowerer("program"), "EnterDeferScope"), Depth(0, 1, 0, 0))
    IN Emit(Anywhere(emit(lowerStmts(entry, ss), "RunDefers", <<"program">>, <<>>, <<>>)), "Stop")

\* The units of a program: main's blocks and its defs in source order.
Lower(prog) ==
    LET l == lowerBody(prog) IN [ok |-> l.ok, main |-> l.bs, defs |-> l.defs]
=============================================================================
