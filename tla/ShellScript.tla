---------------------------- MODULE ShellScript ----------------------------
(***************************************************************************)
(* bpfman-shell as a whole: a script is formatted any number of times and  *)
(* run.  A run parses, checks and lowers the script and, if nothing is     *)
(* wrong with it, executes it.                                             *)
(***************************************************************************)
EXTENDS ShellFormat, ShellExec

vars == <<src, status, execVars>>

Init == FmtInit /\ ExecInit

FmtStep == result = "idle" /\ Fmt /\ UNCHANGED execVars

\* PreflightCheck, then runProgramSource up to the executor's first step.
Refused(why) == result' = why /\ UNCHANGED <<code, vm>>
Begin(prog, units, kinds) ==
    IF ~units.ok THEN Refused("not lowered")
    ELSE /\ result' = "running"
         /\ code' = [ok |-> TRUE, main |-> units.main, defs |-> units.defs, kinds |-> kinds, prog |-> prog]
         /\ vm' = Push(vm, newExecutor(0, "main", 1, <<>>))
Preflight(prog, check) ==
    IF ~check.ok THEN Refused("rejected") ELSE Begin(prog, Lower(prog), check.kinds)
runProgramSource(prog) ==
    IF prog = Rejected THEN Refused("rejected") ELSE Preflight(prog, Check(prog))

StartRun ==
    /\ result = "idle"
    /\ runProgramSource(Parse(src))
    /\ status' = "run"
    /\ UNCHANGED <<src, jobs, cancelled, issued, fired>>

RunStep == ExecStep /\ UNCHANGED fmtVars
World   == (JobExits \/ Cancel) /\ UNCHANGED fmtVars

Next == FmtStep \/ StartRun \/ RunStep \/ World

\* The executor does not stop by itself, and started processes exit.
Spec == /\ Init /\ [][Next]_vars
        /\ WF_vars(RunStep)
        /\ WF_vars(JobExits /\ UNCHANGED fmtVars)

-----------------------------------------------------------------------------
(* Properties.                                                             *)

Units    == {n \in DOMAIN vm.stack : vm.stack[n].act = "unit"}
Draining == {n \in DOMAIN vm.stack : vm.stack[n].act = "drain"}
Over     == result \in {"ok", "failed", "cancelled"}
Pending  == 1 .. issued \ Range(fired)

TypeOK ==
    /\ result \in {"idle", "running", "ok", "failed", "cancelled", "rejected", "not lowered"}
    /\ status \in {"edited", "formatted", "syntax error", "formatter error", "run"}
    /\ vm.polls \in Nat /\ issued \in Nat /\ cancelled \in BOOLEAN
    /\ vm.tally \subseteq {"assert", "defer", "leak"}
    /\ Len(vm.frames) >= 1
    /\ \A n \in Units : vm.stack[n].mode \in {"run", "retry", "exit"}

(* A poll some path leaves by the break or continue of a loop around it.   *)
RECURSIVE LoopExits(_)
LoopExits(ss) ==
    \E n \in DOMAIN ss : \/ ss[n].op \in {"break", "continue"}
                         \/ ss[n].op # "foreach" /\ LoopExits(ss[n].body)
LeavesPoll(prog) == \E s \in StmtsOf(prog) : s.op = "poll" /\ LoopExits(s.body)

\* Whatever path led to a statement (retries, early exits, calls, loops),
\* exactly the frames, defer scopes, polls and loops around it in the source
\* are open, and the polls the Env counts are those of the units on the
\* stack: assert and retry are allowed by that count.  The one path excepted
\* is a break or continue out of a poll inside a foreach: it closes the
\* frames and leaves the poll, with its scope, open.
LexicalDepths ==
    /\ InUnit("run") /\ top.i <= Len(block) /\ instr.at # <<>> =>
          /\ Len(vm.frames) - top.base = instr.at.frames
          /\ Len(top.loops) = instr.at.loops
          /\ Len(top.polls) - instr.at.polls = Len(top.scopes) - instr.at.scopes
          /\ \/ Len(top.polls) = instr.at.polls
             \/ Len(top.polls) > instr.at.polls /\ LeavesPoll(code.prog)
    /\ vm.polls = FoldLeft(LAMBDA s, a : IF a.act = "unit" THEN s + Len(a.polls) ELSE s, 0, vm.stack)

\* Of all the cleanups still owed, in whatever scope and call, the one
\* deferred last runs first.
NewestFirst ==
    [][fired' # fired => \A id \in Pending : id <= Last(fired')]_fired

\* However a script ends, short of the process being killed (a second signal
\* exits at once), every cleanup it deferred ran once, nothing of it is left
\* open, every job is gone or was signalled, and it is only a success if
\* nothing was recorded against it.
CleanExit ==
    Over => /\ Pending = {} /\ Len(fired) = issued
            /\ Len(vm.frames) = 1 /\ vm.polls = 0 /\ ~vm.draining /\ vm.stack = <<>>
            /\ \A n \in DOMAIN jobs : jobs[n].managed \/ jobs[n].done
            /\ result = "ok" => vm.tally = {}

\* Cleanup always has a live context and nothing else does: the flag that
\* chooses it is set exactly while some drain is under way, however drains
\* nest in the calls they make.
CleanupLive == Running => (vm.draining <=> Draining # {})

(* A name that the def being run reads and that the script binds above the *)
(* def, but has not bound yet: the call comes from further up.             *)
Binds(s) == CASE s.op \in {"let", "bind", "guard"} -> {s.t}
              [] s.op = "destructure" -> {s.es[n].t : n \in DOMAIN Front(s.es)}
              [] OTHER -> {}
BoundLater(x) ==
    top.unit # 0 /\ \E n \in DOMAIN code.prog :
        /\ code.prog[n].op = "def" /\ code.prog[n].t = code.defs[top.unit].name
        /\ \E m \in 1 .. n - 1 : x \in Binds(code.prog[m])

\* A script the checker passed never reads a name that is not bound, in its
\* own frames or, in a def, in those of whoever calls it.  The exception is a
\* def that is called further up than the binding of a name it reads: defs
\* are hoisted, and the checker looks at the body where it is written.
NamesResolve ==
    InUnit("run") /\ top.i <= Len(block) =>
        \A n \in DOMAIN instr.es : \A e \in ExprsOf(instr.es[n]) :
            e.op = "var" => Holding(vm.frames, e.t) # {} \/ BoundLater(e.t)

\* A name is only ever bound to a value of a kind the checker inferred for
\* it, in this scope or in another that binds the name.
Kind(v) == CASE v.k \in {"number", "string"} -> "scalar"
             [] isBool(v) -> "bool"
             [] OTHER -> v.k
ShapesSound ==
    \A n \in DOMAIN vm.frames : \A x \in DOMAIN vm.frames[n] :
        {<<x, "unknown">>, <<x, Kind(vm.frames[n][x])>>} \cap code.kinds # {}

\* What passes the checker can be lowered.
CheckedLowers == result # "not lowered"

\* Once cleanup of an attempt failed, the poll makes no further attempt.
CleanupFailureStopsPoll ==
    \A n \in Units : vm.stack[n].mode = "run" =>
        \A p \in DOMAIN vm.stack[n].polls : vm.stack[n].polls[p].dirty => vm.stack[n].polls[p].failed

\* A script that is run ends: no poll, loop, call or wait holds it for ever.
ScriptEnds == result = "running" ~> Over
=============================================================================
