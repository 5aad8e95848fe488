----------------------------- MODULE ShellExec -----------------------------
(***************************************************************************)
(* The executor: a lowered script is run one instruction at a time, while  *)
(* its background jobs exit and the user may cancel the run.               *)
(*                                                                         *)
(* vm.stack holds the activations of the Go stack: a unit (the script or a *)
(* def call, an executor) or a drain (runDefers working through a list of  *)
(* deferred commands).  vm.frames, defers, polls, draining and tally (what *)
(* was recorded as failed) are the Env they all share.  A unit runs, or    *)
(* retries (drainToAttemptStart), or exits (unwindOnExit).  How long a     *)
(* poll sleeps, what commands print and traces are left out; the deadline  *)
(* of a poll is a choice at each retry.                                    *)
(***************************************************************************)
EXTENDS ShellLower, ShellValues

CONSTANTS MaxAttempts,       \* attempts of a poll before its deadline is over
          MaxDefCallDepth    \* nested def calls (256 in the code)

VARIABLES code,        \* the script: its program, units and inferred kinds
          vm,          \* the executor and its Env
          jobs,        \* background processes, in the order they were started
          cancelled,   \* whether the run's context is cancelled
          issued,      \* how many cleanups were deferred so far
          fired,       \* the cleanups run so far, in order
          result       \* idle, running, ok, failed, cancelled or rejected

execVars == <<code, vm, jobs, cancelled, issued, fired, result>>

noCode == [ok |-> TRUE, main |-> << <<>> >>, defs |-> <<>>, kinds |-> {}, prog |-> <<>>]
newEnv == [stack |-> <<>>, frames |-> << <<>> >>, defers |-> <<>>, polls |-> 0, draining |-> FALSE, tally |-> {}]

ExecInit ==
    /\ code = noCode /\ vm = newEnv /\ jobs = <<>> /\ cancelled = FALSE
    /\ issued = 0 /\ fired = <<>> /\ result = "idle"

-----------------------------------------------------------------------------
(* Activations.                                                            *)

newExecutor(unit, how, base, args) ==
    [act |-> "unit", unit |-> unit, how |-> how, args |-> args, b |-> 1, i |-> 1, base |-> base,
     loops |-> <<>>, scopes |-> <<>>, polls |-> <<>>, tmp |-> [o |-> "none", v |-> V("nil"), args |-> <<>>],
     ret |-> V("nil"), hasReturn |-> FALSE, fails |-> 0, mode |-> "run", end |-> ""]
newDrain(todo, prev, why) == [act |-> "drain", todo |-> todo, failed |-> 0, prev |-> prev, why |-> why]

Current(m)   == Last(m.stack)
WithTop(m, a) == [m EXCEPT !.stack[Len(m.stack)] = a]
Push(m, a)   == [m EXCEPT !.stack = Append(@, a)]
Pop(m)       == [m EXCEPT !.stack = Front(@)]
Blocks(u)    == IF u = 0 THEN code.main ELSE code.defs[u].blocks

top   == Current(vm)
block == Blocks(top.unit)[top.b]
instr == block[top.i]
Running      == result = "running"
InUnit(mode) == Running /\ top.act = "unit" /\ top.mode = mode
Executing(op) == InUnit("run") /\ top.i <= Len(block) /\ instr.op = op

\* dispatchContext: a cancelled run has a dead context, but not for cleanup.
dead == cancelled /\ ~vm.draining

Step(m) == WithTop(m, [Current(m) EXCEPT !.i = @ + 1])
Keep(m, o) == WithTop(m, [Current(m) EXCEPT !.i = @ + 1, !.tmp = o])

\* Mutant: the polls a unit leaves open are taken off once too often.
EndTwice(m, end) ==
    LET a == Current(m)
    IN WithTop([m EXCEPT !.polls = @ - 2 * Len(a.polls)],
               [a EXCEPT !.mode = "exit", !.end = end, !.loops = <<>>, !.polls = <<>>])

\* The unit ends and starts to unwind: its loops and polls are over.
End(m, end) ==
    LET a == Current(m)
    IN WithTop([m EXCEPT !.polls = @ - Len(a.polls)],
               [a EXCEPT !.mode = "exit", !.end = end, !.loops = <<>>, !.polls = <<>>])

\* runUnit enters a block; reaching a poll's OnSuccess block closes the poll.
Goto(m, b) ==
    LET a    == [Current(m) EXCEPT !.b = b, !.i = 1]
        done == a.polls # <<>> /\ Last(a.polls).done = b /\ ~Last(a.polls).failed
    IN IF done THEN WithTop([m EXCEPT !.polls = @ - 1], [a EXCEPT !.polls = Front(@)])
               ELSE WithTop(m, a)

\* The outcome of a command, or of a def's call, reaches who dispatched it.
Outcome(o, v) == [o |-> o, v |-> v]
Deliver(m, out) ==
    LET a == Current(m) IN
    CASE a.act = "drain" /\ out.o = "ok" -> WithTop(m, [a EXCEPT !.todo = Front(@)])
      [] a.act = "drain" /\ out.o # "ok" ->
           [WithTop(m, [a EXCEPT !.todo = Front(@), !.failed = @ + 1]) EXCEPT !.tally = @ \cup {"defer"}]
      [] a.act = "unit" /\ out.o \in {"ok", "fail"} -> Keep(m, out)
      [] a.act = "unit" /\ out.o = "retry" /\ a.polls # <<>> ->
           WithTop(m, [a EXCEPT !.mode = "retry", !.loops = SubSeq(@, 1, Last(a.polls).loops)])
      [] OTHER -> End(m, out.o)

\* runDefers begins: what it dispatches is cleanup.
Drain(m, todo, why) == [Push(m, newDrain(todo, m.draining, why)) EXCEPT !.draining = TRUE]

\* The scope below the current one becomes the current one.
LeaveScope(m) ==
    LET a == Current(m)
    IN WithTop([m EXCEPT !.defers = IF a.scopes = <<>> THEN <<>> ELSE Last(a.scopes)],
               [a EXCEPT !.scopes = IF @ = <<>> THEN @ ELSE Front(@)])

-----------------------------------------------------------------------------
(* Commands.                                                               *)

Structured(args) == \E n \in 2 .. Len(args) : args[n].op = "value" /\ IsStructured(args[n].v)
ArgText(args)    == IF args # <<>> /\ args[1].op \in {"word", "quoted"} THEN args[1].t ELSE ""
Ran(o, v, js)    == [out |-> Outcome(o, v), jobs |-> js]

\* A builtin that refuses: an error of the statement, or the bind's failure.
Refuses(how, o) == Ran(IF how = "bind" THEN "fail" ELSE o, V("envelope"), jobs)

\* The job a command is about; 0 if its argument is none.
jobFromArg(args) ==
    LET js == {n \in 2 .. Len(args) : args[n].op \notin {"word", "quoted"}}
    IN IF Cardinality(js) # 1 THEN 0 ELSE args[CHOOSE n \in js : TRUE].v.job

spawnJob(args, how) ==
    IF Structured(args) THEN {Refuses(how, "error")}
    ELSE IF dead THEN {Refuses(how, "cancel")}
    ELSE {Refuses(how, "error"),
          Ran("ok", JobOf(Len(jobs) + 1),
              Append(jobs, [managed |-> FALSE, done |-> FALSE, listed |-> TRUE, rc |-> "ok"]))}

\* Mutant: wait does not look at a job that is not signalled.
WaitEnvelopeManaged(args, how) ==
    LET j == jobFromArg(args) IN
    IF j = 0 THEN {Ran("error", V("nil"), jobs)}
    ELSE (IF jobs[j].done /\ jobs[j].managed THEN {Ran("ok", V("envelope"), jobs)} ELSE {})
         \cup (IF cancelled THEN {Ran(IF how = "bind" THEN "fail" ELSE "ok", V("envelope"), jobs)} ELSE {})

\* wait blocks until the job is done, or the context is; cleanup's own
\* context ends too, so a cancelled run never waits for ever.
WaitEnvelope(args, how) ==
    LET j == jobFromArg(args) IN
    IF j = 0 THEN {Ran("error", V("nil"), jobs)}
    ELSE (IF jobs[j].done
          THEN {Ran(IF how = "bind" THEN jobs[j].rc ELSE "ok", V("envelope"), [jobs EXCEPT ![j].managed = TRUE])}
          ELSE {})
         \cup (IF cancelled THEN {Ran(IF how = "bind" THEN "fail" ELSE "ok", V("envelope"), jobs)} ELSE {})

\* kill waits for the job to be gone, unless the signal was named.
KillEnvelope(args, how) ==
    LET j     == jobFromArg(args)
        named == \E n \in DOMAIN args : args[n].t = "--signal=KILL"
        gone  == [jobs EXCEPT ![j].managed = TRUE, ![j].done = TRUE]
    IN IF j = 0 THEN {Refuses(how, "error")}
       ELSE {Ran("ok", V("envelope"), gone)}
            \cup (IF named \/ cancelled THEN {Ran("ok", V("envelope"), [jobs EXCEPT ![j].managed = TRUE])} ELSE {})
            \cup (IF jobs[j].done THEN {} ELSE {Ran(IF how = "bind" THEN "fail" ELSE "ok", V("envelope"), jobs)})

reapJobs == {Ran("ok", V("envelope"), [n \in DOMAIN jobs |-> [jobs[n] EXCEPT !.listed = @ /\ ~jobs[n].done]])}

\* An external command; in the foreground of a terminal it outlives the run's context.
RunExternal(args, how) ==
    CASE Structured(args) -> {Ran("error", V("nil"), jobs)}
      [] ~Structured(args) /\ how = "cmd" ->
           {Ran(o, V("nil"), jobs) : o \in {"ok", "error"} \cup (IF dead THEN {"cancel"} ELSE {})}
      [] OTHER -> {Ran(o, V("envelope"), jobs) : o \in IF dead THEN {"error", "cancel"} ELSE {"ok", "fail", "error"}}

\* Dispatch: what a command that is no def does.
Run(args, how) ==
    CASE ArgText(args) \in {"start", "fire"} -> spawnJob(args, how)
      [] ArgText(args) = "wait"     -> WaitEnvelope(args, how)
      [] ArgText(args) = "kill"     -> KillEnvelope(args, how)
      [] ArgText(args) = "reap"     -> reapJobs
      [] ArgText(args) = "jobs"     -> {Ran("ok", V("envelope"), jobs)}
      [] ArgText(args) = "registry" -> {Ran("ok", V("string"), jobs), Refuses(how, "error")}
      [] OTHER -> RunExternal(args, how)

defNamed(args) == {n \in DOMAIN code.defs : args # <<>> /\ args[1].op = "word" /\ code.defs[n].name = args[1].t}

\* runDefCall: arity, depth and parameter types, then an executor of its own.
runDefCall(d, args, how) ==
    LET def    == code.defs[d]
        depth  == Cardinality({n \in DOMAIN vm.stack : vm.stack[n].act = "unit" /\ vm.stack[n].unit # 0})
        values == [n \in DOMAIN args |-> bindDefArg(def.params[n], args[n])]
    IN IF \/ Len(args) # Len(def.params)
          \/ depth >= MaxDefCallDepth
          \/ \E n \in DOMAIN values : Broken(values[n])
       THEN Deliver(vm, Outcome("error", V("nil")))
       ELSE Push(vm, newExecutor(d, how, Len(vm.frames), values))

\* A def of that name comes before every other command.
DispatchByPolicy(args, how) ==
    IF defNamed(args) # {}
    THEN /\ vm' = runDefCall(CHOOSE d \in defNamed(args) : TRUE, Tail(args), how)
         /\ UNCHANGED jobs
    ELSE \E r \in Run(args, how) : vm' = Deliver(vm, r.out) /\ jobs' = r.jobs

-----------------------------------------------------------------------------
(* Instructions.                                                           *)

Quiet    == UNCHANGED <<code, jobs, cancelled, issued, fired, result>>
Instr(op, m) == Executing(op) /\ vm' = m /\ Quiet

EnterFrame == Instr("EnterFrame", Step([vm EXCEPT !.frames = PushFrame(@)]))
ExitFrame  == Instr("ExitFrame", Step([vm EXCEPT !.frames = Front(@)]))

EnterDeferScope ==
    Instr("EnterDeferScope", Step(WithTop([vm EXCEPT !.defers = <<>>],
                                          [top EXCEPT !.scopes = Append(@, vm.defers)])))

RegisterDefer ==
    /\ Executing("RegisterDefer")
    /\ issued' = issued + 1
    /\ vm' = Step([vm EXCEPT !.defers = Append(@, [id |-> issued + 1, args |-> top.tmp.args])])
    /\ UNCHANGED <<code, jobs, cancelled, fired, result>>

RunDefers == Instr("RunDefers", Drain(vm, vm.defers, "defers"))

Valued(v) == IF Broken(v) THEN End(vm, v.k) ELSE Keep(vm, [o |-> "value", v |-> v, args |-> <<>>])

Eval ==
    Executing("Eval") /\ \E v \in evalExpr(vm.frames, dead, instr.es[1]) : Instr("Eval", Valued(v))

BuildArgs ==
    Executing("BuildArgs") /\ \E as \in evalArgs(vm.frames, dead, instr.es) :
        Instr("BuildArgs", IF BadArgs(as) THEN End(vm, Last(as).v.k)
                           ELSE Keep(vm, [o |-> "args", v |-> V("nil"), args |-> as]))

DispatchCommand ==
    /\ Executing("DispatchCommand")
    /\ DispatchByPolicy(top.tmp.args, "cmd")
    /\ UNCHANGED <<code, cancelled, issued, fired, result>>

DispatchBind ==
    /\ Executing("DispatchBind")
    /\ DispatchByPolicy(top.tmp.args, "bind")
    /\ UNCHANGED <<code, cancelled, issued, fired, result>>

Bound(m, x, v) == [m EXCEPT !.frames = Set(@, x, v)]
BindName  == Instr("BindName", Step(Bound(vm, instr.xs[1], top.tmp.v)))
BindParam == Instr("BindParam", Step(Bound(vm, instr.xs[1], top.args[instr.to[1]])))

\* A guard's target gets the value; a let's the outcome with the value in it.
ApplyBind ==
    LET guard == instr.xs[2] = "guard" IN
    Instr("ApplyBind", IF guard /\ top.tmp.o = "fail" THEN Goto(vm, instr.to[1])
                       ELSE Step(Bound(vm, instr.xs[1], IF guard THEN top.tmp.v ELSE V("envelope"))))

\* Several names take the elements of a list of just that length.
Destructured(m, slots, v) ==
    IF v.k # "list" \/ Len(v.es) # Len(slots) THEN End(m, "error")
    ELSE [m EXCEPT !.frames = FoldLeft(LAMBDA fs, n : Set(fs, slots[n], IndexValue(v, n)), @,
                                       [n \in DOMAIN slots |-> n])]
BindDestructure ==
    LET m == Destructured(vm, instr.xs, top.tmp.v)
    IN Instr("BindDestructure", IF Current(m).mode = "exit" THEN m ELSE Step(m))

EmitResult     == Instr("EmitResult", Step(vm))
EmitBindResult == Instr("EmitBindResult", Step(vm))
Jump           == Instr("Jump", Goto(vm, instr.to[1]))
Stop           == Instr("Stop", End(vm, "done"))
FallOff        == InUnit("run") /\ top.i > Len(block) /\ vm' = End(vm, "done") /\ Quiet

Branch ==
    Instr("Branch", IF ~isBool(top.tmp.v) THEN End(vm, "error")
                    ELSE Goto(vm, instr.to[IF top.tmp.v.k = "true" THEN 1 ELSE 2]))

ReturnValue ==
    Instr("ReturnValue", Goto(WithTop(vm, [top EXCEPT !.ret = top.tmp.v, !.hasReturn = TRUE]), instr.to[1]))

\* The error of a failed guard or of a poll that ran out of time.
PropagateError == Instr("PropagateError", End(vm, "error"))

(* assert and require.                                                     *)

Asserted(pass) ==
    vm' = CASE pass -> Step(vm)
            [] ~pass /\ instr.xs[1] = "require" -> End(vm, "error")
            [] OTHER -> Step([vm EXCEPT !.tally = @ \cup {"assert"}])

\* ok and fail run a command, never a def.
AssertVerb ==
    \E as \in evalArgs(vm.frames, dead, instr.es) :
        IF as = <<>> \/ BadArgs(as)
        THEN vm' = End(vm, IF as = <<>> THEN "error" ELSE Last(as).v.k) /\ UNCHANGED jobs
        ELSE \E r \in Run(as, "bind") :
                /\ jobs' = r.jobs
                /\ Asserted((r.out.o = "ok") = (instr.xs[2] \in {"ok", "not fail"}))

AssertExpr ==
    /\ UNCHANGED jobs
    /\ \E v \in evalExpr(vm.frames, dead, instr.es[1]) :
          IF instr.es[1] = Lit("null") \/ ~isBool(v)
          THEN vm' = End(vm, IF Broken(v) THEN v.k ELSE "error")
          ELSE Asserted(v.k = "true")

AssertClause ==
    /\ Executing("Assert")
    /\ IF instr.xs[1] = "assert" /\ vm.polls > 0
       THEN vm' = End(vm, "error") /\ UNCHANGED jobs
       ELSE IF instr.xs[2] = "" THEN AssertExpr ELSE AssertVerb
    /\ UNCHANGED <<code, cancelled, issued, fired, result>>

(* Loops.                                                                  *)

newLoop(collect) ==
    [list |-> top.tmp.v, n |-> 1, names |-> IF collect THEN SubSeq(instr.xs, 3, Len(instr.xs)) ELSE instr.xs,
     body |-> instr.to[1], exit |-> instr.to[2], frames |-> Len(vm.frames),
     target |-> IF collect THEN instr.xs[1] ELSE "", guard |-> collect /\ instr.xs[2] = "guard",
     collect |-> collect, values |-> <<>>]

\* The iteration's frame, with the element's names in it.
beginIteration(m, loop) ==
    LET in   == [m EXCEPT !.frames = PushFrame(@)]
        elem == IndexValue(loop.list, loop.n)
        next == IF Len(loop.names) = 1 THEN Bound(in, loop.names[1], elem) ELSE Destructured(in, loop.names, elem)
    IN IF Current(next).mode = "exit" THEN next ELSE Goto(next, loop.body)

finaliseCollect(m, loop) ==
    IF ~loop.collect THEN m
    ELSE Bound(m, loop.target, IF loop.guard THEN ListOf(loop.values) ELSE V("envelope"))

\* The innermost loop is over; frames opened in it are dropped.
LoopOver(m, loop) ==
    LET out == [WithTop(m, [Current(m) EXCEPT !.loops = Front(@)]) EXCEPT !.frames = PopTo(@, loop.frames)]
    IN Goto(finaliseCollect(out, loop), loop.exit)

advanceLoop(m, loop) ==
    LET on == [loop EXCEPT !.n = @ + 1] IN
    IF loop.n = Len(loop.list.es) THEN LoopOver(m, loop)
    ELSE beginIteration([WithTop(m, [Current(m) EXCEPT !.loops = Append(Front(@), on)])
                            EXCEPT !.frames = PopTo(@, loop.frames)], on)

OpenLoop(loop) ==
    CASE loop.list.k # "list" -> End(vm, "error")
      [] loop.list.k = "list" /\ loop.list.es = <<>> -> Goto(finaliseCollect(vm, loop), loop.exit)
      [] OTHER -> beginIteration(WithTop(vm, [top EXCEPT !.loops = Append(@, loop)]), loop)

ForEach         == Instr("ForEach", OpenLoop(newLoop(FALSE)))
ForEachCollect  == Instr("ForEachCollect", OpenLoop(newLoop(TRUE)))
ForEachContinue == Instr("ForEachContinue", advanceLoop(vm, Last(top.loops)))
ExitLoop        == Instr("ExitLoop", LoopOver(vm, Last(top.loops)))

CollectProduce ==
    LET loop == Last(top.loops)
        kept == IF top.tmp.o = "ok" THEN [loop EXCEPT !.values = Append(@, top.tmp.v)] ELSE loop
    IN Instr("CollectProduce", IF loop.guard /\ top.tmp.o = "fail" THEN End(vm, "error") ELSE advanceLoop(vm, kept))

(* Polls.                                                                  *)

BeginPoll ==
    LET poll == [attempt |-> instr.to[1], timeout |-> instr.to[2], done |-> instr.to[3],
                 frames |-> Len(vm.frames), scopes |-> Len(top.scopes), loops |-> Len(top.loops),
                 tries |-> 1, failed |-> FALSE, dirty |-> FALSE]
    IN Instr("BeginPoll", Goto(WithTop([vm EXCEPT !.polls = @ + 1], [top EXCEPT !.polls = Append(@, poll)]),
                               poll.attempt))

\* A helper's retry travels up to the unit the poll is in.
RetryPoll ==
    Instr("RetryPoll",
          IF top.polls # <<>> THEN Deliver(vm, Outcome("retry", V("nil")))
          ELSE End(vm, IF top.unit # 0 /\ vm.polls > 0 THEN "retry" ELSE "error"))

\* drainToAttemptStart, one scope at a time.
DrainAttempt ==
    /\ InUnit("retry") /\ Len(top.scopes) > Last(top.polls).scopes
    /\ vm' = Drain(vm, vm.defers, "retry")
    /\ Quiet

\* Mutant: the frames of the attempt stay open.
ContinueOrTimeoutFramed ==
    /\ InUnit("retry") /\ Len(top.scopes) = Last(top.polls).scopes
    /\ LET poll == Last(top.polls)
           m(p) == WithTop(vm, [top EXCEPT !.mode = "run", !.polls = Append(Front(@), p)])
       IN \/ vm' = Goto(m([poll EXCEPT !.failed = TRUE]), poll.timeout)
          \/ /\ poll.tries < MaxAttempts
             /\ vm' = Goto(m([poll EXCEPT !.tries = @ + 1]), poll.attempt)
    /\ Quiet

\* continueOrTimeout, once the attempt is drained.
ContinueOrTimeout ==
    /\ InUnit("retry") /\ Len(top.scopes) = Last(top.polls).scopes
    /\ LET poll   == Last(top.polls)
           m(p)   == [WithTop(vm, [top EXCEPT !.mode = "run", !.polls = Append(Front(@), p)])
                         EXCEPT !.frames = PopTo(@, poll.frames)]
       IN \/ vm' = Goto(m([poll EXCEPT !.failed = TRUE]), poll.timeout)
          \/ /\ poll.tries < MaxAttempts
             /\ vm' = Goto(m([poll EXCEPT !.tries = @ + 1]), poll.attempt)
    /\ Quiet

-----------------------------------------------------------------------------
(* Cleanup and the end of a unit.                                          *)

\* Mutant: commands run in the order they were deferred.
DrainOneInOrder ==
    /\ Running /\ top.act = "drain" /\ top.todo # <<>>
    /\ fired' = Append(fired, Head(top.todo).id)
    /\ DispatchByPolicy(Head(top.todo).args, "bind")
    /\ UNCHANGED <<code, cancelled, issued, result>>

\* runDefers dispatches the newest command that is left; all of them run.
DrainOne ==
    /\ Running /\ top.act = "drain" /\ top.todo # <<>>
    /\ fired' = Append(fired, Last(top.todo).id)
    /\ DispatchByPolicy(Last(top.todo).args, "bind")
    /\ UNCHANGED <<code, cancelled, issued, result>>

\* What RunDefers does with the failures: a def's make its call fail; an
\* attempt's are fatal to the poll, the helper's retry included.
RanDefers(m, failed) ==
    LET a      == Current(m)
        policy == Blocks(a.unit)[a.b][a.i].xs[1]
        left   == LeaveScope(WithTop(m, [a EXCEPT !.fails = @ + (IF policy = "def" THEN failed ELSE 0)]))
        fatal  == policy = "attempt" /\ failed > 0 /\ (a.polls # <<>> \/ (a.unit # 0 /\ m.polls > 0))
    IN IF fatal THEN End(left, "error") ELSE Step(left)

\* The retry that a helper asked for goes on whatever the drain came to.
Soiled(m, failed) ==
    WithTop(m, [Current(m) EXCEPT !.polls[Len(Current(m).polls)].dirty = @ \/ failed > 0])

\* Mutant: no cleanup is under way once a drain is over.
DrainEndFlat ==
    /\ Running /\ top.act = "drain" /\ top.todo = <<>>
    /\ LET m == [Pop(vm) EXCEPT !.draining = FALSE] IN
       vm' = CASE top.why = "defers" -> RanDefers(m, top.failed)
               [] top.why = "retry"  -> LeaveScope(Soiled(m, top.failed))
               [] top.why = "exit"   -> LeaveScope(m)
    /\ Quiet

DrainEnd ==
    /\ Running /\ top.act = "drain" /\ top.todo = <<>>
    /\ LET m == [Pop(vm) EXCEPT !.draining = top.prev] IN
       vm' = CASE top.why = "defers" -> RanDefers(m, top.failed)
               [] top.why = "retry"  -> LeaveScope(Soiled(m, top.failed))
               [] top.why = "exit"   -> LeaveScope(m)
    /\ Quiet

\* Mutant: an early exit drops the scopes it leaves.
UnwindScopeDropped ==
    /\ InUnit("exit") /\ top.scopes # <<>>
    /\ vm' = LeaveScope(vm)
    /\ Quiet

\* unwindOnExit drains the scopes an early exit left open.
UnwindScope ==
    /\ InUnit("exit") /\ top.scopes # <<>>
    /\ vm' = Drain(vm, vm.defers, "exit")
    /\ Quiet

Unwound == [Pop(vm) EXCEPT !.frames = PopTo(@, top.base)]

\* callDef, callDefAsBind: a def's own failed cleanup fails a bind of it.
DefDone ==
    /\ InUnit("exit") /\ top.scopes = <<>> /\ top.unit # 0
    /\ vm' = Deliver(Unwound,
                CASE top.end # "done" -> Outcome(top.end, V("nil"))
                  [] top.end = "done" /\ top.how = "cmd" -> Outcome("ok", V("nil"))
                  [] OTHER -> Outcome(IF top.fails > 0 THEN "fail" ELSE "ok",
                                      IF top.hasReturn THEN top.ret ELSE V("envelope")))
    /\ Quiet

\* The job scope closes: a listed job nobody waited for or killed is a leak
\* and is killed.  Then Run says how the script went.
ScriptDone ==
    /\ InUnit("exit") /\ top.scopes = <<>> /\ top.unit = 0
    /\ LET leaks == {n \in DOMAIN jobs : jobs[n].listed /\ ~jobs[n].managed}
           all   == vm.tally \cup (IF leaks = {} THEN {} ELSE {"leak"})
       IN /\ jobs' = [n \in DOMAIN jobs |-> [jobs[n] EXCEPT !.done = @ \/ n \in leaks]]
          /\ vm' = [Unwound EXCEPT !.tally = all]
          /\ result' = CASE top.end = "cancel" -> "cancelled"
                          [] top.end \in {"error", "retry"} -> "failed"
                          [] OTHER -> IF all = {} THEN "ok" ELSE "failed"
    /\ UNCHANGED <<code, cancelled, issued, fired>>

-----------------------------------------------------------------------------
(* The environment, and the whole.                                         *)

JobExits ==
    /\ Running
    /\ \E n \in DOMAIN jobs, rc \in {"ok", "fail"} :
          ~jobs[n].done /\ jobs' = [jobs EXCEPT ![n].done = TRUE, ![n].rc = rc]
    /\ UNCHANGED <<code, vm, cancelled, issued, fired, result>>

Cancel == /\ Running /\ ~cancelled
          /\ cancelled' = TRUE
          /\ UNCHANGED <<code, vm, jobs, issued, fired, result>>

ExecStep ==
    \/ EnterFrame \/ ExitFrame \/ EnterDeferScope \/ RegisterDefer \/ RunDefers
    \/ Eval \/ BuildArgs \/ DispatchCommand \/ DispatchBind \/ ApplyBind
    \/ BindName \/ BindParam \/ BindDestructure \/ EmitResult \/ EmitBindResult
    \/ Jump \/ Branch \/ Stop \/ FallOff \/ ReturnValue \/ PropagateError \/ AssertClause
    \/ ForEach \/ ForEachCollect \/ ForEachContinue \/ ExitLoop \/ CollectProduce
    \/ BeginPoll \/ RetryPoll \/ DrainAttempt \/ ContinueOrTimeout
    \/ DrainOne \/ DrainEnd \/ UnwindScope \/ DefDone \/ ScriptDone
=============================================================================
