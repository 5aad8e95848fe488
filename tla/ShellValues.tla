---------------------------- MODULE ShellValues ----------------------------
(***************************************************************************)
(* Values and the evaluation of expressions.  A value is its kind, the     *)
(* elements of a list and the job behind a job handle; which number or     *)
(* text it is is left out, so an evaluation has a set of outcomes.  error  *)
(* is an evaluation that fails, cancel one that fails because the run was  *)
(* cancelled.  Fields, and builtins and defs as the head of a thread, are  *)
(* left out.                                                               *)
(***************************************************************************)
EXTENDS ShellCheck

CONSTANT MaxIter       \* the longest list range and jq make

V(k)       == [k |-> k, es |-> <<>>, job |-> 0]
ListOf(vs) == [V("list") EXCEPT !.es = vs]
JobOf(n)   == [V("job") EXCEPT !.job = n]
Bools      == {V("true"), V("false")}
Broken(v)  == v.k \in {"error", "cancel"}

isBool(v)       == v.k \in {"true", "false"}
IsAbsent(v)     == v.k \in {"nil", "null"}
IsStructured(v) == v.k \in {"list", "record", "envelope", "job", "pair", "netns-pair"}
compareKind(v)  == CASE isBool(v) -> "bool"
                     [] v.k \in {"null", "number", "string"} -> v.k
                     [] OTHER -> ""

\* A list keeps no null: an element that was null reads back as absent.
IndexValue(v, n) == IF v.es[n].k = "null" THEN V("nil") ELSE v.es[n]

(* Frames: the names in scope, innermost last.  A callee sees its caller's.*)
Holding(fs, x) == {n \in DOMAIN fs : x \in DOMAIN fs[n]}
Get(fs, x) == LET ns == Holding(fs, x) IN
              IF ns = {} THEN V("error") ELSE fs[CHOOSE n \in ns : \A m \in ns : m <= n][x]
Set(fs, x, v) == IF x \in {"_", ""} THEN fs ELSE [fs EXCEPT ![Len(fs)] = (x :> v) @@ @]
PushFrame(fs) == Append(fs, <<>>)
PopTo(fs, n)  == SubSeq(fs, 1, n)

literalValueParts(e) ==
    CASE e.op = "quoted" -> V("string")
      [] e.t \in {"true", "false", "null"} -> V(e.t)
      [] OTHER -> V(IF IsJSONNumber(e.t) THEN "number" ELSE "string")

\* Text that is to be a number may not be one, and / and % may divide by zero.
evalArithmetic(op, l, r) ==
    IF \E v \in {l, r} : v.k \notin {"number", "string"} THEN {V("error")}
    ELSE IF {l.k, r.k} = {"number"} /\ op \in {"+", "-", "*"} THEN {V("number")}
    ELSE {V("number"), V("error")}

evalCompare(op, l, r) ==
    LET lk == compareKind(l)
        rk == compareKind(r)
        equality == op \in {"==", "!="}
    IN CASE "" \in {lk, rk} -> {V("error")}
         [] "" \notin {lk, rk} /\ "null" \in {lk, rk} ->
              IF ~equality THEN {V("error")}
              ELSE {V(IF (op = "==") = (lk = rk) THEN "true" ELSE "false")}
         [] OTHER -> CASE lk # rk -> {V("error")}
                       [] lk = rk /\ lk = "bool" ->
                            IF ~equality THEN {V("error")}
                            ELSE {V(IF (op = "==") = (l = r) THEN "true" ELSE "false")}
                       [] OTHER -> Bools

evalNotEmpty(v) ==
    CASE IsAbsent(v)  -> {V("false")}
      [] isBool(v)    -> {v}
      [] v.k = "list" -> {V(IF v.es = <<>> THEN "false" ELSE "true")}
      [] IsStructured(v) /\ v.k \notin {"list", "record"} -> {V("true")}
      [] OTHER -> Bools

\* What jq may print: any JSON, or nothing at all.
jqResults == {V("error"), V("null"), V("number"), V("string"), V("true"), V("false"),
              ListOf(<<>>), ListOf(<<V("number")>>), V("record")}

\* A call of a pure builtin on its arguments' values.
evalPureCall(e, vs) ==
    CASE e.t = "jq"    -> jqResults
      [] e.t = "range" -> IF vs[1].k \notin {"number", "string"} THEN {V("error")}
                          ELSE {V("error")} \cup {ListOf([i \in 1 .. n |-> V("number")]) : n \in 0 .. MaxIter}
      [] e.t = "zip"   -> IF vs[1].k # "list" \/ vs[2].k # "list" THEN {V("error")}
                          ELSE IF Len(vs[1].es) # Len(vs[2].es) THEN {V("error")}
                          ELSE {ListOf([i \in DOMAIN vs[1].es |-> ListOf(<<vs[1].es[i], vs[2].es[i]>>)])}
      [] e.t \in {"u32le", "u64le"} -> {V("string"), V("error")}
      [] OTHER -> Bools \cup {V("error")}

\* The outcomes of evaluating operands left to right: their values, or the
\* first one that breaks.
RECURSIVE Operands(_)
Operands(sets) ==
    IF sets = <<>> THEN {<<>>}
    ELSE UNION {IF Broken(v) THEN {<<v>>} ELSE {<<v>> \o rest : rest \in Operands(Tail(sets))}
                  : v \in Head(sets)}
Breaks(vs) == vs # <<>> /\ Broken(Last(vs))

\* A var reference as an argument is absent when its value is null.
argValue(v) == IF v.k = "null" THEN V("nil") ELSE v

\* An external command on the right of |>; dead says its context is cancelled.
threadResults(dead) == {V("envelope"), V("error")} \cup (IF dead THEN {V("cancel")} ELSE {})

\* Logical operators stop at the left operand when it decides.
evalLogical(op, ls, rs) ==
    LET right == UNION {IF Broken(r) THEN {r} ELSE IF isBool(r) THEN {r} ELSE {V("error")} : r \in rs}
        stop  == IF op = "and" THEN "false" ELSE "true"
    IN UNION {CASE Broken(l) -> {l}
                [] ~Broken(l) /\ ~isBool(l) -> {V("error")}
                [] OTHER -> IF l.k = stop THEN {l} ELSE right : l \in ls}

evalNot(v) == {CASE v.k = "true" -> V("false") [] v.k = "false" -> V("true") [] OTHER -> V("error")}

evalNegate(v) == CASE v.k = "number" -> {V("number")}
                   [] v.k = "string" -> {V("number"), V("error")}
                   [] OTHER -> {V("error")}

RECURSIVE evalExpr(_, _, _)
evalExpr(fs, dead, e) ==
    LET all  == Operands([n \in DOMAIN e.es |-> evalExpr(fs, dead, e.es[n])])
        lift(F(_)) == UNION {IF Breaks(vs) THEN {Last(vs)} ELSE F(vs) : vs \in all}
    IN CASE e.op \in {"lit", "quoted"} -> {literalValueParts(e)}
         [] e.op = "text"     -> {V("string")}
         [] e.op = "var"      -> {Get(fs, e.t)}
         [] e.op = "adapter"  -> {V("error")}
         [] e.op = "field"    -> evalExpr(fs, dead, e.es[1])
         [] e.op = "list"     -> lift(LAMBDA vs : {ListOf(vs)})
         [] e.op = "record"   -> lift(LAMBDA vs : {V("record")})
         [] e.op = "interp"   -> lift(LAMBDA vs : {V("string")})
         [] e.op = "binary"   -> lift(LAMBDA vs : IF e.t \in Arithmetic
                                                  THEN evalArithmetic(e.t, vs[1], vs[2])
                                                  ELSE evalCompare(e.t, vs[1], vs[2]))
         [] e.op = "unary"    -> lift(LAMBDA vs : evalNotEmpty(vs[1]))
         [] e.op = "not"      -> lift(LAMBDA vs : evalNot(vs[1]))
         [] e.op = "negate"   -> lift(LAMBDA vs : evalNegate(vs[1]))
         [] e.op = "logical"  -> evalLogical(e.t, evalExpr(fs, dead, e.es[1]), evalExpr(fs, dead, e.es[2]))
         [] e.op = "pure"     -> lift(LAMBDA vs : IF \E n \in DOMAIN vs : vs[n].k = "nil" /\ e.es[n].op # "var"
                                                  THEN {V("error")}
                                                  ELSE evalPureCall(e, [n \in DOMAIN vs |-> argValue(vs[n])]))
         [] e.op = "matches"  ->
              LET rows == [n \in DOMAIN e.es[2].es |-> e.es[2].es[n].es[1]]
                  pats == SelectSeq(rows, LAMBDA p : p.op \notin {"pred", "block"})
                  row  == Operands([n \in DOMAIN pats |-> evalExpr(fs, dead, pats[n])])
              IN UNION {IF Broken(l) THEN {l} ELSE Bools \cup {V("error")} : l \in evalExpr(fs, dead, e.es[1])}
                 \cup {Last(vs) : vs \in {r \in row : Breaks(r)}}
         [] e.op = "thread"   -> LET l == evalExpr(fs, dead, e.es[1]) IN
                                 {v \in l : Broken(v)} \cup threadResults(dead)
                                 \cup (IF \E n \in 2 .. Len(e.es) : e.es[n].op = "var" /\ Holding(fs, e.es[n].t) = {}
                                       THEN {V("error")} ELSE {})

-----------------------------------------------------------------------------
(* Arguments.  A word and a quoted literal stay what they are; anything    *)
(* else is passed as its value.                                            *)

Arg(op, t, v) == [op |-> op, t |-> t, v |-> v]

evalArg(fs, dead, e) ==
    LET value(v) == CASE Broken(v) -> Arg("error", "", v)
                      [] ~Broken(v) /\ e.op # "var" /\ v.k = "nil" -> Arg("error", "", V("error"))
                      [] e.op = "adapter" /\ IsAbsent(v) -> Arg("error", "", V("error"))
                      [] OTHER -> Arg(IF e.op = "adapter" THEN "adapter" ELSE "value", "", argValue(v))
    IN CASE e.op = "lit"     -> {Arg("word", e.t, V("string"))}
         [] e.op = "quoted"  -> {Arg("quoted", e.t, V("string"))}
         [] e.op = "adapter" -> {value(Get(fs, e.t))}
         [] OTHER -> {value(v) : v \in evalExpr(fs, dead, e)}

\* The argument lists a command form may evaluate to; the last one of a list
\* is an error if it could not be evaluated further.
RECURSIVE evalArgs(_, _, _)
evalArgs(fs, dead, es) ==
    IF es = <<>> THEN {<<>>}
    ELSE UNION {IF a.op = "error" THEN {<<a>>} ELSE {<<a>> \o rest : rest \in evalArgs(fs, dead, Tail(es))}
                  : a \in evalArg(fs, dead, es[1])}
BadArgs(as) == as # <<>> /\ Last(as).op = "error"

\* A parameter's value: as it comes, or of the declared type.
scalarKind(v) == IF isBool(v) THEN "bool" ELSE IF v.k \in {"string", "number"} THEN v.k ELSE ""
bindDefArg(p, a) ==
    IF p.es = <<>> THEN a.v
    ELSE LET type == p.es[1].t IN
         CASE a.op = "word"   -> (CASE type = "number" -> V(IF IsJSONNumber(a.t) THEN "number" ELSE "error")
                                    [] type = "bool"   -> V(IF a.t \in {"true", "false"} THEN a.t ELSE "error")
                                    [] OTHER -> V("string"))
           [] a.op = "quoted" -> V(IF type = "string" THEN "string" ELSE "error")
           [] OTHER -> IF scalarKind(a.v) = type THEN a.v ELSE V("error")
=============================================================================
