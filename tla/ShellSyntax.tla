---------------------------- MODULE ShellSyntax ----------------------------
(***************************************************************************)
(* The surface language of bpfman-shell: the recursive-descent parser over *)
(* the tokeniser's output and the source formatter (`bpfman-shell fmt`).   *)
(*                                                                         *)
(* A source text is a sequence of lexemes.  A lexeme is the token the      *)
(* tokeniser makes of it, or Glue, which says that no blank separates its  *)
(* neighbours; Unglue merges glued words the way lexWord does.  Texts      *)
(* stand for themselves; paths of references, positions, comments and line *)
(* layout are left out.                                                    *)
(*                                                                         *)
(* Expressions and statements are uniform trees: op is the node type of    *)
(* ast_expr.go and ast_stmt.go, t its text, es its expressions and body    *)
(* its statements.                                                         *)
(***************************************************************************)
EXTENDS Integers, Sequences, SequencesExt, TLC

-----------------------------------------------------------------------------
(* Trees.                                                                  *)

N(op, t, es) == [op |-> op, t |-> t, es |-> es]
None         == N("none", "", <<>>)
Lit(t)       == N("lit", t, <<>>)
Quoted(t)    == N("quoted", t, <<>>)
Var(x)       == N("var", x, <<>>)
Name(x)      == N("name", x, <<>>)

Stmt(op, t, es, body) == [op |-> op, t |-> t, es |-> es, body |-> body]

(* Lexemes.  A quoted literal remembers its quotes; an interpolated string *)
(* carries its segments: texts, and the lexemes between ${ and }.          *)

W(t)        == [k |-> "word", t |-> t]
Str(t, q)   == [k |-> "quoted", t |-> t, q |-> q]
Ref(x)      == [k |-> "var", t |-> x]
Adapter(x)  == [k |-> "adapter", t |-> x]
Interp(ss)  == [k |-> "interp", t |-> "", segs |-> ss]
Sep(t)      == [k |-> "sep", t |-> t]
Newline     == Sep("newline")
Assign      == [k |-> "assign", t |-> "="]
Thread      == [k |-> "thread", t |-> "|>"]
Bind        == [k |-> "bind", t |-> "<-"]
Glue        == [k |-> "glue", t |-> ""]
EOF         == [k |-> "eof", t |-> ""]

(* The words the grammar tells apart.                                      *)

BinaryOps   == {"==", "!=", "<", "<=", ">", ">="}
Arithmetic  == {"+", "-", "*", "/", "%"}
Brackets    == {"(", ")", "[", "]", "{", "}"}
\* A word of one character that ends the word before it.
Solo        == Brackets \cup {"+", "*", "%"}
CommaWords  == {"a,", "1,"}
BadNumbers  == {"5x", "-5x"}
PureArity   == [jq |-> 2, u32le |-> 1, u64le |-> 1, range |-> 1, zip |-> 2,
                contains |-> 2, null |-> 1, present |-> 1, missing |-> 1,
                empty |-> 1] @@ ("path-exists" :> 1)
ReservedDefNames ==
    {"def", "defer", "let", "guard", "if", "elif", "else", "foreach", "in",
     "retry", "poll", "return", "break", "continue", "assert", "require",
     "and", "or", "not", "matches", "true", "false"}
\* Words that are no identifier.
IsIdent(t) == t \notin Solo \cup BinaryOps \cup Arithmetic \cup CommaWords \cup BadNumbers
                      \cup {"0", "1", "2", "-1", "not-empty", "path-exists", "x:", "y:", ":", "file:x", ""}
\* A name written with its colon, as a record field or a matches path.
Colon      == ("x:" :> "x") @@ ("y:" :> "y")
\* Texts that are written in single quotes: they hold a double quote or a $.
NeedsSingle(t) == t \in {"a$"}

-----------------------------------------------------------------------------
(* Tokeniser: what it makes of adjacent lexemes.                           *)

\* lexWord runs on until a blank, a bracket, a quote, $ or one of + * %.
Merges(l, r) == /\ l.k = "word" /\ r.k \in {"word", "adapter"}
                /\ l.t \notin Solo /\ r.t \notin Solo

RECURSIVE Unglue(_)
Unglue(src) ==
    IF \A i \in DOMAIN src : src[i] # Glue THEN src
    ELSE LET g == CHOOSE i \in DOMAIN src : src[i] = Glue /\ \A j \in 1 .. i - 1 : src[j] # Glue
             l == src[g - 1]
             r == src[g + 1]
             joined == IF Merges(l, r)
                       THEN IF r.k = "word" THEN <<W(l.t \o r.t)>>
                                            ELSE <<W(l.t \o "file:"), Ref(r.t)>>
                       ELSE <<l, r>>
         IN Unglue(SubSeq(src, 1, g - 2) \o joined \o SubSeq(src, g + 2, Len(src)))

\* scanInterpBody: a double quote inside ${...} ends the string early.
Lexes(src) ==
    \A i \in DOMAIN src : src[i].k = "interp" =>
        \A j \in DOMAIN src[i].segs :
            LET s == src[i].segs[j] IN
            ~s.lit => /\ s.src # <<>>
                      /\ \A n \in DOMAIN s.src :
                            /\ s.src[n].k # "interp"
                            /\ s.src[n].k = "quoted" => s.src[n].q = "single"

-----------------------------------------------------------------------------
(* Parser.  A parsing function takes the tokens and a position and returns *)
(* the tree and the position after it; position 0 is a parse error.        *)

At(ts, i)       == IF i \in DOMAIN ts THEN ts[i] ELSE EOF
IsW(ts, i, w)   == At(ts, i).k = "word" /\ At(ts, i).t = w
InW(ts, i, ws)  == At(ts, i).k = "word" /\ At(ts, i).t \in ws
Err             == [i |-> 0, v |-> None]
Ok(i, v)        == [i |-> i, v |-> v]
Then(r, F(_))   == IF r.i = 0 THEN Err ELSE F(r)
Build(r, F(_))  == IF r.i = 0 THEN Err ELSE Ok(r.i, F(r.v))
Require(v, i)   == IF v = None THEN Err ELSE Ok(i, v)

RECURSIVE SkipSeps(_, _)
SkipSeps(ts, i) == IF At(ts, i).k = "sep" THEN SkipSeps(ts, i + 1) ELSE i

\* stripSeps: separators inside braces are kept, a matches block needs them.
RECURSIVE StripSeps(_, _)
StripSeps(ts, depth) ==
    IF ts = <<>> THEN <<>>
    ELSE LET t == Head(ts)
             d == IF IsW(ts, 1, "{") THEN depth + 1
                  ELSE IF IsW(ts, 1, "}") /\ depth > 0 THEN depth - 1 ELSE depth
         IN (IF t.k = "sep" /\ depth = 0 THEN <<>> ELSE <<t>>) \o StripSeps(Tail(ts), d)

\* What the grammar calls form at position i (parseAt, below).
RECURSIVE parseAt(_, _, _)

\* A whole token run read as one expression: the tree, or None.
parseExpression(tokens) == parseAt("expression", tokens, 1).v
parseWhole(tokens) ==
    LET ts == StripSeps(tokens, 0)
        whole(r) == IF r.i = Len(ts) + 1 THEN r ELSE Err
    IN IF ts = <<>> THEN Err ELSE whole(parseAt("or", ts, 1))

(* The left-associative levels: their operators, and the level of their    *)
(* operands.                                                               *)
Level   == [or |-> {"or"}, and |-> {"and"}, add |-> {"+", "-"}, mul |-> {"*", "/", "%"}]
Operand == [or |-> "and", and |-> "not", add |-> "mul", mul |-> "predicate"]

\* The loop of a left-associative level over its already parsed left side.
RECURSIVE chain(_, _, _)
chain(ts, level, l) ==
    LET op == IF level \in {"or", "and"} THEN "logical" ELSE "binary" IN
    IF l.i = 0 \/ ~InW(ts, l.i, Level[level]) THEN l
    ELSE Then(parseAt(Operand[level], ts, l.i + 1), LAMBDA r :
              chain(ts, level, Ok(r.i, N(op, At(ts, l.i).t, <<l.v, r.v>>))))

parseLevel(level, ts, i) == chain(ts, level, parseAt(Operand[level], ts, i))

\* parsePredicate's operand must not begin a construct of a looser level.
operandFollowsPred(ts, i) ==
    /\ i + 1 <= Len(ts)
    /\ At(ts, i + 1).k # "thread"
    /\ ~InW(ts, i + 1, BinaryOps \cup Arithmetic \cup {"and", "or", ")"})

parsePredicate(ts, i) ==
    IF IsW(ts, i, "not-empty") /\ operandFollowsPred(ts, i)
    THEN Build(parseAt("term", ts, i + 1), LAMBDA v : N("unary", "not-empty", <<v>>))
    ELSE parseAt("negate", ts, i)

parseComparison(ts, i) ==
    Then(parseAt("add", ts, i), LAMBDA l :
        CASE IsW(ts, l.i, "matches") ->
               Build(IF IsW(ts, l.i + 1, "exhaustive") THEN parseAt("exhaustive", ts, l.i + 2)
                                                       ELSE parseAt("matches", ts, l.i + 1),
                     LAMBDA b : N("matches", "", <<l.v, b>>))
          [] InW(ts, l.i, BinaryOps) ->
               Build(parseAt("add", ts, l.i + 1), LAMBDA v : N("binary", At(ts, l.i).t, <<l.v, v>>))
          [] OTHER -> l)

\* Mutant: not takes everything up to the next or.
parseNotLoose(ts, i) ==
    IF IsW(ts, i, "not") THEN Build(parseAt("and", ts, i + 1), LAMBDA v : N("not", "", <<v>>))
    ELSE parseComparison(ts, i)

parseNot(ts, i) ==
    IF IsW(ts, i, "not") THEN Build(parseAt("not", ts, i + 1), LAMBDA v : N("not", "", <<v>>))
    ELSE parseComparison(ts, i)

\* tryParseExpression over the body of ${...}; a bare name needs no sigil.
parseInterpBody(src) ==
    LET ts == Unglue(src) IN
    IF Len(ts) = 1 /\ ts[1].k = "word" /\ IsIdent(ts[1].t) THEN Var(ts[1].t)
    ELSE parseExpression(ts)

\* One token read as a primary; None is an error.
parsePrimary(t) ==
    CASE t.k = "word"    -> IF t.t = "nil" THEN None ELSE Lit(t.t)
      [] t.k = "quoted"  -> Quoted(t.t)
      [] t.k = "var"     -> Var(t.t)
      [] t.k = "adapter" -> N("adapter", t.t, <<>>)
      [] t.k = "interp"  ->
           LET seg(n) == IF t.segs[n].lit THEN N("text", t.segs[n].t, <<>>)
                                          ELSE parseInterpBody(t.segs[n].src)
               es == [n \in DOMAIN t.segs |-> seg(n)]
           IN IF \E n \in DOMAIN es : es[n] = None THEN None ELSE N("interp", "", es)
      [] OTHER -> None

validateExpressionWordLiteral(t) == t.k = "word" => t.t \notin CommaWords \cup BadNumbers

primaryAt(ts, i) == Require(parsePrimary(At(ts, i)), i + 1)

\* Whether the bare word null is a call: something that may be an argument follows.
canStartPureCallArgToken(ts, i) ==
    \/ At(ts, i).k \in {"quoted", "var", "adapter", "interp"}
    \/ At(ts, i).k = "word" /\ At(ts, i).t \notin BinaryOps \cup Arithmetic \cup {"and", "or", "not"}

\* '(' EXPR ')', with the position at the parenthesis.
parenthesised(ts, i) ==
    IF IsW(ts, i + 1, ")") THEN Err
    ELSE Then(parseAt("or", ts, i + 1), LAMBDA r : IF IsW(ts, r.i, ")") THEN Ok(r.i + 1, r.v) ELSE Err)

\* The elements of a list up to its ']'.
RECURSIVE elements(_, _, _)
elements(ts, i, acc) ==
    LET j == SkipSeps(ts, i) IN
    CASE IsW(ts, j, "]") -> Ok(j + 1, acc)
      [] \/ At(ts, j).k \in {"eof", "thread"}
         \/ InW(ts, j, BinaryOps \cup Arithmetic \cup CommaWords \cup {"and", "or"}) -> Err
      [] OTHER -> Then(parseAt("term", ts, j), LAMBDA r : elements(ts, r.i, Append(acc, r.v)))

parseListLiteral(ts, i) == Build(elements(ts, i + 1, <<>>), LAMBDA es : N("list", "", es))

\* The fields of a record literal up to its '}'.
RECURSIVE fields(_, _, _)
fields(ts, i, acc) ==
    LET j == SkipSeps(ts, i)
        f == Colon[At(ts, j).t]
    IN CASE IsW(ts, j, "}") -> Ok(j + 1, acc)
         [] ~IsW(ts, j, "}") /\ (~InW(ts, j, DOMAIN Colon) \/ \E n \in DOMAIN acc : acc[n].t = f) -> Err
         [] OTHER -> Then(parseAt("term", ts, j + 1), LAMBDA r :
                          fields(ts, r.i, Append(acc, N("field", f, <<r.v>>))))

parseRecordLiteral(ts, i) ==
    LET j == SkipSeps(ts, i + 1) IN
    IF ~IsW(ts, j, "{") THEN Err ELSE Build(fields(ts, j + 1, <<>>), LAMBDA fs : N("record", "", fs))

parsePureCallArg(ts, i) ==
    CASE IsW(ts, i, "(") -> parenthesised(ts, i)
      [] IsW(ts, i, "[") -> parseListLiteral(ts, i)
      [] OTHER -> IF /\ canStartPureCallArgToken(ts, i)
                     /\ validateExpressionWordLiteral(At(ts, i))
                  THEN primaryAt(ts, i) ELSE Err

\* A pure builtin's name and exactly as many primaries as its arity.
parsePureCall(ts, i) ==
    LET name == At(ts, i).t IN
    Then(parseAt("argument", ts, i + 1), LAMBDA a :
        IF PureArity[name] = 1 THEN Ok(a.i, N("pure", name, <<a.v>>))
        ELSE Build(parseAt("argument", ts, a.i), LAMBDA b : N("pure", name, <<a.v, b>>)))

parseTerm(ts, i) ==
    CASE i > Len(ts)         -> Err
      [] IsW(ts, i, "(")      -> parenthesised(ts, i)
      [] IsW(ts, i, "[")      -> parseListLiteral(ts, i)
      [] IsW(ts, i, "record") -> parseRecordLiteral(ts, i)
      [] InW(ts, i, DOMAIN PureArity) ->
            IF IsW(ts, i, "null") /\ ~canStartPureCallArgToken(ts, i + 1)
            THEN primaryAt(ts, i) ELSE parsePureCall(ts, i)
      [] OTHER -> IF validateExpressionWordLiteral(At(ts, i)) THEN primaryAt(ts, i) ELSE Err

\* The command after |>: primaries up to what belongs to a looser level.
RECURSIVE threadArgs(_, _, _)
threadArgs(ts, i, acc) ==
    IF \/ At(ts, i).k \in {"eof", "thread"}
       \/ InW(ts, i, BinaryOps \cup Arithmetic \cup {"and", "or", ")", "]", "}"})
    THEN IF acc = <<>> THEN Err ELSE Ok(i, acc)
    ELSE Then(primaryAt(ts, i), LAMBDA r : threadArgs(ts, r.i, Append(acc, r.v)))

RECURSIVE threads(_, _)
threads(ts, l) ==
    IF l.i = 0 \/ At(ts, l.i).k # "thread" THEN l
    ELSE Then(threadArgs(ts, l.i + 1, <<>>), LAMBDA r : threads(ts, Ok(r.i, N("thread", "", <<l.v>> \o r.v))))

parseThread(ts, i) == threads(ts, parseAt("term", ts, i))

parseNegate(ts, i) ==
    IF IsW(ts, i, "-") THEN Build(parseAt("negate", ts, i + 1), LAMBDA v : N("negate", "", <<v>>))
    ELSE parseThread(ts, i)

(* matches blocks: a table of rows, one to a line.                         *)

\* The end of a row's pattern: the newline or the brace that closes the block.
RECURSIVE patternEnd(_, _)
patternEnd(ts, i) ==
    IF At(ts, i) \in {Newline, EOF} \/ IsW(ts, i, "}") THEN i
    ELSE IF At(ts, i) = Sep(";") \/ InW(ts, i, CommaWords) THEN 0
    ELSE patternEnd(ts, i + 1)

parseMatchEntry(ts, i) ==
    LET path == Colon[At(ts, i).t]
        end  == patternEnd(ts, i + 1)
        row(v) == N("row", path, <<v>>)
    IN CASE ~InW(ts, i, DOMAIN Colon) -> Err
         [] InW(ts, i, DOMAIN Colon) /\ IsW(ts, i + 1, "matches") ->
              Build(IF IsW(ts, i + 2, "exhaustive") THEN parseAt("exhaustive", ts, i + 3)
                                                    ELSE parseAt("matches", ts, i + 2), row)
         [] OTHER ->
              CASE end \in {0, i + 1} -> Err
                [] end = i + 2 /\ InW(ts, i + 1, {"not-empty", "null", "empty"}) ->
                     Ok(end, row(N("pred", At(ts, i + 1).t, <<>>)))
                [] OTHER -> Build(Require(parseExpression(SubSeq(ts, i + 1, end - 1)), end), row)

RECURSIVE entries(_, _, _)
entries(ts, i, acc) ==
    CASE At(ts, i) = Newline -> entries(ts, i + 1, acc)
      [] IsW(ts, i, "}")     -> Ok(i + 1, acc)
      [] OTHER -> Then(parseMatchEntry(ts, i), LAMBDA r : entries(ts, r.i, Append(acc, r.v)))

parseMatchesBlock(ts, i, exhaustive) ==
    IF ~IsW(ts, i, "{") THEN Err
    ELSE Build(entries(ts, i + 1, <<>>), LAMBDA es : N("block", IF exhaustive THEN "exhaustive" ELSE "", es))

-----------------------------------------------------------------------------
(* Statements.                                                             *)

\* The position after the bracket that closes the one at i; 0 if none does.
RECURSIVE closing(_, _, _, _, _)
closing(ts, i, open, shut, depth) ==
    CASE i > Len(ts) -> 0
      [] IsW(ts, i, shut) /\ depth = 1 -> i + 1
      [] OTHER -> closing(ts, i + 1, open, shut,
                          depth + (IF IsW(ts, i, open) THEN 1 ELSE 0)
                                - (IF IsW(ts, i, shut) THEN 1 ELSE 0))

\* recordLiteralTail, matchesBlockTail: a '{' after these tokens belongs to the expression.
blockTail(buf) ==
    \/ InW(buf, Len(buf), {"record", "matches"})
    \/ IsW(buf, Len(buf), "exhaustive") /\ IsW(buf, Len(buf) - 1, "matches")

\* How far a statement's own tokens reach.  blocks: record and matches
\* blocks belong to it; header: separators are skipped and only '{' ends it;
\* bars: the token kinds it must not hold.
StmtRun    == [blocks |-> TRUE,  header |-> FALSE, bars |-> {}]
LetRun     == [blocks |-> TRUE,  header |-> FALSE, bars |-> {"assign"}]
CommandRun == [blocks |-> FALSE, header |-> FALSE, bars |-> {"assign"}]
BindRun    == [blocks |-> FALSE, header |-> FALSE, bars |-> {"assign", "bind"}]
HeaderRun  == [blocks |-> TRUE,  header |-> TRUE,  bars |-> {}]

RECURSIVE take(_, _, _, _, _)
take(ts, i, run, depth, buf) ==
    LET keep(d) == take(ts, i + 1, run, d, Append(buf, At(ts, i)))
        end     == closing(ts, i, "{", "}", 0)
    IN CASE i > Len(ts) -> IF run.header THEN Err ELSE Ok(i, buf)
         [] depth > 0 /\ (At(ts, i).k = "sep" \/ InW(ts, i, {"{", "}"})) -> keep(depth)
         [] depth = 0 /\ At(ts, i).k = "sep" ->
              IF run.header THEN take(ts, i + 1, run, 0, buf) ELSE Ok(i, buf)
         [] depth = 0 /\ IsW(ts, i, "{") ->
              IF run.blocks /\ blockTail(buf)
              THEN IF end = 0 THEN Err ELSE take(ts, end, run, 0, buf \o SubSeq(ts, i, end - 1))
              ELSE Ok(i, buf)
         [] depth = 0 /\ IsW(ts, i, "}") -> IF run.header THEN Err ELSE Ok(i, buf)
         [] At(ts, i).k \in run.bars -> Err
         [] InW(ts, i, {"(", "["}) -> keep(depth + 1)
         [] InW(ts, i, {")", "]"}) -> keep(IF depth > 0 THEN depth - 1 ELSE 0)
         [] OTHER -> keep(depth)

takeStmtTokens(ts, i, run) == take(ts, i, run, 0, <<>>)

\* A token run read as command arguments: the trees, or <<None>>.
RECURSIVE parseCommandArgs(_)
parseCommandArgs(ts) ==
    LET join(v, rest) == IF v = None \/ rest = <<None>> THEN <<None>> ELSE <<v>> \o rest
        group(end, F(_)) == IF end = 0 THEN <<None>>
                            ELSE join(F(end), parseCommandArgs(SubSeq(ts, end, Len(ts))))
    IN CASE ts = <<>> -> <<>>
         [] ts # <<>> /\ IsW(ts, 1, "(") ->
              group(closing(ts, 2, "(", ")", 1), LAMBDA end : parseExpression(SubSeq(ts, 2, end - 2)))
         [] ts # <<>> /\ IsW(ts, 1, "[") ->
              group(closing(ts, 2, "[", "]", 1), LAMBDA end : parseExpression(SubSeq(ts, 1, end - 1)))
         [] ts # <<>> /\ InW(ts, 1, {")", "]"}) -> <<None>>
         [] OTHER -> group(2, LAMBDA end : parsePrimary(ts[1]))

\* A command form up to the end of the statement.
commandForm(ts, i, run) ==
    LET args(a, end) == IF a = <<None>> THEN Err ELSE Ok(end, a) IN
    Then(takeStmtTokens(ts, i, run), LAMBDA r : IF r.v = <<>> THEN Err ELSE args(parseCommandArgs(r.v), r.i))

\* An expression up to the end of the statement.
exprForm(ts, i, run) == Then(takeStmtTokens(ts, i, run), LAMBDA r : Require(parseExpression(r.v), r.i))

nameAt(ts, i) == At(ts, i).k = "word" /\ IsIdent(At(ts, i).t)

\* Whitespace-separated names up to ')'; '_' may repeat.
RECURSIVE names(_, _, _)
names(ts, i, acc) ==
    LET j == SkipSeps(ts, i)
        x == At(ts, j).t
    IN CASE IsW(ts, j, ")") -> Ok(j + 1, acc)
         [] ~IsW(ts, j, ")") /\ ( \/ At(ts, j).k # "word"
                                  \/ ~IsIdent(x)
                                  \/ x # "_" /\ \E n \in DOMAIN acc : acc[n].t = x ) -> Err
         [] OTHER -> names(ts, j + 1, Append(acc, Name(x)))

\* A parenthesised name list binds at least two slots and one real name.
parseParenNameList(ts, i) ==
    Then(names(ts, i + 1, <<>>), LAMBDA r :
        IF Len(r.v) < 2 \/ \A n \in DOMAIN r.v : r.v[n].t = "_" THEN Err ELSE r)

parseForEachNames(ts, i) ==
    CASE IsW(ts, i, "(") ->
           Then(parseParenNameList(ts, i), LAMBDA r : IF \E n \in DOMAIN r.v : r.v[n].t = "in" THEN Err ELSE r)
      [] nameAt(ts, i) /\ At(ts, i).t # "in" ->
           Ok(i + 1, <<Name(At(ts, i).t)>>)
      [] OTHER -> Err

parseBlock(ts, i) == parseAt("body", ts, i)

parseForEachStmt(ts, i) ==
    Then(parseForEachNames(ts, i + 1), LAMBDA ns :
        IF ~IsW(ts, ns.i, "in") THEN Err
        ELSE Then(exprForm(ts, ns.i + 1, HeaderRun), LAMBDA list :
                  Build(parseBlock(ts, list.i), LAMBDA body : Stmt("foreach", "", <<list.v>> \o ns.v, body))))

\* NAME <- COMMAND, or NAME <- foreach whose body ends in a command.
parseBindRHS(ts, i, op, name) ==
    IF IsW(ts, i + 1, "foreach")
    THEN Then(parseForEachStmt(ts, i + 1), LAMBDA fe :
              IF fe.v.body = <<>> \/ Last(fe.v.body).op # "cmd" THEN Err
              ELSE Ok(fe.i, Stmt(op, name, <<>>, <<fe.v>>)))
    ELSE Build(commandForm(ts, i + 1, BindRun), LAMBDA args : Stmt(op, name, args, <<>>))

parseLetStmt(ts, i) ==
    LET x == At(ts, i + 1).t IN
    CASE IsW(ts, i + 1, "(") ->
           Then(parseParenNameList(ts, i + 1), LAMBDA ns :
               IF At(ts, ns.i).k # "assign" THEN Err
               ELSE Build(exprForm(ts, ns.i + 1, LetRun), LAMBDA e :
                          Stmt("destructure", "", Append(ns.v, e), <<>>)))
      [] nameAt(ts, i + 1) /\ At(ts, i + 2).k = "assign" /\ x # "_" ->
           Build(exprForm(ts, i + 3, LetRun), LAMBDA e : Stmt("let", x, <<e>>, <<>>))
      [] nameAt(ts, i + 1) /\ At(ts, i + 2).k = "bind" -> parseBindRHS(ts, i + 2, "bind", x)
      [] OTHER -> Err

parseGuardStmt(ts, i) ==
    IF ~nameAt(ts, i + 1) \/ At(ts, i + 2).k # "bind"
    THEN Err ELSE parseBindRHS(ts, i + 2, "guard", At(ts, i + 1).t)

parseDeferStmt(ts, i) == Build(commandForm(ts, i + 1, StmtRun), LAMBDA args : Stmt("defer", "", args, <<>>))

\* Parameters up to ')': distinct identifiers, none of them '_', each with
\* an optional "name: type".
RECURSIVE parseDefParams(_, _, _)
parseDefParams(ts, i, acc) ==
    LET j     == SkipSeps(ts, i)
        typed == InW(ts, j, DOMAIN Colon)
        k     == SkipSeps(ts, j + 1)
        x     == IF typed THEN Colon[At(ts, j).t] ELSE At(ts, j).t
    IN CASE IsW(ts, j, ")") -> Ok(j + 1, acc)
         [] ~IsW(ts, j, ")") /\ ( \/ At(ts, j).k # "word"
                                  \/ ~IsIdent(x) \/ x = "_"
                                  \/ \E n \in DOMAIN acc : acc[n].t = x
                                  \/ typed /\ ~InW(ts, k, {"number", "string", "bool"}) ) -> Err
         [] OTHER -> parseDefParams(ts, IF typed THEN k + 1 ELSE j + 1,
                        Append(acc, N("param", x, IF typed THEN <<Lit(At(ts, k).t)>> ELSE <<>>)))

parseDefStmt(ts, i) ==
    LET x == At(ts, i + 1).t IN
    IF \/ ~nameAt(ts, i + 1) \/ x \in ReservedDefNames
       \/ ~IsW(ts, i + 2, "(")
    THEN Err
    ELSE Then(parseDefParams(ts, i + 3, <<>>), LAMBDA ps :
              Build(parseBlock(ts, SkipSeps(ts, ps.i)), LAMBDA body : Stmt("def", x, ps.v, body)))

parseReturnStmt(ts, i) == Build(exprForm(ts, i + 1, StmtRun), LAMBDA e : Stmt("return", "", <<e>>, <<>>))

\* poll timeout DUR every DUR { BODY }; durations are positive or refused.
parsePollStmt(ts, i) ==
    IF \/ ~IsW(ts, i + 1, "timeout") \/ ~IsW(ts, i + 2, "dur")
       \/ ~IsW(ts, i + 3, "every") \/ ~IsW(ts, i + 4, "dur")
    THEN Err ELSE Build(parseBlock(ts, i + 5), LAMBDA body : Stmt("poll", "", <<>>, body))

\* retry [MSG] [unless EXPR]: the first word "unless" divides the two.
parseRetryStmt(ts, i) ==
    LET cutAt(ts1) == LET cuts == {n \in DOMAIN ts1 : IsW(ts1, n, "unless")}
                      IN IF cuts = {} THEN Len(ts1) + 1 ELSE CHOOSE n \in cuts : \A m \in cuts : n <= m
        optional(ts1, absent) == IF absent THEN Ok(1, None) ELSE Require(parseExpression(ts1), 1)
        parts(ts1, cut, end) ==
            Then(optional(SubSeq(ts1, 1, cut - 1), cut = 1), LAMBDA msg :
                Then(optional(SubSeq(ts1, cut + 1, Len(ts1)), cut = Len(ts1) + 1), LAMBDA cond :
                     Ok(end, Stmt("retry", "", <<msg.v, cond.v>>, <<>>))))
    IN Then(takeStmtTokens(ts, i + 1, StmtRun), LAMBDA r : parts(r.v, cutAt(r.v), r.i))

\* if, its elifs and its else: the branches in order, the last one without a
\* condition if there is an else.
RECURSIVE branches(_, _, _)
branches(ts, i, acc) ==
    LET j == SkipSeps(ts, i) IN
    CASE IsW(ts, j, "elif") \/ acc = <<>> ->
           Then(exprForm(ts, j + 1, HeaderRun), LAMBDA cond :
               Then(parseBlock(ts, cond.i), LAMBDA body :
                    branches(ts, body.i, Append(acc, Stmt("branch", "", <<cond.v>>, body.v)))))
      [] acc # <<>> /\ IsW(ts, j, "else") ->
           Build(parseBlock(ts, j + 1), LAMBDA body :
                 IF body = <<>> THEN acc ELSE Append(acc, Stmt("else", "", <<>>, body)))
      [] OTHER -> Ok(j, acc)

parseIfStmt(ts, i) == Build(branches(ts, i, <<>>), LAMBDA bs : Stmt("if", "", <<>>, bs))

\* assert and require: [not] ok|fail COMMAND, or an expression.
parseAssertStmt(ts, i) ==
    LET op == At(ts, i).t
        verb(ts1, h, end) ==
            LET clause(args) == IF args = <<None>> THEN Err
                                ELSE Ok(end, Stmt(op, IF h = 2 THEN "not " \o ts1[h].t ELSE ts1[h].t, args, <<>>))
            IN clause(parseCommandArgs(SubSeq(ts1, h + 1, Len(ts1))))
        assertion(ts1, h, end) ==
            IF InW(ts1, h, {"ok", "fail"}) THEN verb(ts1, h, end)
            ELSE Build(Require(parseExpression(ts1), end), LAMBDA e : Stmt(op, "", <<e>>, <<>>))
    IN Then(takeStmtTokens(ts, i + 1, LetRun), LAMBDA r : assertion(r.v, IF IsW(r.v, 1, "not") THEN 2 ELSE 1, r.i))

\* Tokens that can only start an expression.
leadsExpression(ts, i) ==
    \/ At(ts, i).k \in {"var", "quoted", "interp", "adapter"}
    \/ InW(ts, i, {"(", "not", "not-empty", "true", "false"})

parseExprStmt(ts, i) == Build(exprForm(ts, i, StmtRun), LAMBDA e : Stmt("expr", "", <<e>>, <<>>))

parseCommandStmt(ts, i) ==
    IF InW(ts, i, {"{", "}", "["}) THEN Err
    ELSE Build(commandForm(ts, i, CommandRun), LAMBDA args : Stmt("cmd", "", args, <<>>))

\* break and continue take nothing more on their line.
rejectTrailingArgs(ts, i) ==
    IF At(ts, i + 1).k \in {"eof", "sep"} \/ InW(ts, i + 1, {"{", "}"})
    THEN Ok(i + 1, Stmt(At(ts, i).t, "", <<>>, <<>>)) ELSE Err

parseStmt(ts, i) ==
    CASE IsW(ts, i, "if")      -> parseIfStmt(ts, i)
      [] IsW(ts, i, "let")     -> parseLetStmt(ts, i)
      [] IsW(ts, i, "foreach") -> parseForEachStmt(ts, i)
      [] IsW(ts, i, "retry")   -> parseRetryStmt(ts, i)
      [] IsW(ts, i, "poll")    -> parsePollStmt(ts, i)
      [] IsW(ts, i, "return")  -> parseReturnStmt(ts, i)
      [] InW(ts, i, {"break", "continue"}) -> rejectTrailingArgs(ts, i)
      [] IsW(ts, i, "guard")   -> parseGuardStmt(ts, i)
      [] IsW(ts, i, "defer")   -> parseDeferStmt(ts, i)
      [] IsW(ts, i, "def")     -> parseDefStmt(ts, i)
      [] InW(ts, i, {"assert", "require"}) -> parseAssertStmt(ts, i)
      [] leadsExpression(ts, i) -> parseExprStmt(ts, i)
      [] OTHER -> parseCommandStmt(ts, i)

RECURSIVE parseStmts(_, _, _, _)
parseStmts(ts, i, inBlock, acc) ==
    LET j == SkipSeps(ts, i) IN
    IF At(ts, j).k = "eof" \/ (inBlock /\ IsW(ts, j, "}")) THEN Ok(j, acc)
    ELSE Then(parseStmt(ts, j), LAMBDA r : parseStmts(ts, r.i, inBlock, Append(acc, r.v)))

parseBody(ts, i) ==
    IF ~IsW(ts, i, "{") THEN Err
    ELSE Then(parseStmts(ts, i + 1, TRUE, <<>>), LAMBDA r : IF IsW(ts, r.i, "}") THEN Ok(r.i + 1, r.v) ELSE Err)

parseAt(form, ts, i) ==
    CASE form = "program"    -> parseStmts(ts, 1, FALSE, <<>>)
      [] form = "body"       -> parseBody(ts, i)
      [] form = "expression" -> parseWhole(ts)
      [] form \in DOMAIN Operand -> parseLevel(form, ts, i)
      [] form = "not"        -> parseNot(ts, i)
      [] form = "predicate"  -> parsePredicate(ts, i)
      [] form = "negate"     -> parseNegate(ts, i)
      [] form = "term"       -> parseTerm(ts, i)
      [] form = "argument"   -> parsePureCallArg(ts, i)
      [] form = "matches"    -> parseMatchesBlock(ts, i, FALSE)
      [] form = "exhaustive" -> parseMatchesBlock(ts, i, TRUE)

Rejected == <<None>>

\* The program a source text is, or Rejected.
Parse(src) ==
    LET whole(r) == IF r.i = 0 THEN Rejected ELSE r.v IN
    IF ~Lexes(src) THEN Rejected ELSE whole(parseAt("program", Unglue(src), 1))

-----------------------------------------------------------------------------
(* Formatter: the canonical source of a tree.                              *)

Paren(src) == <<W("(")>> \o src \o <<W(")")>>
Block(src) == <<W("{"), Newline>> \o src \o <<W("}")>>
Lines(ss)  == FlattenSeq([n \in DOMAIN ss |-> Append(ss[n], Newline)])

\* writeQuotedLiteralSource
quotes(t) == IF NeedsSingle(t) THEN "single" ELSE "double"

RECURSIVE writeExprSource(_)
RECURSIVE writeMatchesBlockSource(_)


\* Operands are put in parentheses when they are operators themselves.
writeExprAtomSource(e) ==
    IF e.op \in {"binary", "logical", "thread", "unary", "not", "negate", "matches"}
    THEN Paren(writeExprSource(e)) ELSE writeExprSource(e)

writePureCallArgSource(e) ==
    IF e.op \in {"lit", "quoted", "var", "adapter", "interp", "list", "record"}
    THEN writeExprSource(e) ELSE Paren(writeExprSource(e))

writeListElemSource(e) ==
    IF e.op \in {"lit", "quoted", "var", "adapter", "interp", "list", "record", "pure"}
    THEN writeExprSource(e) ELSE Paren(writeExprSource(e))

writeSegment(e) ==
    CASE e.op = "text" -> [lit |-> TRUE, t |-> e.t]
      [] e.op = "var"  -> [lit |-> FALSE, src |-> <<W(e.t)>>]
      [] e.op = "adapter" -> [lit |-> FALSE, src |-> <<W("file:" \o e.t)>>]
      [] OTHER -> [lit |-> FALSE, src |-> writeExprSource(e)]

FlatMap(F(_), es) == FlattenSeq([n \in DOMAIN es |-> F(es[n])])

writeExprSource(e) ==
    LET field(f) == <<W(CHOOSE w \in DOMAIN Colon : Colon[w] = f.t)>> \o writeListElemSource(f.es[1])
    IN CASE e.op = "lit"     -> <<W(e.t)>>
         [] e.op = "quoted"  -> <<Str(e.t, quotes(e.t))>>
         [] e.op = "var"     -> <<Ref(e.t)>>
         [] e.op = "adapter" -> <<Adapter(e.t)>>
         [] e.op = "interp"  -> <<Interp([n \in DOMAIN e.es |-> writeSegment(e.es[n])])>>
         [] e.op \in {"binary", "logical"} ->
              writeExprAtomSource(e.es[1]) \o <<W(e.t)>> \o writeExprAtomSource(e.es[2])
         [] e.op = "unary"   -> <<W(e.t)>> \o writeExprAtomSource(e.es[1])
         [] e.op = "thread"  -> writeExprAtomSource(e.es[1]) \o <<Thread>>
                                \o FlatMap(writeExprSource, Tail(e.es))
         [] e.op = "not"     -> <<W("not")>> \o writeExprAtomSource(e.es[1])
         [] e.op = "negate"  -> <<W("-"), Glue>> \o writeExprAtomSource(e.es[1])
         [] e.op = "pure"    -> <<W(e.t)>> \o FlatMap(writePureCallArgSource, e.es)
         [] e.op = "matches" -> writeExprAtomSource(e.es[1]) \o writeMatchesBlockSource(e.es[2])
         [] e.op = "list"    -> <<W("[")>> \o FlatMap(writeListElemSource, e.es) \o <<W("]")>>
         [] e.op = "record"  -> <<W("record"), W("{")>> \o FlatMap(field, e.es) \o <<W("}")>>

\* Rows go on lines of their own: the parser takes no other separator.
writeMatchesBlockSource(b) ==
    LET row(r) == <<W(CHOOSE w \in DOMAIN Colon : Colon[w] = r.t)>>
                  \o (CASE r.es[1].op = "pred"  -> <<W(r.es[1].t)>>
                        [] r.es[1].op = "block" -> writeMatchesBlockSource(r.es[1])
                        [] OTHER -> writeExprSource(r.es[1]))
                  \o <<Newline>>
    IN <<W("matches")>> \o (IF b.t = "exhaustive" THEN <<W("exhaustive")>> ELSE <<>>)
       \o <<W("{")>> \o FlatMap(row, b.es) \o <<W("}")>>

formatCommandArg(e) ==
    IF e.op \in {"lit", "quoted", "var", "adapter", "interp", "list"}
    THEN writeExprSource(e) ELSE Paren(writeExprSource(e))

writeCommandStmt(args) == FlatMap(formatCommandArg, args)

joinIdentTexts(ns) == [n \in DOMAIN ns |-> W(ns[n].t)]

joinDefParams(ps) ==
    LET param(p) == IF p.es = <<>> THEN <<W(p.t)>>
                    ELSE <<W(CHOOSE w \in DOMAIN Colon : Colon[w] = p.t), W(p.es[1].t)>>
    IN FlatMap(param, ps)

writeForEachHeader(v) ==
    LET ns == joinIdentTexts(Tail(v.es))
    IN <<W("foreach")>> \o (IF Len(ns) = 1 THEN ns ELSE Paren(ns)) \o <<W("in")>>
       \o writeExprSource(v.es[1])

writeAssertClause(v) ==
    CASE v.t = "" -> writeExprSource(v.es[1])
      [] v.t \in {"ok", "fail"} -> <<W(v.t)>> \o writeCommandStmt(v.es)
      [] v.t = "not ok"   -> <<W("not"), W("ok")>> \o writeCommandStmt(v.es)
      [] v.t = "not fail" -> <<W("not"), W("fail")>> \o writeCommandStmt(v.es)

RECURSIVE writeStmt(_)
writeStmts(ss) == Lines([n \in DOMAIN ss |-> writeStmt(ss[n])])

\* if and elif carry their condition; an else that is empty is not written.
writeIfStmt(v) ==
    LET branch(n) ==
            LET b == v.body[n] IN
            <<W(IF n = 1 THEN "if" ELSE IF b.op = "else" THEN "else" ELSE "elif")>>
            \o FlatMap(writeExprSource, b.es) \o Block(writeStmts(b.body))
    IN FlattenSeq([n \in DOMAIN v.body |-> branch(n)])

writeBindStmt(v) ==
    <<W(IF v.op = "guard" THEN "guard" ELSE "let"), W(v.t), Bind>>
    \o (IF v.body = <<>> THEN writeCommandStmt(v.es) ELSE writeStmt(v.body[1]))

writeStmt(v) ==
    CASE v.op = "let"         -> <<W("let"), W(v.t), Assign>> \o writeExprSource(v.es[1])
      [] v.op = "destructure" -> <<W("let")>> \o Paren(joinIdentTexts(Front(v.es))) \o <<Assign>>
                                 \o writeExprSource(Last(v.es))
      [] v.op \in {"bind", "guard"} -> writeBindStmt(v)
      [] v.op = "defer"       -> <<W("defer")>> \o writeCommandStmt(v.es)
      [] v.op = "if"          -> writeIfStmt(v)
      [] v.op = "cmd"         -> writeCommandStmt(v.es)
      [] v.op = "expr"        -> Paren(writeExprSource(v.es[1]))
      [] v.op = "foreach"     -> writeForEachHeader(v) \o Block(writeStmts(v.body))
      [] v.op \in {"break", "continue"} -> <<W(v.op)>>
      [] v.op = "poll"        -> <<W("poll"), W("timeout"), W("dur"), W("every"), W("dur")>>
                                 \o Block(writeStmts(v.body))
      [] v.op = "retry"       -> <<W("retry")>>
                                 \o (IF v.es[1] = None THEN <<>> ELSE writeExprSource(v.es[1]))
                                 \o (IF v.es[2] = None THEN <<>> ELSE <<W("unless")>> \o writeExprSource(v.es[2]))
      [] v.op = "def"         -> <<W("def"), W(v.t)>> \o Paren(joinDefParams(v.es))
                                 \o Block(writeStmts(v.body))
      [] v.op = "return"      -> <<W("return")>> \o writeExprSource(v.es[1])
      [] v.op \in {"assert", "require"} -> <<W(v.op)>> \o writeAssertClause(v)

\* FormatSource without the comments and blank lines it carries over.
FormatSource(prog) == writeStmts(prog)
=============================================================================
