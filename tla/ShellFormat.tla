---------------------------- MODULE ShellFormat ----------------------------
(***************************************************************************)
(* bpfman-shell fmt -w: a script is edited, and the formatter rewrites it. *)
(* FormatInputString parses the script, prints it, parses what it printed  *)
(* and writes it back only if both mean the same program; a script that    *)
(* parses and is not written back is a fault of the formatter.             *)
(***************************************************************************)
EXTENDS ShellSyntax

CONSTANT Sources     \* the scripts an author may write

VARIABLES src,       \* the file's text
          status     \* what fmt last said of it

fmtVars == <<src, status>>

FmtInit == src \in Sources /\ status = "edited"

\* The comparison of lowered dumps is one of trees: lowering keeps all of them.
Written(prog, out) ==
    IF Parse(out) = prog THEN src' = out /\ status' = "formatted"
                         ELSE src' = src /\ status' = "formatter error"
Formatted(prog) ==
    IF prog = Rejected THEN src' = src /\ status' = "syntax error"
                       ELSE Written(prog, FormatSource(prog))
FormatInputString == Formatted(Parse(src))

Fmt == status \in {"edited", "formatted"} /\ FormatInputString

-----------------------------------------------------------------------------
(* Properties.                                                             *)

(* What the formatter does not print as it was: a sign, which it glues to  *)
(* the word after it, and a record as the argument of a pure call, which   *)
(* it prints without the parentheses the parser asks for.                  *)
RECURSIVE Misprinted(_)
Misprinted(e) ==
    \/ e.op = "negate" /\ e.es[1].op \in {"lit", "adapter", "pure", "record"}
    \/ e.op = "pure" /\ \E n \in DOMAIN e.es : e.es[n].op = "record"
    \/ \E n \in DOMAIN e.es : Misprinted(e.es[n])
    \/ "body" \in DOMAIN e /\ \E n \in DOMAIN e.body : Misprinted(e.body[n])


(* A chain of operators and operands without parentheses, and the tree the *)
(* precedence table of the grammar gives it: the loosest operator that is  *)
(* rightmost divides the chain; not binds tighter than and, and looser     *)
(* than a comparison; comparisons do not chain; a minus after an operator  *)
(* or at the front is a sign and binds tightest.                           *)
Signs(ts) == {i \in DOMAIN ts : /\ IsW(ts, i, "-")
                                /\ i > 1 => At(ts, i - 1).k = "word" /\ At(ts, i - 1).t # "1"}
Infix(ts, ops) == {i \in DOMAIN ts \ Signs(ts) : InW(ts, i, ops)}
Rightmost(is) == CHOOSE i \in is : \A j \in is : j <= i
Tree(op, t, es) == IF \E n \in DOMAIN es : es[n] = None THEN None ELSE N(op, t, es)

RECURSIVE TableTree(_)
SplitAt(ts, i, op) == Tree(op, ts[i].t, <<TableTree(SubSeq(ts, 1, i - 1)), TableTree(SubSeq(ts, i + 1, Len(ts)))>>)
TableTree(ts) ==
    CASE ts = <<>>                       -> None
      [] Infix(ts, {"or"}) # {}          -> SplitAt(ts, Rightmost(Infix(ts, {"or"})), "logical")
      [] Infix(ts, {"and"}) # {}         -> SplitAt(ts, Rightmost(Infix(ts, {"and"})), "logical")
      [] IsW(ts, 1, "not")               -> Tree("not", "", <<TableTree(Tail(ts))>>)
      [] \E i \in DOMAIN ts : IsW(ts, i, "not") -> None
      [] Infix(ts, BinaryOps) # {}       -> IF Cardinality(Infix(ts, BinaryOps)) > 1 THEN None
                                            ELSE SplitAt(ts, Rightmost(Infix(ts, BinaryOps)), "binary")
      [] Infix(ts, Level.add) # {}       -> SplitAt(ts, Rightmost(Infix(ts, Level.add)), "binary")
      [] Infix(ts, Level.mul) # {}       -> SplitAt(ts, Rightmost(Infix(ts, Level.mul)), "binary")
      [] IsW(ts, 1, "-")                 -> Tree("negate", "", <<TableTree(Tail(ts))>>)
      [] OTHER -> IF Len(ts) > 1 THEN None ELSE IF ts[1].k = "var" THEN Var(ts[1].t) ELSE Lit(ts[1].t)

Flat(ts) == \A i \in DOMAIN ts :
                \/ ts[i].k = "var"
                \/ InW(ts, i, {"or", "and", "not", "1"} \cup BinaryOps \cup Arithmetic)

\* Every chain "let y = ..." is read as the precedence table says.
isChain(ts)   == Len(ts) > 3 /\ SubSeq(ts, 1, 3) = <<W("let"), W("y"), Assign>> /\ Flat(SubSeq(ts, 4, Len(ts)))
LetOf(tree)   == IF tree = None THEN Rejected ELSE <<Stmt("let", "y", <<tree>>, <<>>)>>
PrecedenceAgrees == isChain(src) => Parse(src) = LetOf(TableTree(SubSeq(src, 4, Len(src))))
=============================================================================
