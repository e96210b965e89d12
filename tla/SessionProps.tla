---------------------------- MODULE SessionProps ----------------------------
(***************************************************************************)
(* What a session of sim-safe with DLite promises.                         *)
(***************************************************************************)
EXTENDS Session

CONSTANTS Texts      \* the texts EvaluatesGrammar tries

\* What the last instruction gives DLite to stop for.
Occasions ==
    IF did.kind \in {"nothing", "exit", "bogus"} THEN {}
    ELSE {<<"exec", did.npc>>, <<"inst", did.n>>, <<"cycle", did.n>>}
         \cup (IF did.kind = "load" THEN {<<"read", did.addr>>}
               ELSE IF did.kind = "store" THEN {<<"write", did.addr>>} ELSE {})

Set == {dlite_bps[k].id : k \in DOMAIN dlite_bps}

D == INSTANCE Debugger WITH
        mode     <- IF phase = "main" THEN (IF dlite_active THEN "stopped" ELSE "run")
                    ELSE IF phase \in {"entry", "loop"} THEN "stopped"
                    ELSE IF phase = "done" THEN "ended" ELSE "run",
        stepping <- dlite_active,
        breaks   <- [id \in Set |->
                        UNION {Covered(dlite_bps[k]) :
                               k \in {j \in DOMAIN dlite_bps : dlite_bps[j].id = id}}],
        occasion <- Occasions,
        asked    <- call

\* DLite stops the program after an instruction if and only if it is stepping or a
\* breakpoint that is set, and neither deleted nor cleared, covers what was executed:
\* the flag dlite_check, the list of breakpoints, their ranges and classes, the
\* identifiers and the two places dlite_main is entered from agree on that
\* (dlite.c:1701-2069, dlite.h:194, sim-safe.c:274-357).
ImplementsDebugger == D!Spec

\* The values of a text under the grammar that DLite's help gives (dlite.c:499-507):
\*   expr <- factor +|- expr,  factor <- term *|/ factor,
\*   term <- ( expr ) | - term | const | symbol
Both(a, b, op(_, _)) == IF a.err # "NOERR" THEN a ELSE IF b.err # "NOERR" THEN b
                        ELSE op(a.val, b.val)
Over(a, b) == IF f_eq_zero(b) THEN Bad("DIV0") ELSE f_div(a, b)


\* The values of the part of T from i to j as a term, a factor and an expr.
Grammar(T) ==
    LET v[c \in {"expr", "factor", "term"}, i \in 1 .. Len(T) + 1, j \in 0 .. Len(T)] ==
            LET At(sign) == {k \in i .. j : T[k].tok = sign}
                Two(left, sign, op(_, _)) ==
                    UNION {{Both(a, b, op) : a \in v[left, i, k - 1], b \in v[c, k + 1, j]} :
                           k \in At(sign)}
            IN  CASE c = "expr" -> v["factor", i, j] \cup Two("factor", "+", f_add)
                                                     \cup Two("factor", "-", f_sub)
                  [] c = "factor" -> v["term", i, j] \cup Two("term", "*", f_mult)
                                                     \cup Two("term", "/", Over)
                  [] c = "term" /\ i > j -> {}
                  [] c = "term" /\ i < j ->
                        IF T[i].tok = "(" /\ T[j].tok = ")" THEN v["expr", i + 1, j - 1]
                        ELSE IF T[i].tok = "-"
                        THEN {IF a.err # "NOERR" THEN a ELSE f_neg(a.val) :
                              a \in v["term", i + 1, j]}
                        ELSE {}
                  [] c = "term" /\ i = j ->
                        CASE T[i].tok = "const" -> {constant(T[i].n, T[i].d)}
                          [] T[i].tok = "ident" -> {Identifier(T[i].name, Identifiers)}
                          [] OTHER -> {}
    IN  [n \in 0 .. Len(T) |-> v["expr", 1, n]]

\* The evaluator uses up a text that is an expression and finds its value, and of any
\* other text it finds an error or the value of the part before the first token it has
\* not used, which is where the next argument is read from (eval.c:937-1124,
\* dlite.c:590-663).  The texts are tried when the program has been loaded, with the
\* registers, symbols and statistics there are then.
Agrees(T, r, values) ==
    /\ r.err = "NOERR" => values[r.endp - 1] = {Good(r.val)}
    /\ (\E v \in values[Len(T)] : v.err = "NOERR") =>
            r.err = "NOERR" /\ r.endp = Len(T) + 1
EvaluatesGrammar ==
    phase = "entry" /\ did.kind = "nothing" /\ call.name = "none" /\ cmd = NoLine =>
        \A T \in Texts : Agrees(T, eval_expr(T, Identifiers), Grammar(T))

\* A session in which the user goes on comes to its end: no breakpoint, step or
\* repeated line makes DLite give the program back at the instruction it had stopped
\* after, or keeps the limit on instructions from being seen (sim-safe.c:344-356).
GoesOn == WF_vars(\E line \in Lines : /\ line.name \in {"cont", "step"} /\ line.toks = <<>>
                                     /\ Command(line))
SessionEnds == GoesOn => <>(phase = "done")

\* The program goes on at the address given to cont, as help and the message DLite
\* prints have it: "continue program execution (optionally at <addr>)" (dlite.c:435).
\* After an instruction the loop goes on to the next one all the same.
ContinuesAt ==
    [][(phase \in {"entry", "loop"} /\ phase' = "run" /\ call'.name = "cont") =>
           \A a \in call'.at : regs_PC' = a]_vars
=============================================================================
