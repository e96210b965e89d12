-------------------------------- MODULE Eval --------------------------------
(***************************************************************************)
(* The expression evaluator of eval.c.  An expression is a sequence of     *)
(* tokens: how characters make a token is left out, but for those that     *)
(* make none ("invalid").  The widths of the C types are constants, and a  *)
(* float or double is a fraction: its rounding is left out.                *)
(***************************************************************************)
EXTENDS Integers, Sequences

CONSTANTS
    UINT,      \* how many values an unsigned int has
    ULONG,     \* a long of the host, in which constant() converts first
    ADDR,      \* an md_addr_t of the target
    QWORD      \* a qword_t

ASSUME EvalAssumption ==
    /\ {UINT, ULONG, ADDR, QWORD} \subseteq {2 * k : k \in 1 .. QWORD}
    /\ UINT <= ULONG /\ ULONG <= QWORD /\ ADDR <= QWORD

\* The types, the one that wins in an operation first.
Ranked   == <<"double", "float", "qword", "sqword", "addr", "uint", "int">>
Integral == {"int", "uint", "addr", "qword", "sqword"}
Signed   == {"int", "sqword"}

Values(t) == CASE t \in {"int", "uint"} -> UINT
               [] t = "addr" -> ADDR
               [] OTHER -> QWORD
Wrap(t, n) ==
    LET m == Values(t)
    IN  IF t \in Signed THEN ((n + (m \div 2)) % m) - (m \div 2) ELSE n % m

\* Division of C, which rounds towards zero; d is positive in Trunc.
Trunc(n, d) == IF n >= 0 THEN n \div d ELSE -((-n) \div d)
Quotient(a, b) == IF b > 0 THEN Trunc(a, b) ELSE Trunc(-a, -b)

result_type(t1, t2) ==
    Ranked[CHOOSE k \in DOMAIN Ranked :
              /\ Ranked[k] \in {t1, t2}
              /\ \A j \in 1 .. k - 1 : Ranked[j] \notin {t1, t2}]

Val(t, n) == [type |-> t, v |-> n]
err_value == Val("int", 0)

Integer(val) == IF val.type \in Integral THEN val.v ELSE Trunc(val.v[1], val.v[2])
eval_as_double(val) == IF val.type \in Integral THEN <<val.v, 1>> ELSE val.v
eval_as_float(val)  == eval_as_double(val)
eval_as_qword(val)  == Wrap("qword", Integer(val))
eval_as_sqword(val) == Wrap("sqword", Integer(val))
eval_as_addr(val)   == Wrap("addr", Integer(val))
eval_as_uint(val)   == Wrap("uint", Integer(val))
eval_as_int(val)    == Wrap("int", Integer(val))

As(t, val) == CASE t = "double" -> eval_as_double(val)
                [] t = "float"  -> eval_as_float(val)
                [] t = "qword"  -> eval_as_qword(val)
                [] t = "sqword" -> eval_as_sqword(val)
                [] t = "addr"   -> eval_as_addr(val)
                [] t = "uint"   -> eval_as_uint(val)
                [] t = "int"    -> eval_as_int(val)

-----------------------------------------------------------------------------
(* The operations: a value, or an error and err_value *)

Good(val) == [val |-> val, err |-> "NOERR"]
Bad(err)  == [val |-> err_value, err |-> err]

\* The operation in the type of its result, on integers or on fractions.
Operation(a, b, OnInts(_, _), OnFracs(_, _)) ==
    IF "symbol" \in {a.type, b.type} THEN Bad("BADEXPR")
    ELSE LET t == result_type(a.type, b.type)
         IN  Good(Val(t, IF t \in Integral THEN Wrap(t, OnInts(As(t, a), As(t, b)))
                         ELSE OnFracs(As(t, a), As(t, b))))

f_add(a, b) == Operation(a, b, LAMBDA x, y : x + y,
                         LAMBDA x, y : <<x[1] * y[2] + y[1] * x[2], x[2] * y[2]>>)
f_sub(a, b) == Operation(a, b, LAMBDA x, y : x - y,
                         LAMBDA x, y : <<x[1] * y[2] - y[1] * x[2], x[2] * y[2]>>)
f_mult(a, b) == Operation(a, b, LAMBDA x, y : x * y,
                          LAMBDA x, y : <<x[1] * y[1], x[2] * y[2]>>)

\* The quotient of the least int and -1 is no int, and a machine may trap.
f_div(a, b) == Operation(a, b, Quotient,
                         LAMBDA x, y : IF y[1] > 0 THEN <<x[1] * y[2], x[2] * y[1]>>
                                       ELSE <<-(x[1] * y[2]), -(x[2] * y[1])>>)

\* The type changes where the negative value needs another one.
f_neg(a) ==
    CASE a.type = "symbol" -> Bad("BADEXPR")
      [] a.type \in {"double", "float"} -> Good(Val(a.type, <<-a.v[1], a.v[2]>>))
      [] a.type = "qword" -> Good(Val("sqword", Wrap("sqword", -a.v)))
      [] a.type \in {"sqword", "addr"} -> Good(Val(a.type, Wrap(a.type, -a.v)))
      [] a.type = "uint" ->
            IF a.v > UINT \div 2 THEN Good(Val("sqword", -a.v))
            ELSE Good(Val("int", Wrap("int", -a.v)))
      [] a.type = "int" ->
            IF a.v = -(UINT \div 2) THEN Good(Val("uint", UINT \div 2))
            ELSE Good(Val("int", -a.v))

f_eq_zero(a) == IF a.type \in Integral THEN a.v = 0 ELSE a.v[1] = 0

\* The literal n/d: the first conversion without an overflow is used.  The first
\* two are those of a host long, whose result is then cut down to an int.
constant(n, d) ==
    IF d = 0 THEN Bad("BADCONST")
    ELSE IF d # 1 \/ n >= QWORD THEN Good(Val("double", <<n, d>>))
    ELSE IF n < ULONG \div 2 THEN Good(Val("int", Wrap("int", n)))
    ELSE IF n < ULONG THEN Good(Val("uint", Wrap("uint", n)))
    ELSE IF n < QWORD \div 2 THEN Good(Val("sqword", n))
    ELSE Good(Val("qword", n))

-----------------------------------------------------------------------------
(* Tokens.  T is the text, es is where the evaluator is in it: p is the    *)
(* next token, peek the one looked at already or 0.  Only the next token   *)
(* can be looked at; an invalid one is the mark for none, and so is gone.  *)

TokAt(T, i) == IF i > Len(T) THEN "eof" ELSE T[i].tok

Past(T, i) == IF i > Len(T) THEN i ELSE i + 1

peek_next_token(T, es) ==
    IF es.peek # 0 \/ TokAt(T, es.p) # "invalid"
    THEN [p |-> IF es.peek # 0 THEN es.p ELSE Past(T, es.p),
          peek |-> IF es.peek # 0 THEN es.peek ELSE es.p]
    ELSE [p |-> es.p + 1, peek |-> 0]

\* The token looked at, and the state once it has been taken.
Peeked(T, es) == IF es.peek = 0 THEN "invalid" ELSE TokAt(T, es.peek)
Taken(es) == [es EXCEPT !.peek = 0]

\* A function of the parser returns the value, the error and the state.
With(r, es) == [val |-> r.val, err |-> r.err, es |-> es]

Looked(name, ids) == IF name \in DOMAIN ids THEN ids[name] ELSE Bad("UNDEFVAR")

\* The parser is the function f of the function that is called and of the state;
\* ids has the result of every identifier that is known.
factor(T, ids, f, es0) ==
    LET es  == peek_next_token(T, es0)
        tok == Peeked(T, es)
    IN  CASE tok = "(" ->
                LET r == f["expr", Taken(es)]
                    c == peek_next_token(T, r.es)
                IN  IF r.err # "NOERR" THEN r
                    ELSE IF Peeked(T, c) # ")" THEN With(Bad("UPAREN"), c)
                    ELSE With(Good(r.val), Taken(c))
          [] tok = "-" ->
                LET r == f["factor", Taken(es)]
                IN  IF r.err # "NOERR" THEN r ELSE With(f_neg(r.val), r.es)
          [] tok = "ident" -> With(Looked(T[es.peek].name, ids), Taken(es))
          [] tok = "const" -> With(constant(T[es.peek].n, T[es.peek].d), Taken(es))
          [] OTHER -> With(Bad("NOTERM"), es)

term(T, f, es0) ==
    LET l   == f["factor", es0]
        es  == peek_next_token(T, l.es)
        tok == Peeked(T, es)
        r   == f["term", Taken(es)]
    IN  CASE l.err # "NOERR" -> l
          [] l.err = "NOERR" /\ tok = "*" ->
                IF r.err # "NOERR" THEN r ELSE With(f_mult(l.val, r.val), r.es)
          [] l.err = "NOERR" /\ tok = "/" ->
                IF r.err # "NOERR" THEN r
                ELSE IF r.val.type = "symbol" THEN With(Bad("BADEXPR"), r.es)
                ELSE IF f_eq_zero(r.val) THEN With(Bad("DIV0"), r.es)
                ELSE With(f_div(l.val, r.val), r.es)
          [] OTHER -> With(l, es)

expr(T, f, es0) ==
    LET l   == f["term", es0]
        es  == peek_next_token(T, l.es)
        tok == Peeked(T, es)
        r   == f["expr", Taken(es)]
    IN  CASE l.err # "NOERR" -> l
          [] l.err = "NOERR" /\ tok = "+" ->
                IF r.err # "NOERR" THEN r ELSE With(f_add(l.val, r.val), r.es)
          [] l.err = "NOERR" /\ tok = "-" ->
                IF r.err # "NOERR" THEN r ELSE With(f_sub(l.val, r.val), r.es)
          [] OTHER -> With(l, es)

parse(T, ids) ==
    LET f[c \in {"expr", "term", "factor"},
          es \in [p : 1 .. Len(T) + 1, peek : 0 .. Len(T) + 1]] ==
            CASE c = "expr"   -> expr(T, f, es)
              [] c = "term"   -> term(T, f, es)
              [] c = "factor" -> factor(T, ids, f, es)
    IN  f["expr", [p |-> 1, peek |-> 0]]

\* The first token that was not used.
endp(es) == IF es.peek # 0 THEN es.peek ELSE es.p

\* env says what the identifiers are: a value, a distribution, which has none, or the
\* formula of a statistic, which has an evaluator of its own and names no formula.
Plain(env) ==
    [name \in {n \in DOMAIN env : env[n].kind # "formula"} |->
        IF env[name].kind = "dist" THEN Bad("BADEXPR") ELSE Good(env[name].val)]

Whole(T, r) == IF r.err # "NOERR" THEN Bad(r.err)
               ELSE IF endp(r.es) <= Len(T) THEN Good(err_value) ELSE Good(r.val)

Results(env) ==
    [name \in DOMAIN env |->
        IF env[name].kind = "formula"
        THEN Whole(env[name].toks, parse(env[name].toks, Plain(env)))
        ELSE Plain(env)[name]]
Identifier(name, env) == Looked(name, Results(env))

\* The value, the error, and what is left.  Faulty variant: the token looked at
\* last is lost.
OutcomeAtP(r) == [val |-> r.val, err |-> r.err, endp |-> r.es.p]
Outcome(r)    == [val |-> r.val, err |-> r.err, endp |-> endp(r.es)]

eval_expr(T, env) == Outcome(parse(T, Results(env)))
=============================================================================
