------------------------------ MODULE MCSession ------------------------------
(***************************************************************************)
(* A loop that loads and stores, under a user who types what is in Lines.  *)
(***************************************************************************)
EXTENDS SessionProps

\* Text at 2 to 8, data at 12 and 14.
I(kind, addr, to) == [kind |-> kind, addr |-> addr, to |-> to]
Loop == (2 :> I("load", 12, {})) @@ (4 :> I("store", 14, {}))
        @@ (6 :> I("branch", 0, {2})) @@ (8 :> I("exit", 0, {}))
Names == [main |-> 2, data |-> 12]

Op(sign) == [tok |-> sign]
Num(n)   == [tok |-> "const", n |-> n, d |-> 1]
Word(s)  == [tok |-> "ident", name |-> s]

Pos(mark, n)   == [mark |-> mark, kind |-> "number", n |-> n]
Span(from, to) == [tok |-> "word", range |-> [colon |-> TRUE, start |-> from, end |-> to]]

Line(name, mods, toks) == [name |-> name, mods |-> mods, toks |-> toks]
Typed == {
    Line("cont", NoMods, <<>>), Line("cont", NoMods, <<Num(6)>>),
    Line("cont", NoMods, <<Word("data")>>),
    Line("step", NoMods, <<>>),
    Line("break", NoMods, <<Word("main"), Op("+"), Num(2)>>),
    Line("dbreak", NoMods, <<Num(14), Word("w")>>),
    Line("rbreak", NoMods, <<Span(Pos("@", 11), Pos("+", 1)), Word("r")>>),
    Line("rbreak", NoMods, <<Span(Pos("", 3), None)>>),
    Line("rbreak", NoMods, <<Span(Pos("@", 2), Pos("#", 5))>>),
    Line("break", NoMods, <<Num(8)>>),
    Line("delete", NoMods, <<Num(1)>>), Line("delete", NoMods, <<Num(2)>>),
    Line("clear", NoMods, <<>>),
    Line("dump", NoMods, <<Num(1), Num(5)>>), Line("dump", NoMods, <<Num(1), Num(0)>>),
    Line("dis", NoMods, <<Word("main"), Num(1)>>),
    Line("print", {"w", "x"}, <<Num(1), Op("-"), Word("sim_inst_rate")>>),
    Line("terminate", NoMods, <<>>), Line("quit", NoMods, <<>>)}

Alphabet == {Num(2), Num(7), [tok |-> "const", n |-> 1, d |-> 2], Word("$pc"),
             Word("sim_num_insn"), Op("+"), Op("-"), Op("*"), Op("/"), Op("("), Op(")")}
Short == UNION {[1 .. n -> Alphabet] : n \in 0 .. 4}
         \cup [1 .. 5 -> {Num(2), Num(7), Op("-"), Op("/"), Op("("), Op(")")}]
=============================================================================
