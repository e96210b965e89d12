------------------------------- MODULE Session -------------------------------
(***************************************************************************)
(* A session of sim-safe: main(), the simulation loop and the DLite        *)
(* debugger it enters.  A typed line is a command name, modifiers and a    *)
(* sequence of tokens; what commands print is left out, but for whether it *)
(* is a value or an error, and register contents other than the program    *)
(* counters are not kept.  One action is one iteration of the simulation   *)
(* loop, one command, or main() up to the loop.                            *)
(***************************************************************************)
EXTENDS Eval, Range, TLC
LOCAL INSTANCE SequencesExt
LOCAL INSTANCE FiniteSets

CONSTANTS
    Code,              \* address -> [kind, addr, to]
    Entry, InstSize,
    Symbols,           \* name -> address
    Lines,             \* what is typed
    MaxBreaks,         \* bound: how many breakpoints a session sets
    max_insts,         \* -max:inst
    BREAK_SPAN,        \* how far a text breakpoint reaches, 1 or 9
    BYTES_PER_LINE, LINES_PER_SCREEN, INSTS_PER_SCREEN,
    MAX_COUNT          \* the most a dump shows

ASSUME SessionAssumption ==
    /\ Entry \in DOMAIN Code /\ InstSize \in Nat \ {0} /\ max_insts \in Nat
    /\ MAX_COUNT < UINT

VARIABLES
    opts,              \* the options and what comes of them
    phase,             \* main, run, entry or loop (in DLite, before the loop
                       \* or after an instruction), done
    status,            \* how the process has ended
    running, printed,  \* whether statistics are due, and how often they came
    regs_PC, regs_NPC, sim_num_insn,
    did,               \* history: the last instruction executed
    dlite_active, dlite_check, dlite_bps, break_id,
    cmd,               \* the line to repeat
    dump_addr, dis_addr,
    call               \* history: the last command, [name, id, at, err]

progVars  == <<regs_PC, regs_NPC, sim_num_insn, did>>
breakVars == <<dlite_check, dlite_bps, break_id>>
showVars  == <<dump_addr, dis_addr>>
endVars   == <<status, running, printed>>
vars == <<opts, phase, endVars, progVars, dlite_active, breakVars, cmd, showVars, call>>

NoMods == {"none"}     \* none were typed
NoLine == [name |-> "", mods |-> NoMods, toks |-> <<>>]

Options == [args : BOOLEAN, redirects : BOOLEAN, help : BOOLEAN, exec : BOOLEAN,
            i : BOOLEAN, q : BOOLEAN]

Call(name, id, at, err) == [name |-> name, id |-> id, at |-> at, err |-> err]

Init ==
    /\ opts \in {o \in Options : o.help \/ o.exec \/ o.i \/ o.q => o.args}
    /\ phase = "main" /\ status = "none" /\ running = FALSE /\ printed = 0
    /\ regs_PC = Entry /\ regs_NPC = 0 /\ sim_num_insn = 0
    /\ did = [kind |-> "nothing"]
    /\ dlite_active = opts.i /\ dlite_check = FALSE
    /\ dlite_bps = <<>> /\ break_id = 1
    /\ cmd = NoLine /\ dump_addr = 0 /\ dis_addr = 0
    /\ call = Call("none", 0, {}, "none")

-----------------------------------------------------------------------------
(* The end of the process *)

\* exit_now(), and the hook of fatal() and panic(): statistics are printed once
\* the simulation has begun.
sim_print_stats == printed' = printed + (IF running THEN 1 ELSE 0)

Ended(how) == phase' = "done" /\ status' = how /\ UNCHANGED <<opts, running>>

-----------------------------------------------------------------------------
(* Breakpoints *)

\* Whether bp stops an instruction that goes on to next_PC, with its access and
\* the address of it, and that is the n-th.  Faulty variant: the end of the range
\* does not count.
StopsBefore(bp, next_PC, access, addr, n) ==
    IF bp.range.start.ptype = "addr"
    THEN \/ "exec" \in bp.class /\ range_cmp_rangeOpen(bp.range, next_PC) = 0
         \/ access \in bp.class /\ range_cmp_rangeOpen(bp.range, addr) = 0
    ELSE range_cmp_rangeOpen(bp.range, n) = 0
Stops(bp, next_PC, access, addr, n) ==
    IF bp.range.start.ptype = "addr"
    THEN \/ "exec" \in bp.class /\ range_cmp_range(bp.range, next_PC) = 0
         \/ access \in bp.class /\ range_cmp_range(bp.range, addr) = 0
    ELSE range_cmp_range(bp.range, n) = 0

check_break(next_PC, access, addr, n) ==
    \/ dlite_active
    \/ \E k \in DOMAIN dlite_bps : Stops(dlite_bps[k], next_PC, access, addr, n)

dlite_check_break(next_PC, access, addr, n) ==
    (dlite_check \/ dlite_active) /\ check_break(next_PC, access, addr, n)

-----------------------------------------------------------------------------
(* main() up to the simulation loop *)

\* A file for the output that cannot be opened, and the messages on how the
\* simulator is used.
Usage ==
    /\ phase = "main"
    /\ ~opts.redirects \/ ~opts.args \/ opts.help \/ ~opts.exec
    /\ Ended("failure") /\ UNCHANGED printed

InitQuit ==
    /\ phase = "main" /\ opts.redirects /\ opts.args /\ ~opts.help /\ opts.exec
    /\ opts.q
    /\ sim_print_stats /\ Ended("success")

Start ==
    /\ phase = "main" /\ opts.redirects /\ opts.args /\ ~opts.help /\ opts.exec
    /\ ~opts.q
    /\ running' = TRUE
    /\ regs_NPC' = regs_PC + InstSize
    /\ IF dlite_check_break(regs_PC, "none", 0, 0)
       THEN phase' = "entry" /\ dlite_active' = TRUE
       ELSE phase' = "run" /\ UNCHANGED dlite_active
    /\ UNCHANGED <<opts, status, printed, regs_PC, sim_num_insn, did,
                   breakVars, cmd, showVars, call>>

Main ==
    \/ (Usage \/ InitQuit)
       /\ UNCHANGED <<progVars, dlite_active, breakVars, cmd, showVars, call>>
    \/ Start

-----------------------------------------------------------------------------
(* The simulation loop *)

\* The end of an iteration that goes on at npc.
Advance(npc, n) ==
    /\ regs_PC' = npc /\ regs_NPC' = npc + InstSize
    /\ IF max_insts # 0 /\ n >= max_insts
       THEN sim_print_stats /\ Ended("success")
       ELSE phase' = "run" /\ UNCHANGED <<opts, endVars>>

\* The exit system call.
Exit ==
    /\ regs_PC \in DOMAIN Code /\ Code[regs_PC].kind = "exit"
    /\ sim_num_insn' = sim_num_insn + 1 /\ did' = [kind |-> "exit"]
    /\ sim_print_stats /\ Ended("success")
    /\ UNCHANGED <<regs_PC, regs_NPC, dlite_active>>

\* There is nothing to execute.
Bogus ==
    /\ regs_PC \notin DOMAIN Code
    /\ sim_num_insn' = sim_num_insn + 1 /\ did' = [kind |-> "bogus"]
    /\ sim_print_stats /\ Ended("abort")
    /\ UNCHANGED <<regs_PC, regs_NPC, dlite_active>>

\* An instruction that is no branch, or a branch not taken, leaves regs_NPC; one
\* that accesses no memory passes for a read of address 0.
Instruction ==
    /\ regs_PC \in DOMAIN Code /\ Code[regs_PC].kind # "exit"
    /\ LET I == Code[regs_PC]
           n == sim_num_insn + 1
           access == IF I.kind = "store" THEN "write" ELSE "read"
       IN  \E npc \in I.to \cup (IF I.kind = "jump" THEN {} ELSE {regs_NPC}) :
            /\ sim_num_insn' = n
            /\ did' = [kind |-> I.kind, addr |-> I.addr, npc |-> npc, n |-> n]
            /\ IF dlite_check_break(npc, access, I.addr, n)
               THEN /\ phase' = "loop" /\ dlite_active' = TRUE
                    /\ regs_NPC' = npc
                    /\ UNCHANGED <<opts, endVars, regs_PC>>
               ELSE Advance(npc, n) /\ UNCHANGED dlite_active

Execute ==
    /\ phase = "run" /\ (Exit \/ Bogus \/ Instruction)
    /\ UNCHANGED <<breakVars, cmd, showVars, call>>

-----------------------------------------------------------------------------
(* dlite_exec: the arguments of a command *)

cmd_db == [
    help |-> <<"s?">>, version |-> <<>>, terminate |-> <<>>, quit |-> <<>>,
    cont |-> <<"a?">>, step |-> <<>>, print |-> <<"m?", "e">>, options |-> <<>>,
    option |-> <<"s">>, stats |-> <<>>, stat |-> <<"s">>, whatis |-> <<"e">>,
    regs |-> <<>>, iregs |-> <<>>, fpregs |-> <<>>, cregs |-> <<>>,
    mstate |-> <<"s?">>, display |-> <<"m?", "a">>, dump |-> <<"a?", "c?">>,
    dis |-> <<"a?", "c?">>, break |-> <<"a">>, dbreak |-> <<"a", "t?">>,
    rbreak |-> <<"s", "t?">>, breaks |-> <<>>, delete |-> <<"i">>, clear |-> <<>>,
    symbols |-> <<>>, tsymbols |-> <<>>, dsymbols |-> <<>>, symbol |-> <<"s">>]
Optional == {"s?", "a?", "m?", "c?", "t?"}

Sizes   == {"b", "h", "w", "q", "F", "f", "c", "s"}
Formats == {"d", "u", "o", "x", "1"}

modifier_parser(mods) == mods \subseteq Sizes \cup Formats

Accesses == [r |-> {"read"}, w |-> {"write"}, x |-> {"exec"},
             rw |-> {"read", "write"}, rx |-> {"read", "exec"},
             wx |-> {"write", "exec"}, rwx |-> {"read", "write", "exec"}]

Is(val) == [kind |-> "value", val |-> val]
\* ident_evaluator: registers come before symbols and those before statistics.
Identifiers ==
    ("$pc" :> Is(Val("addr", regs_PC))) @@ ("$npc" :> Is(Val("addr", regs_NPC)))
    @@ [s \in DOMAIN Symbols |-> Is(Val("addr", Symbols[s]))]
    @@ ("sim_num_insn" :> Is(Val("qword", sim_num_insn)))
    @@ ("sim_elapsed_time" :> Is(Val("int", 0)))
    @@ ("sim_inst_rate" :>
            [kind |-> "formula",
             toks |-> << [tok |-> "ident", name |-> "sim_num_insn"], [tok |-> "/"],
                         [tok |-> "ident", name |-> "sim_elapsed_time"] >>])

\* The next argument is read from what is left of the line.
Took(left, arg, rest) == [left EXCEPT !.toks = rest, !.args = Append(@, arg)]
Failed(left, err) == [left EXCEPT !.err = err]
Evaluated(left, r) ==
    IF r.err # "NOERR" THEN Failed(left, r.err)
    ELSE Took(left, r.val, SubSeq(left.toks, r.endp, Len(left.toks)))

Argument(left, spec) ==
    LET word == Head(left.toks)
    IN  IF left.err # "none" \/ left.done THEN left
        ELSE IF left.toks = <<>> /\ left.mods = NoMods
        THEN IF spec \in Optional THEN [left EXCEPT !.done = TRUE]
             ELSE Failed(left, "missing an argument")
        ELSE IF spec = "m?"
        THEN IF left.mods = NoMods THEN Took(left, {}, left.toks)
             ELSE IF modifier_parser(left.mods)
             THEN Took([left EXCEPT !.mods = NoMods], left.mods, left.toks)
             ELSE Failed(left, "bad modifier")
        ELSE IF left.mods # NoMods THEN Failed(left, "NOTERM")
        ELSE IF spec \in {"s", "s?"} THEN Took(left, word, Tail(left.toks))
        ELSE IF spec = "t?"
        THEN IF word.tok = "ident" /\ word.name \in DOMAIN Accesses
             THEN Took(left, Accesses[word.name], Tail(left.toks))
             ELSE Failed(left, "bad access type specifier")
        ELSE Evaluated(left, eval_expr(left.toks, Identifiers))

Parsed(name, left) ==
    [name |-> name, args |-> left.args,
     err |-> IF left.err # "none" THEN left.err
             ELSE IF left.toks # <<>> \/ left.mods # NoMods
             THEN "too many arguments" ELSE "none"]

dlite_exec(line) ==
    IF line.name = "" THEN [name |-> "", args |-> <<>>, err |-> "none"]
    ELSE IF line.name \notin DOMAIN cmd_db
    THEN [name |-> "", args |-> <<>>, err |-> "unknown command"]
    ELSE Parsed(line.name,
                FoldLeft(Argument,
                         [toks |-> line.toks, mods |-> line.mods, args |-> <<>>,
                          err |-> "none", done |-> FALSE],
                         cmd_db[line.name]))

-----------------------------------------------------------------------------
(* What a command says: an error, "panic" or, with "none", what was asked *)

DefaultSize(t) == CASE t \in {"int", "uint"} -> "w"
                    [] t = "addr" -> IF ADDR > UINT THEN "q" ELSE "w"
                    [] t \in {"qword", "sqword"} -> "q"
                    [] t = "float" -> "F"
                    [] t = "double" -> "f"
DefaultFormats(t) == CASE t \in Signed -> {"d"}
                       [] t \in {"uint", "qword"} -> {"u"}
                       [] t = "addr" -> {"x"}
                       [] OTHER -> {}

\* An integer size has no format to go with when the value is real.
print_val(mods, val) ==
    LET sizes   == IF mods \cap Sizes # {} THEN mods \cap Sizes
                   ELSE {DefaultSize(val.type)}
        formats == IF mods \cap Formats # {} THEN mods \cap Formats
                   ELSE DefaultFormats(val.type)
    IN  CASE Cardinality(sizes) > 1 -> "multiple size specifiers"
          [] Cardinality(sizes) = 1 /\ Cardinality(formats) > 1 ->
                "multiple format specifiers"
          [] OTHER ->
                IF sizes \subseteq {"b", "h", "w", "q"}
                THEN IF formats = {} THEN "panic"
                     ELSE IF formats = {"1"} THEN "binary format not yet implemented"
                     ELSE "none"
                ELSE IF sizes = {"s"} THEN "string format not yet implemented"
                ELSE "none"

NotIntegral(val) == val.type \notin Integral

\* What is read for display is an int, a double or an unsigned int.
display(mods, val) ==
    IF NotIntegral(val) THEN "address argument must be an integral type"
    ELSE print_val(mods, IF mods \cap {"b", "c", "h"} # {} THEN Val("int", 0)
                         ELSE IF mods \cap {"q", "f"} # {} THEN Val("double", <<0, 1>>)
                         ELSE Val("uint", 0))

Named(word, names, err) ==
    IF word.tok = "ident" /\ word.name \in names THEN "none" ELSE err
help(args)   == IF args = <<>> THEN "none"
                ELSE Named(args[1], DOMAIN cmd_db, "command unknown")
option(word) == Named(word, {"-h", "-i", "-q", "-max:inst"}, "option is not defined")
stat(word)   == Named(word, {"sim_num_insn", "sim_elapsed_time", "sim_inst_rate"},
                      "statistical variable is not defined")
symbol(word) == Named(word, DOMAIN Symbols, "symbol is not defined")

\* The commands that print what they are asked for and cannot fail.
Registers == {"whatis", "regs", "iregs", "fpregs", "cregs", "mstate"}
Tables    == {"options", "stats", "breaks", "symbols", "tsymbols", "dsymbols", "version"}

Saying(p) ==
    CASE p.err # "none" -> p.err
      [] p.err = "none" /\ p.name \in {"print", "display"} ->
            IF p.args = <<>> THEN "wrong number of arguments"
            ELSE IF p.name = "print" THEN print_val(p.args[1], p.args[2])
            ELSE display(p.args[1], p.args[2])
      [] p.err = "none" /\ p.name = "help"   -> help(p.args)
      [] p.err = "none" /\ p.name = "option" -> option(p.args[1])
      [] p.err = "none" /\ p.name = "stat"   -> stat(p.args[1])
      [] p.err = "none" /\ p.name = "symbol" -> symbol(p.args[1])
      [] OTHER -> "none"

-----------------------------------------------------------------------------
(* The commands.  p is a line as dlite_exec has parsed it. *)

Stays == UNCHANGED <<opts, phase, endVars, progVars, dlite_active>>

Say(err) == call' = Call("other", 0, {}, err)

Panic == /\ sim_print_stats /\ Ended("abort")
         /\ UNCHANGED <<progVars, dlite_active>>

\* A command that changes nothing, the empty one, and a line that is none.
Show(p) ==
    /\ \/ p.err # "none" \/ p.name = ""
       \/ p.name \in {"print", "display", "help", "option", "stat", "symbol"}
                      \cup Registers \cup Tables
    /\ IF Saying(p) = "panic" THEN Panic ELSE Stays
    /\ Say(Saying(p)) /\ UNCHANGED <<breakVars, showVars>>

\* Back to the simulation, with pc as the program counter: the loop goes on to the
\* next instruction whatever that is.  Faulty variant: DLite goes on instead.
LeaveNot(pc) ==
    /\ regs_PC' = pc
    /\ UNCHANGED <<opts, phase, endVars, regs_NPC, sim_num_insn, did>>
Leave(pc) ==
    /\ IF phase = "entry"
       THEN regs_PC' = pc /\ phase' = "run" /\ UNCHANGED <<opts, endVars, regs_NPC>>
       ELSE Advance(regs_NPC, sim_num_insn)
    /\ UNCHANGED <<sim_num_insn, did>>

Cont(p) ==
    /\ p.err = "none" /\ p.name = "cont"
    /\ IF p.args # <<>> /\ NotIntegral(p.args[1])
       THEN Stays /\ Say("address argument must be an integral type")
       ELSE /\ Leave(IF p.args = <<>> THEN regs_PC ELSE eval_as_addr(p.args[1]))
            /\ dlite_active' = FALSE
            /\ call' = Call("cont", 0,
                            {eval_as_addr(p.args[k]) : k \in DOMAIN p.args}, "none")
    /\ UNCHANGED <<breakVars, showVars>>

Step(p) ==
    /\ p.err = "none" /\ p.name = "step"
    /\ Leave(regs_PC) /\ dlite_active' = TRUE
    /\ call' = Call("step", 0, {}, "none")
    /\ UNCHANGED <<breakVars, showVars>>

\* exit() at once, and the end of the simulation.
Quit(p) ==
    /\ p.err = "none" /\ p.name \in {"quit", "terminate"}
    /\ IF p.name = "quit" THEN Ended("failure") /\ UNCHANGED printed
       ELSE Ended("success") /\ sim_print_stats
    /\ Say("none")
    /\ UNCHANGED <<progVars, dlite_active, breakVars, showVars>>

\* What a breakpoint stops for.
Covered(bp) ==
    LET all == bp.range.start.pos .. bp.range.end.pos
    IN  IF bp.range.start.ptype = "addr" THEN bp.class \X all
        ELSE {bp.range.start.ptype} \X all

set_break(class, range) ==
    LET bp == [id |-> break_id, range |-> range, class |-> class]
    IN  /\ break_id <= MaxBreaks
        /\ dlite_bps' = <<bp>> \o dlite_bps
        /\ break_id' = break_id + 1 /\ dlite_check' = TRUE
        /\ call' = Call("set", break_id, Covered(bp), "none")

AddrRange(val, span) ==
    [start |-> [ptype |-> "addr", pos |-> eval_as_addr(val)],
     end |-> [ptype |-> "addr", pos |-> Wrap("addr", eval_as_addr(val) + span)]]

\* break and dbreak.
Break(p) ==
    /\ p.err = "none" /\ p.name \in {"break", "dbreak"}
    /\ IF NotIntegral(p.args[1])
       THEN UNCHANGED breakVars /\ Say("address argument must be an integral type")
       ELSE IF p.name = "break"
       THEN set_break({"exec"}, AddrRange(p.args[1], BREAK_SPAN))
       ELSE set_break(IF Len(p.args) = 2 THEN p.args[2] ELSE {"read", "write"},
                      AddrRange(p.args[1], 1))
    /\ Stays /\ UNCHANGED showVars

rbreak(p) ==
    /\ p.err = "none" /\ p.name = "rbreak"
    /\ LET r == range_parse_range(p.args[1].range, Symbols)
           err == IF r.err # "none" THEN r.err
                  ELSE IF ~Comparable(r.range)
                  THEN "range endpoints are not of the same type"
                  ELSE IF r.range.start.pos > r.range.end.pos
                  THEN "range start is after range end" ELSE "none"
       IN  IF err # "none" THEN UNCHANGED breakVars /\ Say(err)
           ELSE set_break(IF Len(p.args) = 2 THEN p.args[2]
                          ELSE {"read", "write", "exec"}, r.range)
    /\ Stays /\ UNCHANGED showVars

\* Faulty variant: what stands before it in the list goes too.
delete_breakAndBefore(id) ==
    LET k == CHOOSE j \in DOMAIN dlite_bps : dlite_bps[j].id = id
    IN  dlite_bps' = SubSeq(dlite_bps, k + 1, Len(dlite_bps))
delete_break(id) == dlite_bps' = SelectSeq(dlite_bps, LAMBDA bp : bp.id # id)

Delete(p) ==
    /\ p.err = "none" /\ p.name = "delete"
    /\ LET id == Wrap("int", eval_as_uint(p.args[1]))
       IN  IF NotIntegral(p.args[1])
           THEN UNCHANGED breakVars /\ Say("id must be an integral type")
           ELSE IF dlite_bps = <<>>
           THEN UNCHANGED breakVars /\ Say("no breakpoints set")
           ELSE IF \A k \in DOMAIN dlite_bps : dlite_bps[k].id # id
           THEN UNCHANGED breakVars /\ Say("breakpoint not found")
           ELSE /\ delete_break(id)
                /\ dlite_check' = (dlite_bps' # <<>>) /\ UNCHANGED break_id
                /\ call' = Call("delete", id, {}, "none")
    /\ Stays /\ UNCHANGED showVars

Clear(p) ==
    /\ p.err = "none" /\ p.name = "clear"
    /\ dlite_bps' = <<>> /\ dlite_check' = (dlite_check /\ dlite_bps = <<>>)
    /\ call' = Call("clear", 0, {}, "none")
    /\ Stays /\ UNCHANGED <<break_id, showVars>>

\* Where dump and dis go on when they have no arguments.
From(p, last) == IF p.args = <<>> \/ NotIntegral(p.args[1]) THEN last
                 ELSE eval_as_addr(p.args[1])
Count(p, default) == IF Len(p.args) < 2 THEN default ELSE eval_as_uint(p.args[2])

\* A dump that does not begin or end at a line takes in a byte more.
dump(p) ==
    /\ p.err = "none" /\ p.name = "dump"
    /\ LET from  == From(p, dump_addr)
           count == Count(p, LINES_PER_SCREEN * BYTES_PER_LINE)
           fmt_lines == (count + BYTES_PER_LINE - 1) \div BYTES_PER_LINE
           room  == fmt_lines * BYTES_PER_LINE - (from % BYTES_PER_LINE)
           shown == IF fmt_lines = 1 THEN count
                    ELSE IF count < room THEN count + 1 ELSE room
           err   == IF p.args # <<>> /\ NotIntegral(p.args[1])
                    THEN "address argument must be an integral type"
                    ELSE IF Len(p.args) = 2 /\ NotIntegral(p.args[2])
                    THEN "count argument must be an integral type"
                    ELSE IF Len(p.args) = 2 /\ count > MAX_COUNT
                    THEN "bad count argument"
                    ELSE IF fmt_lines < 1 THEN "panic" ELSE "none"
       IN  /\ Say(err)
           /\ IF err = "panic" THEN Panic ELSE Stays
           /\ dump_addr' = IF err # "none" THEN from
                           ELSE Wrap("addr", from + shown)
    /\ UNCHANGED <<breakVars, dis_addr>>

dis(p) ==
    /\ p.err = "none" /\ p.name = "dis"
    /\ LET from  == From(p, dis_addr)
           count == Count(p, INSTS_PER_SCREEN)
           err   == IF p.args # <<>> /\ NotIntegral(p.args[1])
                    THEN "address argument must be an integral type"
                    ELSE IF Len(p.args) = 2 /\ count > MAX_COUNT
                    THEN "bad count argument"
                    ELSE IF from % InstSize # 0
                    THEN "instruction addresses are a multiple of eight" ELSE "none"
       IN  /\ Say(err)
           /\ dis_addr' = IF err # "none" THEN from
                          ELSE Wrap("addr", from + count * InstSize)
    /\ Stays /\ UNCHANGED <<breakVars, dump_addr>>

\* dlite_main: a line is typed, or an empty one to repeat the last.
Command(line) ==
    /\ phase \in {"entry", "loop"}
    /\ cmd' = IF line = NoLine THEN cmd ELSE line
    /\ \E p \in {dlite_exec(IF line = NoLine THEN cmd ELSE line)} :
        \/ Show(p) \/ Cont(p) \/ Step(p) \/ Quit(p) \/ Break(p) \/ rbreak(p)
        \/ Delete(p) \/ Clear(p) \/ dump(p) \/ dis(p)

-----------------------------------------------------------------------------
Next == Main \/ Execute \/ \E line \in Lines \cup {NoLine} : Command(line)

Spec == Init /\ [][Next]_vars

\* The simulator runs when it is not waiting for a line; a line may not come.
FairSpec == Spec /\ WF_vars(Main) /\ WF_vars(Execute)
=============================================================================
