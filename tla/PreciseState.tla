---------------------------- MODULE PreciseState ----------------------------
(***************************************************************************)
(* What the registers and the memory of a machine that runs ahead on a     *)
(* wrong path promise: while it does, the program's own state is left      *)
(* alone, a read sees what that path wrote and, where it wrote nothing,    *)
(* the program's state; and when the path is dropped nothing is left.  A   *)
(* wrong path reads zero where it may not access and stores nothing there. *)
(***************************************************************************)
EXTENDS Integers

CONSTANTS
    Operands,              \* the sets of registers one instruction reads or writes
    Accesses,              \* <<address, size>> of the loads and stores
    Readable, Writable,    \* those a wrong path may make
    Values, Bytes

VARIABLES
    regs,        \* register -> value
    memory,      \* address -> byte
    spec_mode,
    written,     \* register -> value, of those the wrong path has written
    stored,      \* address -> byte, of those the wrong path has stored to
    out          \* what the last read returned: of a register, or the bytes of a load

vars == <<regs, memory, spec_mode, written, stored, out>>

\* Function g laid over function f.
Over(f, g) == [x \in DOMAIN f \cup DOMAIN g |-> IF x \in DOMAIN g THEN g[x] ELSE f[x]]
Nothing == [x \in {} |-> 0]

Init == spec_mode = FALSE /\ written = Nothing /\ stored = Nothing

Misspeculate == /\ ~ spec_mode /\ spec_mode' = TRUE
                /\ UNCHANGED <<regs, memory, written, stored, out>>

Recover == /\ spec_mode /\ spec_mode' = FALSE
           /\ written' = Nothing /\ stored' = Nothing
           /\ UNCHANGED <<regs, memory, out>>

ReadRegs(R) == /\ out' = <<"regs", [r \in R |-> Over(regs, written)[r]]>>
               /\ UNCHANGED <<regs, memory, spec_mode, written, stored>>

WriteRegs(f) ==
    /\ IF spec_mode THEN written' = Over(written, f) /\ UNCHANGED regs
                    ELSE regs' = Over(regs, f) /\ UNCHANGED written
    /\ UNCHANGED <<memory, spec_mode, stored, out>>

Load(a, n) ==
    /\ out' = <<"bytes", [i \in 0 .. n - 1 |->
                  IF spec_mode /\ <<a, n>> \notin Readable THEN 0
                  ELSE Over(memory, stored)[a + i]]>>
    /\ UNCHANGED <<regs, memory, spec_mode, written, stored>>

\* The n bytes of p at a.
At(a, n, p) == [x \in a .. a + n - 1 |-> p[x - a]]
Store(a, n, p) ==
    /\ IF ~ spec_mode THEN memory' = Over(memory, At(a, n, p)) /\ UNCHANGED stored
       ELSE /\ stored' = IF <<a, n>> \in Writable THEN Over(stored, At(a, n, p)) ELSE stored
            /\ UNCHANGED memory
    /\ UNCHANGED <<regs, spec_mode, written, out>>

Next ==
    \/ Misspeculate \/ Recover
    \/ \E R \in Operands : ReadRegs(R) \/ \E f \in [R -> Values] : WriteRegs(f)
    \/ \E x \in Accesses :
        Load(x[1], x[2]) \/ \E p \in [0 .. x[2] - 1 -> Bytes] : Store(x[1], x[2], p)

Spec == Init /\ [][Next]_vars
=============================================================================
