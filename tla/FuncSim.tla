------------------------------ MODULE FuncSim ------------------------------
(***************************************************************************)
(* The functional simulator: the main loop of sim-safe.c, which executes   *)
(* the program one instruction at a time.  It is what every other          *)
(* simulator of the suite must agree with on the instructions executed.    *)
(***************************************************************************)
EXTENDS Isa

CONSTANT max_insts        \* -max:inst, 0 for no limit

VARIABLES
    regs_PC,              \* the instruction to execute next
    sim_num_insn,         \* instructions executed
    halted                \* the simulation has ended

funcVars == <<regs_PC, sim_num_insn, halted>>

Init ==
    /\ regs_PC = Entry
    /\ sim_num_insn = 0
    /\ halted = FALSE

\* finish early?
MaxReached(n) == max_insts # 0 /\ n >= max_insts

\* The body of the loop for an instruction that does not end the program.
Execute ==
    /\ ~halted
    /\ Inst(regs_PC).op # "EXIT"
    /\ sim_num_insn' = sim_num_insn + 1
    /\ regs_PC' \in NextPCs(regs_PC)
    /\ halted' = MaxReached(sim_num_insn')

\* The exit system call leaves the loop by longjmp, from inside the switch.
Exit ==
    /\ ~halted
    /\ Inst(regs_PC).op = "EXIT"
    /\ sim_num_insn' = sim_num_insn + 1
    /\ halted' = TRUE
    /\ UNCHANGED regs_PC

Next == Execute \/ Exit

Spec == Init /\ [][Next]_funcVars
=============================================================================
