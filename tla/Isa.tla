-------------------------------- MODULE Isa --------------------------------
(***************************************************************************)
(* What the simulators of simplesim-3.0 need to know of the target         *)
(* instruction set.  The program text is a function from program counters  *)
(* to instructions; register values are abstracted, so that an             *)
(* instruction may go to any of the program counters its operands allow.   *)
(***************************************************************************)
EXTENDS Naturals

CONSTANTS
    Code,     \* the text segment: PC -> [op, ins, outs, targets]
    Entry     \* ld_prog_entry

Text == DOMAIN Code

\* NA of target-pisa/pisa.h: no register, or no functional unit class.
NA == "NA"

\* DTMP of sim-outorder.c: the register name that hands the effective
\* address from the address computation to the memory operation.
DTMP == "DTMP"

(***************************************************************************)
(* One operation per kind the simulators tell apart, with its FLAGS and    *)
(* its functional unit class (the DEFINST entries of pisa.def).  EXIT is a *)
(* SYSCALL whose system call is exit.  MD_AGEN_OP is ADD.                  *)
(***************************************************************************)
MD_OP_FLAGS ==
    [NOP     |-> {},
     ADD     |-> {},
     DIV     |-> {"F_LONGLAT"},
     LW      |-> {"F_MEM", "F_LOAD"},
     SW      |-> {"F_MEM", "F_STORE"},
     BEQ     |-> {"F_CTRL", "F_DIRJMP"},
     JUMP    |-> {"F_CTRL", "F_UNCOND", "F_DIRJMP"},
     JAL     |-> {"F_CTRL", "F_UNCOND", "F_DIRJMP", "F_CALL"},
     JR      |-> {"F_CTRL", "F_UNCOND"},
     JALR    |-> {"F_CTRL", "F_UNCOND", "F_CALL"},
     SYSCALL |-> {"F_TRAP"},
     EXIT    |-> {"F_TRAP"}]

MD_OP_FUCLASS ==
    [NOP |-> "IntALU", ADD |-> "IntALU", DIV |-> "IntDIV",
     LW |-> "RdPort", SW |-> "WrPort",
     BEQ |-> "IntALU", JUMP |-> NA, JAL |-> "IntALU", JR |-> NA,
     JALR |-> "IntALU", SYSCALL |-> NA, EXIT |-> NA]

Jumps == {"JUMP", "JAL", "JR", "JALR"}

Ops == DOMAIN MD_OP_FLAGS
Is(op, flag) == flag \in MD_OP_FLAGS[op]

(***************************************************************************)
(* All addresses that are not aligned text addresses stand in one value:   *)
(* fetching there yields a NOP and falls through to another such address.  *)
(***************************************************************************)
BogusPC == 0
PCs == Text \cup {BogusPC}

NOPInst == [op |-> "NOP", ins |-> <<NA, NA, NA>>, outs |-> <<NA, NA>>, targets |-> {}]
Inst(pc) == IF pc \in Text THEN Code[pc] ELSE NOPInst

\* PC + sizeof(md_inst_t)
SeqPC(pc) == IF pc \in Text /\ pc + 1 \in Text THEN pc + 1 ELSE BogusPC

\* The values regs_NPC may have once the instruction at pc has executed.
NextPCs(pc) ==
    LET i == Inst(pc) IN
    CASE i.op = "BEQ" -> {SeqPC(pc)} \cup i.targets
      [] i.op \in Jumps -> i.targets
      [] OTHER          -> {SeqPC(pc)}

ASSUME IsaAssumption ==
    /\ Text \subseteq Nat \ {BogusPC}
    /\ Entry \in Text
    /\ \A pc \in Text :
        /\ Code[pc].op \in Ops
        /\ Code[pc].targets \subseteq Text
        /\ Code[pc].op \in Jumps => Code[pc].targets # {}
        /\ Code[pc].op \notin Jumps \cup {"EXIT"} => pc + 1 \in Text
=============================================================================
