---------------------------- MODULE MCOutOrder -----------------------------
(* Programs and machines for model checking OutOrder. *)
EXTENDS OutOrderProps

I(op, in1, in2, out, to) ==
    [op |-> op, ins |-> <<in1, in2, NA>>, outs |-> <<out, NA>>, targets |-> to]

\* A branch that waits for a division, a second one behind a load of its wrong
\* path, and a load behind a store whose address comes from the division.
CodeBranch ==
    << I("DIV", "r1", NA, "r1", {}),
       I("BEQ", "r1", NA, NA, {5}),
       I("LW", NA, "r2", "r2", {}),
       I("BEQ", "r2", NA, NA, {6}),
       I("SW", "r2", "r1", NA, {}),
       I("LW", NA, "r2", "r2", {}),
       I("EXIT", NA, NA, NA, {}) >>

\* A call, a division behind a load, a return that waits for it and a system
\* call.
CodeTraps ==
    << I("JAL", NA, NA, "r31", {4}),
       I("SYSCALL", NA, NA, NA, {}),
       I("EXIT", NA, NA, NA, {}),
       I("LW", NA, "r31", "r1", {}),
       I("DIV", "r1", "r31", "r1", {}),
       I("NOP", NA, NA, NA, {}),
       I("JR", "r1", NA, NA, {2}) >>

T(o, i) == [oplat |-> o, issuelat |-> i]
\* One ALU, one divider and one memory port.
Pool == << [IntALU |-> T(1, 1)], [IntDIV |-> T(3, 2)],
           [RdPort |-> T(1, 1), WrPort |-> T(1, 1)] >>
=============================================================================
