----------------------------- MODULE MCBpredPipe ----------------------------
(* A program for model checking the predictor in the pipeline. *)
EXTENDS BpredPipeProps, Bitwise

XorBits(a, b) == a ^^ b

B(op, rs, to) == [op |-> op, rs |-> rs, targets |-> to]

\* A loop with an indirect call and a jump through register 31 that the pipeline
\* takes for a return, as the instruction before it names register 31.
CodeLoop ==
    << B("BEQ", 31, {3}),
       B("JR", 31, {1, 3}),
       B("JALR", 2, {2, 4}),
       B("ADD", 1, {}),
       B("JUMP", 0, {1}) >>

\* A call and a return as compilers write it: the stack is popped before it.
CodeReturn ==
    << B("JAL", 0, {3}),
       B("JUMP", 0, {1}),
       B("ADD", 29, {}),
       B("JR", 31, {2}) >>
=============================================================================
