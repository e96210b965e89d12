------------------------------ MODULE MCSimBpred ------------------------------
(* Programs for model checking the branch predictor. *)
EXTENDS SimBpredProps, Bitwise

XorBits(a, b) == a ^^ b

B(op, rs, to) == [op |-> op, rs |-> rs, targets |-> to]

\* A loop whose calls are up to three deep.
CodeNest ==
    << B("JAL", 0, {7}),
       B("BEQ", 1, {4}),
       B("JALR", 2, {7, 10}),
       B("ADD", 1, {}),
       B("BEQ", 1, {1}),
       B("EXIT", 0, {}),
       B("JAL", 0, {10}),
       B("ADD", 2, {}),
       B("JR", 31, {2, 4}),
       B("JAL", 0, {12}),
       B("JR", 31, {4, 8}),
       B("JR", 31, {11}) >>
=============================================================================
