---------------------------- MODULE SimBpredProps ---------------------------
(* What the predictor of bpred.c promises a simulator that uses it in      *)
(* program order.                                                          *)
EXTENDS SimBpred, BpredProps

\* Every counter stays in its two bits, every history in its width and the top
\* of the stack in the stack, whatever the branches do.
TypeOK ==
    /\ pred \in Predictors
    /\ regs_PC \in PCs /\ prev \in Opcodes
    /\ outcome \in [Branches -> SUBSET BOOLEAN]
    /\ calls \in Seq(PCs) /\ fresh \in 0 .. retstack_size
    /\ fresh <= Len(calls)

-----------------------------------------------------------------------------
(* The branch target buffer *)

\* The assertions of bpred_update: one head and one tail for the list of every
\* set, and at most one way that matches an address.
BtbWellFormed == BtbWell(pred.btb)

\* The study's BTB sends no direct branch to another address than its own target.
BtbTargetsRight == BtbTargets(pred.btb)

\* The addresses of a set, from the most recently used way on.
Recency(set) ==
    LET way[k \in 1 .. btb_assoc] ==
            IF k = 1 THEN LruHead(set) ELSE set[way[k - 1]].next
    IN  [k \in 1 .. btb_assoc |-> set[way[k]].addr]

\* A taken branch moves to the front of its set, and if it was not there the
\* one that has not been taken for the longest time makes room.
Place(q, pc) == IF \E k \in DOMAIN q : q[k] = pc THEN CHOOSE k \in DOMAIN q : q[k] = pc
                ELSE Len(q)
Recent(q, pc) ==
    [k \in DOMAIN q |-> IF k = 1 THEN pc ELSE IF k <= Place(q, pc) THEN q[k - 1] ELSE q[k]]
BtbKeepsRecent ==
    [][\A s \in Sets :
        LET q == Recency(pred.btb[s])
            r == Recency(pred'.btb[s])
        IN  r # q => /\ s = regs_PC % btb_sets
                     /\ r = Recent(q, regs_PC)]_vars

-----------------------------------------------------------------------------
(* The return address stack *)

\* The stack holds the return addresses of the last calls under way, also after
\* deeper calls have wrapped around it: so their returns are predicted right.
RasHoldsCalls ==
    pred.class \notin Static =>
        \A k \in 0 .. fresh - 1 :
            pred.stack[(pred.tos + retstack_size - k) % retstack_size]
                = calls[Len(calls) - k]

-----------------------------------------------------------------------------
(* The combining predictors *)

\* The chooser moves towards the 2-level component when only that one was right,
\* towards the other one when only that was, and does not move otherwise.
Follows ==
    LET look  == Lookup(regs_PC, Op, prev)
        b     == Says(pred, BimodEntry(pred, regs_PC, look))
        t     == Says(pred, TwolevEntry(pred, regs_PC))
        m     == MetaEntry(regs_PC)
        taken == last'.next # SeqPC(regs_PC)
    IN  (pred' # pred /\ Cond(Op)) =>
            Counter(pred', m) =
                IF b = t THEN Counter(pred, m)
                ELSE Trained(Counter(pred, m), t = taken)

\* The chooser of the combining predictor follows the better component.
CombFollows == [][pred.class = "Comb" => Follows]_vars

\* So does the chooser of the one that combines the opcode with two levels.
OpcodeCombFollows == [][pred.class = "OpcodeComb" => Follows]_vars

-----------------------------------------------------------------------------
(* Learning *)

\* Once every branch keeps its direction, the predictors that learn come to
\* predict all directions right, unless the program ends first: pred_taken =
\* taken in every update to come.
DirectionRight ==
    (last.pred_PC # SeqPC(last.pc)) <=> (last.next # SeqPC(last.pc))
Learns ==
    <>(Settled /\ pred.class \notin Static) =>
        <>[]DirectionRight \/ <>(Op = "EXIT")
=============================================================================
