------------------------------- MODULE Bpred -------------------------------
(***************************************************************************)
(* The branch predictor of bpred.c: tables of two-bit counters, a branch   *)
(* target buffer of LRU sets and a return address stack.  A predictor is a *)
(* record, and the functions of bpred.c are operators on it; what calls    *)
(* them, and when, is in SimBpred and in BpredPipe.                        *)
(*                                                                         *)
(* An address stands for its instruction's number, so that the shifts by   *)
(* MD_BR_SHIFT are gone; the programs are small, so that BIMOD_HASH folds  *)
(* no high address bits in.  Statistics are left out, and so are the       *)
(* opcodes kept in the BTB, which nothing reads.                           *)
(***************************************************************************)
EXTENDS Isa, Integers

CONSTANTS
    bimod_size, l1size, l2size, meta_size,
    histories,             \* 1 << shift_width
    xor,                   \* is the history combined with the address?
    btb_sets, btb_assoc, retstack_size,
    BitXor(_, _)              \* the operator ^ of C

PowerOfTwo(n) == n \in Nat \ {0} /\ \E k \in 0 .. 30 : n = 2 ^ k

ASSUME BpredAssumption ==
    /\ \A n \in {bimod_size, l1size, l2size, meta_size, histories, btb_sets,
                 btb_assoc} : PowerOfTwo(n)
    /\ histories > 1
    /\ retstack_size = 0 \/ PowerOfTwo(retstack_size)
    /\ xor \in BOOLEAN
    /\ \A h \in 0 .. histories - 1, pc \in Text : BitXor(h, pc) \in Nat

PredClasses == {"Comb", "2Level", "2bit", "Taken", "NotTaken", "Opcode", "OpcodeComb"}
Static    == {"Taken", "NotTaken"}
Combined  == {"Comb", "OpcodeComb"}
TwoLevel  == {"2Level", "Comb", "OpcodeComb"}
ByOpcode  == {"Opcode", "OpcodeComb"}

\* The numbers of enum md_opcode.
MD_OPCODE == [NOP |-> 1, JUMP |-> 2, JAL |-> 3, JR |-> 4, JALR |-> 5, BEQ |-> 6,
              LW |-> 18, SW |-> 32, ADD |-> 64, DIV |-> 72,
              SYSCALL |-> 123, EXIT |-> 123]

Ctrl(op)   == Is(op, "F_CTRL")
Uncond(op) == Ctrl(op) /\ Is(op, "F_UNCOND")
Cond(op)   == Ctrl(op) /\ ~Uncond(op)

-----------------------------------------------------------------------------
(* bpred_create *)

Sets   == 0 .. btb_sets - 1
Ways   == 0 .. btb_assoc - 1
NoWay  == -1
NoAddr == 0              \* the address of an entry that was never used

\* The answers of a lookup that are no target: not taken (the address 0, with
\* which unused entries begin), and taken (the address 1).
NOT_TAKEN == -2
TAKEN     == -1

\* Counters start weakly this-or-that.
FlipFlop(size) == [i \in 0 .. size - 1 |-> 1 + (i % 2)]

EmptyBtbSet ==
    [w \in Ways |->
        [addr |-> NoAddr, target |-> NOT_TAKEN,
         next |-> IF w = btb_assoc - 1 THEN NoWay ELSE w + 1,
         prev |-> IF w = 0 THEN NoWay ELSE w - 1]]

bpred_create(class) ==
    [class     |-> class,
     table     |-> [bimod |-> FlipFlop(bimod_size), l2table |-> FlipFlop(l2size),
                    meta |-> FlipFlop(meta_size)],
     shiftregs |-> [i \in 0 .. l1size - 1 |-> 0],
     btb       |-> [s \in Sets |-> EmptyBtbSet],
     stack     |-> [i \in 0 .. retstack_size - 1 |-> NOT_TAKEN],
     tos       |-> retstack_size - 1]

-----------------------------------------------------------------------------
(* bpred_dir_lookup: a pointer to a counter is its table and its index. *)

NULLPtr == <<"NULL", 0>>

\* prev is the opcode argument of the lookup, already shifted.
BIMOD_HASH(a) == a % bimod_size

L2Index(h, pc) ==
    ((IF xor THEN BitXor(h, pc) % histories ELSE h) + pc * histories) % l2size

BimodEntry(p, pc, prev) ==
    <<"bimod", BIMOD_HASH(IF p.class \in ByOpcode THEN prev ELSE pc)>>
TwolevEntry(p, pc) == <<"l2table", L2Index(p.shiftregs[pc % l1size], pc)>>
MetaEntry(pc)      == <<"meta", pc % meta_size>>

Counter(p, q) == p.table[q[1]][q[2]]
Says(p, q)    == Counter(p, q) >= 2

-----------------------------------------------------------------------------
(* bpred_lookup *)

\* What a jump leaves in *dir_update_ptr.
NoDirection == [ras |-> FALSE, pdir1 |-> NULLPtr, pdir2 |-> NULLPtr,
                pmeta |-> NULLPtr, bimod |-> FALSE, twolev |-> FALSE]

\* The component the chooser trusts, and the other one.
Choice(m, b, t) == IF m THEN <<t, b>> ELSE <<b, t>>

\* The direction pointers of a conditional branch.  The lookup of OpcodeComb
\* does not assign dir.twolev, which keeps the value junk of the record.
DirUpdate(p, pc, prev, junk) ==
    LET b == BimodEntry(p, pc, prev)
        t == TwolevEntry(p, pc)
        m == MetaEntry(pc)
        c == Choice(Says(p, m), b, t)
    IN  CASE p.class \in Combined ->
                [ras |-> FALSE, pdir1 |-> c[1], pdir2 |-> c[2], pmeta |-> m,
                 bimod |-> Says(p, b),
                 twolev |-> IF p.class = "OpcodeComb" THEN junk ELSE Says(p, t)]
          [] p.class = "2Level"           -> [NoDirection EXCEPT !.pdir1 = t]
          [] p.class \in {"2bit", "Opcode"} -> [NoDirection EXCEPT !.pdir1 = b]
          [] p.class \in Static           -> NoDirection

Pops(p, ret) == p.class \notin Static /\ ret /\ retstack_size > 0
Pushes(p, call, ret) ==
    p.class \notin Static /\ ~Pops(p, ret) /\ call /\ retstack_size > 0

dir_update(p, pc, prev, op, ret, junk) ==
    [(IF Cond(op) THEN DirUpdate(p, pc, prev, junk) ELSE NoDirection)
        EXCEPT !.ras = Pops(p, ret)]

stack_recover_idx(p) == IF retstack_size > 0 THEN p.tos ELSE 0

\* Faulty variant: the push writes below the entry it makes the top.
AfterLookupBelow(p, pc, call, ret) ==
    IF Pops(p, ret)
    THEN [p EXCEPT !.tos = (@ + retstack_size - 1) % retstack_size]
    ELSE IF Pushes(p, call, ret)
    THEN [p EXCEPT !.tos = (@ + 1) % retstack_size, !.stack[p.tos] = SeqPC(pc)]
    ELSE p

\* The predictor once the lookup has popped or pushed the stack.
AfterLookup(p, pc, call, ret) ==
    IF Pops(p, ret)
    THEN [p EXCEPT !.tos = (@ + retstack_size - 1) % retstack_size]
    ELSE IF Pushes(p, call, ret)
    THEN [p EXCEPT !.tos = (@ + 1) % retstack_size,
                   !.stack[(p.tos + 1) % retstack_size] = SeqPC(pc)]
    ELSE p

BtbMatches(p, pc) == {w \in Ways : p.btb[pc % btb_sets][w].addr = pc}
\* The first match of the scan.
BtbEntry(p, pc) ==
    p.btb[pc % btb_sets][CHOOSE w \in BtbMatches(p, pc) :
                            \A v \in BtbMatches(p, pc) : w <= v]

\* The predicted target, if the branch is predicted taken.
BtbTarget(p, pc) ==
    IF BtbMatches(p, pc) = {} THEN TAKEN ELSE BtbEntry(p, pc).target

bpred_lookup(p, pc, btarget, op, ret, upd) ==
    CASE p.class = "Taken"    -> btarget
      [] p.class = "NotTaken" -> IF Uncond(op) THEN btarget ELSE SeqPC(pc)
      [] p.class \notin Static ->
            IF Pops(p, ret) THEN p.stack[p.tos]
            ELSE IF Uncond(op) \/ Says(p, upd.pdir1) THEN BtbTarget(p, pc)
            ELSE NOT_TAKEN

bpred_recover(p, idx) == [p EXCEPT !.tos = idx]

-----------------------------------------------------------------------------
(* bpred_update *)

\* Faulty variant: the counter wraps around.
TrainedWrapping(c, taken) == IF taken THEN (c + 1) % 4 ELSE (c + 3) % 4

Trained(c, taken) == IF taken THEN (IF c < 3 THEN c + 1 ELSE c)
                     ELSE IF c > 0 THEN c - 1 ELSE c

Train(table, q, taken) ==
    IF q = NULLPtr THEN table
    ELSE [table EXCEPT ![q[1]][q[2]] = Trained(@, taken)]

\* Faulty variant: the chooser learns whether or not they differed.
MetaAlwaysTrained(table, upd, taken) ==
    IF upd.pmeta = NULLPtr THEN table
    ELSE Train(table, upd.pmeta, upd.twolev = taken)

\* The chooser learns where the components differed.
MetaTrained(table, upd, taken) ==
    IF upd.pmeta = NULLPtr \/ upd.bimod = upd.twolev THEN table
    ELSE Train(table, upd.pmeta, upd.twolev = taken)

NewHistory(h, taken) == (2 * h + IF taken THEN 1 ELSE 0) % histories

\* The most and the least recently used way: the ends of the list.
LruHead(set) == CHOOSE w \in Ways : set[w].prev = NoWay
LruItem(set) == CHOOSE w \in Ways : set[w].next = NoWay

\* Way w becomes the most recently used.
MadeMru(set, w) ==
    LET h == LruHead(set)
        x == set[w].next
        y == set[w].prev
    IN  IF w = h THEN set
        ELSE [v \in Ways |->
                [set[v] EXCEPT
                    !.next = IF v = w THEN h ELSE IF v = y THEN x ELSE @,
                    !.prev = IF v = w THEN NoWay ELSE IF v = h THEN w
                             ELSE IF v = x THEN y ELSE @]]

\* Faulty variant: a branch that is in the set gets a second entry.
VictimAlways(set, pc) == LruItem(set)

\* Faulty variant: the most recently used way makes room.
VictimMru(set, pc) ==
    LET own == {w \in Ways : set[w].addr = pc}
    IN  IF own # {} THEN CHOOSE w \in own : TRUE ELSE LruHead(set)

\* The way a taken branch is entered in: its own, or the victim's.
Victim(set, pc) ==
    LET own == {w \in Ways : set[w].addr = pc}
    IN  IF own # {} THEN CHOOSE w \in own : TRUE
        ELSE IF btb_assoc > 1 THEN LruItem(set) ELSE 0

\* Faulty variant: the entry of the victim keeps its target.
EntryKept(e, pc, btarget, correct) ==
    IF e.addr = pc THEN (IF correct THEN e ELSE [e EXCEPT !.target = btarget])
    ELSE [e EXCEPT !.addr = pc]

Entered(e, pc, btarget, correct) ==
    IF e.addr = pc THEN (IF correct THEN e ELSE [e EXCEPT !.target = btarget])
    ELSE [e EXCEPT !.addr = pc, !.target = btarget]

BtbUpdated(set, pc, btarget, correct) ==
    LET w   == Victim(set, pc)
        mru == IF btb_assoc > 1 THEN MadeMru(set, w) ELSE set
    IN  [mru EXCEPT ![w] = Entered(@, pc, btarget, correct)]

\* A branch that used the stack leaves the rest of the predictor alone.
Trains(p, op, upd) ==
    Ctrl(op) /\ ~(op = "JR" /\ upd.ras) /\ p.class \notin Static

bpred_update(p, pc, btarget, taken, correct, op, upd) ==
    IF ~Trains(p, op, upd) THEN p
    ELSE [p EXCEPT
            !.table = MetaTrained(Train(Train(@, upd.pdir1, taken),
                                        upd.pdir2, taken), upd, taken),
            !.shiftregs[pc % l1size] =
                IF Cond(op) /\ p.class \in TwoLevel
                THEN NewHistory(@, taken) ELSE @,
            !.btb[pc % btb_sets] =
                IF taken THEN BtbUpdated(@, pc, btarget, correct) ELSE @]
=============================================================================
