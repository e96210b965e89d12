----------------------------- MODULE BpredProps -----------------------------
(* What holds of a well formed branch predictor. *)
EXTENDS Bpred

-----------------------------------------------------------------------------
(* Types *)

Counters == 0 .. 3

Targets    == PCs \cup {NOT_TAKEN}
WayOrNot   == Ways \cup {NoWay}
BtbEntries == [addr : PCs, target : Targets, next : WayOrNot, prev : WayOrNot]

\* -1 and 0 are the tops of a stack of no entries.
TosType == IF retstack_size > 0 THEN 0 .. retstack_size - 1 ELSE {-1, 0}

Tables  == [bimod   : [0 .. bimod_size - 1 -> Counters],
            l2table : [0 .. l2size - 1 -> Counters],
            meta    : [0 .. meta_size - 1 -> Counters]]
BtbSets == [Ways -> BtbEntries]

Predictors ==
    [class     : PredClasses,
     table     : Tables,
     shiftregs : [0 .. l1size - 1 -> 0 .. histories - 1],
     btb       : [Sets -> BtbSets],
     stack     : [0 .. retstack_size - 1 -> Targets],
     tos       : TosType]

Pointers ==
    {NULLPtr} \cup ({"bimod"} \X (0 .. bimod_size - 1))
              \cup ({"l2table"} \X (0 .. l2size - 1))
              \cup ({"meta"} \X (0 .. meta_size - 1))

DirUpdates == [ras : BOOLEAN, pdir1 : Pointers, pdir2 : Pointers, pmeta : Pointers,
               bimod : BOOLEAN, twolev : BOOLEAN]

-----------------------------------------------------------------------------
(* The branch target buffer *)

\* In a set the links mirror one another, with one most and one least recently
\* used way.
Linked(set) ==
    /\ \E h \in Ways : \A w \in Ways : (set[w].prev = NoWay) <=> (w = h)
    /\ \E t \in Ways : \A w \in Ways : (set[w].next = NoWay) <=> (w = t)
    /\ \A w \in Ways :
        /\ set[w].next # NoWay => set[set[w].next].prev = w
        /\ set[w].prev # NoWay => set[set[w].prev].next = w

\* No two ways of a set hold the same branch.
OneEntry(set) ==
    \A v, w \in Ways : set[v].addr = set[w].addr /\ v # w => set[v].addr = NoAddr

BtbWell(btb) == \A s \in Sets : Linked(btb[s]) /\ OneEntry(btb[s])

\* An entry is found in the set of its address, and sends its branch where it
\* has been: a hit for a direct branch cannot be a mis-fetch.
BtbTargets(btb) ==
    \A s \in Sets, w \in Ways :
        LET e == btb[s][w]
        IN  e.addr # NoAddr => /\ e.addr % btb_sets = s
                               /\ Ctrl(Code[e.addr].op)
                               /\ Is(Code[e.addr].op, "F_DIRJMP")
                                     => e.target \in Code[e.addr].targets
=============================================================================
