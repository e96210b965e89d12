----------------------------- MODULE BpredProofs ----------------------------
(***************************************************************************)
(* What the operations of the branch predictor keep, whoever calls them    *)
(* and in whatever order: lemmas for SimBpredProofs and BpredPipeProofs.   *)
(***************************************************************************)
EXTENDS BpredProps, TLAPS

-----------------------------------------------------------------------------
(* Sizes and addresses *)

LEMMA Sizes ==
    /\ bimod_size \in Nat \ {0} /\ l1size \in Nat \ {0} /\ l2size \in Nat \ {0}
    /\ meta_size \in Nat \ {0} /\ histories \in Nat \ {0}
    /\ btb_sets \in Nat \ {0} /\ btb_assoc \in Nat \ {0}
    /\ retstack_size \in Nat /\ xor \in BOOLEAN
  BY BpredAssumption DEF BpredAssumption, PowerOfTwo

LEMMA ModRange == \A a \in Nat, m \in Nat \ {0} : a % m \in 0 .. m - 1
  OBVIOUS

LEMMA TextType ==
    /\ Text \subseteq Nat \ {0} /\ Text \subseteq PCs /\ 0 \in PCs
    /\ \A pc : SeqPC(pc) \in PCs
  BY IsaAssumption DEF IsaAssumption, PCs, BogusPC, SeqPC

LEMMA SetOf == \A pc \in Text : pc % btb_sets \in Sets
  BY Sizes, TextType, ModRange DEF Sets

-----------------------------------------------------------------------------
(* bpred_create *)

LEMMA CreateType ==
    ASSUME NEW class \in PredClasses
    PROVE  bpred_create(class) \in Predictors
<1> DEFINE p == bpred_create(class)
<1>1. \A size \in Nat : FlipFlop(size) \in [0 .. size - 1 -> Counters]
  BY DEF FlipFlop, Counters
<1>2. p.table \in Tables
  BY <1>1, Sizes DEF bpred_create, Tables
<1>3. p.shiftregs \in [0 .. l1size - 1 -> 0 .. histories - 1]
  BY Sizes DEF bpred_create
<1>4. EmptyBtbSet \in BtbSets
  BY Sizes, TextType DEF EmptyBtbSet, BtbSets, BtbEntries, NoAddr, Targets, WayOrNot, Ways, NoWay
<1>5. p.btb \in [Sets -> BtbSets]
  BY <1>4 DEF bpred_create
<1>6. p.stack \in [0 .. retstack_size - 1 -> Targets]
  BY TextType DEF bpred_create, Targets
<1>7. p.tos \in TosType
  BY Sizes DEF bpred_create, TosType
<1> QED
  BY <1>2, <1>3, <1>5, <1>6, <1>7 DEF bpred_create, Predictors

\* The ways of an empty set are in the order of their numbers.
LEMMA CreateBtb ==
    ASSUME NEW class
    PROVE  LET btb == bpred_create(class).btb
           IN  BtbWell(btb) /\ BtbTargets(btb)
<1>1. Linked(EmptyBtbSet)
  <2>1. /\ 0 \in Ways /\ btb_assoc - 1 \in Ways
        /\ \A w \in Ways : /\ (EmptyBtbSet[w].prev = NoWay) <=> (w = 0)
                           /\ (EmptyBtbSet[w].next = NoWay) <=> (w = btb_assoc - 1)
    BY Sizes DEF EmptyBtbSet, Ways, NoWay
  <2>2. ASSUME NEW w \in Ways, EmptyBtbSet[w].next # NoWay
        PROVE  EmptyBtbSet[EmptyBtbSet[w].next].prev = w
    BY <2>2, Sizes DEF EmptyBtbSet, Ways, NoWay
  <2>3. ASSUME NEW w \in Ways, EmptyBtbSet[w].prev # NoWay
        PROVE  EmptyBtbSet[EmptyBtbSet[w].prev].next = w
    BY <2>3, Sizes DEF EmptyBtbSet, Ways, NoWay
  <2> QED
    BY <2>1, <2>2, <2>3 DEF Linked
<1>2. \A s \in Sets : bpred_create(class).btb[s] = EmptyBtbSet
  BY DEF bpred_create
<1>3. \A w \in Ways : EmptyBtbSet[w].addr = NoAddr
  BY DEF EmptyBtbSet
<1> QED
  BY <1>1, <1>2, <1>3 DEF BtbWell, OneEntry, BtbTargets
-----------------------------------------------------------------------------
(* The list of a BTB set *)

LEMMA HeadAndTail ==
    ASSUME NEW set \in BtbSets, Linked(set)
    PROVE  /\ LruHead(set) \in Ways /\ set[LruHead(set)].prev = NoWay
           /\ LruItem(set) \in Ways /\ set[LruItem(set)].next = NoWay
           /\ \A w \in Ways : set[w].prev = NoWay => w = LruHead(set)
  BY DEF Linked, LruHead, LruItem

\* Moving a way to the front keeps the list a list, and the entries as they are.
LEMMA MadeMruLinked ==
    ASSUME NEW set \in BtbSets, Linked(set), NEW w \in Ways
    PROVE  LET m == MadeMru(set, w)
           IN  /\ m \in BtbSets /\ Linked(m)
               /\ \A v \in Ways : m[v].addr = set[v].addr /\ m[v].target = set[v].target
<1> DEFINE h == LruHead(set)
           x == set[w].next
           y == set[w].prev
           m == MadeMru(set, w)
<1>0. /\ h \in Ways /\ set[h].prev = NoWay
      /\ \A v \in Ways : set[v].prev = NoWay => v = h
  BY HeadAndTail
<1>1. CASE w = h
  BY <1>1 DEF MadeMru
<1>2. CASE w # h
  <2>1. /\ y # NoWay /\ y \in Ways /\ set[y].next = w
        /\ x \in WayOrNot /\ NoWay \notin Ways
        /\ x # NoWay => x \in Ways /\ set[x].prev = w
    BY <1>0, <1>2, Sizes DEF Linked, BtbSets, BtbEntries, WayOrNot, NoWay, Ways
  <2>2. m = [v \in Ways |->
               [set[v] EXCEPT
                  !.next = IF v = w THEN h ELSE IF v = y THEN x ELSE set[v].next,
                  !.prev = IF v = w THEN NoWay ELSE IF v = h THEN w
                           ELSE IF v = x THEN y ELSE set[v].prev]]
    BY <1>2 DEF MadeMru
  <2>3. \A v \in Ways :
          /\ m[v].next = IF v = w THEN h ELSE IF v = y THEN x ELSE set[v].next
          /\ m[v].prev = IF v = w THEN NoWay ELSE IF v = h THEN w
                         ELSE IF v = x THEN y ELSE set[v].prev
          /\ m[v].addr = set[v].addr /\ m[v].target = set[v].target
          /\ m[v] \in BtbEntries
    <3> SUFFICES ASSUME NEW v \in Ways
                 PROVE  /\ m[v].next = IF v = w THEN h ELSE IF v = y THEN x ELSE set[v].next
                        /\ m[v].prev = IF v = w THEN NoWay ELSE IF v = h THEN w
                                       ELSE IF v = x THEN y ELSE set[v].prev
                        /\ m[v].addr = set[v].addr /\ m[v].target = set[v].target
                        /\ m[v] \in BtbEntries
      OBVIOUS
    <3>1. set[v] \in BtbEntries
      BY DEF BtbSets
    <3> DEFINE nx == IF v = w THEN h ELSE IF v = y THEN x ELSE set[v].next
               pr == IF v = w THEN NoWay ELSE IF v = h THEN w
                     ELSE IF v = x THEN y ELSE set[v].prev
    <3>2. m[v] = [set[v] EXCEPT !.next = nx, !.prev = pr]
      BY <2>2
    <3>3. nx \in WayOrNot /\ pr \in WayOrNot
      BY <1>0, <2>1, <3>1 DEF BtbEntries, WayOrNot
    <3> HIDE DEF nx, pr, m
    <3>4. LET e == [set[v] EXCEPT !.next = nx, !.prev = pr]
          IN  /\ e \in BtbEntries /\ e.next = nx /\ e.prev = pr
              /\ e.addr = set[v].addr /\ e.target = set[v].target
      BY <3>1, <3>3 DEF BtbEntries
    <3>5. /\ m[v] \in BtbEntries /\ m[v].next = nx /\ m[v].prev = pr
          /\ m[v].addr = set[v].addr /\ m[v].target = set[v].target
      BY <3>2, <3>4
    <3> QED
      BY <3>5 DEF nx, pr
  <2>4. m \in BtbSets
    BY <2>2, <2>3 DEF BtbSets
  <2> HIDE DEF m
  <2>5. \A v \in Ways : (m[v].prev = NoWay) <=> (v = w)
    BY <1>0, <1>2, <2>1, <2>3
  <2>6. \E t \in Ways : \A v \in Ways : (m[v].next = NoWay) <=> (v = t)
    <3>1. PICK t \in Ways : \A v \in Ways : (set[v].next = NoWay) <=> (v = t)
      BY DEF Linked
    <3>2. CASE w = t
      <4>1. \A v \in Ways : (m[v].next = NoWay) <=> (v = y)
        BY <1>0, <1>2, <2>1, <2>3, <3>1, <3>2
      <4> QED
        BY <2>1, <4>1
    <3>3. CASE w # t
      <4>1. \A v \in Ways : (m[v].next = NoWay) <=> (v = t)
        BY <1>0, <1>2, <2>1, <2>3, <3>1, <3>3
      <4> QED
        BY <4>1
    <3> QED
      BY <3>2, <3>3
  <2>7. ASSUME NEW v \in Ways, m[v].next # NoWay
        PROVE  m[m[v].next].prev = v
    <3>1. set[v].next # NoWay => set[v].next \in Ways /\ set[set[v].next].prev = v
      BY DEF Linked, BtbSets, BtbEntries, WayOrNot
    <3> QED
      BY <1>0, <1>2, <2>1, <2>3, <2>7, <3>1
  <2>8. ASSUME NEW v \in Ways, m[v].prev # NoWay
        PROVE  m[m[v].prev].next = v
    <3>1. set[v].prev # NoWay => set[v].prev \in Ways /\ set[set[v].prev].next = v
      BY DEF Linked, BtbSets, BtbEntries, WayOrNot
    <3> QED
      BY <1>0, <1>2, <2>1, <2>3, <2>8, <3>1
  <2> QED
    BY <2>3, <2>4, <2>5, <2>6, <2>7, <2>8 DEF Linked, m
<1> QED
  BY <1>1, <1>2

LEMMA VictimType ==
    ASSUME NEW set \in BtbSets, Linked(set), NEW pc \in Text
    PROVE  /\ Victim(set, pc) \in Ways
           /\ OneEntry(set) =>
                \A v \in Ways : set[v].addr = pc => v = Victim(set, pc)
<1>1. 0 \in Ways
  BY Sizes DEF Ways
<1>2. pc # NoAddr
  BY TextType DEF NoAddr
<1> QED
  BY <1>1, <1>2, HeadAndTail DEF Victim, OneEntry

\* Entering a taken branch keeps a set well formed, and touches one entry.
LEMMA BtbUpdatedKeeps ==
    ASSUME NEW set \in BtbSets, Linked(set), OneEntry(set),
           NEW pc \in Text, NEW btarget \in PCs, NEW correct \in BOOLEAN
    PROVE  LET b == BtbUpdated(set, pc, btarget, correct)
               w == Victim(set, pc)
           IN  /\ b \in BtbSets /\ Linked(b) /\ OneEntry(b) /\ w \in Ways
               /\ b[w].addr = pc
               /\ \/ b[w].target = btarget
                  \/ set[w].addr = pc /\ b[w].target = set[w].target
               /\ \A v \in Ways \ {w} :
                    b[v].addr = set[v].addr /\ b[v].target = set[v].target
<1> DEFINE w == Victim(set, pc)
           m == IF btb_assoc > 1 THEN MadeMru(set, w) ELSE set
           b == BtbUpdated(set, pc, btarget, correct)
<1>1. /\ w \in Ways
      /\ \A v \in Ways : set[v].addr = pc => v = w
  BY VictimType
<1>2. /\ m \in BtbSets /\ Linked(m)
      /\ \A v \in Ways : m[v].addr = set[v].addr /\ m[v].target = set[v].target
  BY <1>1, MadeMruLinked
<1>3. b = [m EXCEPT ![w] = Entered(m[w], pc, btarget, correct)]
  BY DEF BtbUpdated
<1> HIDE DEF w, m, b
<1>4. LET e == Entered(m[w], pc, btarget, correct)
      IN  /\ e \in BtbEntries /\ e.addr = pc
          /\ e.next = m[w].next /\ e.prev = m[w].prev
          /\ e.target = btarget \/ (m[w].addr = pc /\ e.target = m[w].target)
  <2>1. m[w] \in BtbEntries /\ pc \in PCs
    BY <1>1, <1>2, TextType DEF BtbSets
  <2>2. CASE m[w].addr = pc /\ correct
    BY <2>1, <2>2 DEF Entered
  <2>3. CASE m[w].addr = pc /\ ~correct
    <3>1. Entered(m[w], pc, btarget, correct) = [m[w] EXCEPT !.target = btarget]
      BY <2>3 DEF Entered
    <3> QED
      BY <2>1, <2>3, <3>1 DEF BtbEntries, Targets
  <2>4. CASE m[w].addr # pc
    <3>1. Entered(m[w], pc, btarget, correct)
              = [m[w] EXCEPT !.addr = pc, !.target = btarget]
      BY <2>4 DEF Entered
    <3> QED
      BY <2>1, <3>1 DEF BtbEntries, Targets
  <2> QED
    BY <2>2, <2>3, <2>4
<1>5. /\ b \in BtbSets /\ b[w].addr = pc
      /\ b[w].target = btarget \/ (set[w].addr = pc /\ b[w].target = set[w].target)
      /\ \A v \in Ways : b[v].next = m[v].next /\ b[v].prev = m[v].prev
      /\ \A v \in Ways \ {w} : b[v] = m[v]
  BY <1>1, <1>2, <1>3, <1>4 DEF BtbSets
<1>6. Linked(b)
  <2>1. \A v \in Ways : /\ m[v].next # NoWay => m[v].next \in Ways
                        /\ m[v].prev # NoWay => m[v].prev \in Ways
    BY <1>2 DEF BtbSets, BtbEntries, WayOrNot
  <2>2. \E h \in Ways : \A v \in Ways : (b[v].prev = NoWay) <=> (v = h)
    BY <1>2, <1>5 DEF Linked
  <2>3. \E t \in Ways : \A v \in Ways : (b[v].next = NoWay) <=> (v = t)
    BY <1>2, <1>5 DEF Linked
  <2>4. \A v \in Ways : /\ m[v].next # NoWay => m[m[v].next].prev = v
                        /\ m[v].prev # NoWay => m[m[v].prev].next = v
    BY <1>2 DEF Linked
  <2>5. \A v \in Ways : /\ b[v].next # NoWay => b[b[v].next].prev = v
                        /\ b[v].prev # NoWay => b[b[v].prev].next = v
    BY <1>5, <2>1, <2>4
  <2> QED
    BY <2>2, <2>3, <2>5 DEF Linked
<1>7. OneEntry(b)
  BY <1>1, <1>2, <1>5 DEF OneEntry
<1> QED
  BY <1>1, <1>2, <1>5, <1>6, <1>7 DEF b, w
-----------------------------------------------------------------------------
(* bpred_lookup *)

LEMMA EntryPointers ==
    ASSUME NEW p \in Predictors, NEW pc \in Text, NEW prev \in Nat
    PROVE  /\ BimodEntry(p, pc, prev) \in Pointers
           /\ TwolevEntry(p, pc) \in Pointers
           /\ MetaEntry(pc) \in Pointers
<1>1. pc \in Nat
  BY TextType
<1>2. BIMOD_HASH(pc) \in 0 .. bimod_size - 1 /\ BIMOD_HASH(prev) \in 0 .. bimod_size - 1
  BY <1>1, Sizes, ModRange DEF BIMOD_HASH
<1>3. BimodEntry(p, pc, prev) \in Pointers
  BY <1>2 DEF BimodEntry, Pointers
<1>4. MetaEntry(pc) \in Pointers
  <2>1. pc % meta_size \in 0 .. meta_size - 1
    BY <1>1, Sizes, ModRange
  <2> QED
    BY <2>1 DEF MetaEntry, Pointers
<1>5. TwolevEntry(p, pc) \in Pointers
  <2>1. pc % l1size \in 0 .. l1size - 1
    BY <1>1, Sizes, ModRange
  <2>2. p.shiftregs[pc % l1size] \in 0 .. histories - 1
    BY <2>1 DEF Predictors
  <2>3. ASSUME NEW h \in 0 .. histories - 1
        PROVE  L2Index(h, pc) \in 0 .. l2size - 1
    <3>1. BitXor(h, pc) \in Nat
      BY <2>3, BpredAssumption DEF BpredAssumption
    <3>2. BitXor(h, pc) % histories \in Nat /\ h \in Nat
      BY <3>1, Sizes, ModRange
    <3>3. pc * histories \in Nat
      BY <1>1, Sizes
    <3> DEFINE i == (IF xor THEN BitXor(h, pc) % histories ELSE h) + pc * histories
    <3>4. i \in Nat
      <4> HIDE DEF i
      <4>1. \A x, y \in Nat : x + y \in Nat
        OBVIOUS
      <4> QED
        BY <3>2, <3>3, <4>1 DEF i
    <3> HIDE DEF i
    <3>5. i % l2size \in 0 .. l2size - 1
      BY <3>4, Sizes, ModRange
    <3> QED
      BY <3>5 DEF L2Index, i
  <2>4. L2Index(p.shiftregs[pc % l1size], pc) \in 0 .. l2size - 1
    BY <2>2, <2>3
  <2> QED
    BY <2>4 DEF TwolevEntry, Pointers
<1> QED
  BY <1>3, <1>4, <1>5

\* The pointers that a lookup saves lead into the tables.
LEMMA DirUpdateType ==
    ASSUME NEW p \in Predictors, NEW pc \in Text, NEW prev \in Nat, NEW op,
           NEW ret \in BOOLEAN, NEW junk \in BOOLEAN
    PROVE  /\ dir_update(p, pc, prev, op, ret, junk) \in DirUpdates
           /\ dir_update(p, pc, prev, op, ret, junk).ras = Pops(p, ret)
<1>1. NULLPtr \in Pointers
  BY DEF Pointers
<1>2. NoDirection \in DirUpdates
  BY <1>1 DEF NoDirection, DirUpdates
<1> DEFINE b == BimodEntry(p, pc, prev)
           t == TwolevEntry(p, pc)
           m == MetaEntry(pc)
           c == Choice(Says(p, m), b, t)
<1>3. b \in Pointers /\ t \in Pointers /\ m \in Pointers
  BY EntryPointers
<1>4. c[1] \in Pointers /\ c[2] \in Pointers
  BY <1>3 DEF Choice
<1>5. Says(p, b) \in BOOLEAN /\ Says(p, t) \in BOOLEAN
  BY DEF Says
<1>6. p.class \in PredClasses
  BY DEF Predictors
<1> HIDE DEF b, t, m, c
<1>7. DirUpdate(p, pc, prev, junk) \in DirUpdates
  <2>1. CASE p.class \in Combined
    <3>1. DirUpdate(p, pc, prev, junk) =
            [ras |-> FALSE, pdir1 |-> c[1], pdir2 |-> c[2], pmeta |-> m,
             bimod |-> Says(p, b),
             twolev |-> IF p.class = "OpcodeComb" THEN junk ELSE Says(p, t)]
      BY <2>1 DEF DirUpdate, Combined, Static, b, t, m, c
    <3> QED
      BY <1>3, <1>4, <1>5, <3>1 DEF DirUpdates
  <2>2. CASE p.class = "2Level"
    <3>1. DirUpdate(p, pc, prev, junk) = [NoDirection EXCEPT !.pdir1 = t]
      BY <2>2 DEF DirUpdate, Combined, Static, t
    <3> QED
      BY <1>2, <1>3, <3>1 DEF DirUpdates
  <2>3. CASE p.class \in {"2bit", "Opcode"}
    <3>1. DirUpdate(p, pc, prev, junk) = [NoDirection EXCEPT !.pdir1 = b]
      BY <2>3 DEF DirUpdate, Combined, Static, b
    <3> QED
      BY <1>2, <1>3, <3>1 DEF DirUpdates
  <2>4. CASE p.class \in Static
    <3>1. DirUpdate(p, pc, prev, junk) = NoDirection
      BY <2>4 DEF DirUpdate, Combined, Static
    <3> QED
      BY <1>2, <3>1
  <2> QED
    BY <1>6, <2>1, <2>2, <2>3, <2>4 DEF PredClasses, Combined, Static
<1>8. Pops(p, ret) \in BOOLEAN
  BY DEF Pops
<1>9. ASSUME NEW u \in DirUpdates
      PROVE  /\ [u EXCEPT !.ras = Pops(p, ret)] \in DirUpdates
             /\ [u EXCEPT !.ras = Pops(p, ret)].ras = Pops(p, ret)
  BY <1>8 DEF DirUpdates
<1> QED
  BY <1>2, <1>7, <1>9 DEF dir_update

\* A lookup moves nothing but the return address stack.
LEMMA AfterLookupKeeps ==
    ASSUME NEW p \in Predictors, NEW pc \in Text, NEW call, NEW ret
    PROVE  LET q == AfterLookup(p, pc, call, ret)
           IN  q \in Predictors /\ q.btb = p.btb /\ q.class = p.class
<1>1. CASE Pops(p, ret)
  <2>1. retstack_size > 0 /\ p.tos \in 0 .. retstack_size - 1
    BY <1>1, Sizes DEF Pops, Predictors, TosType
  <2>2. (p.tos + retstack_size - 1) % retstack_size \in TosType
    <3>1. p.tos + retstack_size - 1 \in Nat /\ retstack_size \in Nat \ {0}
      BY <2>1, Sizes
    <3>2. (p.tos + retstack_size - 1) % retstack_size \in 0 .. retstack_size - 1
      BY <3>1, ModRange
    <3> QED
      BY <2>1, <3>2 DEF TosType
  <2> QED
    BY <1>1, <2>2 DEF AfterLookup, Predictors
<1>2. CASE ~Pops(p, ret) /\ Pushes(p, call, ret)
  <2>1. retstack_size > 0 /\ p.tos \in 0 .. retstack_size - 1
    BY <1>2, Sizes DEF Pushes, Predictors, TosType
  <2>2. (p.tos + 1) % retstack_size \in TosType
    BY <2>1, Sizes, ModRange DEF TosType
  <2> QED
    <3> DEFINE i == (p.tos + 1) % retstack_size
               k == [p.stack EXCEPT ![i] = SeqPC(pc)]
    <3>1. AfterLookup(p, pc, call, ret) = [p EXCEPT !.tos = i, !.stack = k]
      BY <1>2 DEF AfterLookup, Predictors
    <3>2. k \in [0 .. retstack_size - 1 -> Targets]
      BY TextType DEF Predictors, Targets
    <3> HIDE DEF k, i
    <3> QED
      BY <2>2, <3>1, <3>2 DEF Predictors, i
<1>3. CASE ~Pops(p, ret) /\ ~Pushes(p, call, ret)
  BY <1>3 DEF AfterLookup
<1> QED
  BY <1>1, <1>2, <1>3
-----------------------------------------------------------------------------
(* bpred_update *)

LEMMA TrainedType ==
    \A c \in Counters : \A taken \in BOOLEAN : Trained(c, taken) \in Counters
  BY DEF Trained, Counters

LEMMA TrainType ==
    ASSUME NEW table \in Tables, NEW q \in Pointers, NEW taken \in BOOLEAN
    PROVE  Train(table, q, taken) \in Tables
<1>1. CASE q = NULLPtr
  BY <1>1 DEF Train
<1>2. CASE q \in {"bimod"} \X (0 .. bimod_size - 1)
  BY <1>2, TrainedType DEF Train, Tables, NULLPtr
<1>3. CASE q \in {"l2table"} \X (0 .. l2size - 1)
  BY <1>3, TrainedType DEF Train, Tables, NULLPtr
<1>4. CASE q \in {"meta"} \X (0 .. meta_size - 1)
  BY <1>4, TrainedType DEF Train, Tables, NULLPtr
<1> QED
  BY <1>1, <1>2, <1>3, <1>4 DEF Pointers

LEMMA TablesTrained ==
    ASSUME NEW table \in Tables, NEW upd \in DirUpdates, NEW taken \in BOOLEAN
    PROVE  MetaTrained(Train(Train(table, upd.pdir1, taken), upd.pdir2, taken),
                       upd, taken) \in Tables
<1>1. /\ upd.pdir1 \in Pointers /\ upd.pdir2 \in Pointers /\ upd.pmeta \in Pointers
      /\ (upd.twolev = taken) \in BOOLEAN
  BY DEF DirUpdates
<1>2. Train(Train(table, upd.pdir1, taken), upd.pdir2, taken) \in Tables
  BY <1>1, TrainType
<1> QED
  BY <1>1, <1>2, TrainType DEF MetaTrained

LEMMA HistoryType ==
    ASSUME NEW h \in 0 .. histories - 1, NEW taken
    PROVE  NewHistory(h, taken) \in 0 .. histories - 1
<1>1. 2 * h + (IF taken THEN 1 ELSE 0) \in Nat
  BY Sizes
<1> QED
  BY <1>1, Sizes, ModRange DEF NewHistory

\* An update, whichever branch it comes from, keeps the types of the tables and
\* the lists of the BTB, and leaves the stack alone.
LEMMA UpdateKeeps ==
    ASSUME NEW p \in Predictors, BtbWell(p.btb),
           NEW pc \in Text, NEW btarget \in PCs, NEW taken \in BOOLEAN,
           NEW correct \in BOOLEAN, NEW op, NEW upd \in DirUpdates,
           NEW q, q = bpred_update(p, pc, btarget, taken, correct, op, upd)
    PROVE  /\ q \in Predictors /\ BtbWell(q.btb)
           /\ q.class = p.class /\ q.stack = p.stack /\ q.tos = p.tos
<1> DEFINE T == MetaTrained(Train(Train(p.table, upd.pdir1, taken), upd.pdir2, taken),
                            upd, taken)
           l == pc % l1size
           S == [p.shiftregs EXCEPT ![l] =
                    IF Cond(op) /\ p.class \in TwoLevel
                    THEN NewHistory(p.shiftregs[l], taken) ELSE p.shiftregs[l]]
           i == pc % btb_sets
           U == BtbUpdated(p.btb[i], pc, btarget, correct)
           B == [p.btb EXCEPT ![i] = IF taken THEN U ELSE p.btb[i]]
<1>1. CASE ~Trains(p, op, upd)
  BY <1>1 DEF bpred_update
<1>2. CASE Trains(p, op, upd)
  <2>1. q = [p EXCEPT !.table = T, !.shiftregs = S, !.btb = B]
    BY <1>2 DEF bpred_update, Predictors
  <2>2. T \in Tables
    BY TablesTrained DEF Predictors
  <2>3. S \in [0 .. l1size - 1 -> 0 .. histories - 1]
    <3>1. l \in 0 .. l1size - 1
      BY TextType, Sizes, ModRange
    <3>2. p.shiftregs \in [0 .. l1size - 1 -> 0 .. histories - 1]
      BY DEF Predictors
    <3>3. NewHistory(p.shiftregs[l], taken) \in 0 .. histories - 1
      BY <3>1, <3>2, HistoryType
    <3> HIDE DEF l
    <3> QED
      BY <3>1, <3>2, <3>3
  <2>4. p.btb \in [Sets -> BtbSets] /\ i \in Sets
    BY SetOf DEF Predictors
  <2>5. U \in BtbSets /\ Linked(U) /\ OneEntry(U)
    <3>1. p.btb[i] \in BtbSets /\ Linked(p.btb[i]) /\ OneEntry(p.btb[i])
      BY <2>4 DEF BtbWell
    <3> QED
      BY <3>1, BtbUpdatedKeeps
  <2> HIDE DEF U, i
  <2>6. B \in [Sets -> BtbSets] /\ BtbWell(B)
    BY <2>4, <2>5 DEF BtbWell
  <2> HIDE DEF T, S, B
  <2>7. /\ q \in Predictors /\ q.btb = B
        /\ q.class = p.class /\ q.stack = p.stack /\ q.tos = p.tos
    BY <2>1, <2>2, <2>3, <2>6 DEF Predictors
  <2> QED
    BY <2>6, <2>7
<1> QED
  BY <1>1, <1>2

\* An update with an address the branch may go to keeps the targets right.
LEMMA UpdateKeepsTargets ==
    ASSUME NEW p \in Predictors, BtbWell(p.btb), BtbTargets(p.btb),
           NEW pc \in Text, NEW btarget \in PCs, NEW taken \in BOOLEAN,
           NEW correct \in BOOLEAN, NEW upd \in DirUpdates,
           taken /\ Is(Code[pc].op, "F_DIRJMP") => btarget \in Code[pc].targets,
           NEW q, q = bpred_update(p, pc, btarget, taken, correct, Code[pc].op, upd)
    PROVE  BtbTargets(q.btb)
<1> DEFINE i == pc % btb_sets
           U == BtbUpdated(p.btb[i], pc, btarget, correct)
           w == Victim(p.btb[i], pc)
<1>1. q.btb = p.btb \/ (/\ Trains(p, Code[pc].op, upd) /\ taken
                        /\ q.btb = [p.btb EXCEPT ![i] = U])
  <2>1. CASE ~Trains(p, Code[pc].op, upd)
    BY <2>1 DEF bpred_update
  <2>2. CASE Trains(p, Code[pc].op, upd)
    <3>1. q.btb = [p.btb EXCEPT ![i] = IF taken THEN U ELSE p.btb[i]]
      BY <2>2 DEF bpred_update, Predictors
    <3>2. p.btb \in [Sets -> BtbSets] /\ i \in Sets
      BY SetOf DEF Predictors
    <3> HIDE DEF i, U
    <3> QED
      BY <2>2, <3>1, <3>2
  <2> QED
    BY <2>1, <2>2
<1>2. CASE q.btb = p.btb
  BY <1>2
<1>3. CASE /\ Trains(p, Code[pc].op, upd) /\ taken
           /\ q.btb = [p.btb EXCEPT ![i] = U]
  <2>1. i \in Sets /\ p.btb \in [Sets -> BtbSets]
    BY SetOf DEF Predictors
  <2>2. /\ w \in Ways /\ U[w].addr = pc
        /\ U[w].target = btarget
             \/ (p.btb[i][w].addr = pc /\ U[w].target = p.btb[i][w].target)
        /\ \A v \in Ways \ {w} :
             U[v].addr = p.btb[i][v].addr /\ U[v].target = p.btb[i][v].target
    <3>1. p.btb[i] \in BtbSets /\ Linked(p.btb[i]) /\ OneEntry(p.btb[i])
      BY <2>1 DEF BtbWell
    <3> QED
      BY <3>1, BtbUpdatedKeeps
  <2>3. pc # NoAddr /\ Ctrl(Code[pc].op)
    BY <1>3, TextType DEF NoAddr, Trains
  <2> DEFINE Right(e, s) == e.addr # NoAddr =>
                 /\ e.addr % btb_sets = s
                 /\ Ctrl(Code[e.addr].op)
                 /\ Is(Code[e.addr].op, "F_DIRJMP") => e.target \in Code[e.addr].targets
  <2>4. \A s \in Sets, v \in Ways : Right(p.btb[s][v], s)
    BY DEF BtbTargets
  <2>5. i = pc % btb_sets
    OBVIOUS
  <2> HIDE DEF U, w, i
  <2>6. \A v \in Ways : Right(U[v], i)
    <3>1. Right(U[w], i)
      BY <1>3, <2>1, <2>2, <2>3, <2>4, <2>5
    <3> QED
      BY <2>1, <2>2, <2>4, <3>1
  <2>7. \A s \in Sets, v \in Ways : Right(q.btb[s][v], s)
    BY <1>3, <2>1, <2>4, <2>6
  <2> QED
    BY <2>7 DEF BtbTargets
<1> QED
  BY <1>1, <1>2, <1>3
=============================================================================
