--------------------------- MODULE SimBpredProofs ---------------------------
(***************************************************************************)
(* The predictor study: whatever program it runs and whatever shape the    *)
(* predictor has, the tables keep their types, the BTB its lists and       *)
(* targets and the order of their last use, the return address stack the   *)
(* last calls, and the chooser follows the better component.               *)
(***************************************************************************)
EXTENDS SimBpredProps, BpredProofs, SequenceTheorems, WellFoundedInduction

SimInv == TypeOK /\ BtbWellFormed /\ BtbTargetsRight /\ RasHoldsCalls

-----------------------------------------------------------------------------
(* The program *)

LEMMA OpType ==
    ASSUME regs_PC \in PCs
    PROVE  /\ Op \in Ops /\ MD_OPCODE[Op] \in Opcodes
           /\ Ctrl(Op) => /\ regs_PC \in Text /\ Op = Code[regs_PC].op
                          /\ Code[regs_PC].targets \subseteq Text
<1>1. Op \in Ops
  BY IsaAssumption DEF IsaAssumption, Op, Inst, NOPInst, Ops, MD_OP_FLAGS
<1>2. Ctrl(Op) => regs_PC \in Text /\ Op = Code[regs_PC].op
  BY DEF Ctrl, Is, Op, Inst, NOPInst, MD_OP_FLAGS
<1> QED
  BY <1>1, <1>2, IsaAssumption DEF IsaAssumption, Opcodes

LEMMA CtrlOps ==
    /\ \A op \in Ops : Cond(op) => Is(op, "F_DIRJMP")
    /\ \A op \in Ops : op = "JR" => ~Is(op, "F_DIRJMP") /\ ~Is(op, "F_CALL") /\ ~Cond(op)
    /\ \A op \in Ops : Is(op, "F_CALL") => Ctrl(op) /\ ~Cond(op)
  BY DEF Ops, Cond, Uncond, Ctrl, Is, MD_OP_FLAGS

\* A branch goes to a program counter, and a taken direct one to its target.
LEMMA ResolvedType ==
    ASSUME TypeOK, Ctrl(Op), Return => calls # <<>>, NEW npc \in Resolved
    PROVE  /\ npc \in PCs
           /\ npc # SeqPC(regs_PC) /\ Is(Op, "F_DIRJMP") => npc \in Code[regs_PC].targets
<1>0. /\ regs_PC \in Text /\ Op = Code[regs_PC].op /\ Op \in Ops
      /\ Code[regs_PC].targets \subseteq Text /\ Inst(regs_PC) = Code[regs_PC]
  BY OpType DEF TypeOK, Inst
<1>1. CASE Cond(Op)
  <2>1. DirTarget(regs_PC) \in Code[regs_PC].targets
    <3>1. Is(Code[regs_PC].op, "F_DIRJMP")
      BY <1>0, <1>1, CtrlOps
    <3>2. PICK t \in Text : Code[regs_PC].targets = {t}
      BY <1>0, <3>1, SimBpredAssumption DEF SimBpredAssumption
    <3> QED
      BY <3>2 DEF DirTarget
  <2>2. npc = DirTarget(regs_PC) \/ npc = SeqPC(regs_PC)
    <3>1. Resolved = {Goes(d) : d \in outcome[regs_PC]}
      BY <1>1 DEF Resolved
    <3> QED
      BY <3>1 DEF Goes
  <2> QED
    BY <1>0, <2>1, <2>2, TextType
<1>2. CASE ~Cond(Op) /\ Return
  <2>1. npc = calls[Len(calls)]
    BY <1>2 DEF Resolved
  <2>2. calls \in Seq(PCs) /\ Len(calls) \in 1 .. Len(calls)
    BY <1>2 DEF TypeOK
  <2>3. ~Is(Op, "F_DIRJMP")
    BY <1>0, <1>2, CtrlOps DEF Return
  <2> QED
    BY <2>1, <2>2, <2>3
<1>3. CASE ~Cond(Op) /\ ~Return
  BY <1>0, <1>3, TextType DEF Resolved
<1> QED
  BY <1>1, <1>2, <1>3

-----------------------------------------------------------------------------
(* The return address stack as a ring *)

LEMMA RingIndex ==
    ASSUME NEW m \in Nat \ {0}, NEW t \in 0 .. m - 1, NEW k \in 0 .. m - 1
    PROVE  (t + m - k) % m = IF k <= t THEN t - k ELSE t + m - k
<1>1. CASE k <= t
  BY <1>1
<1>2. CASE k > t
  BY <1>2
<1> QED
  BY <1>1, <1>2

LEMMA RingNext ==
    ASSUME NEW m \in Nat \ {0}, NEW t \in 0 .. m - 1
    PROVE  /\ (t + 1) % m = IF t = m - 1 THEN 0 ELSE t + 1
           /\ (t + m - 1) % m = IF t = 0 THEN m - 1 ELSE t - 1
  OBVIOUS

LEMMA Shorter ==
    ASSUME NEW S, NEW s \in Seq(S), NEW n \in Nat, n <= Len(s)
    PROVE  SubSeq(s, 1, n) \in Seq(S) /\ Len(SubSeq(s, 1, n)) = n
<1>1. \A i \in 1 .. n : s[i] \in S
  OBVIOUS
<1>2. n \in Int /\ 1 \in Int
  OBVIOUS
<1>3. SubSeq(s, 1, n) \in Seq(S)
  BY <1>1, <1>2, SubSeqProperties, Zenon
<1>4. Len(SubSeq(s, 1, n)) = n
  BY <1>1, <1>2, SubSeqProperties
<1> QED
  BY <1>3, <1>4, Zenon

LEMMA FromTheEnd ==
    ASSUME NEW S, NEW s \in Seq(S), NEW e \in S, NEW k \in 0 .. Len(s)
    PROVE  Append(s, e)[Len(Append(s, e)) - k] = Append(s, e)[Len(s) + 1 - k]
<1>1. Len(Append(s, e)) = Len(s) + 1
  OBVIOUS
<1> QED
  BY <1>1

LEMMA WithinOneMore ==
    \A L, f, g \in Nat :
        f <= L /\ g <= f + 1 => \A k \in 0 .. g - 1 : k \in 0 .. L
  OBVIOUS

LEMMA RasPushed ==
    ASSUME TypeOK, RasHoldsCalls, pred.class \notin Static, Call, ~Return,
           retstack_size > 0, NEW q,
           q = AfterLookup(pred, regs_PC, Call, Return),
           NEW pc \in PCs, pc = SeqPC(regs_PC),
           NEW n \in Nat, n <= fresh + 1, n <= retstack_size,
           NEW k \in 0 .. n - 1
    PROVE  q.stack[(q.tos + retstack_size - k) % retstack_size]
               = Append(calls, pc)[Len(calls) + 1 - k]
<1> DEFINE m == retstack_size
           t == pred.tos
           i == (t + 1) % m
<1> HIDE DEF m, t
<1>0. /\ m \in Nat \ {0} /\ t \in 0 .. m - 1 /\ k \in 0 .. m - 1
      /\ pred.stack \in [0 .. m - 1 -> Targets] /\ pred \in Predictors
      /\ calls \in Seq(PCs) /\ Len(calls) \in Nat /\ fresh \in Nat /\ fresh <= Len(calls)
  BY Sizes DEF TypeOK, Predictors, TosType, m, t
<1>1. q.tos = i /\ q.stack = [pred.stack EXCEPT ![i] = pc]
  BY <1>0 DEF AfterLookup, Pops, Pushes, Predictors, m, t
<1>2. i \in 0 .. m - 1
  BY <1>0, ModRange
<1>3. i = IF t = m - 1 THEN 0 ELSE t + 1
  BY <1>0, RingNext
<1> HIDE DEF i
<1>4. (i + m - k) % m = IF k <= i THEN i - k ELSE i + m - k
  BY <1>0, <1>2, RingIndex
<1>5. CASE k = 0
  <2>1. (i + m - k) % m = i
    BY <1>0, <1>2, <1>4, <1>5
  <2>2. Append(calls, pc)[Len(calls) + 1 - k] = pc
    BY <1>0, <1>5
  <2>3. q.stack[i] = pc
    BY <1>0, <1>1, <1>2
  <2> QED
    BY <1>1, <2>1, <2>2, <2>3 DEF m
<1>6. CASE k # 0
  <2>1. k - 1 \in 0 .. fresh - 1 /\ k - 1 \in 0 .. m - 1
    BY <1>0, <1>6
  <2>2. (t + m - (k - 1)) % m = IF k - 1 <= t THEN t - (k - 1) ELSE t + m - (k - 1)
    BY <1>0, <2>1, RingIndex
  <2>3. /\ (i + m - k) % m = (t + m - (k - 1)) % m
        /\ (i + m - k) % m # i /\ (i + m - k) % m \in 0 .. m - 1
    BY <1>0, <1>2, <1>3, <1>4, <1>6, <2>1, <2>2
  <2>4. pred.stack[(t + m - (k - 1)) % m] = calls[Len(calls) - (k - 1)]
    BY <2>1 DEF RasHoldsCalls, m, t
  <2>5. Append(calls, pc)[Len(calls) + 1 - k] = calls[Len(calls) - (k - 1)]
    BY <1>0, <2>1
  <2>6. q.stack[(i + m - k) % m] = pred.stack[(i + m - k) % m]
    BY <1>0, <1>1, <2>3
  <2> QED
    BY <1>1, <2>3, <2>4, <2>5, <2>6 DEF m
<1> QED
  BY <1>5, <1>6 DEF m

LEMMA RasPopped ==
    ASSUME TypeOK, RasHoldsCalls, pred.class \notin Static, Return, calls # <<>>,
           retstack_size > 0, NEW q,
           q = AfterLookup(pred, regs_PC, Call, Return),
           NEW k \in 0 .. fresh - 2
    PROVE  q.stack[(q.tos + retstack_size - k) % retstack_size]
               = SubSeq(calls, 1, Len(calls) - 1)[Len(calls) - 1 - k]
<1> DEFINE m == retstack_size
           t == pred.tos
           i == (t + m - 1) % m
<1> HIDE DEF m, t
<1>0. /\ m \in Nat \ {0} /\ t \in 0 .. m - 1 /\ k + 1 \in 0 .. m - 1 /\ k \in 0 .. m - 1
      /\ pred \in Predictors /\ calls \in Seq(PCs) /\ Len(calls) \in Nat
      /\ fresh \in Nat /\ fresh <= Len(calls) /\ fresh <= m
  BY Sizes DEF TypeOK, Predictors, TosType, m, t
<1>1. q.tos = i /\ q.stack = pred.stack
  BY <1>0 DEF AfterLookup, Pops, Predictors, m, t
<1>2. i \in 0 .. m - 1 /\ i = IF t = 0 THEN m - 1 ELSE t - 1
  <2>1. i = IF t = 0 THEN m - 1 ELSE t - 1
    BY <1>0, RingNext
  <2> HIDE DEF i
  <2> QED
    BY <1>0, <2>1
<1> HIDE DEF i
<1>3. (i + m - k) % m = IF k <= i THEN i - k ELSE i + m - k
  BY <1>0, <1>2, RingIndex
<1>4. (t + m - (k + 1)) % m = IF k + 1 <= t THEN t - (k + 1) ELSE t + m - (k + 1)
  BY <1>0, RingIndex
<1>5. (i + m - k) % m = (t + m - (k + 1)) % m
  BY <1>0, <1>2, <1>3, <1>4
<1>6. pred.stack[(t + m - (k + 1)) % m] = calls[Len(calls) - (k + 1)]
  <2>1. k + 1 \in 0 .. fresh - 1
    BY <1>0
  <2> HIDE DEF m, t
  <2> QED
    BY <2>1 DEF RasHoldsCalls, m, t
<1>7. SubSeq(calls, 1, Len(calls) - 1)[Len(calls) - 1 - k] = calls[Len(calls) - (k + 1)]
  BY <1>0
<1> QED
  BY <1>1, <1>5, <1>6, <1>7 DEF m
-----------------------------------------------------------------------------
(* The invariant *)

LEMMA InitInv == Init => SimInv
<1> SUFFICES ASSUME Init PROVE SimInv
  OBVIOUS
<1>1. PICK class \in Classes : pred = bpred_create(class)
  BY DEF Init
<1>2. class \in PredClasses
  BY SimBpredAssumption DEF SimBpredAssumption
<1>3. pred \in Predictors /\ BtbWell(pred.btb) /\ BtbTargets(pred.btb)
  BY <1>1, <1>2, CreateType, CreateBtb
<1>4. /\ regs_PC \in PCs /\ prev \in Opcodes /\ outcome \in [Branches -> SUBSET BOOLEAN]
      /\ calls = <<>> /\ fresh = 0
  BY IsaAssumption DEF IsaAssumption, Init, PCs, Unsettled
<1> QED
  BY <1>3, <1>4, Sizes
  DEF SimInv, TypeOK, BtbWellFormed, BtbTargetsRight, RasHoldsCalls

\* The predictor after a branch: only its lookup has moved the stack.
LEMMA PredictKeeps ==
    ASSUME SimInv, Ctrl(Op), Return => calls # <<>>,
           NEW npc \in Resolved, NEW junk \in BOOLEAN, Predict(npc, junk)
    PROVE  /\ pred' \in Predictors /\ BtbWellFormed' /\ BtbTargetsRight'
           /\ npc \in PCs
           /\ LET q == AfterLookup(pred, regs_PC, Call, Return)
              IN  pred'.stack = q.stack /\ pred'.tos = q.tos /\ pred'.class = pred.class
<1> DEFINE look  == Lookup(regs_PC, Op, prev)
           upd   == dir_update(pred, regs_PC, look, Op, Return, junk)
           tpc   == IF Cond(Op) THEN DirTarget(regs_PC) ELSE npc
           ans   == bpred_lookup(pred, regs_PC, tpc, Op, Return, upd)
           guess == IF ans = NOT_TAKEN THEN SeqPC(regs_PC) ELSE ans
           q     == AfterLookup(pred, regs_PC, Call, Return)
           taken == npc # SeqPC(regs_PC)
           right == guess = npc
           r     == bpred_update(q, regs_PC, npc, taken, right, Op, upd)
<1>1. /\ regs_PC \in Text /\ Op = Code[regs_PC].op /\ Op \in Ops
      /\ pred \in Predictors /\ prev \in Opcodes
      /\ BtbWell(pred.btb) /\ BtbTargets(pred.btb)
  BY OpType DEF SimInv, TypeOK, BtbWellFormed, BtbTargetsRight
<1>2. npc \in PCs /\ (taken /\ Is(Op, "F_DIRJMP") => npc \in Code[regs_PC].targets)
  BY ResolvedType DEF SimInv
<1>3. q \in Predictors /\ q.btb = pred.btb /\ q.class = pred.class
  BY <1>1, AfterLookupKeeps
<1>4. upd \in DirUpdates
  <2>1. look \in Nat /\ Return \in BOOLEAN
    BY <1>1, SimBpredAssumption DEF SimBpredAssumption, Return
  <2> HIDE DEF look
  <2> QED
    BY <1>1, <2>1, DirUpdateType
<1>5. pred' = bpred_update(q, regs_PC, npc, taken, right, Op, upd)
  BY DEF Predict
<1>6. taken \in BOOLEAN /\ right \in BOOLEAN
  OBVIOUS
<1>7. q.btb = pred.btb => BtbWell(q.btb) /\ BtbTargets(q.btb)
  BY <1>1
<1> HIDE DEF upd, q, taken, right
<1>8. q \in Predictors /\ BtbWell(q.btb) /\ BtbTargets(q.btb)
  BY <1>3, <1>7
<1> HIDE DEF look, tpc, ans, guess
<1>9. pred' = r /\ r = bpred_update(q, regs_PC, npc, taken, right, Op, upd)
  BY <1>5
<1> HIDE DEF r
<1>10. /\ regs_PC \in Text /\ npc \in PCs /\ Op = Code[regs_PC].op
       /\ (taken /\ Is(Code[regs_PC].op, "F_DIRJMP") => npc \in Code[regs_PC].targets)
  BY <1>1, <1>2
<1>11. /\ r \in Predictors /\ BtbWell(r.btb)
       /\ r.class = q.class /\ r.stack = q.stack /\ r.tos = q.tos
  BY <1>4, <1>6, <1>8, <1>9, <1>10, UpdateKeeps
<1>12. BtbTargets(r.btb)
  BY <1>4, <1>6, <1>8, <1>9, <1>10, UpdateKeepsTargets
<1> QED
  BY <1>2, <1>3, <1>9, <1>11, <1>12 DEF BtbWellFormed, BtbTargetsRight, q

LEMMA CallsType ==
    ASSUME TypeOK, Ctrl(Op), Return => calls # <<>>, CallOrReturn
    PROVE  calls' \in Seq(PCs) /\ fresh' \in 0 .. retstack_size /\ fresh' <= Len(calls')
<1>0. /\ calls \in Seq(PCs) /\ Len(calls) \in Nat /\ retstack_size \in Nat
      /\ fresh \in Nat /\ fresh <= retstack_size /\ fresh <= Len(calls)
      /\ SeqPC(regs_PC) \in PCs
  BY Sizes, TextType DEF TypeOK
<1>1. CASE Call
  <2>1. calls' \in Seq(PCs) /\ Len(calls') = Len(calls) + 1
    BY <1>0, <1>1 DEF CallOrReturn
  <2> QED
    BY <1>0, <1>1, <2>1 DEF CallOrReturn
<1>2. CASE ~Call /\ Return
  <2>1. Len(calls) > 0
    BY <1>0, <1>2
  <2>2. calls' = SubSeq(calls, 1, Len(calls) - 1)
    BY <1>2 DEF CallOrReturn
  <2>3. calls' \in Seq(PCs) /\ Len(calls') = Len(calls) - 1
    <3>1. Len(calls) - 1 \in Nat /\ Len(calls) - 1 <= Len(calls)
      BY <1>0, <2>1
    <3> QED
      BY <1>0, <2>2, <3>1, Shorter, Zenon
  <2> QED
    BY <1>0, <1>2, <2>3 DEF CallOrReturn
<1>3. CASE ~Call /\ ~Return
  BY <1>0, <1>3 DEF CallOrReturn
<1> QED
  BY <1>1, <1>2, <1>3

LEMMA BranchKeepsRas ==
    ASSUME SimInv, Ctrl(Op), Return => calls # <<>>, CallOrReturn,
           LET q == AfterLookup(pred, regs_PC, Call, Return)
           IN  pred'.stack = q.stack /\ pred'.tos = q.tos /\ pred'.class = pred.class
    PROVE  RasHoldsCalls'
<1> DEFINE q == AfterLookup(pred, regs_PC, Call, Return)
           i(k) == (q.tos + retstack_size - k) % retstack_size
<1> SUFFICES ASSUME pred.class \notin Static, NEW k \in 0 .. fresh' - 1
             PROVE  q.stack[i(k)] = calls'[Len(calls') - k]
  BY DEF RasHoldsCalls
<1>0. /\ TypeOK /\ RasHoldsCalls /\ retstack_size \in Nat
      /\ fresh' \in 0 .. retstack_size /\ fresh \in 0 .. retstack_size
      /\ calls \in Seq(PCs) /\ Len(calls) \in Nat /\ retstack_size > 0
      /\ SeqPC(regs_PC) \in PCs
  BY CallsType, Sizes, TextType DEF SimInv, TypeOK
<1>1. Op \in Ops
  BY OpType DEF SimInv, TypeOK
<1>2. CASE Call
  <2>1. ~Return
    BY <1>1, <1>2, CtrlOps DEF Call, Return
  <2>2. calls' = Append(calls, SeqPC(regs_PC)) /\ fresh' <= fresh + 1
    BY <1>0, <1>2 DEF CallOrReturn
  <2>3. fresh' \in Nat /\ fresh' <= retstack_size
    BY <1>0
  <2>4. \A pc \in PCs, n \in Nat :
            pc = SeqPC(regs_PC) /\ n <= fresh + 1 /\ n <= retstack_size
            => \A j \in 0 .. n - 1 : q.stack[i(j)] = Append(calls, pc)[Len(calls) + 1 - j]
    BY <1>0, <1>2, <2>1, RasPushed
  <2> HIDE DEF q, i
  <2>5. q.stack[i(k)] = Append(calls, SeqPC(regs_PC))[Len(calls) + 1 - k]
    BY <1>0, <2>2, <2>3, <2>4
  <2>6. k \in 0 .. Len(calls)
    <3> DEFINE L == Len(calls)
    <3>1. fresh <= L /\ L \in Nat /\ fresh \in Nat
      BY <1>0 DEF TypeOK
    <3>2. fresh' <= fresh + 1 /\ fresh' \in Nat
      BY <2>2, <2>3
    <3> HIDE DEF L
    <3>3. k \in 0 .. L
      BY <3>1, <3>2, WithinOneMore
    <3> QED
      BY <3>3 DEF L
  <2>7. Append(calls, SeqPC(regs_PC))[Len(Append(calls, SeqPC(regs_PC))) - k]
            = Append(calls, SeqPC(regs_PC))[Len(calls) + 1 - k]
    BY <1>0, <2>6, FromTheEnd
  <2> QED
    BY <2>2, <2>5, <2>7, Zenon
<1>3. CASE ~Call /\ Return
  <2>1. Len(calls) > 0 /\ calls' = SubSeq(calls, 1, Len(calls) - 1)
    BY <1>0, <1>3 DEF CallOrReturn
  <2>2. Len(calls') = Len(calls) - 1
    <3>1. Len(calls) - 1 \in Nat /\ Len(calls) - 1 <= Len(calls)
      BY <1>0, <2>1
    <3> QED
      BY <1>0, <2>1, <3>1, Shorter, Zenon
  <2>3. k \in 0 .. fresh - 2
    BY <1>0, <1>3 DEF CallOrReturn
  <2>4. q.stack[i(k)] = SubSeq(calls, 1, Len(calls) - 1)[Len(calls) - 1 - k]
    BY <1>0, <1>3, <2>3, RasPopped
  <2> QED
    BY <2>1, <2>2, <2>4
<1>4. CASE ~Call /\ ~Return
  <2>1. q = pred
    BY <1>4 DEF AfterLookup, Pops, Pushes
  <2>2. calls' = calls /\ fresh' = fresh
    BY <1>4 DEF CallOrReturn
  <2> QED
    BY <1>0, <2>1, <2>2 DEF RasHoldsCalls
<1> QED
  BY <1>2, <1>3, <1>4

LEMMA StepInv == SimInv /\ [Next]_vars => SimInv'
<1> SUFFICES ASSUME SimInv, [Next]_vars PROVE SimInv'
  OBVIOUS
<1>0. Op \in Ops /\ MD_OPCODE[Op] \in Opcodes
  BY OpType DEF SimInv, TypeOK
<1>1. CASE ExecuteBranch
  <2>1. PICK npc \in Resolved, junk \in BOOLEAN : Predict(npc, junk) /\ regs_PC' = npc
    BY <1>1 DEF ExecuteBranch
  <2>2. /\ Ctrl(Op) /\ (Return => calls # <<>>) /\ CallOrReturn
        /\ prev' = MD_OPCODE[Op] /\ outcome' = outcome
    BY <1>1 DEF ExecuteBranch
  <2>3. /\ pred' \in Predictors /\ BtbWellFormed' /\ BtbTargetsRight' /\ npc \in PCs
        /\ LET q == AfterLookup(pred, regs_PC, Call, Return)
           IN  pred'.stack = q.stack /\ pred'.tos = q.tos /\ pred'.class = pred.class
    BY <2>1, <2>2, PredictKeeps
  <2>4. TypeOK'
    BY <1>0, <2>1, <2>2, <2>3, CallsType DEF SimInv, TypeOK
  <2>5. RasHoldsCalls'
    BY <2>2, <2>3, BranchKeepsRas
  <2> QED
    BY <2>3, <2>4, <2>5 DEF SimInv
<1>2. CASE ExecuteOther
  BY <1>0, <1>2, TextType
  DEF ExecuteOther, SimInv, TypeOK, BtbWellFormed, BtbTargetsRight, RasHoldsCalls
<1>3. CASE Settle
  <2>1. outcome' \in [Branches -> SUBSET BOOLEAN]
    BY <1>3 DEF Settle
  <2> QED
    BY <1>3, <2>1
    DEF Settle, SimInv, TypeOK, BtbWellFormed, BtbTargetsRight, RasHoldsCalls
<1>4. CASE UNCHANGED vars
  BY <1>4 DEF vars, SimInv, TypeOK, BtbWellFormed, BtbTargetsRight, RasHoldsCalls
<1> QED
  BY <1>1, <1>2, <1>3, <1>4 DEF Next, Execute, Exited

-----------------------------------------------------------------------------
(* The order of a BTB set *)

\* The ways of a set from the most recently used one on: q is the list that its
\* links make, and every way is in it.
InOrder(set, q) ==
    /\ q \in [1 .. btb_assoc -> Ways]
    /\ \A j, k \in 1 .. btb_assoc : q[j] = q[k] => j = k
    /\ \A w \in Ways : \E k \in 1 .. btb_assoc : q[k] = w
    /\ \A k \in 1 .. btb_assoc :
        /\ set[q[k]].next = IF k = btb_assoc THEN NoWay ELSE q[k + 1]
        /\ set[q[k]].prev = IF k = 1 THEN NoWay ELSE q[k - 1]

BtbOrdered ==
    \A s \in Sets : \E q \in [1 .. btb_assoc -> Ways] : InOrder(pred.btb[s], q)

\* The list once its j-th way has moved to the front.
ToFront(q, j) ==
    [k \in 1 .. btb_assoc |-> IF k = 1 THEN q[j] ELSE IF k <= j THEN q[k - 1] ELSE q[k]]

LEMMA OrderType ==
    ASSUME NEW set, NEW q, InOrder(set, q), NEW k \in 1 .. btb_assoc
    PROVE  /\ q[k] \in Ways /\ q[k] # NoWay
           /\ 1 \in 1 .. btb_assoc /\ btb_assoc \in 1 .. btb_assoc
           /\ set[q[k]].next = NoWay <=> k = btb_assoc
           /\ set[q[k]].prev = NoWay <=> k = 1
           /\ k # btb_assoc => k + 1 \in 1 .. btb_assoc
           /\ k # 1 => k - 1 \in 1 .. btb_assoc
<1>1. 1 \in 1 .. btb_assoc /\ btb_assoc \in 1 .. btb_assoc
  BY Sizes
<1>2. \A j \in 1 .. btb_assoc : q[j] \in Ways /\ q[j] # NoWay
  BY Sizes DEF InOrder, Ways, NoWay
<1>3. /\ k # btb_assoc => k + 1 \in 1 .. btb_assoc
      /\ k # 1 => k - 1 \in 1 .. btb_assoc
  BY Sizes
<1> QED
  BY <1>1, <1>2, <1>3 DEF InOrder

\* The ends of the list are the most and the least recently used way.
LEMMA OrderEnds ==
    ASSUME NEW set, NEW q, InOrder(set, q)
    PROVE  /\ \A w \in Ways :
                /\ (set[w].prev = NoWay) <=> (w = q[1])
                /\ (set[w].next = NoWay) <=> (w = q[btb_assoc])
           /\ q[1] \in Ways /\ q[btb_assoc] \in Ways
           /\ LruHead(set) = q[1] /\ LruItem(set) = q[btb_assoc]
<1>1. 1 \in 1 .. btb_assoc /\ btb_assoc \in 1 .. btb_assoc
  BY Sizes
<1>2. ASSUME NEW w \in Ways
      PROVE  /\ (set[w].prev = NoWay) <=> (w = q[1])
             /\ (set[w].next = NoWay) <=> (w = q[btb_assoc])
  <2>1. PICK k \in 1 .. btb_assoc : q[k] = w
    BY DEF InOrder
  <2>2. /\ set[q[k]].prev = NoWay <=> k = 1
        /\ set[q[k]].next = NoWay <=> k = btb_assoc
    BY OrderType
  <2>3. (q[k] = q[1] => k = 1) /\ (q[k] = q[btb_assoc] => k = btb_assoc)
    BY <1>1 DEF InOrder
  <2> QED
    BY <2>1, <2>2, <2>3
<1>3. q[1] \in Ways /\ q[btb_assoc] \in Ways
  BY <1>1, OrderType
<1> QED
  BY <1>2, <1>3 DEF LruHead, LruItem

\* Induction over the natural numbers, for a set instead of a predicate.
LEMMA NatSetInduction ==
    ASSUME NEW S, 0 \in S, \A k \in Nat : k \in S => k + 1 \in S
    PROVE  Nat \subseteq S
<1> SUFFICES ASSUME Nat \ S # {} PROVE FALSE
  OBVIOUS
<1>1. PICK x \in Nat \ S : \A y \in Nat \ S : ~(<<y, x>> \in OpToRel(<, Nat))
  BY NatLessThanWellFounded, WFMin
<1>2. \A y \in Nat \ S : ~(y < x)
  BY <1>1 DEF OpToRel
<1>3. x # 0
  OBVIOUS
<1>4. x - 1 \in Nat /\ x - 1 < x
  BY <1>3
<1>5. x - 1 \in S
  BY <1>2, <1>4
<1> QED
  BY <1>4, <1>5

\* way follows the links of a set from its head on.
Walk(set, way) ==
    way = [k \in 1 .. btb_assoc |->
              IF k = 1 THEN LruHead(set) ELSE set[way[k - 1]].next]

\* It visits the ways in their order.
LEMMA Walked ==
    ASSUME NEW set, NEW q, InOrder(set, q), NEW way, Walk(set, way)
    PROVE  \A k \in 1 .. btb_assoc : way[k] = q[k]
<1> DEFINE S == {n \in Nat : n + 1 \in 1 .. btb_assoc => way[n + 1] = q[n + 1]}
<1>1. 0 \in S
  <2>1. 1 \in 1 .. btb_assoc
    BY Sizes
  <2>2. way[1] = LruHead(set)
    BY <2>1 DEF Walk
  <2> QED
    BY <2>2, OrderEnds
<1>2. ASSUME NEW n \in Nat, n \in S PROVE n + 1 \in S
  <2> SUFFICES ASSUME n + 2 \in 1 .. btb_assoc PROVE way[n + 2] = q[n + 2]
    OBVIOUS
  <2>1. /\ n + 1 \in 1 .. btb_assoc /\ n + 1 # btb_assoc
        /\ n + 2 # 1 /\ (n + 2) - 1 = n + 1 /\ (n + 1) + 1 = n + 2
    BY Sizes
  <2>2. way[n + 2] = set[way[n + 1]].next
    <3>1. way[n + 2] = set[way[(n + 2) - 1]].next
      BY <2>1 DEF Walk
    <3> QED
      BY <2>1, <3>1
  <2>3. way[n + 1] = q[n + 1]
    BY <1>2, <2>1
  <2>4. set[q[n + 1]].next = q[n + 2]
    <3>1. set[q[n + 1]].next = q[(n + 1) + 1]
      BY <2>1 DEF InOrder
    <3> QED
      BY <2>1, <3>1
  <2> QED
    BY <2>2, <2>3, <2>4
<1>3. \A n \in Nat : n \in S
  <2> HIDE DEF S
  <2> QED
    BY <1>1, <1>2, NatSetInduction
<1> TAKE k \in 1 .. btb_assoc
<1>4. k - 1 \in Nat /\ (k - 1) + 1 = k
  BY Sizes
<1> QED
  BY <1>3, <1>4

\* So the addresses of a set in the order of their last use are those of its list.
LEMMA RecencyIs ==
    ASSUME NEW set, NEW q, InOrder(set, q)
    PROVE  Recency(set) = [k \in 1 .. btb_assoc |-> set[q[k]].addr]
<1> DEFINE way == CHOOSE f : Walk(set, f)
<1>1. Walk(set, q)
  <2>1. q = [k \in 1 .. btb_assoc |-> q[k]]
    BY DEF InOrder
  <2>2. ASSUME NEW k \in 1 .. btb_assoc
        PROVE  q[k] = IF k = 1 THEN LruHead(set) ELSE set[q[k - 1]].next
    <3>1. CASE k = 1
      BY <3>1, OrderEnds
    <3>2. CASE k # 1
      <4>1. k - 1 \in 1 .. btb_assoc /\ k - 1 # btb_assoc /\ (k - 1) + 1 = k
        BY <3>2, Sizes
      <4>2. set[q[k - 1]].next = q[(k - 1) + 1]
        BY <4>1 DEF InOrder
      <4> QED
        BY <3>2, <4>1, <4>2
    <3> QED
      BY <3>1, <3>2
  <2> QED
    BY <2>1, <2>2 DEF Walk
<1>2. Walk(set, way)
  BY <1>1
<1>3. Recency(set) = [k \in 1 .. btb_assoc |-> set[way[k]].addr]
  BY DEF Recency, Walk
<1> HIDE DEF way
<1>4. \A k \in 1 .. btb_assoc : way[k] = q[k]
  BY <1>2, Walked
<1> QED
  BY <1>3, <1>4

\* Moving the j-th way to the front is again an order of all of them.
LEMMA ToFrontOrder ==
    ASSUME NEW set, NEW q, InOrder(set, q), NEW j \in 1 .. btb_assoc, NEW r, r = ToFront(q, j)
    PROVE  /\ r \in [1 .. btb_assoc -> Ways]
           /\ \A i, k \in 1 .. btb_assoc : r[i] = r[k] => i = k
           /\ \A w \in Ways : \E k \in 1 .. btb_assoc : r[k] = w
<1> DEFINE n == btb_assoc
<1>0. n \in Nat \ {0}
  BY Sizes
<1>1. /\ q \in [1 .. n -> Ways]
      /\ \A i, k \in 1 .. n : q[i] = q[k] => i = k
      /\ \A w \in Ways : \E k \in 1 .. n : q[k] = w
  BY DEF InOrder
<1>2. r = [k \in 1 .. n |-> IF k = 1 THEN q[j] ELSE IF k <= j THEN q[k - 1] ELSE q[k]]
  BY DEF ToFront
<1> HIDE DEF n
<1>3. j \in 1 .. n
  BY DEF n
<1>4. \A k \in 1 .. n : r[k] = IF k = 1 THEN q[j] ELSE IF k <= j THEN q[k - 1] ELSE q[k]
  BY <1>2
<1>5. r \in [1 .. n -> Ways]
  BY <1>0, <1>1, <1>2, <1>3
<1>6. ASSUME NEW i \in 1 .. n, NEW k \in 1 .. n, r[i] = r[k] PROVE i = k
  <2> DEFINE p(l) == IF l = 1 THEN j ELSE IF l <= j THEN l - 1 ELSE l
  <2>1. \A l \in 1 .. n : p(l) \in 1 .. n
    BY <1>0, <1>3
  <2>2. \A l \in 1 .. n : r[l] = q[p(l)]
    BY <1>4
  <2>3. p(i) = p(k)
    <3> HIDE DEF p
    <3> QED
      BY <1>1, <1>6, <2>1, <2>2
  <2> QED
    BY <1>0, <1>3, <2>3
<1>7. ASSUME NEW w \in Ways PROVE \E k \in 1 .. n : r[k] = w
  <2>1. PICK i \in 1 .. n : q[i] = w
    BY <1>1
  <2>2. CASE i = j
    BY <1>0, <1>4, <2>1, <2>2
  <2>3. CASE i < j
    <3>1. i + 1 \in 1 .. n /\ i + 1 # 1 /\ i + 1 <= j /\ (i + 1) - 1 = i
      BY <1>0, <1>3, <2>3
    <3> QED
      BY <1>4, <2>1, <3>1
  <2>4. CASE i > j
    <3>1. i # 1 /\ ~(i <= j)
      BY <1>0, <1>3, <2>4
    <3> QED
      BY <1>4, <2>1, <3>1
  <2> QED
    BY <1>0, <1>3, <2>2, <2>3, <2>4
<1> QED
  BY <1>5, <1>6, <1>7 DEF n

\* And it is the one that the links of MadeMru make.
LEMMA MadeMruOrder ==
    ASSUME NEW set \in BtbSets, NEW q, InOrder(set, q), NEW j \in 1 .. btb_assoc
    PROVE  InOrder(MadeMru(set, q[j]), ToFront(q, j))
<1> DEFINE n == btb_assoc
           w == q[j]
           x == set[w].next
           y == set[w].prev
           h == LruHead(set)
           m == MadeMru(set, w)
           r == ToFront(q, j)
<1>0. n \in Nat \ {0} /\ 1 \in 1 .. n /\ j \in 1 .. n /\ h = q[1]
  BY Sizes, OrderEnds
<1>1. /\ q \in [1 .. n -> Ways]
      /\ \A i, k \in 1 .. n : q[i] = q[k] => i = k
      /\ \A k \in 1 .. n : /\ set[q[k]].next = IF k = n THEN NoWay ELSE q[k + 1]
                           /\ set[q[k]].prev = IF k = 1 THEN NoWay ELSE q[k - 1]
  BY DEF InOrder
<1>2. \A k \in 1 .. n : r[k] = IF k = 1 THEN q[j] ELSE IF k <= j THEN q[k - 1] ELSE q[k]
  BY DEF ToFront
<1>3. CASE j = 1
  <2>1. m = set
    BY <1>0, <1>3 DEF MadeMru
  <2>2. r = q
    <3>1. \A k \in 1 .. n : r[k] = q[k]
      BY <1>0, <1>2, <1>3
    <3>2. r = [k \in 1 .. n |-> r[k]] /\ q = [k \in 1 .. n |-> q[k]]
      BY <1>1 DEF ToFront
    <3> HIDE DEF r
    <3> QED
      BY <3>1, <3>2
  <2> QED
    BY <2>1, <2>2
<1>4. CASE j # 1
  <2>1. w # h /\ w \in Ways /\ h \in Ways
    BY <1>0, <1>1, <1>4
  <2>2. \A v \in Ways :
            /\ m[v].next = IF v = w THEN h ELSE IF v = y THEN x ELSE set[v].next
            /\ m[v].prev = IF v = w THEN NoWay ELSE IF v = h THEN w
                           ELSE IF v = x THEN y ELSE set[v].prev
    <3> TAKE v \in Ways
    <3> DEFINE nx == IF v = w THEN h ELSE IF v = y THEN x ELSE set[v].next
               pr == IF v = w THEN NoWay ELSE IF v = h THEN w
                     ELSE IF v = x THEN y ELSE set[v].prev
    <3>1. m[v] = [set[v] EXCEPT !.next = nx, !.prev = pr]
      BY <2>1 DEF MadeMru
    <3>2. set[v] \in BtbEntries
      BY DEF BtbSets
    <3> HIDE DEF nx, pr, m
    <3>3. m[v].next = nx /\ m[v].prev = pr
      BY <3>1, <3>2 DEF BtbEntries
    <3> QED
      BY <3>3 DEF nx, pr
  <2>3. /\ x = IF j = n THEN NoWay ELSE q[j + 1]
        /\ y = q[j - 1]
    BY <1>0, <1>1, <1>4
  <2>4. \A v \in Ways : v # NoWay
    BY Sizes DEF Ways, NoWay
  <2>5. /\ r \in [1 .. n -> Ways]
        /\ \A i, k \in 1 .. n : r[i] = r[k] => i = k
        /\ \A v \in Ways : \E k \in 1 .. n : r[k] = v
    BY ToFrontOrder
  <2> HIDE DEF m, r, x, y, w, h, n
  <2>6. ASSUME NEW k \in 1 .. n
        PROVE  /\ m[r[k]].next = IF k = n THEN NoWay ELSE r[k + 1]
               /\ m[r[k]].prev = IF k = 1 THEN NoWay ELSE r[k - 1]
    <3>0. k \in Nat /\ n \in Nat /\ j \in Nat /\ k <= n /\ 1 <= k /\ 1 < j /\ j <= n
      BY <1>0, <1>4
    <3>1. CASE k = 1
      <4>1. r[k] = w
        BY <1>2, <3>1 DEF w
      <4>2. k # n /\ k + 1 \in 1 .. n /\ k + 1 # 1 /\ k + 1 <= j /\ (k + 1) - 1 = k
        BY <3>0, <3>1
      <4>3. r[k + 1] = q[1]
        BY <1>2, <3>1, <4>2
      <4> QED
        BY <1>0, <2>1, <2>2, <3>1, <4>1, <4>2, <4>3
    <3>2. CASE 1 < k /\ k < j
      <4>1. k - 1 \in 1 .. n /\ k # n /\ (k - 1) + 1 = k /\ (k + 1) - 1 = k
            /\ k + 1 \in 1 .. n /\ k + 1 <= j /\ k + 1 # 1 /\ k - 1 # n /\ k # 1 /\ k <= j
        BY <3>0, <3>2
      <4>2. r[k] = q[k - 1] /\ r[k + 1] = q[k]
        BY <1>2, <4>1
      <4>3. q[k - 1] # w /\ q[k - 1] # y /\ q[k - 1] # x /\ q[k - 1] \in Ways
        <5>1. j - 1 \in 1 .. n /\ k - 1 # j - 1 /\ k - 1 # j
              /\ (j # n => j + 1 \in 1 .. n /\ k - 1 # j + 1)
          BY <3>0, <3>2
        <5> QED
          BY <1>0, <1>1, <2>3, <2>4, <4>1, <5>1 DEF w
      <4>4. m[q[k - 1]].next = q[k]
        BY <1>1, <2>2, <4>1, <4>3
      <4>5. m[q[k - 1]].prev = IF k - 1 = 1 THEN w ELSE q[(k - 1) - 1]
        BY <1>0, <1>1, <2>2, <4>1, <4>3
      <4>6. r[k - 1] = IF k - 1 = 1 THEN q[j] ELSE q[(k - 1) - 1]
        <5>1. k - 1 <= j
          BY <3>0, <3>2
        <5> QED
          BY <1>2, <4>1, <5>1
      <4> QED
        BY <4>1, <4>2, <4>4, <4>5, <4>6 DEF w
    <3>3. CASE k = j
      <4>1. k - 1 \in 1 .. n /\ k # 1 /\ k <= j /\ (k - 1) + 1 = k /\ k - 1 # n
            /\ k - 1 <= j
            /\ (k # n => k + 1 \in 1 .. n /\ k + 1 # 1 /\ ~(k + 1 <= j))
        BY <3>0, <3>3
      <4>2. r[k] = q[k - 1] /\ (k # n => r[k + 1] = q[k + 1])
        BY <1>2, <4>1
      <4>3. q[k - 1] # w /\ q[k - 1] = y /\ q[k - 1] # x /\ q[k - 1] \in Ways
        <5>1. k - 1 # j /\ (j # n => j + 1 \in 1 .. n /\ k - 1 # j + 1)
          BY <3>0, <3>3
        <5> QED
          BY <1>0, <1>1, <2>3, <2>4, <3>3, <4>1, <5>1 DEF w
      <4>4. m[q[k - 1]].next = x
        BY <2>2, <4>3
      <4>5. m[q[k - 1]].prev = IF k - 1 = 1 THEN w ELSE q[(k - 1) - 1]
        BY <1>0, <1>1, <2>2, <4>1, <4>3
      <4>6. r[k - 1] = IF k - 1 = 1 THEN q[j] ELSE q[(k - 1) - 1]
        BY <1>2, <4>1
      <4> QED
        BY <2>3, <3>3, <4>1, <4>2, <4>4, <4>5, <4>6 DEF w
    <3>4. CASE j < k
      <4>1. k # 1 /\ ~(k <= j) /\ k - 1 \in 1 .. n /\ k - 1 # n
            /\ (k # n => k + 1 \in 1 .. n /\ k + 1 # 1 /\ ~(k + 1 <= j))
        BY <3>0, <3>4
      <4>2. r[k] = q[k] /\ (k # n => r[k + 1] = q[k + 1])
        BY <1>2, <4>1
      <4>3. q[k] # w /\ q[k] # y /\ q[k] \in Ways /\ q[k] # h
        <5>1. j - 1 \in 1 .. n /\ k # j /\ k # j - 1
          BY <3>0, <3>4
        <5> QED
          BY <1>0, <1>1, <2>3, <4>1, <5>1 DEF w
      <4>4. m[q[k]].next = IF k = n THEN NoWay ELSE q[k + 1]
        BY <1>1, <2>2, <4>3
      <4>5. q[k] = x <=> k = j + 1
        <5>1. k = j + 1 => j # n
          BY <3>0
        <5>2. j # n => j + 1 \in 1 .. n
          BY <3>0
        <5> QED
          BY <1>1, <2>3, <2>4, <4>3, <5>1, <5>2
      <4>6. CASE k = j + 1
        <5>1. m[q[k]].prev = q[j - 1]
          BY <2>2, <2>3, <4>3, <4>5, <4>6
        <5>2. r[k - 1] = q[j - 1]
          <6>1. k - 1 = j /\ j # 1 /\ j <= j
            BY <3>0, <4>6
          <6> QED
            BY <1>2, <4>1, <6>1
        <5> QED
          BY <4>1, <4>2, <4>4, <5>1, <5>2
      <4>7. CASE k # j + 1
        <5>1. m[q[k]].prev = q[k - 1]
          BY <1>1, <2>2, <4>1, <4>3, <4>5, <4>7
        <5>2. r[k - 1] = q[k - 1]
          <6>1. k - 1 # 1 /\ ~(k - 1 <= j)
            BY <3>0, <3>4, <4>7
          <6> QED
            BY <1>2, <4>1, <6>1
        <5> QED
          BY <4>1, <4>2, <4>4, <5>1, <5>2
      <4> QED
        BY <4>6, <4>7
    <3> QED
      BY <3>0, <3>1, <3>2, <3>3, <3>4
  <2>7. InOrder(m, r)
    BY <2>5, <2>6 DEF InOrder, n
  <2> QED
    BY <2>7 DEF m, r, w
<1> QED
  BY <1>3, <1>4

\* A list that reaches every way is well formed.
LEMMA OrderLinked ==
    ASSUME NEW set \in BtbSets, NEW q, InOrder(set, q)
    PROVE  Linked(set)
<1>1. ASSUME NEW w \in Ways
      PROVE  /\ set[w].next # NoWay => set[set[w].next].prev = w
             /\ set[w].prev # NoWay => set[set[w].prev].next = w
  <2>1. PICK k \in 1 .. btb_assoc : q[k] = w
    BY DEF InOrder
  <2>2. /\ set[w].prev = NoWay <=> k = 1
        /\ set[w].next = NoWay <=> k = btb_assoc
        /\ k # btb_assoc => k + 1 \in 1 .. btb_assoc /\ k + 1 # 1 /\ (k + 1) - 1 = k
        /\ k # 1 => k - 1 \in 1 .. btb_assoc /\ k - 1 # btb_assoc /\ (k - 1) + 1 = k
    BY <2>1, OrderType, Sizes
  <2>3. /\ k # btb_assoc => set[w].next = q[k + 1] /\ set[q[k + 1]].prev = q[k]
        /\ k # 1 => set[w].prev = q[k - 1] /\ set[q[k - 1]].next = q[k]
    BY <2>1, <2>2 DEF InOrder
  <2> QED
    BY <2>1, <2>2, <2>3
<1>2. /\ \E h \in Ways : \A w \in Ways : (set[w].prev = NoWay) <=> (w = h)
      /\ \E t \in Ways : \A w \in Ways : (set[w].next = NoWay) <=> (w = t)
  BY OrderEnds
<1> QED
  BY <1>1, <1>2 DEF Linked

\* The links alone make the order.
LEMMA SameLinks ==
    ASSUME NEW a, NEW b, NEW q, InOrder(a, q),
           \A v \in Ways : b[v].next = a[v].next /\ b[v].prev = a[v].prev
    PROVE  InOrder(b, q)
<1>1. \A k \in 1 .. btb_assoc : q[k] \in Ways
  BY DEF InOrder
<1> QED
  BY <1>1 DEF InOrder

\* Entering a branch gives its set the order in which the way entered is first.
LEMMA UpdatedOrder ==
    ASSUME NEW set \in BtbSets, NEW q, InOrder(set, q), NEW j \in 1 .. btb_assoc,
           NEW pc \in Text, NEW btarget \in PCs, NEW correct \in BOOLEAN,
           q[j] = Victim(set, pc)
    PROVE  InOrder(BtbUpdated(set, pc, btarget, correct), ToFront(q, j))
<1> DEFINE w == Victim(set, pc)
           m == IF btb_assoc > 1 THEN MadeMru(set, w) ELSE set
           e == Entered(m[w], pc, btarget, correct)
           b == BtbUpdated(set, pc, btarget, correct)
<1>1. InOrder(m, ToFront(q, j))
  <2>1. CASE btb_assoc > 1
    BY <2>1, MadeMruOrder
  <2>2. CASE ~(btb_assoc > 1)
    <3>1. btb_assoc = 1 /\ j = 1
      BY <2>2, Sizes
    <3>2. ToFront(q, j) = q
      BY <3>1 DEF ToFront, InOrder
    <3> QED
      BY <2>2, <3>2
  <2> QED
    BY <2>1, <2>2
<1>2. b = [m EXCEPT ![w] = e]
  BY DEF BtbUpdated
<1>3. m \in BtbSets /\ w \in Ways
  <2>1. w \in Ways
    BY OrderType
  <2>2. btb_assoc > 1 => MadeMru(set, w) \in BtbSets
    BY <2>1, OrderLinked, MadeMruLinked
  <2> QED
    BY <2>1, <2>2
<1>4. e.next = m[w].next /\ e.prev = m[w].prev
  <2> HIDE DEF m, w
  <2>1. m[w] \in BtbEntries
    BY <1>3 DEF BtbSets
  <2>2. /\ [m[w] EXCEPT !.target = btarget].next = m[w].next
        /\ [m[w] EXCEPT !.target = btarget].prev = m[w].prev
        /\ [m[w] EXCEPT !.addr = pc, !.target = btarget].next = m[w].next
        /\ [m[w] EXCEPT !.addr = pc, !.target = btarget].prev = m[w].prev
    BY <2>1 DEF BtbEntries
  <2> QED
    BY <2>2 DEF Entered
<1> HIDE DEF m, w, e, b
<1>5. \A v \in Ways : b[v].next = m[v].next /\ b[v].prev = m[v].prev
  BY <1>2, <1>3, <1>4 DEF BtbSets
<1>6. InOrder(b, ToFront(q, j))
  BY <1>1, <1>5, SameLinks
<1> QED
  BY <1>6 DEF b

\* So its addresses are in the order of their last use again.
LEMMA RecencyUpdated ==
    ASSUME NEW set \in BtbSets, NEW q, InOrder(set, q), OneEntry(set),
           NEW pc \in Text, NEW btarget \in PCs, NEW correct \in BOOLEAN
    PROVE  LET b == BtbUpdated(set, pc, btarget, correct)
           IN  /\ \E r \in [1 .. btb_assoc -> Ways] : InOrder(b, r)
               /\ Recency(b) = Recent(Recency(set), pc)
<1> DEFINE n == btb_assoc
           w == Victim(set, pc)
           b == BtbUpdated(set, pc, btarget, correct)
           A == Recency(set)
<1>0. n \in Nat \ {0} /\ n \in 1 .. n /\ Linked(set)
  BY Sizes, OrderLinked
<1>1. /\ w \in Ways /\ b[w].addr = pc
      /\ \A v \in Ways : set[v].addr = pc => v = w
      /\ \A v \in Ways \ {w} : b[v].addr = set[v].addr
  BY <1>0, BtbUpdatedKeeps, VictimType
<1>2. PICK j \in 1 .. n : q[j] = w
  BY <1>1 DEF InOrder
<1> DEFINE r == ToFront(q, j)
<1>3. InOrder(b, r)
  BY <1>2, UpdatedOrder
<1>4. /\ q \in [1 .. n -> Ways]
      /\ \A i, k \in 1 .. n : q[i] = q[k] => i = k
      /\ r \in [1 .. n -> Ways]
      /\ \A k \in 1 .. n : r[k] = IF k = 1 THEN q[j] ELSE IF k <= j THEN q[k - 1] ELSE q[k]
  <2>1. r \in [1 .. n -> Ways]
    BY <1>3 DEF InOrder
  <2> QED
    BY <2>1 DEF InOrder, ToFront
<1>5. A = [k \in 1 .. n |-> set[q[k]].addr]
  BY RecencyIs
<1>6. Recency(b) = [k \in 1 .. n |-> b[r[k]].addr]
  BY <1>3, RecencyIs
<1>7. Len(A) = n /\ DOMAIN A = 1 .. n
  <2>1. A \in [1 .. n -> PCs]
    BY <1>4, <1>5 DEF BtbSets, BtbEntries
  <2> HIDE DEF A
  <2>2. A \in Seq(PCs)
    BY <1>0, <2>1
  <2> QED
    BY <1>0, <2>1, <2>2
<1>8. Place(A, pc) = j
  <2>1. \A k \in 1 .. n : A[k] = pc => k = j
    <3> SUFFICES ASSUME NEW k \in 1 .. n, A[k] = pc PROVE k = j
      OBVIOUS
    <3>1. set[q[k]].addr = pc /\ q[k] \in Ways
      BY <1>4, <1>5
    <3> QED
      BY <1>1, <1>2, <1>4, <3>1
  <2>2. CASE \E k \in 1 .. n : A[k] = pc
    <3> HIDE DEF A
    <3> QED
      BY <1>7, <2>1, <2>2 DEF Place
  <2>3. CASE ~\E k \in 1 .. n : A[k] = pc
    <3>1. \A v \in Ways : set[v].addr # pc
      <4> SUFFICES ASSUME NEW v \in Ways, set[v].addr = pc PROVE FALSE
        OBVIOUS
      <4>1. PICK k \in 1 .. n : q[k] = v
        BY DEF InOrder
      <4> QED
        BY <1>5, <2>3, <4>1
    <3>2. w = q[n]
      <4>1. w = IF n > 1 THEN LruItem(set) ELSE 0
        BY <3>1 DEF Victim
      <4>2. CASE n > 1
        BY <4>1, <4>2, OrderEnds
      <4>3. CASE ~(n > 1)
        BY <1>0, <1>4, <4>1, <4>3 DEF Ways
      <4> QED
        BY <4>2, <4>3
    <3>3. j = n
      BY <1>0, <1>2, <1>4, <3>2
    <3> HIDE DEF A
    <3> QED
      BY <1>7, <2>3, <3>3 DEF Place
  <2> QED
    BY <2>2, <2>3
<1>9. ASSUME NEW k \in 1 .. n
      PROVE  b[r[k]].addr = IF k = 1 THEN pc ELSE IF k <= j THEN A[k - 1] ELSE A[k]
  <2>1. k # 1 => k - 1 \in 1 .. n
    BY <1>0
  <2>2. CASE k = 1
    BY <1>1, <1>2, <1>4, <2>2
  <2>3. CASE k # 1 /\ k <= j
    <3>1. k - 1 # j
      BY <1>0, <2>3
    <3>2. r[k] = q[k - 1] /\ q[k - 1] \in Ways \ {w}
      BY <1>2, <1>4, <2>1, <2>3, <3>1
    <3> QED
      BY <1>1, <1>5, <2>1, <2>3, <3>2
  <2>4. CASE k # 1 /\ ~(k <= j)
    <3>1. k # j
      BY <1>0, <2>4
    <3>2. r[k] = q[k] /\ q[k] \in Ways \ {w}
      BY <1>2, <1>4, <2>4, <3>1
    <3> QED
      BY <1>1, <1>5, <2>4, <3>2
  <2> QED
    BY <2>2, <2>3, <2>4
<1> HIDE DEF A, b, r
<1>10. Recent(A, pc) = [k \in 1 .. n |-> IF k = 1 THEN pc ELSE IF k <= j THEN A[k - 1] ELSE A[k]]
  BY <1>7, <1>8 DEF Recent
<1>11. Recency(b) = Recent(A, pc)
  BY <1>6, <1>9, <1>10
<1> QED
  BY <1>3, <1>4, <1>11 DEF A, b

\* What bpred_update does to the BTB.
LEMMA UpdateBtb ==
    ASSUME NEW p \in Predictors, NEW pc \in Text, NEW btarget, NEW taken \in BOOLEAN,
           NEW correct, NEW op, NEW upd, NEW s \in Sets
    PROVE  LET r == bpred_update(p, pc, btarget, taken, correct, op, upd)
           IN  \/ r.btb[s] = p.btb[s]
               \/ /\ s = pc % btb_sets
                  /\ r.btb[s] = BtbUpdated(p.btb[s], pc, btarget, correct)
<1> DEFINE r == bpred_update(p, pc, btarget, taken, correct, op, upd)
           i == pc % btb_sets
           U == BtbUpdated(p.btb[i], pc, btarget, correct)
           B == [p.btb EXCEPT ![i] = IF taken THEN U ELSE p.btb[i]]
<1>1. CASE ~Trains(p, op, upd)
  BY <1>1 DEF bpred_update
<1>2. CASE Trains(p, op, upd)
  <2>1. r.btb = B
    BY <1>2 DEF bpred_update, Predictors
  <2>2. p.btb \in [Sets -> BtbSets]
    BY DEF Predictors
  <2> HIDE DEF r, U, i
  <2>3. B[s] = p.btb[s] \/ (s = i /\ B[s] = U)
    <3>1. CASE s = i
      <4>1. B[s] = IF taken THEN U ELSE p.btb[i]
        BY <2>2, <3>1
      <4> HIDE DEF B
      <4> QED
        BY <3>1, <4>1
    <3>2. CASE s # i
      BY <2>2, <3>2
    <3> QED
      BY <3>1, <3>2
  <2> QED
    BY <2>1, <2>3 DEF r, U, i
<1> QED
  BY <1>1, <1>2

LEMMA CreateOrder ==
    \E q \in [1 .. btb_assoc -> Ways] : InOrder(EmptyBtbSet, q)
<1> DEFINE n == btb_assoc
           q == [k \in 1 .. n |-> k - 1]
<1>0. n \in Nat \ {0}
  BY Sizes
<1>1. q \in [1 .. n -> Ways]
  BY <1>0 DEF Ways
<1>2. \A j, k \in 1 .. n : q[j] = q[k] => j = k
  BY <1>0
<1>3. ASSUME NEW w \in Ways PROVE \E k \in 1 .. n : q[k] = w
  <2>1. w + 1 \in 1 .. n /\ q[w + 1] = w
    BY <1>0 DEF Ways
  <2> QED
    BY <2>1
<1>4. ASSUME NEW k \in 1 .. n
      PROVE  /\ EmptyBtbSet[q[k]].next = IF k = n THEN NoWay ELSE q[k + 1]
             /\ EmptyBtbSet[q[k]].prev = IF k = 1 THEN NoWay ELSE q[k - 1]
  <2>1. q[k] = k - 1 /\ k - 1 \in Ways
    BY <1>0 DEF Ways
  <2>2. /\ EmptyBtbSet[k - 1].next = IF k - 1 = n - 1 THEN NoWay ELSE (k - 1) + 1
        /\ EmptyBtbSet[k - 1].prev = IF k - 1 = 0 THEN NoWay ELSE (k - 1) - 1
    BY <2>1 DEF EmptyBtbSet
  <2>3. /\ k # n => k + 1 \in 1 .. n
        /\ k # 1 => k - 1 \in 1 .. n
    BY <1>0
  <2> QED
    BY <1>0, <2>1, <2>2, <2>3
<1> QED
  BY <1>1, <1>2, <1>3, <1>4 DEF InOrder

\* What a step does to a set of the BTB.
Entering(s) ==
    \E npc \in PCs, right \in BOOLEAN :
        /\ s = regs_PC % btb_sets /\ regs_PC \in Text
        /\ pred'.btb[s] = BtbUpdated(pred.btb[s], regs_PC, npc, right)

LEMMA BtbStep ==
    ASSUME SimInv, [Next]_vars, NEW s \in Sets
    PROVE  pred'.btb[s] = pred.btb[s] \/ Entering(s)
<1>1. CASE ExecuteBranch
  <2>1. PICK npc \in Resolved, junk \in BOOLEAN : Predict(npc, junk)
    BY <1>1 DEF ExecuteBranch
  <2>2. npc \in PCs /\ Ctrl(Op) /\ regs_PC \in Text /\ pred \in Predictors
    BY <1>1, OpType, ResolvedType DEF ExecuteBranch, SimInv, TypeOK
  <2> DEFINE q == AfterLookup(pred, regs_PC, Call, Return)
  <2>3. PICK upd : \E taken \in BOOLEAN, right \in BOOLEAN :
            pred' = bpred_update(q, regs_PC, npc, taken, right, Op, upd)
    BY <2>1 DEF Predict
  <2>4. PICK taken \in BOOLEAN, right \in BOOLEAN :
            pred' = bpred_update(q, regs_PC, npc, taken, right, Op, upd)
    BY <2>3
  <2>5. q \in Predictors /\ q.btb = pred.btb
    BY <2>2, AfterLookupKeeps
  <2> HIDE DEF q
  <2>6. \/ pred'.btb[s] = q.btb[s]
        \/ /\ s = regs_PC % btb_sets
           /\ pred'.btb[s] = BtbUpdated(q.btb[s], regs_PC, npc, right)
    BY <2>2, <2>4, <2>5, UpdateBtb
  <2> QED
    BY <2>2, <2>5, <2>6 DEF Entering
<1>2. CASE ExecuteOther \/ Settle \/ Exited \/ UNCHANGED vars
  BY <1>2 DEF ExecuteOther, Settle, Exited, vars
<1> QED
  BY <1>1, <1>2 DEF Next, Execute

\* A step keeps every set in order, and moves only the branch entered.
LEMMA OrderStep ==
    ASSUME SimInv, BtbOrdered, [Next]_vars, NEW s \in Sets
    PROVE  /\ \E r \in [1 .. btb_assoc -> Ways] : InOrder(pred'.btb[s], r)
           /\ \/ pred'.btb[s] = pred.btb[s]
              \/ /\ s = regs_PC % btb_sets
                 /\ Recency(pred'.btb[s]) = Recent(Recency(pred.btb[s]), regs_PC)
<1>1. PICK q \in [1 .. btb_assoc -> Ways] : InOrder(pred.btb[s], q)
  BY DEF BtbOrdered
<1>2. pred.btb[s] \in BtbSets /\ OneEntry(pred.btb[s])
  BY DEF SimInv, TypeOK, Predictors, BtbWellFormed, BtbWell
<1>3. CASE pred'.btb[s] = pred.btb[s]
  BY <1>1, <1>3
<1>4. CASE Entering(s)
  <2>1. PICK npc \in PCs, right \in BOOLEAN :
            /\ s = regs_PC % btb_sets /\ regs_PC \in Text
            /\ pred'.btb[s] = BtbUpdated(pred.btb[s], regs_PC, npc, right)
    BY <1>4 DEF Entering
  <2> QED
    BY <1>1, <1>2, <2>1, RecencyUpdated
<1> QED
  BY <1>3, <1>4, BtbStep

-----------------------------------------------------------------------------
(* The chooser *)

\* Training a component's counter leaves the chooser's table alone.
LEMMA TrainOther ==
    ASSUME NEW table \in Tables, NEW q \in Pointers, q[1] # "meta", NEW taken \in BOOLEAN
    PROVE  Train(table, q, taken).meta = table.meta
<1>1. CASE q = NULLPtr
  BY <1>1 DEF Train
<1>2. CASE q # NULLPtr
  <2>1. q[1] \in {"bimod", "l2table"}
    BY <1>2 DEF Pointers, NULLPtr
  <2>2. Train(table, q, taken)
            = [table EXCEPT ![q[1]] = [table[q[1]] EXCEPT ![q[2]] = Trained(@, taken)]]
    BY <1>2 DEF Train
  <2> QED
    BY <2>1, <2>2 DEF Tables
<1> QED
  BY <1>1, <1>2

\* Training the chooser's counter trains that one.
LEMMA TrainChooser ==
    ASSUME NEW table \in Tables, NEW i \in 0 .. meta_size - 1, NEW taken \in BOOLEAN
    PROVE  Train(table, <<"meta", i>>, taken).meta[i] = Trained(table.meta[i], taken)
<1>1. Train(table, <<"meta", i>>, taken)
          = [table EXCEPT !.meta = [table.meta EXCEPT ![i] = Trained(table.meta[i], taken)]]
  BY DEF Train, NULLPtr, Tables
<1> QED
  BY <1>1 DEF Tables

\* The update of a conditional branch moves the chooser's counter only where the
\* two components differed, and towards the one that was right.
LEMMA ChooserFollows ==
    ASSUME NEW table \in Tables, NEW upd \in DirUpdates, NEW taken \in BOOLEAN,
           NEW i \in 0 .. meta_size - 1, upd.pmeta = <<"meta", i>>,
           upd.pdir1[1] # "meta", upd.pdir2[1] # "meta",
           NEW t, t = MetaTrained(Train(Train(table, upd.pdir1, taken), upd.pdir2, taken),
                                  upd, taken)
    PROVE  t.meta[i] = IF upd.bimod = upd.twolev THEN table.meta[i]
                       ELSE Trained(table.meta[i], upd.twolev = taken)
<1> DEFINE r == Train(table, upd.pdir1, taken)
           s == Train(r, upd.pdir2, taken)
<1>1. upd.pdir1 \in Pointers /\ upd.pdir2 \in Pointers /\ upd.pmeta # NULLPtr
  BY DEF DirUpdates, NULLPtr
<1>2. r \in Tables /\ r.meta = table.meta
  BY <1>1, TrainType, TrainOther
<1> HIDE DEF r
<1>3. s \in Tables /\ s.meta = table.meta
  BY <1>1, <1>2, TrainType, TrainOther
<1> HIDE DEF s
<1>4. t = MetaTrained(s, upd, taken)
  BY DEF r, s
<1>5. CASE upd.bimod = upd.twolev
  BY <1>3, <1>4, <1>5 DEF MetaTrained
<1>6. CASE upd.bimod # upd.twolev
  <2>1. t = Train(s, <<"meta", i>>, upd.twolev = taken)
    BY <1>1, <1>4, <1>6 DEF MetaTrained
  <2>2. (upd.twolev = taken) \in BOOLEAN
    OBVIOUS
  <2>3. t.meta[i] = Trained(s.meta[i], upd.twolev = taken)
    BY <1>3, <2>1, <2>2, TrainChooser
  <2> QED
    BY <1>3, <1>6, <2>3
<1> QED
  BY <1>5, <1>6

LEMMA CombStep ==
    ASSUME SimInv, pred.class = "Comb", ExecuteBranch, Cond(Op)
    PROVE  Follows
<1> DEFINE look  == Lookup(regs_PC, Op, prev)
           m     == MetaEntry(regs_PC)
           b     == BimodEntry(pred, regs_PC, look)
           t     == TwolevEntry(pred, regs_PC)
<1>1. PICK npc \in Resolved, junk \in BOOLEAN : Predict(npc, junk)
  BY DEF ExecuteBranch
<1> DEFINE taken == npc # SeqPC(regs_PC)
           q     == AfterLookup(pred, regs_PC, Call, Return)
           upd   == dir_update(pred, regs_PC, look, Op, Return, junk)
<1>2. last'.next = npc
  BY <1>1 DEF Predict
<1>3. PICK right : pred' = bpred_update(q, regs_PC, npc, taken, right, Op, upd)
  BY <1>1 DEF Predict
<1>4. /\ pred \in Predictors /\ Op \in Ops /\ regs_PC \in Text /\ Ctrl(Op)
      /\ ~Return /\ ~Call /\ Op # "JR"
  <2>1. pred \in Predictors /\ regs_PC \in PCs /\ Ctrl(Op)
    BY DEF SimInv, TypeOK, ExecuteBranch
  <2>2. Op \in Ops /\ regs_PC \in Text
    BY <2>1, OpType
  <2>3. Op # "JR" /\ ~Is(Op, "F_CALL")
    BY <2>2, CtrlOps
  <2> QED
    BY <2>1, <2>2, <2>3 DEF Return, Call
<1>5. q = pred
  BY <1>4 DEF AfterLookup, Pops, Pushes
<1>6. look \in Nat /\ Return \in BOOLEAN
  BY <1>4, SimBpredAssumption DEF SimBpredAssumption, SimInv, TypeOK, Return
<1> HIDE DEF look
<1>7. b \in Pointers /\ t \in Pointers /\ m \in Pointers
  BY <1>4, <1>6, EntryPointers
<1>8. /\ b[1] = "bimod" /\ t[1] = "l2table"
      /\ m = <<"meta", regs_PC % meta_size>> /\ regs_PC % meta_size \in 0 .. meta_size - 1
  <2>1. regs_PC % meta_size \in 0 .. meta_size - 1
    BY <1>4, TextType, Sizes, ModRange
  <2> QED
    BY <2>1 DEF BimodEntry, TwolevEntry, MetaEntry
<1>9. upd \in DirUpdates
  BY <1>4, <1>6, DirUpdateType
<1>10. /\ upd.pmeta = m /\ upd.bimod = Says(pred, b) /\ upd.twolev = Says(pred, t)
       /\ upd.pdir1 \in {b, t} /\ upd.pdir2 \in {b, t}
  <2> DEFINE c == Choice(Says(pred, m), b, t)
             d == [ras |-> FALSE, pdir1 |-> c[1], pdir2 |-> c[2], pmeta |-> m,
                   bimod |-> Says(pred, b), twolev |-> Says(pred, t)]
  <2>1. c[1] \in {b, t} /\ c[2] \in {b, t}
    BY DEF Choice
  <2> HIDE DEF c, b, t, m
  <2>2. DirUpdate(pred, regs_PC, look, junk) = d
    BY DEF DirUpdate, Combined, Static, b, t, m, c
  <2>3. upd = [d EXCEPT !.ras = Pops(pred, Return)]
    BY <2>2 DEF dir_update
  <2> QED
    BY <2>1, <2>3
<1> HIDE DEF b, t, m, upd, taken, q
<1>11. pred'.table = MetaTrained(Train(Train(pred.table, upd.pdir1, taken), upd.pdir2, taken),
                                 upd, taken)
  <2>1. Trains(pred, Op, upd)
    BY <1>4 DEF Trains, Static
  <2> QED
    BY <1>3, <1>5, <2>1 DEF bpred_update, Predictors
<1>12. pred'.table.meta[regs_PC % meta_size]
           = IF upd.bimod = upd.twolev THEN pred.table.meta[regs_PC % meta_size]
             ELSE Trained(pred.table.meta[regs_PC % meta_size], upd.twolev = taken)
  <2>1. pred.table \in Tables /\ taken \in BOOLEAN
    BY <1>4 DEF Predictors, taken
  <2>2. upd.pdir1[1] # "meta" /\ upd.pdir2[1] # "meta"
    BY <1>8, <1>10
  <2> QED
    BY <1>8, <1>9, <1>10, <1>11, <2>1, <2>2, ChooserFollows
<1>13. Counter(pred', m) = IF Says(pred, b) = Says(pred, t) THEN Counter(pred, m)
                           ELSE Trained(Counter(pred, m), Says(pred, t) = taken)
  BY <1>8, <1>10, <1>12 DEF Counter
<1> QED
  BY <1>2, <1>13 DEF Follows, b, t, m, look, taken

-----------------------------------------------------------------------------
\* For every program and every shape of the predictor, counters saturate,
\* histories keep their width and the top of the stack stays in the stack.
THEOREM PredictorTypes == Spec => []TypeOK
<1>1. SimInv => TypeOK
  BY DEF SimInv
<1> QED
  BY <1>1, InitInv, StepInv, PTL DEF Spec

\* No assertion of bpred_update fails: every set of the BTB is one list, and
\* holds a branch once.
THEOREM BtbStaysWellFormed == Spec => []BtbWellFormed
<1>1. SimInv => BtbWellFormed
  BY DEF SimInv
<1> QED
  BY <1>1, InitInv, StepInv, PTL DEF Spec

\* The BTB sends no direct branch to an address that is not its target.
THEOREM BtbStaysRight == Spec => []BtbTargetsRight
<1>1. SimInv => BtbTargetsRight
  BY DEF SimInv
<1> QED
  BY <1>1, InitInv, StepInv, PTL DEF Spec

\* A taken branch becomes the most recent one of its set, the others keep their
\* order, and only the one not taken for the longest time leaves a set.
THEOREM BtbKeepsOrder == Spec => BtbKeepsRecent
<1> DEFINE Moved == \A s \in Sets :
                        LET q == Recency(pred.btb[s])
                            r == Recency(pred'.btb[s])
                        IN  r # q => /\ s = regs_PC % btb_sets
                                     /\ r = Recent(q, regs_PC)
<1>1. Init => BtbOrdered
  <2> SUFFICES ASSUME Init, NEW s \in Sets
               PROVE  \E q \in [1 .. btb_assoc -> Ways] : InOrder(pred.btb[s], q)
    BY DEF BtbOrdered
  <2>1. pred.btb[s] = EmptyBtbSet
    BY DEF Init, bpred_create
  <2> QED
    BY <2>1, CreateOrder
<1>2. SimInv /\ BtbOrdered /\ [Next]_vars => BtbOrdered'
  <2> SUFFICES ASSUME SimInv, BtbOrdered, [Next]_vars PROVE BtbOrdered'
    OBVIOUS
  <2> QED
    BY OrderStep DEF BtbOrdered
<1>3. SimInv /\ BtbOrdered /\ [Next]_vars => [Moved]_vars
  <2> SUFFICES ASSUME SimInv, BtbOrdered, [Next]_vars, NEW s \in Sets
               PROVE  Recency(pred'.btb[s]) # Recency(pred.btb[s]) =>
                        /\ s = regs_PC % btb_sets
                        /\ Recency(pred'.btb[s]) = Recent(Recency(pred.btb[s]), regs_PC)
    OBVIOUS
  <2> QED
    BY OrderStep
<1> QED
  BY <1>1, <1>2, <1>3, InitInv, StepInv, PTL DEF Spec, BtbKeepsRecent

\* The return address stack holds the last calls under way, whatever it has
\* lost of older ones.
THEOREM StackHoldsCalls == Spec => []RasHoldsCalls
<1>1. SimInv => RasHoldsCalls
  BY DEF SimInv
<1> QED
  BY <1>1, InitInv, StepInv, PTL DEF Spec

\* The chooser of the combining predictor moves towards the component that alone
\* was right, and otherwise stays where it is.
THEOREM ChooserFollowsBetter == Spec => CombFollows
<1>1. SimInv /\ [Next]_vars => [pred.class = "Comb" => Follows]_vars
  <2> SUFFICES ASSUME SimInv, Next, pred.class = "Comb" PROVE Follows
    BY DEF vars
  <2>1. CASE ExecuteBranch
    <3>1. CASE Cond(Op)
      BY <2>1, <3>1, CombStep
    <3>2. CASE ~Cond(Op)
      BY <3>2 DEF Follows
    <3> QED
      BY <3>1, <3>2
  <2>2. CASE ExecuteOther \/ Settle \/ Exited
    <3>1. pred' = pred
      BY <2>2 DEF ExecuteOther, Settle, Exited, vars
    <3> QED
      BY <3>1 DEF Follows
  <2> QED
    BY <2>1, <2>2 DEF Next, Execute
<1> QED
  BY <1>1, InitInv, StepInv, PTL DEF Spec, CombFollows
=============================================================================
