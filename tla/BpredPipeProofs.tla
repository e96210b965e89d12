-------------------------- MODULE BpredPipeProofs --------------------------
(***************************************************************************)
(* The predictor in the pipeline: whatever branches are fetched, squashed, *)
(* resolved late or out of order, the tables keep their types, the BTB its *)
(* lists and targets, the return address stack's top follows the branches  *)
(* in flight, and the program's own path, all of it, is what trains.       *)
(***************************************************************************)
EXTENDS BpredPipeProps, BpredProofs, SequenceTheorems

Direct(e) == Is(Op(e), "F_DIRJMP")

\* What holds of every branch in flight: a direct one is predicted to go to its
\* target, and has gone where it can go.
Good ==
    {e \in InFlight :
        /\ Ctrl(Op(e))
        /\ Direct(e) => e.pred_PC \in {TAKEN, SeqPC(e.PC)} \cup Code[e.PC].targets
        /\ Direct(e) /\ e.stage # "fetched" => e.next_PC \in NextPCs(e.PC)}

\* Behind a branch predicted taken without a target nothing is fetched.
Dangling(e) == e.stage = "fetched" /\ e.pred_PC = TAKEN

NothingBehind ==
    \A k \in 1 .. Len(inflight) :
        Dangling(inflight[k]) => k = Len(inflight) /\ fetch_pred_PC = BogusPC

PredOK(p) == /\ p \in Predictors /\ p.class \notin Static
             /\ BtbWell(p.btb) /\ BtbTargets(p.btb)

PipeInv ==
    /\ PredOK(pred)
    /\ bpred_spec_update \in Updates
    /\ fetch_pred_PC \in PCs
    /\ inflight \in Seq(Good) /\ Len(inflight) <= MaxInFlight
    /\ spec_mode \in BOOLEAN
    /\ trained \in [PC : PCs, next_PC : PCs]
    /\ NothingBehind
    /\ TosFollowsPath

-----------------------------------------------------------------------------
(* Sequences *)

LEMMA Prefix ==
    ASSUME NEW S, NEW s \in Seq(S), NEW n \in 0 .. Len(s)
    PROVE  /\ SubSeq(s, 1, n) \in Seq(S) /\ Len(SubSeq(s, 1, n)) = n
           /\ \A i \in 1 .. n : SubSeq(s, 1, n)[i] = s[i]
<1>1. \A i \in 1 .. n : s[i] \in S
  OBVIOUS
<1>2. n \in Int /\ 1 \in Int
  OBVIOUS
<1>3. SubSeq(s, 1, n) \in Seq(S)
  BY <1>1, <1>2, SubSeqProperties, Zenon
<1>4. Len(SubSeq(s, 1, n)) = n
  BY <1>1, <1>2, SubSeqProperties
<1>5. \A i \in 1 .. n : SubSeq(s, 1, n)[i] = s[i]
  OBVIOUS
<1> QED
  BY <1>3, <1>4, <1>5, Zenon

\* t is s with its k-th element changed, cut behind the m-th.
Changed(t, s, k, m) ==
    /\ Len(t) = m
    /\ \A i \in 1 .. m : i # k => t[i] = s[i]

LEMMA Replaced ==
    \A s \in Seq(Good) : \A k \in 1 .. Len(s), e \in Good : \A t :
        t = [s EXCEPT ![k] = e]
        => t \in Seq(Good) /\ Changed(t, s, k, Len(s)) /\ t[k] = e
<1> SUFFICES ASSUME NEW s \in Seq(Good), NEW k \in 1 .. Len(s), NEW e \in Good,
                    NEW t, t = [s EXCEPT ![k] = e]
             PROVE  t \in Seq(Good) /\ Changed(t, s, k, Len(s)) /\ t[k] = e
  OBVIOUS
<1>1. t \in Seq(Good)
  OBVIOUS
<1>2. Len(t) = Len(s)
  OBVIOUS
<1>3. t[k] = e /\ \A j \in 1 .. Len(s) : j # k => t[j] = s[j]
  OBVIOUS
<1> QED
  BY <1>1, <1>2, <1>3 DEF Changed

LEMMA CutAndAppended ==
    \A s \in Seq(Good) : \A k \in 1 .. Len(s), e \in Good : \A t :
        t = Append(SubSeq(s, 1, k - 1), e)
        => t \in Seq(Good) /\ Changed(t, s, k, k) /\ t[k] = e
<1> SUFFICES ASSUME NEW s \in Seq(Good), NEW k \in 1 .. Len(s), NEW e \in Good,
                    NEW t, t = Append(SubSeq(s, 1, k - 1), e)
             PROVE  t \in Seq(Good) /\ Changed(t, s, k, k) /\ t[k] = e
  OBVIOUS
<1> DEFINE r == SubSeq(s, 1, k - 1)
<1>1. k - 1 \in 0 .. Len(s) /\ k \in Nat
  OBVIOUS
<1>2. r \in Seq(Good) /\ Len(r) = k - 1 /\ \A i \in 1 .. k - 1 : r[i] = s[i]
  BY <1>1, Prefix
<1> HIDE DEF r
<1>3. /\ Append(r, e) \in Seq(Good) /\ Len(Append(r, e)) = k
      /\ Append(r, e)[k] = e /\ \A i \in 1 .. k - 1 : Append(r, e)[i] = r[i]
  BY <1>1, <1>2
<1>4. t = Append(r, e)
  BY DEF r
<1>5. \A i \in 1 .. k : i # k => t[i] = s[i]
  BY <1>1, <1>2, <1>3, <1>4
<1> QED
  BY <1>3, <1>4, <1>5 DEF Changed

-----------------------------------------------------------------------------
(* The lookup *)

\* The answer is an address, and for a direct branch its target or no target.
LEMMA LookupAnswer ==
    ASSUME NEW p, PredOK(p), NEW pc \in Text, NEW op, op = Code[pc].op,
           NEW ret \in BOOLEAN, NEW upd,
           NEW a, a = bpred_lookup(p, pc, NOT_TAKEN, op, ret, upd)
    PROVE  /\ a \in Targets \cup {TAKEN}
           /\ Is(op, "F_DIRJMP") /\ ~ret => a \in {TAKEN, NOT_TAKEN} \cup Code[pc].targets
<1>1. p \in Predictors /\ p.class \notin Static /\ BtbWell(p.btb) /\ BtbTargets(p.btb)
  BY DEF PredOK
<1>2. CASE Pops(p, ret)
  <2>1. a = p.stack[p.tos]
    BY <1>1, <1>2 DEF bpred_lookup, Static
  <2>2. p.tos \in 0 .. retstack_size - 1 /\ p.stack \in [0 .. retstack_size - 1 -> Targets]
    BY <1>1, <1>2, Sizes DEF Pops, Predictors, TosType
  <2> QED
    BY <1>2, <2>1, <2>2 DEF Pops
<1>3. CASE ~Pops(p, ret)
  <2>1. a = BtbTarget(p, pc) \/ a = NOT_TAKEN
    BY <1>1, <1>3 DEF bpred_lookup, Static
  <2>2. NOT_TAKEN \in Targets
    BY DEF Targets
  <2>3. ASSUME BtbMatches(p, pc) # {}
        PROVE  /\ BtbTarget(p, pc) \in Targets
               /\ Is(op, "F_DIRJMP") => BtbTarget(p, pc) \in Code[pc].targets
    <3> DEFINE s == pc % btb_sets
    <3>1. s \in Sets /\ p.btb \in [Sets -> BtbSets]
      BY <1>1, SetOf DEF Predictors
    <3> HIDE DEF s
    <3>2. PICK w \in Ways : p.btb[s][w].addr = pc
      BY <2>3 DEF BtbMatches, s
    <3>3. pc # NoAddr
      BY TextType DEF NoAddr
    <3>4. \A v \in Ways : p.btb[s][v].addr = pc => v = w
      BY <1>1, <3>1, <3>2, <3>3 DEF BtbWell, OneEntry
    <3>5. BtbMatches(p, pc) = {w} /\ w <= w
      <4>1. BtbMatches(p, pc) = {w}
        BY <3>2, <3>4 DEF BtbMatches, s
      <4> QED
        BY <4>1 DEF Ways
    <3>6. BtbEntry(p, pc) = p.btb[s][w]
      BY <3>5 DEF BtbEntry, s
    <3>7. BtbTarget(p, pc) = p.btb[s][w].target
      BY <2>3, <3>6 DEF BtbTarget
    <3>8. p.btb[s][w].target \in Targets
      BY <3>1 DEF BtbSets, BtbEntries
    <3>9. Is(op, "F_DIRJMP") => p.btb[s][w].target \in Code[pc].targets
      BY <1>1, <3>1, <3>2, <3>3 DEF BtbTargets
    <3> QED
      BY <3>7, <3>8, <3>9
  <2>4. BtbMatches(p, pc) = {} => BtbTarget(p, pc) = TAKEN
    BY DEF BtbTarget
  <2> QED
    BY <2>1, <2>2, <2>3, <2>4
<1> QED
  BY <1>2, <1>3

-----------------------------------------------------------------------------
(* The branches *)

\* A branch enters the fetch queue with what its lookup has answered, and moves
\* the top of the stack from where it found it.
LEMMA FetchedGood ==
    ASSUME PredOK(pred), Ctrl(Inst(fetch_pred_PC).op),
           NEW e, e = Fetched(fetch_pred_PC), NEW q,
           q = AfterLookup(pred, fetch_pred_PC, IsCall(fetch_pred_PC), IsReturn(fetch_pred_PC))
    PROVE  /\ e \in Good /\ e.stage = "fetched" /\ FetchAddress(e.pred_PC) \in PCs
           /\ PredOK(q)
           /\ retstack_size > 0 => /\ e.stack_recover_idx = pred.tos
                                   /\ q.tos = TosAfter(e)
<1> DEFINE pc   == fetch_pred_PC
           op   == Inst(pc).op
           ret  == IsReturn(pc)
           prev == PrevOp(pc) \div 8
           upd  == dir_update(pred, pc, prev, op, ret, FALSE)
           ans  == bpred_lookup(pred, pc, NOT_TAKEN, op, ret, upd)
<1>1. pc \in Text /\ Inst(pc) = Code[pc] /\ op = Code[pc].op /\ op \in Ops
  BY IsaAssumption DEF IsaAssumption, Ctrl, Is, Inst, NOPInst, MD_OP_FLAGS
<1>2. ret \in BOOLEAN /\ (ret => ~Is(op, "F_DIRJMP"))
  BY DEF IsReturn, Is, MD_OP_FLAGS
<1>3. prev \in Nat
  <2>1. Inst(pc - 1).op \in Ops
    BY IsaAssumption DEF IsaAssumption, Inst, NOPInst, Ops, MD_OP_FLAGS
  <2>2. PrevOp(pc) \in Nat
    BY <2>1 DEF PrevOp, MD_OPCODE, Ops, MD_OP_FLAGS
  <2> QED
    BY <2>2
<1>4. pred \in Predictors /\ pred.class \notin Static
  BY DEF PredOK
<1>5. upd \in DirUpdates /\ upd.ras = Pops(pred, ret)
  <2> HIDE DEF prev
  <2> QED
    BY <1>1, <1>2, <1>3, <1>4, DirUpdateType
<1> HIDE DEF prev, upd
<1>6. /\ ans \in Targets \cup {TAKEN}
      /\ Is(op, "F_DIRJMP") => ans \in {TAKEN, NOT_TAKEN} \cup Code[pc].targets
  BY <1>1, <1>2, LookupAnswer
<1> DEFINE pp == IF ans = NOT_TAKEN THEN SeqPC(pc) ELSE ans
<1>7. e = [PC |-> pc, pred_PC |-> pp, dir_update |-> upd,
           stack_recover_idx |-> stack_recover_idx(pred),
           next_PC |-> BogusPC, stage |-> "fetched", recover_inst |-> FALSE]
  BY DEF Fetched, upd, prev
<1> HIDE DEF ans
<1>8. /\ pp \in PCs \cup {TAKEN}
      /\ Is(op, "F_DIRJMP") => pp \in {TAKEN, SeqPC(pc)} \cup Code[pc].targets
  BY <1>6, TextType DEF Targets
<1>9. stack_recover_idx(pred) \in TosType
  BY <1>4, Sizes DEF stack_recover_idx, TosType, Predictors
<1> HIDE DEF pp
<1>10. e \in InFlight
  BY <1>1, <1>5, <1>7, <1>8, <1>9, TextType DEF InFlight, BogusPC
<1>11. e \in Good /\ e.stage = "fetched"
  BY <1>1, <1>7, <1>8, <1>10 DEF Good, Direct, Op
<1>12. FetchAddress(e.pred_PC) \in PCs
  BY <1>7, <1>8, TextType DEF FetchAddress, BogusPC
<1>13. PredOK(q)
  <2>1. q \in Predictors /\ q.btb = pred.btb /\ q.class = pred.class
    BY <1>1, <1>4, AfterLookupKeeps
  <2> QED
    BY <2>1 DEF PredOK
<1>14. ASSUME retstack_size > 0
       PROVE  e.stack_recover_idx = pred.tos /\ q.tos = TosAfter(e)
  <2>1. e.stack_recover_idx = pred.tos
    BY <1>7, <1>14 DEF stack_recover_idx
  <2>2. TosAfter(e) = IF Pops(pred, ret) THEN (pred.tos + retstack_size - 1) % retstack_size
                      ELSE IF IsCall(pc) THEN (pred.tos + 1) % retstack_size ELSE pred.tos
    BY <1>5, <1>7, <2>1 DEF TosAfter, TosAfterLookup
  <2>3. q.tos = IF Pops(pred, ret) THEN (pred.tos + retstack_size - 1) % retstack_size
                ELSE IF IsCall(pc) THEN (pred.tos + 1) % retstack_size ELSE pred.tos
    <3>1. Pushes(pred, IsCall(pc), ret) <=> ~Pops(pred, ret) /\ IsCall(pc)
      BY <1>4, <1>14 DEF Pushes
    <3>2. CASE Pops(pred, ret)
      BY <1>4, <3>2 DEF AfterLookup, Predictors
    <3>3. CASE ~Pops(pred, ret) /\ IsCall(pc)
      BY <1>4, <3>1, <3>3 DEF AfterLookup, Predictors
    <3>4. CASE ~Pops(pred, ret) /\ ~IsCall(pc)
      BY <3>1, <3>4 DEF AfterLookup
    <3> QED
      BY <3>2, <3>3, <3>4
  <2> QED
    BY <2>1, <2>2, <2>3
<1> QED
  BY <1>11, <1>12, <1>13, <1>14

\* The update with a resolved branch keeps the predictor well formed, and does
\* not move the stack.
LEMMA UpdatedKeeps ==
    ASSUME NEW p, PredOK(p), NEW e \in Good, e.stage # "fetched", NEW q, q = Updated(p, e)
    PROVE  PredOK(q) /\ q.tos = p.tos
<1> DEFINE taken == e.next_PC # SeqPC(e.PC)
           right == e.pred_PC = e.next_PC
<1>1. p \in Predictors /\ p.class \notin Static /\ BtbWell(p.btb) /\ BtbTargets(p.btb)
  BY DEF PredOK
<1>2. /\ e.PC \in Text /\ e.next_PC \in PCs /\ e.dir_update \in DirUpdates
      /\ Direct(e) => e.next_PC \in NextPCs(e.PC)
  BY DEF Good, InFlight
<1>3. taken /\ Is(Code[e.PC].op, "F_DIRJMP") => e.next_PC \in Code[e.PC].targets
  BY <1>2 DEF Direct, Op, NextPCs, Inst
<1>4. taken \in BOOLEAN /\ right \in BOOLEAN
  OBVIOUS
<1>5. q = bpred_update(p, e.PC, e.next_PC, taken, right, Code[e.PC].op, e.dir_update)
  BY DEF Updated, Op
<1> HIDE DEF taken, right
<1>6. /\ q \in Predictors /\ BtbWell(q.btb)
      /\ q.class = p.class /\ q.stack = p.stack /\ q.tos = p.tos
  BY <1>1, <1>2, <1>4, <1>5, UpdateKeeps
<1>7. BtbTargets(q.btb)
  BY <1>1, <1>2, <1>3, <1>4, <1>5, UpdateKeepsTargets
<1> QED
  BY <1>1, <1>6, <1>7 DEF PredOK

-----------------------------------------------------------------------------
(* The top of the stack *)

TosChain(s, tos) ==
    s # <<>> =>
        /\ tos = TosAfter(s[Len(s)])
        /\ \A k \in 1 .. Len(s) - 1 : s[k + 1].stack_recover_idx = TosAfter(s[k])

LEMMA TosIsChain ==
    TosFollowsPath <=> (retstack_size > 0 => TosChain(inflight, pred.tos))
  BY DEF TosFollowsPath, TosChain

\* A branch changes stage, and those behind it are squashed or are not.
LEMMA ChainChanged ==
    ASSUME NEW s \in Seq(Good), NEW k \in 1 .. Len(s), NEW m \in {k, Len(s)},
           NEW t \in Seq(Good), Changed(t, s, k, m),
           t[k].stack_recover_idx = s[k].stack_recover_idx,
           k < m => TosAfter(t[k]) = TosAfter(s[k]),
           NEW tos, TosChain(s, tos),
           NEW new, IF k = m THEN new = TosAfter(t[k]) ELSE new = tos
    PROVE  TosChain(t, new)
<1>1. /\ Len(t) = m /\ m \in 1 .. Len(s) /\ k <= m /\ (k < m => m = Len(s))
      /\ k \in Nat /\ m \in Nat /\ Len(s) \in Nat
      /\ \A i \in 1 .. m : i # k => t[i] = s[i]
  BY DEF Changed
<1>2. s # <<>>
  BY <1>1
<1>3. /\ tos = TosAfter(s[Len(s)])
      /\ \A j \in 1 .. Len(s) - 1 : s[j + 1].stack_recover_idx = TosAfter(s[j])
  BY <1>2 DEF TosChain
<1>4. new = TosAfter(t[m])
  BY <1>1, <1>3
<1>5. ASSUME NEW j \in 1 .. m - 1
      PROVE  t[j + 1].stack_recover_idx = TosAfter(t[j])
  <2>1. /\ j \in 1 .. Len(s) - 1 /\ j \in 1 .. m /\ j + 1 \in 1 .. m
        /\ s[j + 1].stack_recover_idx = TosAfter(s[j])
    BY <1>1, <1>3
  <2>2. CASE j = k
    BY <1>1, <2>1, <2>2
  <2>3. CASE j # k
    BY <1>1, <2>1, <2>3
  <2> QED
    BY <2>2, <2>3
<1> QED
  BY <1>1, <1>4, <1>5 DEF TosChain

-----------------------------------------------------------------------------
(* The invariant *)

LEMMA GoodSub == Good \subseteq InFlight
  BY DEF Good

LEMMA PipeInvImplies ==
    PipeInv => PipeTypeOK /\ PipeBtbWellFormed /\ DirectPredictions /\ TosFollowsPath
<1> SUFFICES ASSUME PipeInv
             PROVE  PipeTypeOK /\ PipeBtbWellFormed /\ DirectPredictions /\ TosFollowsPath
  OBVIOUS
<1>1. inflight \in Seq(InFlight)
  BY GoodSub, SeqMonotonic DEF PipeInv
<1>2. \A k \in DOMAIN inflight : inflight[k] \in Good
  BY DEF PipeInv
<1>3. DirectPredictions
  BY <1>2 DEF DirectPredictions, PipeInv, PredOK, Good, Direct
<1> QED
  BY <1>1, <1>3 DEF PipeInv, PipeTypeOK, PipeBtbWellFormed, PredOK

LEMMA PipeInitInv == Init => PipeInv
<1> SUFFICES ASSUME Init PROVE PipeInv
  OBVIOUS
<1>1. PICK class \in Classes : pred = bpred_create(class)
  BY DEF Init
<1>2. class \in PredClasses /\ class \notin Static /\ MaxInFlight \in Nat
  BY BpredPipeAssumption DEF BpredPipeAssumption
<1>3. pred.class = class
  BY <1>1 DEF bpred_create
<1>4. PredOK(pred)
  BY <1>1, <1>2, <1>3, CreateType, CreateBtb DEF PredOK
<1>5. inflight = <<>> /\ inflight \in Seq(Good) /\ Len(inflight) = 0
  BY DEF Init
<1>6. Entry \in PCs /\ BogusPC \in PCs
  BY IsaAssumption DEF IsaAssumption, PCs
<1>7. NothingBehind /\ TosFollowsPath
  BY <1>5 DEF NothingBehind, TosFollowsPath
<1>8. /\ bpred_spec_update \in Updates /\ fetch_pred_PC \in PCs /\ spec_mode \in BOOLEAN
      /\ trained \in [PC : PCs, next_PC : PCs]
  BY <1>6 DEF Init
<1>9. Len(inflight) <= MaxInFlight
  BY <1>2, <1>5
<1> QED
  BY <1>4, <1>5, <1>7, <1>8, <1>9 DEF PipeInv

LEMMA FetchBranchInv == PipeInv /\ FetchBranch => PipeInv'
<1> SUFFICES ASSUME PipeInv, FetchBranch PROVE PipeInv'
  OBVIOUS
<1> DEFINE pc == fetch_pred_PC
           e  == Fetched(pc)
           q  == AfterLookup(pred, pc, IsCall(pc), IsReturn(pc))
           n  == Len(inflight)
<1>1. PredOK(pred) /\ inflight \in Seq(Good) /\ n \in Nat
  BY DEF PipeInv
<1>2. /\ Ctrl(Inst(pc).op) /\ n < MaxInFlight
      /\ inflight' = Append(inflight, e) /\ fetch_pred_PC' = FetchAddress(e.pred_PC)
      /\ pred' = q /\ bpred_spec_update' = bpred_spec_update
      /\ spec_mode' = spec_mode /\ trained' = trained
  BY DEF FetchBranch
<1>3. /\ e \in Good /\ e.stage = "fetched" /\ FetchAddress(e.pred_PC) \in PCs /\ PredOK(q)
      /\ retstack_size > 0 => e.stack_recover_idx = pred.tos /\ q.tos = TosAfter(e)
  BY <1>1, <1>2, FetchedGood
<1>4. pc # BogusPC
  BY <1>2, IsaAssumption DEF IsaAssumption, Ctrl, Is, Inst, NOPInst, MD_OP_FLAGS
<1> HIDE DEF e, q, pc
<1>5. /\ inflight' \in Seq(Good) /\ Len(inflight') = n + 1 /\ inflight'[n + 1] = e
      /\ \A i \in 1 .. n : inflight'[i] = inflight[i]
  BY <1>1, <1>2, <1>3, AppendProperties
<1>6. NothingBehind'
  <2>1. \A k \in 1 .. n : ~Dangling(inflight[k])
    BY <1>4 DEF PipeInv, NothingBehind, pc
  <2>2. Dangling(e) => fetch_pred_PC' = BogusPC
    BY <1>2 DEF Dangling, FetchAddress
  <2>3. \A k \in 1 .. Len(inflight') : k = n + 1 \/ k \in 1 .. n
    BY <1>1, <1>5
  <2> QED
    BY <1>5, <2>1, <2>2, <2>3 DEF NothingBehind
<1>7. TosFollowsPath'
  <2> SUFFICES ASSUME retstack_size > 0 PROVE TosChain(inflight', pred'.tos)
    BY DEF TosFollowsPath, TosChain
  <2>1. TosChain(inflight, pred.tos)
    BY TosIsChain DEF PipeInv
  <2>2. pred'.tos = TosAfter(inflight'[Len(inflight')])
    BY <1>2, <1>3, <1>5
  <2>3. ASSUME NEW k \in 1 .. Len(inflight') - 1
        PROVE  inflight'[k + 1].stack_recover_idx = TosAfter(inflight'[k])
    <3>1. k \in 1 .. n /\ inflight # <<>>
      BY <1>1, <1>5
    <3>2. CASE k = n
      BY <1>1, <1>3, <1>5, <2>1, <3>1, <3>2 DEF TosChain
    <3>3. CASE k # n
      <4>1. k \in 1 .. n - 1 /\ k + 1 \in 1 .. n
        BY <1>1, <3>1, <3>3
      <4> QED
        BY <1>5, <2>1, <3>1, <4>1 DEF TosChain
    <3> QED
      BY <3>2, <3>3
  <2> QED
    BY <2>2, <2>3 DEF TosChain
<1>8. Len(inflight') <= MaxInFlight
  BY <1>1, <1>2, <1>5, BpredPipeAssumption DEF BpredPipeAssumption
<1> QED
  BY <1>2, <1>3, <1>5, <1>6, <1>7, <1>8 DEF PipeInv

LEMMA FetchOtherInv == PipeInv /\ FetchOther => PipeInv'
<1> SUFFICES ASSUME PipeInv, FetchOther PROVE PipeInv'
  OBVIOUS
<1>1. /\ fetch_pred_PC # BogusPC /\ fetch_pred_PC' = SeqPC(fetch_pred_PC)
      /\ pred' = pred /\ bpred_spec_update' = bpred_spec_update
      /\ inflight' = inflight /\ spec_mode' = spec_mode /\ trained' = trained
  BY DEF FetchOther
<1>2. NothingBehind'
  BY <1>1 DEF PipeInv, NothingBehind
<1>3. TosFollowsPath'
  BY <1>1 DEF PipeInv, TosFollowsPath
<1>4. fetch_pred_PC' \in PCs
  BY <1>1, TextType
<1> QED
  BY <1>1, <1>2, <1>3, <1>4 DEF PipeInv

\* A mis-fetch is a BTB miss, and so of the last branch in flight.
LEMMA MisFetchedIsLast ==
    ASSUME PipeInv, NEW k \in 1 .. Len(inflight), inflight[k].stage = "fetched",
           MisFetched(inflight[k])
    PROVE  k = Len(inflight)
<1> DEFINE e == inflight[k]
<1>1. e \in Good /\ e.PC \in Text
  BY DEF PipeInv, Good, InFlight
<1>2. PICK t \in Text : Code[e.PC].targets = {t}
  BY <1>1, BpredPipeAssumption DEF BpredPipeAssumption, MisFetched, Op
<1>3. DirTarget(e) = t
  BY <1>2 DEF DirTarget
<1>4. e.pred_PC = TAKEN
  BY <1>1, <1>2, <1>3 DEF Good, Direct, MisFetched
<1> QED
  BY <1>4 DEF PipeInv, NothingBehind, Dangling

LEMMA DispatchInv == PipeInv /\ Dispatch => PipeInv'
<1> SUFFICES ASSUME PipeInv, Dispatch PROVE PipeInv'
  OBVIOUS
<1>1. PICK k \in DOMAIN inflight :
        /\ inflight[k].stage = "fetched"
        /\ \E npc \in Resolutions(inflight[k]) :
            LET redirect == MisFetched(inflight[k])
                wrong    == ~spec_mode /\ ~redirect /\ inflight[k].pred_PC # npc
                e        == [inflight[k] EXCEPT !.next_PC = npc, !.stage = "issued",
                                                !.recover_inst = wrong]
            IN  /\ inflight' = IF redirect THEN Append(SubSeq(inflight, 1, k - 1), e)
                               ELSE [inflight EXCEPT ![k] = e]
                /\ fetch_pred_PC' = IF redirect THEN npc ELSE fetch_pred_PC
                /\ spec_mode' = (spec_mode \/ wrong)
                /\ UpdateIf(DispatchUpdates, pred, e)
        /\ UNCHANGED bpred_spec_update
  BY DEF Dispatch
<1>2. PICK npc \in Resolutions(inflight[k]) :
            LET redirect == MisFetched(inflight[k])
                wrong    == ~spec_mode /\ ~redirect /\ inflight[k].pred_PC # npc
                e        == [inflight[k] EXCEPT !.next_PC = npc, !.stage = "issued",
                                                !.recover_inst = wrong]
            IN  /\ inflight' = IF redirect THEN Append(SubSeq(inflight, 1, k - 1), e)
                               ELSE [inflight EXCEPT ![k] = e]
                /\ fetch_pred_PC' = IF redirect THEN npc ELSE fetch_pred_PC
                /\ spec_mode' = (spec_mode \/ wrong)
                /\ UpdateIf(DispatchUpdates, pred, e)
  BY <1>1
<1> DEFINE redirect == MisFetched(inflight[k])
           wrong    == ~spec_mode /\ ~redirect /\ inflight[k].pred_PC # npc
           e        == [inflight[k] EXCEPT !.next_PC = npc, !.stage = "issued",
                                           !.recover_inst = wrong]
           s        == inflight
           m        == IF redirect THEN k ELSE Len(s)
<1>3. /\ inflight' = IF redirect THEN Append(SubSeq(s, 1, k - 1), e)
                     ELSE [s EXCEPT ![k] = e]
      /\ fetch_pred_PC' = IF redirect THEN npc ELSE fetch_pred_PC
      /\ spec_mode' = (spec_mode \/ wrong)
      /\ pred' = IF DispatchUpdates THEN Updated(pred, e) ELSE pred
      /\ trained' = IF DispatchUpdates THEN [PC |-> e.PC, next_PC |-> e.next_PC] ELSE trained
      /\ bpred_spec_update' = bpred_spec_update
  BY <1>1, <1>2 DEF UpdateIf
<1>4. /\ s \in Seq(Good) /\ k \in 1 .. Len(s) /\ s[k] \in Good /\ s[k].stage = "fetched"
      /\ Len(s) \in Nat /\ PredOK(pred)
  BY <1>1 DEF PipeInv
<1>5. npc \in PCs /\ (Direct(s[k]) => npc \in NextPCs(s[k].PC))
  <2>1. s[k].PC \in Text
    BY <1>4 DEF Good, InFlight
  <2>2. NextPCs(s[k].PC) \subseteq PCs
    BY <2>1, TextType, IsaAssumption DEF IsaAssumption, NextPCs, Inst
  <2> QED
    BY <1>2, <2>2 DEF Resolutions, Direct
<1>6. wrong \in BOOLEAN /\ redirect \in BOOLEAN
  BY DEF MisFetched
<1> HIDE DEF wrong, redirect
<1>7. /\ e \in Good /\ e.stage = "issued" /\ e.PC = s[k].PC /\ e.next_PC = npc
      /\ e.stack_recover_idx = s[k].stack_recover_idx /\ e.dir_update = s[k].dir_update
  BY <1>4, <1>5, <1>6 DEF Good, InFlight, Direct, Op
<1>8. TosAfter(e) = TosAfter(s[k])
  BY <1>4, <1>7 DEF TosAfter, TosAfterLookup
<1>9. redirect => k = Len(s)
  BY <1>4, MisFetchedIsLast DEF redirect
<1> HIDE DEF e
<1>10. inflight' \in Seq(Good) /\ Changed(inflight', s, k, m) /\ inflight'[k] = e
  <2>1. CASE redirect
    <3>1. inflight' = Append(SubSeq(s, 1, k - 1), e) /\ m = k
      BY <1>3, <2>1
    <3>2. \A t : t = Append(SubSeq(s, 1, k - 1), e)
                => t \in Seq(Good) /\ Changed(t, s, k, k) /\ t[k] = e
      BY <1>4, <1>7, CutAndAppended, Zenon
    <3> QED
      BY <3>1, <3>2, Zenon
  <2>2. CASE ~redirect
    BY <1>3, <1>4, <1>7, <2>2, Replaced
  <2> QED
    BY <2>1, <2>2
<1>11. m = Len(s) /\ Len(inflight') = Len(s)
  BY <1>9, <1>10 DEF Changed
<1>12. PredOK(pred') /\ pred'.tos = pred.tos
  BY <1>3, <1>4, <1>7, UpdatedKeeps
<1>13. NothingBehind'
  <2>1. ASSUME NEW i \in 1 .. Len(inflight'), Dangling(inflight'[i])
        PROVE  i = Len(inflight') /\ fetch_pred_PC' = BogusPC
    <3>1. i # k
      BY <1>7, <1>10, <2>1 DEF Dangling
    <3>2. i \in 1 .. Len(s) /\ Dangling(s[i])
      BY <1>10, <1>11, <2>1, <3>1 DEF Changed
    <3>3. i = Len(s) /\ fetch_pred_PC = BogusPC
      BY <3>2 DEF PipeInv, NothingBehind
    <3> QED
      BY <1>3, <1>9, <1>11, <3>1, <3>3
  <2> QED
    BY <2>1 DEF NothingBehind
<1>14. TosFollowsPath'
  <2> SUFFICES ASSUME retstack_size > 0 PROVE TosChain(inflight', pred'.tos)
    BY DEF TosFollowsPath, TosChain
  <2>1. TosChain(s, pred.tos)
    BY TosIsChain DEF PipeInv
  <2>2. k = Len(s) => pred.tos = TosAfter(inflight'[k])
    BY <1>4, <1>8, <1>10, <2>1 DEF TosChain
  <2> QED
    BY <1>4, <1>7, <1>8, <1>10, <1>11, <1>12, <2>1, <2>2, ChainChanged
<1>15. /\ fetch_pred_PC' \in PCs /\ spec_mode' \in BOOLEAN
       /\ trained' \in [PC : PCs, next_PC : PCs]
  <2>1. e.PC \in PCs /\ e.next_PC \in PCs
    BY <1>5, <1>7, TextType DEF Good, InFlight
  <2> QED
    BY <1>3, <1>5, <1>6, <2>1 DEF PipeInv
<1> QED
  BY <1>3, <1>10, <1>11, <1>12, <1>13, <1>14, <1>15 DEF PipeInv

LEMMA WritebackInv == PipeInv /\ Writeback => PipeInv'
<1> SUFFICES ASSUME PipeInv, Writeback PROVE PipeInv'
  OBVIOUS
<1>1. PICK k \in DOMAIN inflight :
        /\ inflight[k].stage = "issued"
        /\ inflight' = [Squashed(k) EXCEPT ![k].stage = "completed"]
        /\ IF inflight[k].recover_inst
           THEN fetch_pred_PC' = inflight[k].next_PC /\ spec_mode' = FALSE
           ELSE UNCHANGED <<fetch_pred_PC, spec_mode>>
        /\ UpdateIf(bpred_spec_update = "WB", Recovered(pred, inflight[k]), inflight[k])
        /\ UNCHANGED bpred_spec_update
  BY DEF Writeback
<1> DEFINE s   == inflight
           rec == s[k].recover_inst
           r   == Squashed(k)
           e   == [s[k] EXCEPT !.stage = "completed"]
           m   == IF rec THEN k ELSE Len(s)
           p   == Recovered(pred, s[k])
<1>2. /\ s \in Seq(Good) /\ k \in 1 .. Len(s) /\ s[k] \in Good /\ s[k].stage = "issued"
      /\ Len(s) \in Nat /\ PredOK(pred) /\ rec \in BOOLEAN
  BY <1>1 DEF PipeInv, Good, InFlight
<1>3. r \in Seq(Good) /\ Len(r) = m /\ (\A i \in 1 .. m : r[i] = s[i]) /\ k \in 1 .. m
  <2>1. CASE rec
    <3>1. r = SubSeq(s, 1, k) /\ m = k /\ k \in 0 .. Len(s)
      BY <1>2, <2>1 DEF Squashed
    <3>2. SubSeq(s, 1, k) \in Seq(Good) /\ Len(SubSeq(s, 1, k)) = k
          /\ \A i \in 1 .. k : SubSeq(s, 1, k)[i] = s[i]
      BY <1>2, <3>1, Prefix
    <3> QED
      BY <1>2, <3>1, <3>2
  <2>2. CASE ~rec
    BY <1>2, <2>2 DEF Squashed
  <2> QED
    BY <2>1, <2>2
<1> HIDE DEF r
<1>4. /\ e \in Good /\ e.stage = "completed" /\ e.recover_inst = s[k].recover_inst
      /\ e.PC = s[k].PC /\ e.stack_recover_idx = s[k].stack_recover_idx
      /\ e.dir_update = s[k].dir_update
  BY <1>2 DEF Good, InFlight, Direct, Op
<1>5. inflight' = [r EXCEPT ![k] = e]
  BY <1>1, <1>3 DEF r
<1> HIDE DEF e
<1>6. inflight' \in Seq(Good) /\ Changed(inflight', s, k, m) /\ inflight'[k] = e
  <2>1. inflight' \in Seq(Good) /\ Changed(inflight', r, k, Len(r)) /\ inflight'[k] = e
    <3>1. k \in 1 .. Len(r)
      BY <1>3
    <3>2. \A t : t = [r EXCEPT ![k] = e]
                => t \in Seq(Good) /\ Changed(t, r, k, Len(r)) /\ t[k] = e
      <4>1. r \in Seq(Good) /\ e \in Good
        BY <1>3, <1>4
      <4>2. \A i \in 1 .. Len(r), x \in Good : \A t :
                t = [r EXCEPT ![i] = x]
                => t \in Seq(Good) /\ Changed(t, r, i, Len(r)) /\ t[i] = x
        BY <4>1, Replaced, Zenon
      <4> QED
        BY <3>1, <4>1, <4>2, Zenon
    <3> QED
      BY <1>5, <3>2, Zenon
  <2> QED
    BY <1>3, <2>1 DEF Changed
<1>7. ~rec => TosAfter(e) = TosAfter(s[k])
  BY <1>2, <1>4 DEF TosAfter, TosAfterLookup
<1>8. rec => TosAfter(e) = s[k].stack_recover_idx
  BY <1>4 DEF TosAfter
<1>9. /\ PredOK(p) /\ (rec => p.tos = s[k].stack_recover_idx) /\ (~rec => p = pred)
  <2>1. CASE rec
    <3>1. p = [pred EXCEPT !.tos = s[k].stack_recover_idx]
      BY <2>1 DEF Recovered, bpred_recover
    <3>2. s[k].stack_recover_idx \in TosType /\ pred \in Predictors
      BY <1>2 DEF Good, InFlight, PredOK
    <3>3. p \in Predictors /\ p.btb = pred.btb /\ p.class = pred.class
          /\ p.tos = s[k].stack_recover_idx
      BY <3>1, <3>2 DEF Predictors
    <3> QED
      BY <1>2, <2>1, <3>3 DEF PredOK
  <2>2. CASE ~rec
    BY <1>2, <2>2 DEF Recovered
  <2> QED
    BY <2>1, <2>2
<1> HIDE DEF p
<1>10. PredOK(pred') /\ pred'.tos = p.tos
  <2>1. pred' = IF bpred_spec_update = "WB" THEN Updated(p, s[k]) ELSE p
    BY <1>1 DEF UpdateIf, p
  <2> QED
    BY <1>2, <1>9, <2>1, UpdatedKeeps
<1>11. NothingBehind'
  <2>1. ASSUME NEW i \in 1 .. Len(inflight'), Dangling(inflight'[i])
        PROVE  i = Len(inflight') /\ fetch_pred_PC' = BogusPC
    <3>1. i # k
      BY <1>4, <1>6, <2>1 DEF Dangling
    <3>2. i \in 1 .. m /\ i \in 1 .. Len(s) /\ Dangling(s[i])
      BY <1>2, <1>6, <2>1, <3>1 DEF Changed
    <3>3. i = Len(s) /\ fetch_pred_PC = BogusPC
      BY <3>2 DEF PipeInv, NothingBehind
    <3>4. ~rec /\ m = Len(s)
      BY <1>2, <3>1, <3>2, <3>3
    <3> QED
      BY <1>1, <1>6, <3>3, <3>4 DEF Changed
  <2> QED
    BY <2>1 DEF NothingBehind
<1>12. TosFollowsPath'
  <2> SUFFICES ASSUME retstack_size > 0 PROVE TosChain(inflight', pred'.tos)
    BY DEF TosFollowsPath, TosChain
  <2>1. TosChain(s, pred.tos)
    BY TosIsChain DEF PipeInv
  <2>2. k < m => TosAfter(inflight'[k]) = TosAfter(s[k])
    BY <1>2, <1>6, <1>7
  <2>3. IF k = m THEN pred'.tos = TosAfter(inflight'[k]) ELSE pred'.tos = pred.tos
    <3>1. CASE rec
      BY <1>2, <1>6, <1>8, <1>9, <1>10, <3>1
    <3>2. CASE ~rec
      BY <1>2, <1>6, <1>7, <1>9, <1>10, <2>1, <3>2 DEF TosChain
    <3> QED
      BY <3>1, <3>2
  <2>4. inflight'[k].stack_recover_idx = s[k].stack_recover_idx
    BY <1>4, <1>6
  <2>5. m \in {k, Len(s)}
    OBVIOUS
  <2> HIDE DEF m, s
  <2> QED
    BY <1>2, <1>6, <2>1, <2>2, <2>3, <2>4, <2>5, ChainChanged
<1>13. /\ fetch_pred_PC' \in PCs /\ spec_mode' \in BOOLEAN
       /\ trained' \in [PC : PCs, next_PC : PCs] /\ bpred_spec_update' \in Updates
  <2>1. s[k].PC \in PCs /\ s[k].next_PC \in PCs
    BY <1>2, TextType DEF Good, InFlight
  <2> QED
    BY <1>1, <2>1 DEF PipeInv, UpdateIf
<1>14. Len(inflight') <= MaxInFlight
  <2>1. Len(inflight') = m /\ m <= Len(s)
    BY <1>2, <1>6 DEF Changed
  <2> QED
    BY <1>2, <2>1, BpredPipeAssumption DEF BpredPipeAssumption, PipeInv
<1> QED
  BY <1>6, <1>10, <1>11, <1>12, <1>13, <1>14 DEF PipeInv

LEMMA CommitInv == PipeInv /\ Commit => PipeInv'
<1> SUFFICES ASSUME PipeInv, Commit PROVE PipeInv'
  OBVIOUS
<1> DEFINE s == inflight
           h == Head(s)
<1>1. /\ s # <<>> /\ h.stage = "completed" /\ inflight' = Tail(s)
      /\ pred' = IF bpred_spec_update = "CT" THEN Updated(pred, h) ELSE pred
      /\ trained' = IF bpred_spec_update = "CT"
                    THEN [PC |-> h.PC, next_PC |-> h.next_PC] ELSE trained
      /\ bpred_spec_update' = bpred_spec_update
      /\ fetch_pred_PC' = fetch_pred_PC /\ spec_mode' = spec_mode
  BY DEF Commit, UpdateIf
<1>2. s \in Seq(Good) /\ Len(s) \in Nat /\ PredOK(pred)
  BY DEF PipeInv
<1>3. /\ h \in Good /\ inflight' \in Seq(Good) /\ Len(inflight') = Len(s) - 1
      /\ \A i \in 1 .. Len(inflight') : inflight'[i] = s[i + 1]
  BY <1>1, <1>2, HeadTailProperties
<1> HIDE DEF h
<1>4. PredOK(pred') /\ pred'.tos = pred.tos
  BY <1>1, <1>2, <1>3, UpdatedKeeps
<1>5. NothingBehind'
  <2>1. ASSUME NEW i \in 1 .. Len(inflight'), Dangling(inflight'[i])
        PROVE  i = Len(inflight') /\ fetch_pred_PC' = BogusPC
    <3>1. i + 1 \in 1 .. Len(s) /\ Dangling(s[i + 1])
      BY <1>2, <1>3, <2>1
    <3>2. i + 1 = Len(s) /\ fetch_pred_PC = BogusPC
      BY <3>1 DEF PipeInv, NothingBehind
    <3>3. i = Len(s) - 1 /\ fetch_pred_PC' = fetch_pred_PC
      BY <1>1, <1>2, <3>2
    <3> QED
      BY <1>3, <3>2, <3>3, Zenon
  <2> QED
    BY <2>1 DEF NothingBehind
<1>6. TosFollowsPath'
  <2> SUFFICES ASSUME retstack_size > 0 PROVE TosChain(inflight', pred'.tos)
    BY DEF TosFollowsPath, TosChain
  <2>1. TosChain(s, pred.tos)
    BY TosIsChain DEF PipeInv
  <2>2. inflight' # <<>> => inflight'[Len(inflight')] = s[Len(s)]
    BY <1>2, <1>3
  <2>3. ASSUME NEW j \in 1 .. Len(inflight') - 1
        PROVE  inflight'[j + 1].stack_recover_idx = TosAfter(inflight'[j])
    <3>1. /\ j + 1 \in 1 .. Len(s) - 1 /\ j \in 1 .. Len(inflight')
          /\ j + 1 \in 1 .. Len(inflight')
      BY <1>2, <1>3
    <3>2. s[(j + 1) + 1].stack_recover_idx = TosAfter(s[j + 1])
      BY <1>1, <2>1, <3>1 DEF TosChain
    <3> QED
      BY <1>3, <3>1, <3>2
  <2> QED
    BY <1>1, <1>4, <2>1, <2>2, <2>3 DEF TosChain
<1>7. trained' \in [PC : PCs, next_PC : PCs]
  <2>1. h.PC \in PCs /\ h.next_PC \in PCs
    BY <1>3, TextType DEF Good, InFlight
  <2> QED
    BY <1>1, <2>1 DEF PipeInv
<1>8. Len(inflight') <= MaxInFlight
  BY <1>2, <1>3, BpredPipeAssumption DEF BpredPipeAssumption, PipeInv
<1> QED
  BY <1>1, <1>3, <1>4, <1>5, <1>6, <1>7, <1>8 DEF PipeInv

LEMMA PipeStepInv == PipeInv /\ [Next]_vars => PipeInv'
<1> SUFFICES ASSUME PipeInv, [Next]_vars PROVE PipeInv'
  OBVIOUS
<1>1. CASE UNCHANGED vars
  BY <1>1 DEF vars, PipeInv, NothingBehind, TosFollowsPath
<1> QED
  BY <1>1, FetchBranchInv, FetchOtherInv, DispatchInv, WritebackInv, CommitInv DEF Next

-----------------------------------------------------------------------------
(* The path of the program.  From where a branch goes, or is taken to go,  *)
(* the fetch has come to the next branch in flight, or is on the way to    *)
(* the next one; the branch that diverges from the path ends it.           *)

\* From a to b there is no branch, unless b is no instruction.
Came(a, b) ==
    \/ b = BogusPC
    \/ b \in Text /\ a <= b /\ \A r \in a .. b - 1 : ~Ctrl(Code[r].op)

\* The next branch from a on is the one behind the k-th, or yet to be fetched.
FollowedBy(a, s, k, f) ==
    IF k < Len(s) THEN s[k + 1].PC = NextBranch(a) ELSE Came(a, f)

\* Dispatched, and found to be mis-predicted.
Diverges(e) == e.recover_inst /\ e.stage = "issued"

After(e) == IF e.stage = "fetched" THEN FetchAddress(e.pred_PC) ELSE e.next_PC

DispatchedFirst(s) ==
    \A j, k \in 1 .. Len(s) : j < k /\ s[j].stage = "fetched" => s[k].stage = "fetched"

\* spec_mode is the state between the dispatch of a mis-predicted branch and its
\* recovery.
OneDiverges(s, spec) ==
    /\ spec <=> \E j \in 1 .. Len(s) : Diverges(s[j])
    /\ \A j, k \in 1 .. Len(s) : Diverges(s[j]) /\ Diverges(s[k]) => j = k

PathLinked(s, f) ==
    \A k \in 1 .. Len(s) :
        (\A j \in 1 .. k : ~Diverges(s[j])) => FollowedBy(After(s[k]), s, k, f)

\* The d-th branch is the last one dispatched.
LastDispatched(s, d) ==
    /\ d > 0 => s[d].stage # "fetched"
    /\ d < Len(s) => s[d + 1].stage = "fetched"

\* What the last branch that trained went to leads to the next one that will.
AnchoredCommit(s, f, next) == FollowedBy(next, s, 0, f)
AnchoredDispatch(s, f, spec, next) ==
    /\ \A j \in 1 .. Len(s) : Diverges(s[j]) => next = s[j].next_PC
    /\ ~spec => \A d \in 0 .. Len(s) :
                    LastDispatched(s, d) => FollowedBy(next, s, d, f)
Anchored(s, f, spec, next, upd) ==
    /\ upd = "CT" => AnchoredCommit(s, f, next)
    /\ upd = "ID" => AnchoredDispatch(s, f, spec, next)

Path(s, f, spec) == DispatchedFirst(s) /\ OneDiverges(s, spec) /\ PathLinked(s, f)

PathInv ==
    /\ Path(inflight, fetch_pred_PC, spec_mode)
    /\ Anchored(inflight, fetch_pred_PC, spec_mode, trained.next_PC, bpred_spec_update)

-----------------------------------------------------------------------------
(* The next branch *)

LEMMA CameFrom == \A a \in PCs : Came(a, a)
  BY TextType DEF Came, PCs, BogusPC

LEMMA CameFurther ==
    ASSUME NEW a \in PCs, NEW f \in PCs, Came(a, f), ~Ctrl(Inst(f).op), f # BogusPC
    PROVE  Came(a, SeqPC(f))
<1>1. f \in Text /\ f \in Nat /\ a \in Nat /\ ~Ctrl(Code[f].op)
  BY TextType DEF PCs, BogusPC, Inst
<1>2. CASE f + 1 \in Text
  <2>1. SeqPC(f) = f + 1 /\ a <= f + 1
    BY <1>1, <1>2 DEF SeqPC, Came
  <2>2. ASSUME NEW r \in a .. (f + 1) - 1 PROVE ~Ctrl(Code[r].op)
    <3>1. r = f \/ r \in a .. f - 1
      BY <1>1
    <3> QED
      BY <1>1, <3>1 DEF Came, BogusPC
  <2> QED
    BY <1>2, <2>1, <2>2 DEF Came
<1>3. CASE f + 1 \notin Text
  BY <1>3 DEF SeqPC, Came
<1> QED
  BY <1>2, <1>3

LEMMA CameToNext ==
    ASSUME NEW a \in PCs, NEW f \in Text, Came(a, f), Ctrl(Code[f].op)
    PROVE  f = NextBranch(a)
<1>1. f \in Nat /\ f # BogusPC /\ a \in Nat /\ Text \subseteq Nat
  BY TextType DEF PCs, BogusPC
<1>2. f >= a /\ \A r \in a .. f - 1 : ~Ctrl(Code[r].op)
  BY <1>1 DEF Came
<1>3. ASSUME NEW q \in Text, q >= a, Ctrl(Code[q].op),
             \A r \in a .. q - 1 : ~Ctrl(Code[r].op)
      PROVE  q = f
  <2>1. ~(q < f)
    BY <1>1, <1>2, <1>3
  <2>2. ~(f < q)
    BY <1>1, <1>2, <1>3
  <2> QED
    BY <1>1, <2>1, <2>2
<1> QED
  BY <1>2, <1>3 DEF NextBranch

LEMMA AfterType == \A e \in Good : After(e) \in PCs
  BY TextType DEF After, FetchAddress, Good, InFlight, PCs

-----------------------------------------------------------------------------
(* Fetch *)

\* s followed by e.
Extended(t, s, e) ==
    /\ Len(t) = Len(s) + 1 /\ t[Len(s) + 1] = e
    /\ \A i \in 1 .. Len(s) : t[i] = s[i]

\* A branch that is fetched is the next one of whatever the fetch came from.
LEMMA FollowedByFetched ==
    ASSUME NEW s \in Seq(Good), NEW f \in Text, Ctrl(Code[f].op), NEW e, e.PC = f,
           NEW t, Extended(t, s, e), NEW g, NEW a \in PCs, NEW k \in 0 .. Len(s),
           FollowedBy(a, s, k, f)
    PROVE  FollowedBy(a, t, k, g)
<1>1. Len(s) \in Nat /\ Len(t) = Len(s) + 1 /\ k < Len(t)
  BY DEF Extended
<1>2. CASE k < Len(s)
  <2>1. k + 1 \in 1 .. Len(s)
    BY <1>1, <1>2
  <2> QED
    BY <1>1, <1>2, <2>1 DEF FollowedBy, Extended
<1>3. CASE k = Len(s)
  <2>1. f = NextBranch(a)
    BY <1>3, CameToNext DEF FollowedBy
  <2> QED
    BY <1>1, <1>3, <2>1 DEF FollowedBy, Extended
<1> QED
  BY <1>1, <1>2, <1>3

LEMMA PathFetched ==
    ASSUME NEW s \in Seq(Good), NEW f \in Text, Ctrl(Code[f].op),
           NEW e \in Good, e.PC = f, e.stage = "fetched",
           NEW t, Extended(t, s, e), NEW spec \in BOOLEAN, Path(s, f, spec),
           NEW g, g = FetchAddress(e.pred_PC)
    PROVE  Path(t, g, spec)
<1> DEFINE n == Len(s)
<1>1. /\ n \in Nat /\ Len(t) = n + 1 /\ t[n + 1] = e /\ ~Diverges(e)
      /\ \A i \in 1 .. n : t[i] = s[i] /\ s[i] \in Good
      /\ \A i \in 1 .. Len(t) : i = n + 1 \/ i \in 1 .. n
      /\ \A i \in 1 .. n : i \in 1 .. Len(t)
  BY DEF Extended, Diverges
<1>2. DispatchedFirst(t)
  BY <1>1 DEF DispatchedFirst, Path
<1>3. OneDiverges(t, spec)
  <2>1. \A i \in 1 .. Len(t) : Diverges(t[i]) => i \in 1 .. n /\ t[i] = s[i]
    BY <1>1
  <2>2. /\ spec <=> \E j \in 1 .. n : Diverges(s[j])
        /\ \A j, k \in 1 .. n : Diverges(s[j]) /\ Diverges(s[k]) => j = k
    BY DEF Path, OneDiverges
  <2>3. (\E j \in 1 .. n : Diverges(s[j])) <=> \E j \in 1 .. Len(t) : Diverges(t[j])
    BY <1>1, <2>1
  <2>4. \A j, k \in 1 .. Len(t) : Diverges(t[j]) /\ Diverges(t[k]) => j = k
    BY <2>1, <2>2
  <2> QED
    BY <2>2, <2>3, <2>4 DEF OneDiverges
<1>4. PathLinked(t, g)
  <2> SUFFICES ASSUME NEW k \in 1 .. Len(t), \A j \in 1 .. k : ~Diverges(t[j])
               PROVE  FollowedBy(After(t[k]), t, k, g)
    BY DEF PathLinked
  <2>1. CASE k = n + 1
    <3>1. After(t[k]) = g /\ g \in PCs
      BY <1>1, <2>1, AfterType DEF After
    <3>2. Came(g, g)
      BY <3>1, CameFrom
    <3> QED
      BY <1>1, <2>1, <3>1, <3>2 DEF FollowedBy
  <2>2. CASE k \in 1 .. n
    <3>1. \A j \in 1 .. k : t[j] = s[j]
      BY <1>1, <2>2
    <3>2. FollowedBy(After(s[k]), s, k, f)
      BY <2>2, <3>1 DEF Path, PathLinked
    <3>3. After(s[k]) \in PCs /\ k \in 0 .. n
      BY <1>1, <2>2, AfterType
    <3>4. FollowedBy(After(s[k]), t, k, g)
      BY <3>2, <3>3, FollowedByFetched
    <3> QED
      BY <1>1, <2>2, <3>4
  <2> QED
    BY <1>1, <2>1, <2>2
<1> QED
  BY <1>2, <1>3, <1>4 DEF Path

LEMMA AnchoredFetched ==
    ASSUME NEW s \in Seq(Good), NEW f \in Text, Ctrl(Code[f].op),
           NEW e \in Good, e.PC = f, e.stage = "fetched",
           NEW t, Extended(t, s, e), NEW spec \in BOOLEAN, NEW g,
           NEW next \in PCs, NEW upd, Anchored(s, f, spec, next, upd)
    PROVE  Anchored(t, g, spec, next, upd)
<1> DEFINE n == Len(s)
<1>1. /\ n \in Nat /\ Len(t) = n + 1 /\ t[n + 1] = e /\ ~Diverges(e)
      /\ \A i \in 1 .. n : t[i] = s[i]
      /\ \A i \in 1 .. Len(t) : i = n + 1 \/ i \in 1 .. n
  BY DEF Extended, Diverges
<1>2. ASSUME upd = "CT" PROVE AnchoredCommit(t, g, next)
  <2>1. FollowedBy(next, s, 0, f) /\ 0 \in 0 .. n
    BY <1>1, <1>2 DEF Anchored, AnchoredCommit
  <2>2. FollowedBy(next, t, 0, g)
    BY <2>1, FollowedByFetched
  <2> QED
    BY <2>2 DEF AnchoredCommit
<1>3. ASSUME upd = "ID" PROVE AnchoredDispatch(t, g, spec, next)
  <2>1. AnchoredDispatch(s, f, spec, next)
    BY <1>3 DEF Anchored
  <2>2. \A j \in 1 .. Len(t) : Diverges(t[j]) => next = t[j].next_PC
    BY <1>1, <2>1 DEF AnchoredDispatch
  <2>3. ASSUME ~spec, NEW d \in 0 .. Len(t), LastDispatched(t, d)
        PROVE  FollowedBy(next, t, d, g)
    <3>1. d # n + 1
      BY <1>1, <2>3 DEF LastDispatched
    <3>2. d \in 0 .. n
      BY <1>1, <3>1
    <3>3. LastDispatched(s, d)
      <4>1. d > 0 => d \in 1 .. n
        BY <1>1, <3>2
      <4>2. d < n => d + 1 \in 1 .. n /\ d < Len(t)
        BY <1>1, <3>2
      <4> QED
        BY <1>1, <2>3, <4>1, <4>2 DEF LastDispatched
    <3>4. FollowedBy(next, s, d, f)
      BY <2>1, <2>3, <3>2, <3>3 DEF AnchoredDispatch
    <3> QED
      BY <3>2, <3>4, FollowedByFetched
  <2> QED
    BY <2>2, <2>3 DEF AnchoredDispatch
<1> QED
  BY <1>2, <1>3 DEF Anchored

\* An instruction that is no branch brings the fetch further on its way.
LEMMA FollowedByPassed ==
    ASSUME NEW s, NEW f \in PCs, ~Ctrl(Inst(f).op), f # BogusPC,
           NEW a \in PCs, NEW k, FollowedBy(a, s, k, f)
    PROVE  FollowedBy(a, s, k, SeqPC(f))
  BY CameFurther DEF FollowedBy

LEMMA PathPassed ==
    ASSUME NEW s \in Seq(Good), NEW f \in PCs, ~Ctrl(Inst(f).op), f # BogusPC,
           NEW spec, Path(s, f, spec),
           NEW next \in PCs, NEW upd, Anchored(s, f, spec, next, upd)
    PROVE  Path(s, SeqPC(f), spec) /\ Anchored(s, SeqPC(f), spec, next, upd)
<1>1. PathLinked(s, SeqPC(f))
  <2> SUFFICES ASSUME NEW k \in 1 .. Len(s), \A j \in 1 .. k : ~Diverges(s[j])
               PROVE  FollowedBy(After(s[k]), s, k, SeqPC(f))
    BY DEF PathLinked
  <2>1. FollowedBy(After(s[k]), s, k, f) /\ After(s[k]) \in PCs
    BY AfterType DEF Path, PathLinked
  <2> QED
    BY <2>1, FollowedByPassed
<1>2. AnchoredCommit(s, f, next) => AnchoredCommit(s, SeqPC(f), next)
  BY FollowedByPassed DEF AnchoredCommit
<1>3. AnchoredDispatch(s, f, spec, next) => AnchoredDispatch(s, SeqPC(f), spec, next)
  BY FollowedByPassed DEF AnchoredDispatch
<1> QED
  BY <1>1, <1>2, <1>3 DEF Path, Anchored

-----------------------------------------------------------------------------
(* Dispatch *)

\* t has the first m branches of s.
SameBranches(t, s, m) == Len(t) = m /\ \A i \in 1 .. m : t[i].PC = s[i].PC

LEMMA ChangedBranches ==
    ASSUME NEW s, NEW t, NEW k, NEW m, Changed(t, s, k, m), t[k].PC = s[k].PC
    PROVE  SameBranches(t, s, m)
  BY DEF Changed, SameBranches

\* Nothing that is followed by a branch in flight depends on more than that branch.
LEMMA FollowedBySame ==
    ASSUME NEW s, NEW t, Len(s) \in Nat, NEW m \in 0 .. Len(s), SameBranches(t, s, m),
           NEW f, NEW g, NEW a, NEW k \in 0 .. m,
           k < m \/ (m = Len(s) /\ g = f), FollowedBy(a, s, k, f)
    PROVE  FollowedBy(a, t, k, g)
<1>1. Len(t) = m
  BY DEF SameBranches
<1>2. CASE k < m
  <2>1. k + 1 \in 1 .. m /\ k < Len(s)
    BY <1>2
  <2> QED
    BY <1>1, <1>2, <2>1 DEF FollowedBy, SameBranches
<1>3. CASE ~(k < m)
  <2>1. k = m /\ ~(k < Len(s)) /\ ~(k < Len(t))
    BY <1>1, <1>3
  <2> QED
    BY <1>3, <2>1 DEF FollowedBy
<1> QED
  BY <1>2, <1>3

\* The first branch that is not dispatched yet comes behind all those that are.
LEMMA FirstFetched ==
    ASSUME NEW s, Len(s) \in Nat, DispatchedFirst(s), NEW k \in 1 .. Len(s),
           s[k].stage = "fetched", \A j \in 1 .. k - 1 : s[j].stage # "fetched"
    PROVE  /\ LastDispatched(s, k - 1)
           /\ \A j \in 1 .. Len(s) : s[j].stage = "fetched" <=> k <= j
           /\ \A j \in 1 .. Len(s) : Diverges(s[j]) => j < k
<1>1. \A j \in 1 .. Len(s) : k < j => s[j].stage = "fetched"
  BY DEF DispatchedFirst
<1>2. \A j \in 1 .. Len(s) : j < k => j \in 1 .. k - 1
  OBVIOUS
<1>3. \A j \in 1 .. Len(s) : s[j].stage = "fetched" <=> k <= j
  BY <1>1, <1>2
<1>4. k - 1 > 0 => k - 1 \in 1 .. k - 1
  OBVIOUS
<1>5. (k - 1) + 1 = k
  OBVIOUS
<1> QED
  BY <1>3, <1>4, <1>5 DEF LastDispatched, Diverges

\* Once it is dispatched it is the last one that is.
LEMMA FirstIssued ==
    ASSUME NEW s, Len(s) \in Nat, DispatchedFirst(s), NEW k \in 1 .. Len(s),
           s[k].stage = "fetched", \A j \in 1 .. k - 1 : s[j].stage # "fetched",
           NEW t, Changed(t, s, k, Len(s)), t[k].stage = "issued"
    PROVE  /\ DispatchedFirst(t)
           /\ \A d \in 0 .. Len(t) : LastDispatched(t, d) => d = k
<1>1. \A j \in 1 .. Len(s) : s[j].stage = "fetched" <=> k <= j
  BY FirstFetched
<1>2. Len(t) = Len(s) /\ \A j \in 1 .. Len(s) : t[j].stage = "fetched" <=> k < j
  BY <1>1 DEF Changed
<1>3. DispatchedFirst(t)
  BY <1>2 DEF DispatchedFirst
<1>4. ASSUME NEW d \in 0 .. Len(t), LastDispatched(t, d) PROVE d = k
  <2>1. ~(k < d)
    <3>1. k < d => d > 0 /\ d \in 1 .. Len(s)
      BY <1>2
    <3> QED
      BY <1>2, <1>4, <3>1 DEF LastDispatched
  <2>2. ~(d < k)
    <3>1. d < k => d < Len(t) /\ d + 1 \in 1 .. Len(s) /\ ~(k < d + 1)
      BY <1>2
    <3> QED
      BY <1>2, <1>4, <3>1 DEF LastDispatched
  <2> QED
    BY <1>2, <2>1, <2>2
<1> QED
  BY <1>3, <1>4

\* The first branch that is not dispatched yet resolves to npc.  If it was
\* mis-fetched, the fetch goes there; if it was mis-predicted on the program's
\* path, it diverges; if it was predicted right, or the path is a wrong one,
\* nothing changes.
Resolved(s, t, k, npc, f, g, spec, specnew) ==
    LET redirect == MisFetched(s[k])
        wrong    == ~spec /\ ~redirect /\ s[k].pred_PC # npc
    IN  /\ s[k].stage = "fetched" /\ \A j \in 1 .. k - 1 : s[j].stage # "fetched"
        /\ Changed(t, s, k, Len(s)) /\ (redirect => k = Len(s))
        /\ t[k].PC = s[k].PC /\ t[k].next_PC = npc /\ t[k].stage = "issued"
        /\ t[k].recover_inst = wrong
        /\ g = IF redirect THEN npc ELSE f
        /\ specnew = (spec \/ wrong)

\* The branch diverges when it is mis-predicted, on the program's path.
DivergesHere(s, t, k, npc, spec) ==
    /\ Diverges(t[k]) <=> ~spec /\ ~MisFetched(s[k]) /\ s[k].pred_PC # npc
    /\ \A j \in 1 .. Len(s) : j # k => (Diverges(t[j]) <=> Diverges(s[j]))
    /\ spec <=> \E j \in 1 .. k - 1 : Diverges(s[j])

LEMMA OneDivergesResolved ==
    ASSUME NEW s \in Seq(Good), NEW k \in 1 .. Len(s), NEW t, NEW npc \in PCs,
           NEW f \in PCs, NEW g, NEW spec \in BOOLEAN, NEW new,
           Resolved(s, t, k, npc, f, g, spec, new), Path(s, f, spec)
    PROVE  OneDiverges(t, new) /\ DivergesHere(s, t, k, npc, spec)
<1>1. /\ Len(s) \in Nat /\ k \in Nat /\ Len(t) = Len(s) /\ DispatchedFirst(s)
      /\ \A j \in 1 .. Len(s) : j # k => t[j] = s[j]
      /\ s[k].stage = "fetched" /\ \A j \in 1 .. k - 1 : s[j].stage # "fetched"
  BY DEF Resolved, Changed, Path
<1>2. \A j \in 1 .. Len(s) : Diverges(s[j]) => j < k
  BY <1>1, FirstFetched
<1>3. Diverges(t[k]) <=> ~spec /\ ~MisFetched(s[k]) /\ s[k].pred_PC # npc
  BY DEF Resolved, Diverges
<1>4. \A j \in 1 .. Len(s) : j # k => (Diverges(t[j]) <=> Diverges(s[j]))
  BY <1>1
<1>5. /\ spec <=> \E j \in 1 .. Len(s) : Diverges(s[j])
      /\ \A i, j \in 1 .. Len(s) : Diverges(s[i]) /\ Diverges(s[j]) => i = j
  BY DEF Path, OneDiverges
<1>6. spec <=> \E j \in 1 .. k - 1 : Diverges(s[j])
  <2>1. \A j \in 1 .. Len(s) : j < k <=> j \in 1 .. k - 1
    BY <1>1
  <2>2. \A j \in 1 .. k - 1 : j \in 1 .. Len(s)
    BY <1>1
  <2> QED
    BY <1>2, <1>5, <2>1, <2>2
<1>7. new <=> spec \/ Diverges(t[k])
  BY <1>3 DEF Resolved
<1>8. new \in BOOLEAN
  BY DEF Resolved
<1>9. new <=> \E j \in 1 .. Len(t) : Diverges(t[j])
  <2>1. ~Diverges(s[k])
    BY <1>1 DEF Diverges
  <2>2. (\E j \in 1 .. Len(t) : Diverges(t[j])) <=> (spec \/ Diverges(t[k]))
    BY <1>1, <1>4, <1>5, <2>1
  <2> QED
    BY <1>7, <2>2
<1>10. \A i, j \in 1 .. Len(t) : Diverges(t[i]) /\ Diverges(t[j]) => i = j
  <2>1. Diverges(t[k]) => \A j \in 1 .. Len(s) : ~Diverges(s[j])
    BY <1>3, <1>5
  <2> QED
    BY <1>1, <1>4, <1>5, <2>1
<1> QED
  BY <1>3, <1>4, <1>6, <1>9, <1>10 DEF OneDiverges, DivergesHere

LEMMA PathResolved ==
    ASSUME NEW s \in Seq(Good), NEW k \in 1 .. Len(s), NEW t, NEW npc \in PCs,
           NEW f \in PCs, NEW g, NEW spec \in BOOLEAN, NEW new,
           Resolved(s, t, k, npc, f, g, spec, new), Path(s, f, spec)
    PROVE  Path(t, g, new)
<1> DEFINE n == Len(s)
<1>1. /\ n \in Nat /\ k \in Nat /\ Len(t) = n /\ s[k] \in Good
      /\ \A j \in 1 .. n : j # k => t[j] = s[j]
      /\ s[k].stage = "fetched" /\ \A j \in 1 .. k - 1 : s[j].stage # "fetched"
      /\ t[k].stage = "issued" /\ t[k].PC = s[k].PC /\ t[k].next_PC = npc
      /\ Changed(t, s, k, n) /\ DispatchedFirst(s)
      /\ MisFetched(s[k]) => k = n /\ g = npc
      /\ ~MisFetched(s[k]) => g = f
  BY DEF Resolved, Changed, Path
<1>2. DispatchedFirst(t)
  BY <1>1, FirstIssued
<1>3. /\ OneDiverges(t, new)
      /\ Diverges(t[k]) <=> ~spec /\ ~MisFetched(s[k]) /\ s[k].pred_PC # npc
      /\ \A j \in 1 .. n : j # k => (Diverges(t[j]) <=> Diverges(s[j]))
      /\ spec <=> \E j \in 1 .. k - 1 : Diverges(s[j])
  <2>1. OneDiverges(t, new) /\ DivergesHere(s, t, k, npc, spec)
    BY OneDivergesResolved
  <2> QED
    BY <2>1 DEF DivergesHere
<1>4. SameBranches(t, s, n)
  BY <1>1, ChangedBranches
<1>5. PathLinked(t, g)
  <2> SUFFICES ASSUME NEW i \in 1 .. Len(t), \A j \in 1 .. i : ~Diverges(t[j])
               PROVE  FollowedBy(After(t[i]), t, i, g)
    BY DEF PathLinked
  <2>1. /\ i \in 1 .. n /\ i \in 0 .. n
        /\ \A j \in 1 .. i : ~Diverges(s[j])
    <3>1. ~Diverges(s[k])
      BY <1>1 DEF Diverges
    <3>2. i \in 1 .. n /\ i \in 0 .. n /\ \A j \in 1 .. i : j \in 1 .. n
      BY <1>1
    <3> QED
      BY <1>3, <3>1, <3>2
  <2>2. FollowedBy(After(s[i]), s, i, f)
    BY <2>1 DEF Path, PathLinked
  <2>3. CASE MisFetched(s[k]) /\ i = k
    <3>1. After(t[i]) = npc /\ g = npc /\ i = n
      BY <1>1, <2>3 DEF After
    <3>2. Came(npc, npc)
      BY CameFrom
    <3> QED
      BY <1>1, <3>1, <3>2 DEF FollowedBy
  <2>4. CASE MisFetched(s[k]) /\ i # k
    <3>1. i < n /\ After(t[i]) = After(s[i])
      BY <1>1, <2>1, <2>4
    <3>2. FollowedBy(After(s[i]), t, i, g)
      BY <1>1, <1>4, <2>1, <2>2, <3>1, FollowedBySame
    <3> QED
      BY <3>1, <3>2
  <2>5. CASE ~MisFetched(s[k])
    <3>1. After(t[i]) = After(s[i])
      <4>1. CASE i # k
        BY <1>1, <2>1, <4>1
      <4>2. CASE i = k
        <5>1. ~spec
          <6>1. \A j \in 1 .. k - 1 : j \in 1 .. i
            BY <1>1, <4>2
          <6> QED
            BY <1>3, <2>1, <6>1
        <5>2. ~Diverges(t[k])
          BY <2>1, <4>2
        <5>3. s[k].pred_PC = npc
          BY <1>3, <2>5, <5>1, <5>2
        <5>4. npc # TAKEN
          BY TextType DEF PCs, BogusPC, TAKEN
        <5> QED
          BY <1>1, <4>2, <5>3, <5>4 DEF After, FetchAddress
      <4> QED
        BY <4>1, <4>2
    <3>2. g = f /\ n \in 0 .. n
      BY <1>1, <2>5
    <3>3. i < n \/ (n = Len(s) /\ g = f)
      BY <3>2
    <3>4. FollowedBy(After(s[i]), t, i, g)
      BY <1>1, <1>4, <2>1, <2>2, <3>2, <3>3, FollowedBySame
    <3> QED
      BY <3>1, <3>4
  <2> QED
    BY <2>3, <2>4, <2>5
<1> QED
  BY <1>2, <1>3, <1>5 DEF Path

LEMMA AnchoredResolved ==
    ASSUME NEW s \in Seq(Good), NEW k \in 1 .. Len(s), NEW t, NEW npc \in PCs,
           NEW f \in PCs, NEW g, NEW spec \in BOOLEAN, NEW new,
           Resolved(s, t, k, npc, f, g, spec, new), Path(s, f, spec),
           NEW next, NEW upd, Anchored(s, f, spec, next, upd),
           NEW then, then = IF upd = "ID" /\ ~spec THEN npc ELSE next
    PROVE  Anchored(t, g, new, then, upd)
<1> DEFINE n == Len(s)
<1>1. /\ n \in Nat /\ k \in Nat /\ Len(t) = n
      /\ \A j \in 1 .. n : j # k => t[j] = s[j]
      /\ s[k].stage = "fetched" /\ \A j \in 1 .. k - 1 : s[j].stage # "fetched"
      /\ t[k].stage = "issued" /\ t[k].PC = s[k].PC /\ t[k].next_PC = npc
      /\ Changed(t, s, k, n) /\ DispatchedFirst(s)
  BY DEF Resolved, Changed, Path
<1>2. /\ OneDiverges(t, new)
      /\ Diverges(t[k]) <=> ~spec /\ ~MisFetched(s[k]) /\ s[k].pred_PC # npc
      /\ \A j \in 1 .. n : j # k => (Diverges(t[j]) <=> Diverges(s[j]))
      /\ spec <=> \E j \in 1 .. k - 1 : Diverges(s[j])
  <2>1. OneDiverges(t, new) /\ DivergesHere(s, t, k, npc, spec)
    BY OneDivergesResolved
  <2> QED
    BY <2>1 DEF DivergesHere
<1>3. SameBranches(t, s, n)
  BY <1>1, ChangedBranches
<1>4. ASSUME upd = "CT" PROVE AnchoredCommit(t, g, then)
  <2>1. FollowedBy(next, s, 0, f) /\ then = next
    BY <1>4 DEF Anchored, AnchoredCommit
  <2>2. 0 \in 0 .. n /\ n \in 0 .. n /\ 0 < n
    BY <1>1
  <2>3. FollowedBy(next, t, 0, g)
    BY <1>1, <1>3, <2>1, <2>2, FollowedBySame
  <2> QED
    BY <2>1, <2>3 DEF AnchoredCommit
<1>5. ASSUME upd = "ID" PROVE AnchoredDispatch(t, g, new, then)
  <2>1. AnchoredDispatch(s, f, spec, next)
    BY <1>5 DEF Anchored
  <2>2. ASSUME NEW j \in 1 .. Len(t), Diverges(t[j]) PROVE then = t[j].next_PC
    <3>1. CASE j = k
      BY <1>1, <1>2, <1>5, <2>2, <3>1
    <3>2. CASE j # k
      <4>1. j \in 1 .. n /\ Diverges(s[j]) /\ t[j] = s[j]
        BY <1>1, <1>2, <2>2, <3>2
      <4>2. next = s[j].next_PC
        BY <2>1, <4>1 DEF AnchoredDispatch
      <4>3. spec
        BY <4>1 DEF Path, OneDiverges
      <4> QED
        BY <1>5, <4>1, <4>2, <4>3
    <3> QED
      BY <3>1, <3>2
  <2>3. ASSUME ~new, NEW d \in 0 .. Len(t), LastDispatched(t, d)
        PROVE  FollowedBy(then, t, d, g)
    <3>1. d = k
      BY <1>1, <2>3, FirstIssued
    <3>2. ~spec /\ then = npc /\ ~Diverges(t[k])
      <4>1. ~spec
        BY <2>3 DEF Resolved
      <4>2. \A j \in 1 .. Len(t) : ~Diverges(t[j])
        BY <1>2, <2>3 DEF OneDiverges
      <4> QED
        BY <1>1, <1>5, <4>1, <4>2
    <3>3. Path(t, g, new)
      BY PathResolved
    <3>4. \A j \in 1 .. k : ~Diverges(t[j])
      <4>1. \A j \in 1 .. k : j \in 1 .. Len(t)
        BY <1>1
      <4> QED
        BY <1>2, <2>3, <4>1 DEF OneDiverges
    <3>5. k \in 1 .. Len(t) /\ After(t[k]) = npc
      BY <1>1 DEF After
    <3>6. FollowedBy(npc, t, k, g)
      BY <3>3, <3>4, <3>5 DEF Path, PathLinked
    <3> QED
      BY <3>1, <3>2, <3>6
  <2> QED
    BY <2>2, <2>3 DEF AnchoredDispatch
<1> QED
  BY <1>4, <1>5 DEF Anchored

\* The branch that trains at dispatch is the next one of the path.
LEMMA DispatchedIsNext ==
    ASSUME NEW s, Len(s) \in Nat, NEW k \in 1 .. Len(s), DispatchedFirst(s),
           s[k].stage = "fetched", \A j \in 1 .. k - 1 : s[j].stage # "fetched",
           NEW f, NEW next, AnchoredDispatch(s, f, FALSE, next)
    PROVE  s[k].PC = NextBranch(next)
<1>1. LastDispatched(s, k - 1) /\ k - 1 \in 0 .. Len(s) /\ k - 1 < Len(s) /\ (k - 1) + 1 = k
  BY FirstFetched
<1>2. FollowedBy(next, s, k - 1, f)
  BY <1>1 DEF AnchoredDispatch
<1> QED
  BY <1>1, <1>2 DEF FollowedBy

-----------------------------------------------------------------------------
(* Write-back and commit *)

\* The k-th branch is written back; if it diverged, it ends what is in flight
\* and the path goes on from it.
WrittenBack(s, t, k, f, g, spec, new) ==
    /\ s[k].stage = "issued" /\ t[k].stage = "completed"
    /\ t[k].PC = s[k].PC /\ t[k].next_PC = s[k].next_PC
    /\ Changed(t, s, k, IF s[k].recover_inst THEN k ELSE Len(s))
    /\ IF s[k].recover_inst THEN g = s[k].next_PC /\ new = FALSE ELSE g = f /\ new = spec

LEMMA PathWrittenBack ==
    ASSUME NEW s \in Seq(Good), NEW k \in 1 .. Len(s), NEW t,
           NEW f, NEW g, NEW spec \in BOOLEAN, NEW new,
           WrittenBack(s, t, k, f, g, spec, new), Path(s, f, spec)
    PROVE  Path(t, g, new)
<1> DEFINE n == Len(s)
           m == IF s[k].recover_inst THEN k ELSE n
<1>1. /\ n \in Nat /\ k \in Nat /\ m \in 0 .. n /\ k <= m /\ Len(t) = m /\ s[k] \in Good
      /\ \A j \in 1 .. m : j \in 1 .. n /\ (j # k => t[j] = s[j])
      /\ s[k].stage = "issued" /\ t[k].stage = "completed" /\ ~Diverges(t[k])
      /\ t[k].PC = s[k].PC /\ t[k].next_PC = s[k].next_PC
  BY DEF WrittenBack, Changed, Diverges
<1>2. SameBranches(t, s, m) /\ \A j \in 1 .. m : After(t[j]) = After(s[j])
  BY <1>1 DEF SameBranches, After
<1>3. /\ DispatchedFirst(s)
      /\ spec <=> \E j \in 1 .. n : Diverges(s[j])
      /\ \A i, j \in 1 .. n : Diverges(s[i]) /\ Diverges(s[j]) => i = j
  BY DEF Path, OneDiverges
<1>4. DispatchedFirst(t)
  BY <1>1, <1>3 DEF DispatchedFirst
<1>5. CASE s[k].recover_inst
  <2>1. Diverges(s[k]) /\ g = s[k].next_PC /\ new = FALSE /\ m = k /\ g \in PCs
    BY <1>1, <1>5 DEF WrittenBack, Diverges, Good, InFlight
  <2>2. \A j \in 1 .. n : j # k => ~Diverges(s[j])
    BY <1>3, <2>1
  <2>3. \A j \in 1 .. Len(t) : ~Diverges(t[j])
    BY <1>1, <2>2
  <2>4. OneDiverges(t, new)
    BY <2>1, <2>3 DEF OneDiverges
  <2>5. ASSUME NEW i \in 1 .. Len(t) PROVE FollowedBy(After(t[i]), t, i, g)
    <3>1. CASE i = k
      <4>1. After(t[i]) = g /\ Came(g, g)
        BY <1>1, <2>1, <3>1, CameFrom DEF After
      <4> QED
        BY <1>1, <2>1, <3>1, <4>1 DEF FollowedBy
    <3>2. CASE i # k
      <4>1. i < m /\ i \in 0 .. m /\ i \in 1 .. n /\ \A j \in 1 .. i : j \in 1 .. n /\ j # k
        BY <1>1, <2>1, <2>5, <3>2
      <4>2. FollowedBy(After(s[i]), s, i, f)
        BY <2>2, <4>1 DEF Path, PathLinked
      <4>3. FollowedBy(After(s[i]), t, i, g)
        BY <1>1, <1>2, <4>1, <4>2, FollowedBySame
      <4> QED
        BY <1>1, <1>2, <2>5, <4>3
    <3> QED
      BY <3>1, <3>2
  <2> QED
    BY <1>4, <2>4, <2>5 DEF Path, PathLinked
<1>6. CASE ~s[k].recover_inst
  <2>1. ~Diverges(s[k]) /\ g = f /\ new = spec /\ m = n
    BY <1>6 DEF WrittenBack, Diverges
  <2>2. \A j \in 1 .. n : Diverges(t[j]) <=> Diverges(s[j])
    BY <1>1, <2>1
  <2>3. OneDiverges(t, new)
    BY <1>1, <1>3, <2>1, <2>2 DEF OneDiverges
  <2>4. ASSUME NEW i \in 1 .. Len(t), \A j \in 1 .. i : ~Diverges(t[j])
        PROVE  FollowedBy(After(t[i]), t, i, g)
    <3>1. i \in 1 .. n /\ i \in 0 .. m /\ \A j \in 1 .. i : ~Diverges(s[j])
      BY <1>1, <2>1, <2>2, <2>4
    <3>2. FollowedBy(After(s[i]), s, i, f)
      BY <3>1 DEF Path, PathLinked
    <3>3. i < m \/ (m = Len(s) /\ g = f)
      BY <2>1
    <3>4. FollowedBy(After(s[i]), t, i, g)
      BY <1>1, <1>2, <3>1, <3>2, <3>3, FollowedBySame
    <3> QED
      BY <1>2, <1>1, <2>4, <3>4
  <2> QED
    BY <1>4, <2>3, <2>4 DEF Path, PathLinked
<1> QED
  BY <1>5, <1>6

LEMMA AnchoredWrittenBack ==
    ASSUME NEW s \in Seq(Good), NEW k \in 1 .. Len(s), NEW t,
           NEW f, NEW g, NEW spec \in BOOLEAN, NEW new,
           WrittenBack(s, t, k, f, g, spec, new), Path(s, f, spec),
           NEW next, NEW upd, Anchored(s, f, spec, next, upd)
    PROVE  Anchored(t, g, new, next, upd)
<1> DEFINE n == Len(s)
           m == IF s[k].recover_inst THEN k ELSE n
<1>1. /\ n \in Nat /\ k \in Nat /\ m \in 0 .. n /\ k <= m /\ Len(t) = m /\ s[k] \in Good
      /\ \A j \in 1 .. m : j \in 1 .. n /\ (j # k => t[j] = s[j])
      /\ s[k].stage = "issued" /\ t[k].stage = "completed" /\ ~Diverges(t[k])
      /\ t[k].PC = s[k].PC /\ t[k].next_PC = s[k].next_PC
      /\ Changed(t, s, k, m)
  BY DEF WrittenBack, Changed, Diverges
<1>2. SameBranches(t, s, m)
  BY <1>1, ChangedBranches
<1>3. k < m => g = f
  BY <1>1 DEF WrittenBack
<1>4. ASSUME upd = "CT" PROVE AnchoredCommit(t, g, next)
  <2>1. FollowedBy(next, s, 0, f)
    BY <1>4 DEF Anchored, AnchoredCommit
  <2>2. 0 \in 0 .. m /\ 0 < m
    BY <1>1
  <2>3. FollowedBy(next, t, 0, g)
    BY <1>1, <1>2, <2>1, <2>2, FollowedBySame
  <2> QED
    BY <2>3 DEF AnchoredCommit
<1>5. ASSUME upd = "ID" PROVE AnchoredDispatch(t, g, new, next)
  <2>1. AnchoredDispatch(s, f, spec, next)
    BY <1>5 DEF Anchored
  <2>2. \A j \in 1 .. Len(t) : Diverges(t[j]) => next = t[j].next_PC
    BY <1>1, <2>1 DEF AnchoredDispatch
  <2>3. ASSUME ~new, NEW d \in 0 .. Len(t), LastDispatched(t, d)
        PROVE  FollowedBy(next, t, d, g)
    <3>1. CASE s[k].recover_inst
      <4>1. Diverges(s[k]) /\ g = s[k].next_PC /\ m = k
        BY <1>1, <3>1 DEF WrittenBack, Diverges
      <4>2. next = g /\ g \in PCs
        BY <1>1, <2>1, <4>1 DEF AnchoredDispatch, Good, InFlight
      <4>3. \A j \in 1 .. k : t[j].stage # "fetched"
        <5>1. \A j \in 1 .. k : j < k => s[j].stage # "fetched"
          BY <1>1 DEF Path, DispatchedFirst
        <5> QED
          BY <1>1, <4>1, <5>1
      <4>4. d = k
        <5>1. d < k => d + 1 \in 1 .. k
          BY <1>1, <2>3, <4>1
        <5> QED
          BY <1>1, <2>3, <4>1, <4>3, <5>1 DEF LastDispatched
      <4> QED
        BY <1>1, <4>1, <4>2, <4>4, CameFrom DEF FollowedBy
    <3>2. CASE ~s[k].recover_inst
      <4>1. g = f /\ new = spec /\ m = n
        BY <3>2 DEF WrittenBack
      <4>2. \A j \in 1 .. n : t[j].stage = "fetched" <=> s[j].stage = "fetched"
        BY <1>1, <4>1
      <4>3. LastDispatched(s, d) /\ d \in 0 .. n
        <5>1. d \in 0 .. n /\ (d > 0 => d \in 1 .. n) /\ (d < n => d + 1 \in 1 .. n)
          BY <1>1, <2>3, <4>1
        <5> QED
          BY <1>1, <2>3, <4>1, <4>2, <5>1 DEF LastDispatched
      <4>4. FollowedBy(next, s, d, f)
        BY <2>1, <2>3, <4>1, <4>3 DEF AnchoredDispatch
      <4>5. d < m \/ (m = Len(s) /\ g = f)
        BY <4>1
      <4> QED
        BY <1>1, <1>2, <2>3, <4>4, <4>5, FollowedBySame
    <3> QED
      BY <3>1, <3>2
  <2> QED
    BY <2>2, <2>3 DEF AnchoredDispatch
<1> QED
  BY <1>4, <1>5 DEF Anchored

\* t is s without its first branch.
Committed(s, t) ==
    /\ Len(s) > 0 /\ Len(t) = Len(s) - 1
    /\ \A j \in 1 .. Len(t) : t[j] = s[j + 1]

LEMMA FollowedByCommitted ==
    ASSUME NEW s, NEW t, Len(s) \in Nat, Committed(s, t),
           NEW f, NEW a, NEW k \in 0 .. Len(t), FollowedBy(a, s, k + 1, f)
    PROVE  FollowedBy(a, t, k, f)
<1>1. Len(t) \in Nat /\ Len(s) = Len(t) + 1 /\ (k < Len(t) <=> k + 1 < Len(s))
  BY DEF Committed
<1>2. k < Len(t) => k + 1 \in 1 .. Len(t)
  BY <1>1
<1> QED
  BY <1>1, <1>2 DEF FollowedBy, Committed

LEMMA PathCommitted ==
    ASSUME NEW s \in Seq(Good), NEW t, Committed(s, t), s[1].stage = "completed",
           NEW f, NEW spec \in BOOLEAN, Path(s, f, spec)
    PROVE  Path(t, f, spec)
<1> DEFINE n == Len(t)
<1>1. /\ n \in Nat /\ Len(s) = n + 1 /\ ~Diverges(s[1])
      /\ \A j \in 1 .. n : t[j] = s[j + 1] /\ j + 1 \in 1 .. Len(s)
      /\ \A j \in 1 .. Len(s) : j # 1 => j - 1 \in 1 .. n /\ (j - 1) + 1 = j
  BY DEF Committed, Diverges
<1>2. DispatchedFirst(t)
  BY <1>1 DEF Path, DispatchedFirst
<1>3. /\ spec <=> \E j \in 1 .. Len(s) : Diverges(s[j])
      /\ \A i, j \in 1 .. Len(s) : Diverges(s[i]) /\ Diverges(s[j]) => i = j
  BY DEF Path, OneDiverges
<1>4. (\E j \in 1 .. Len(s) : Diverges(s[j])) <=> \E j \in 1 .. n : Diverges(t[j])
  <2>1. ASSUME NEW j \in 1 .. Len(s), Diverges(s[j]) PROVE \E i \in 1 .. n : Diverges(t[i])
    <3>1. j - 1 \in 1 .. n /\ t[j - 1] = s[j]
      BY <1>1, <2>1
    <3> QED
      BY <2>1, <3>1
  <2>2. ASSUME NEW i \in 1 .. n, Diverges(t[i]) PROVE \E j \in 1 .. Len(s) : Diverges(s[j])
    BY <1>1, <2>2
  <2> QED
    BY <2>1, <2>2
<1>5. \A i, j \in 1 .. n : Diverges(t[i]) /\ Diverges(t[j]) => i = j
  <2> SUFFICES ASSUME NEW i \in 1 .. n, NEW j \in 1 .. n, Diverges(t[i]), Diverges(t[j])
               PROVE  i = j
    OBVIOUS
  <2>1. i + 1 = j + 1
    BY <1>1, <1>3
  <2> QED
    BY <2>1
<1>6. OneDiverges(t, spec)
  BY <1>3, <1>4, <1>5 DEF OneDiverges
<1>7. PathLinked(t, f)
  <2> SUFFICES ASSUME NEW k \in 1 .. n, \A j \in 1 .. k : ~Diverges(t[j])
               PROVE  FollowedBy(After(t[k]), t, k, f)
    BY DEF PathLinked
  <2>1. \A j \in 1 .. k + 1 : ~Diverges(s[j])
    <3>1. \A j \in 1 .. k + 1 : j # 1 => j - 1 \in 1 .. k /\ j \in 1 .. Len(s)
      BY <1>1
    <3>2. \A j \in 1 .. k : j \in 1 .. n
      BY <1>1
    <3>3. \A j \in 1 .. k + 1 : j # 1 => s[j] = t[j - 1]
      BY <1>1, <3>1, <3>2
    <3> QED
      BY <1>1, <3>1, <3>3
  <2>2. FollowedBy(After(s[k + 1]), s, k + 1, f)
    BY <1>1, <2>1 DEF Path, PathLinked
  <2>3. k \in 0 .. n
    BY <1>1
  <2>4. FollowedBy(After(s[k + 1]), t, k, f)
    BY <1>1, <2>2, <2>3, FollowedByCommitted
  <2> QED
    BY <1>1, <2>4
<1> QED
  BY <1>2, <1>6, <1>7 DEF Path

LEMMA AnchoredCommitted ==
    ASSUME NEW s \in Seq(Good), NEW t, Committed(s, t), s[1].stage = "completed",
           NEW f, NEW spec \in BOOLEAN, Path(s, f, spec),
           NEW next, NEW upd, Anchored(s, f, spec, next, upd),
           NEW then, then = IF upd = "CT" THEN s[1].next_PC ELSE next
    PROVE  Anchored(t, f, spec, then, upd)
<1> DEFINE n == Len(t)
<1>1. /\ n \in Nat /\ Len(s) = n + 1 /\ ~Diverges(s[1]) /\ 1 \in 1 .. Len(s)
      /\ \A j \in 1 .. n : t[j] = s[j + 1] /\ j + 1 \in 1 .. Len(s)
  BY DEF Committed, Diverges
<1>2. ASSUME upd = "CT" PROVE AnchoredCommit(t, f, then)
  <2>1. \A j \in 1 .. 1 : j = 1
    OBVIOUS
  <2>2. FollowedBy(After(s[1]), s, 1, f)
    BY <1>1, <2>1 DEF Path, PathLinked
  <2>3. After(s[1]) = then
    BY <1>2 DEF After
  <2>4. FollowedBy(then, s, 0 + 1, f) /\ 0 \in 0 .. n
    BY <1>1, <2>2, <2>3
  <2>5. FollowedBy(then, t, 0, f)
    BY <1>1, <2>4, FollowedByCommitted
  <2> QED
    BY <2>5 DEF AnchoredCommit
<1>3. ASSUME upd = "ID" PROVE AnchoredDispatch(t, f, spec, then)
  <2>1. AnchoredDispatch(s, f, spec, next) /\ then = next
    BY <1>3 DEF Anchored
  <2>2. \A j \in 1 .. n : Diverges(t[j]) => then = t[j].next_PC
    BY <1>1, <2>1 DEF AnchoredDispatch
  <2>3. ASSUME ~spec, NEW d \in 0 .. n, LastDispatched(t, d)
        PROVE  FollowedBy(then, t, d, f)
    <3>1. LastDispatched(s, d + 1)
      <4>1. s[d + 1].stage # "fetched"
        <5>1. CASE d = 0
          BY <5>1
        <5>2. CASE d # 0
          <6>1. d \in 1 .. n /\ d > 0
            BY <1>1, <5>2
          <6> QED
            BY <1>1, <2>3, <6>1 DEF LastDispatched
        <5> QED
          BY <5>1, <5>2
      <4>2. ASSUME d + 1 < Len(s) PROVE s[(d + 1) + 1].stage = "fetched"
        <5>1. d < n /\ d + 1 \in 1 .. n
          BY <1>1, <4>2
        <5> QED
          BY <1>1, <2>3, <5>1 DEF LastDispatched
      <4> QED
        BY <4>1, <4>2 DEF LastDispatched
    <3>2. d + 1 \in 0 .. Len(s)
      BY <1>1
    <3>3. FollowedBy(then, s, d + 1, f)
      BY <2>1, <2>3, <3>1, <3>2 DEF AnchoredDispatch
    <3> QED
      BY <1>1, <3>3, FollowedByCommitted
  <2> QED
    BY <2>2, <2>3 DEF AnchoredDispatch
<1> QED
  BY <1>2, <1>3 DEF Anchored

-----------------------------------------------------------------------------
(* The invariant of the path *)

LEMMA PathInit == Init => PathInv
<1> SUFFICES ASSUME Init PROVE PathInv
  OBVIOUS
<1>1. /\ inflight = <<>> /\ fetch_pred_PC = Entry /\ spec_mode = FALSE
      /\ trained.next_PC = Entry /\ Len(inflight) = 0
  BY DEF Init
<1>2. Came(Entry, Entry)
  BY CameFrom, IsaAssumption DEF IsaAssumption, PCs
<1>3. Path(inflight, fetch_pred_PC, spec_mode)
  BY <1>1 DEF Path, DispatchedFirst, OneDiverges, PathLinked
<1>4. \A d \in 0 .. Len(inflight) : FollowedBy(trained.next_PC, inflight, d, fetch_pred_PC)
  BY <1>1, <1>2 DEF FollowedBy
<1> QED
  BY <1>1, <1>3, <1>4 DEF PathInv, Anchored, AnchoredCommit, AnchoredDispatch

\* What the fetch, the dispatch, the write-back and the commit of a branch do to
\* the path, and what trains the predictor.
LEMMA FetchBranchPath == PipeInv /\ PathInv /\ FetchBranch => PathInv' /\ trained' = trained
<1> SUFFICES ASSUME PipeInv, PathInv, FetchBranch PROVE PathInv' /\ trained' = trained
  OBVIOUS
<1>1. PICK s, f, next, upd, spec :
        s = inflight /\ f = fetch_pred_PC /\ next = trained.next_PC
        /\ upd = bpred_spec_update /\ spec = spec_mode
  OBVIOUS
<1>2. PICK e : e = Fetched(fetch_pred_PC)
  OBVIOUS
<1>3. /\ Ctrl(Inst(f).op) /\ inflight' = Append(s, e) /\ fetch_pred_PC' = FetchAddress(e.pred_PC)
      /\ bpred_spec_update' = upd /\ spec_mode' = spec /\ trained' = trained
  BY <1>1, <1>2 DEF FetchBranch
<1>4. PredOK(pred) /\ s \in Seq(Good) /\ spec \in BOOLEAN /\ next \in PCs
  BY <1>1 DEF PipeInv
<1>5. e \in Good /\ e.stage = "fetched" /\ e.PC = f
  <2>1. e \in Good /\ e.stage = "fetched"
    BY <1>1, <1>2, <1>3, <1>4, FetchedGood
  <2> QED
    BY <1>1, <1>2, <2>1 DEF Fetched
<1>6. f \in Text /\ Ctrl(Code[f].op)
  BY <1>3, IsaAssumption DEF IsaAssumption, Ctrl, Is, Inst, NOPInst, MD_OP_FLAGS
<1>7. PICK t : t = inflight'
  OBVIOUS
<1>8. Extended(t, s, e)
  BY <1>3, <1>4, <1>5, <1>7, AppendProperties DEF Extended
<1>9. Path(s, f, spec) /\ Anchored(s, f, spec, next, upd)
  BY <1>1 DEF PathInv
<1>10. PICK g : g = FetchAddress(e.pred_PC)
  OBVIOUS
<1>11. Path(t, g, spec)
  BY <1>4, <1>5, <1>6, <1>8, <1>9, <1>10, PathFetched
<1>12. Anchored(t, g, spec, next, upd)
  BY <1>4, <1>5, <1>6, <1>8, <1>9, AnchoredFetched
<1> QED
  BY <1>1, <1>3, <1>7, <1>10, <1>11, <1>12 DEF PathInv

LEMMA FetchOtherPath == PipeInv /\ PathInv /\ FetchOther => PathInv' /\ trained' = trained
<1> SUFFICES ASSUME PipeInv, PathInv, FetchOther PROVE PathInv' /\ trained' = trained
  OBVIOUS
<1>1. /\ ~Ctrl(Inst(fetch_pred_PC).op) /\ fetch_pred_PC # BogusPC
      /\ fetch_pred_PC' = SeqPC(fetch_pred_PC) /\ inflight' = inflight
      /\ bpred_spec_update' = bpred_spec_update /\ spec_mode' = spec_mode /\ trained' = trained
  BY DEF FetchOther
<1>2. inflight \in Seq(Good) /\ fetch_pred_PC \in PCs /\ trained.next_PC \in PCs
  BY DEF PipeInv
<1> QED
  BY <1>1, <1>2, PathPassed DEF PathInv

LEMMA DispatchPath ==
    PipeInv /\ PathInv /\ Dispatch =>
        PathInv' /\ (trained' # trained => trained'.PC = NextBranch(trained.next_PC))
<1> SUFFICES ASSUME PipeInv, PathInv, Dispatch
             PROVE  PathInv' /\ (trained' # trained => trained'.PC = NextBranch(trained.next_PC))
  OBVIOUS
<1>1. PICK k \in DOMAIN inflight :
        /\ inflight[k].stage = "fetched"
        /\ \A j \in 1 .. k - 1 : inflight[j].stage # "fetched"
        /\ \E npc \in Resolutions(inflight[k]) :
            LET redirect == MisFetched(inflight[k])
                wrong    == ~spec_mode /\ ~redirect /\ inflight[k].pred_PC # npc
                e        == [inflight[k] EXCEPT !.next_PC = npc, !.stage = "issued",
                                                !.recover_inst = wrong]
            IN  /\ inflight' = IF redirect THEN Append(SubSeq(inflight, 1, k - 1), e)
                               ELSE [inflight EXCEPT ![k] = e]
                /\ fetch_pred_PC' = IF redirect THEN npc ELSE fetch_pred_PC
                /\ spec_mode' = (spec_mode \/ wrong)
                /\ UpdateIf(DispatchUpdates, pred, e)
        /\ UNCHANGED bpred_spec_update
  BY DEF Dispatch
<1>2. PICK npc \in Resolutions(inflight[k]) :
            LET redirect == MisFetched(inflight[k])
                wrong    == ~spec_mode /\ ~redirect /\ inflight[k].pred_PC # npc
                e        == [inflight[k] EXCEPT !.next_PC = npc, !.stage = "issued",
                                                !.recover_inst = wrong]
            IN  /\ inflight' = IF redirect THEN Append(SubSeq(inflight, 1, k - 1), e)
                               ELSE [inflight EXCEPT ![k] = e]
                /\ fetch_pred_PC' = IF redirect THEN npc ELSE fetch_pred_PC
                /\ spec_mode' = (spec_mode \/ wrong)
                /\ UpdateIf(DispatchUpdates, pred, e)
  BY <1>1
<1>3. PICK s, f, next, upd, spec :
        s = inflight /\ f = fetch_pred_PC /\ next = trained.next_PC
        /\ upd = bpred_spec_update /\ spec = spec_mode
  OBVIOUS
<1> DEFINE redirect == MisFetched(s[k])
           wrong    == ~spec /\ ~redirect /\ s[k].pred_PC # npc
           e        == [s[k] EXCEPT !.next_PC = npc, !.stage = "issued",
                                    !.recover_inst = wrong]
<1>4. /\ inflight' = IF redirect THEN Append(SubSeq(s, 1, k - 1), e)
                     ELSE [s EXCEPT ![k] = e]
      /\ fetch_pred_PC' = IF redirect THEN npc ELSE f
      /\ spec_mode' = (spec \/ wrong)
      /\ trained' = IF upd = "ID" /\ ~spec THEN [PC |-> e.PC, next_PC |-> e.next_PC]
                    ELSE trained
      /\ bpred_spec_update' = upd
  BY <1>1, <1>2, <1>3 DEF UpdateIf, DispatchUpdates
<1>5. /\ s \in Seq(Good) /\ k \in 1 .. Len(s) /\ s[k] \in Good /\ s[k].stage = "fetched"
      /\ \A j \in 1 .. k - 1 : s[j].stage # "fetched"
      /\ Len(s) \in Nat /\ f \in PCs /\ spec \in BOOLEAN
  BY <1>1, <1>3 DEF PipeInv
<1>6. npc \in PCs /\ (Direct(s[k]) => npc \in NextPCs(s[k].PC))
  <2>1. s[k].PC \in Text
    BY <1>5 DEF Good, InFlight
  <2>2. NextPCs(s[k].PC) \subseteq PCs
    BY <2>1, TextType, IsaAssumption DEF IsaAssumption, NextPCs, Inst
  <2> QED
    BY <1>2, <1>3, <2>2 DEF Resolutions, Direct
<1>7. wrong \in BOOLEAN /\ redirect \in BOOLEAN
  BY DEF MisFetched
<1>8. redirect => k = Len(s)
  BY <1>3, <1>5, MisFetchedIsLast
<1> HIDE DEF wrong, redirect
<1>9. /\ e \in Good /\ e.stage = "issued" /\ e.PC = s[k].PC /\ e.next_PC = npc
      /\ e.recover_inst = wrong
  BY <1>5, <1>6, <1>7 DEF Good, InFlight, Direct, Op
<1> HIDE DEF e
<1>10. Changed(inflight', s, k, Len(s)) /\ inflight'[k] = e
  <2>1. CASE redirect
    <3>1. inflight' = Append(SubSeq(s, 1, k - 1), e) /\ Len(s) = k
      BY <1>4, <1>8, <2>1
    <3>2. \A t : t = Append(SubSeq(s, 1, k - 1), e)
                => t \in Seq(Good) /\ Changed(t, s, k, k) /\ t[k] = e
      BY <1>5, <1>9, CutAndAppended, Zenon
    <3> QED
      BY <3>1, <3>2, Zenon
  <2>2. CASE ~redirect
    <3>1. inflight' = [s EXCEPT ![k] = e]
      BY <1>4, <2>2
    <3>2. \A t : t = [s EXCEPT ![k] = e]
                => t \in Seq(Good) /\ Changed(t, s, k, Len(s)) /\ t[k] = e
      BY <1>5, <1>9, Replaced, Zenon
    <3> QED
      BY <3>1, <3>2, Zenon
  <2> QED
    BY <2>1, <2>2
<1>11. PICK t, g, new : t = inflight' /\ g = fetch_pred_PC' /\ new = spec_mode'
  OBVIOUS
<1>12. Resolved(s, t, k, npc, f, g, spec, new)
  BY <1>4, <1>5, <1>8, <1>9, <1>10, <1>11 DEF Resolved, wrong, redirect
<1>13. Path(s, f, spec) /\ Anchored(s, f, spec, next, upd)
  BY <1>3 DEF PathInv
<1>14. Path(t, g, new)
  BY <1>5, <1>6, <1>12, <1>13, PathResolved
<1>15. Anchored(t, g, new, IF upd = "ID" /\ ~spec THEN npc ELSE next, upd)
  BY <1>5, <1>6, <1>12, <1>13, AnchoredResolved
<1>16. trained'.next_PC = IF upd = "ID" /\ ~spec THEN npc ELSE next
  BY <1>3, <1>4, <1>9
<1>17. PathInv'
  BY <1>4, <1>11, <1>14, <1>15, <1>16 DEF PathInv
<1>18. ASSUME trained' # trained PROVE trained'.PC = NextBranch(trained.next_PC)
  <2>1. upd = "ID" /\ spec = FALSE /\ trained'.PC = s[k].PC
    BY <1>4, <1>5, <1>9, <1>18
  <2>2. AnchoredDispatch(s, f, FALSE, next) /\ DispatchedFirst(s)
    BY <1>13, <2>1 DEF Anchored, Path
  <2>3. s[k].PC = NextBranch(next)
    BY <1>5, <2>2, DispatchedIsNext
  <2> QED
    BY <1>3, <2>1, <2>3
<1> QED
  BY <1>17, <1>18

LEMMA WritebackPath ==
    PipeInv /\ PathInv /\ Writeback =>
        PathInv' /\ (bpred_spec_update # "WB" => trained' = trained)
<1> SUFFICES ASSUME PipeInv, PathInv, Writeback
             PROVE  PathInv' /\ (bpred_spec_update # "WB" => trained' = trained)
  OBVIOUS
<1>1. PICK k \in DOMAIN inflight :
        /\ inflight[k].stage = "issued"
        /\ inflight' = [Squashed(k) EXCEPT ![k].stage = "completed"]
        /\ IF inflight[k].recover_inst
           THEN fetch_pred_PC' = inflight[k].next_PC /\ spec_mode' = FALSE
           ELSE UNCHANGED <<fetch_pred_PC, spec_mode>>
        /\ UpdateIf(bpred_spec_update = "WB", Recovered(pred, inflight[k]), inflight[k])
        /\ UNCHANGED bpred_spec_update
  BY DEF Writeback
<1>2. PICK s, f, next, upd, spec :
        s = inflight /\ f = fetch_pred_PC /\ next = trained.next_PC
        /\ upd = bpred_spec_update /\ spec = spec_mode
  OBVIOUS
<1> DEFINE rec == s[k].recover_inst
           r   == IF rec THEN SubSeq(s, 1, k) ELSE s
           e   == [s[k] EXCEPT !.stage = "completed"]
           m   == IF rec THEN k ELSE Len(s)
<1>3. /\ s \in Seq(Good) /\ k \in 1 .. Len(s) /\ s[k] \in Good /\ s[k].stage = "issued"
      /\ Len(s) \in Nat /\ rec \in BOOLEAN /\ spec \in BOOLEAN
  BY <1>1, <1>2 DEF PipeInv, Good, InFlight
<1>4. r \in Seq(Good) /\ Len(r) = m /\ (\A i \in 1 .. m : r[i] = s[i]) /\ k \in 1 .. m
  <2>1. CASE rec
    <3>1. r = SubSeq(s, 1, k) /\ m = k /\ k \in 0 .. Len(s)
      BY <1>3, <2>1
    <3>2. SubSeq(s, 1, k) \in Seq(Good) /\ Len(SubSeq(s, 1, k)) = k
          /\ \A i \in 1 .. k : SubSeq(s, 1, k)[i] = s[i]
      BY <1>3, <3>1, Prefix
    <3> QED
      BY <1>3, <3>1, <3>2
  <2>2. CASE ~rec
    BY <1>3, <2>2
  <2> QED
    BY <2>1, <2>2
<1>5. r = Squashed(k)
  BY <1>2 DEF Squashed
<1> HIDE DEF r
<1>6. e \in Good /\ e.stage = "completed" /\ e.PC = s[k].PC /\ e.next_PC = s[k].next_PC
  BY <1>3 DEF Good, InFlight, Direct, Op
<1>7. inflight' = [r EXCEPT ![k] = e]
  BY <1>1, <1>4, <1>5
<1> HIDE DEF e
<1>8. PICK t, g, new : t = inflight' /\ g = fetch_pred_PC' /\ new = spec_mode'
  OBVIOUS
<1>9. Changed(t, s, k, m) /\ t[k] = e
  <2>1. k \in 1 .. Len(r)
    BY <1>4
  <2>2. t = [r EXCEPT ![k] = e]
    BY <1>7, <1>8
  <2>3. \A u : u = [r EXCEPT ![k] = e]
              => u \in Seq(Good) /\ Changed(u, r, k, Len(r)) /\ u[k] = e
    <3>1. r \in Seq(Good) /\ e \in Good
      BY <1>4, <1>6
    <3>2. \A i \in 1 .. Len(r), x \in Good : \A u :
              u = [r EXCEPT ![i] = x]
              => u \in Seq(Good) /\ Changed(u, r, i, Len(r)) /\ u[i] = x
      BY <3>1, Replaced, Zenon
    <3> QED
      BY <2>1, <3>1, <3>2, Zenon
  <2>4. Changed(t, r, k, Len(r)) /\ t[k] = e
    BY <2>2, <2>3, Zenon
  <2> QED
    BY <1>4, <2>4 DEF Changed
<1>10. WrittenBack(s, t, k, f, g, spec, new)
  BY <1>1, <1>2, <1>3, <1>6, <1>8, <1>9 DEF WrittenBack
<1>11. Path(s, f, spec) /\ Anchored(s, f, spec, next, upd)
  BY <1>2 DEF PathInv
<1>12. Path(t, g, new)
  BY <1>3, <1>10, <1>11, PathWrittenBack
<1>13. Anchored(t, g, new, next, upd)
  BY <1>3, <1>10, <1>11, AnchoredWrittenBack
<1>14. upd # "WB" => trained' = trained
  BY <1>1, <1>2 DEF UpdateIf
<1>15. upd = "WB" => \A a : Anchored(t, g, new, a, upd)
  BY DEF Anchored
<1>16. Anchored(t, g, new, trained'.next_PC, upd)
  BY <1>2, <1>13, <1>14, <1>15
<1> QED
  BY <1>1, <1>2, <1>8, <1>12, <1>14, <1>16 DEF PathInv

LEMMA CommitPath ==
    PipeInv /\ PathInv /\ Commit =>
        PathInv' /\ (trained' # trained => trained'.PC = NextBranch(trained.next_PC))
<1> SUFFICES ASSUME PipeInv, PathInv, Commit
             PROVE  PathInv' /\ (trained' # trained => trained'.PC = NextBranch(trained.next_PC))
  OBVIOUS
<1>1. PICK s, f, next, upd, spec :
        s = inflight /\ f = fetch_pred_PC /\ next = trained.next_PC
        /\ upd = bpred_spec_update /\ spec = spec_mode
  OBVIOUS
<1>2. /\ s # <<>> /\ s \in Seq(Good) /\ Len(s) \in Nat /\ Head(s).stage = "completed"
      /\ inflight' = Tail(s) /\ fetch_pred_PC' = f /\ spec_mode' = spec
      /\ bpred_spec_update' = upd /\ spec \in BOOLEAN
      /\ trained' = IF upd = "CT" THEN [PC |-> Head(s).PC, next_PC |-> Head(s).next_PC]
                    ELSE trained
  BY <1>1 DEF Commit, UpdateIf, PipeInv
<1>3. PICK t : t = inflight'
  OBVIOUS
<1>4. Committed(s, t) /\ Head(s) = s[1]
  BY <1>2, <1>3, HeadTailProperties DEF Committed
<1>5. Path(s, f, spec) /\ Anchored(s, f, spec, next, upd)
  BY <1>1 DEF PathInv
<1>6. Path(t, f, spec)
  BY <1>2, <1>4, <1>5, PathCommitted
<1>7. Anchored(t, f, spec, IF upd = "CT" THEN s[1].next_PC ELSE next, upd)
  BY <1>2, <1>4, <1>5, AnchoredCommitted
<1>8. trained'.next_PC = IF upd = "CT" THEN s[1].next_PC ELSE next
  BY <1>1, <1>2, <1>4
<1>9. ASSUME trained' # trained PROVE trained'.PC = NextBranch(trained.next_PC)
  <2>1. upd = "CT" /\ trained'.PC = s[1].PC
    BY <1>2, <1>4, <1>9
  <2>2. FollowedBy(next, s, 0, f)
    BY <1>5, <2>1 DEF Anchored, AnchoredCommit
  <2>3. s[1].PC = NextBranch(next)
    BY <1>2, <1>4, <2>2 DEF FollowedBy, Committed
  <2> QED
    BY <1>1, <2>1, <2>3
<1> QED
  BY <1>2, <1>3, <1>6, <1>7, <1>8, <1>9 DEF PathInv

LEMMA PathStep ==
    PipeInv /\ PathInv /\ [Next]_vars =>
        /\ PathInv'
        /\ [trained' # trained /\ bpred_spec_update # "WB" =>
                trained'.PC = NextBranch(trained.next_PC)]_vars
<1>1. UNCHANGED vars /\ PathInv => PathInv'
  BY DEF vars, PathInv
<1> QED
  BY <1>1, FetchBranchPath, FetchOtherPath, DispatchPath, WritebackPath, CommitPath DEF Next

-----------------------------------------------------------------------------
\* Whatever path the fetch follows and whenever updates come, the tables, the
\* stack and the branches in flight keep their types.
THEOREM PipeTypes == Spec => []PipeTypeOK
<1> QED
  BY PipeInitInv, PipeStepInv, PipeInvImplies, PTL DEF Spec

\* No assertion of bpred_update fails in the pipeline.
THEOREM PipeBtbStaysWellFormed == Spec => []PipeBtbWellFormed
<1> QED
  BY PipeInitInv, PipeStepInv, PipeInvImplies, PTL DEF Spec

\* A direct branch is predicted to go to its target, to the next instruction or
\* nowhere: a mis-fetch is a BTB miss.
THEOREM DirectBranchesPredicted == Spec => []DirectPredictions
<1> QED
  BY PipeInitInv, PipeStepInv, PipeInvImplies, PTL DEF Spec

\* After every recovery and every mis-fetch the top of the return address stack
\* is what the branches in flight have made of it.
THEOREM StackFollowsPath == Spec => []TosFollowsPath
<1> QED
  BY PipeInitInv, PipeStepInv, PipeInvImplies, PTL DEF Spec

\* Updated at dispatch or at commit, the predictor is trained by all the branches
\* of the program's path, in their order, and by no branch of a wrong path.
THEOREM OnlyPathTrains == Spec => TrainsOnPath
<1> QED
  BY PipeInitInv, PipeStepInv, PathInit, PathStep, PTL DEF Spec, TrainsOnPath
=============================================================================
