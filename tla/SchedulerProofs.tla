-------------------------- MODULE SchedulerProofs ---------------------------
(***************************************************************************)
(* Register dependences, wakeup and scheduling, for every program and      *)
(* machine.                                                                *)
(***************************************************************************)
EXTENDS OutOrderProofs

LEMMA NotRegs == NA \notin RegNames /\ DTMP \in RegNames /\ DTMP \notin Regs /\ DTMP # NA
  BY RuuAssumption DEF RegNames, NA, DTMP

\* What the stations hold of the instructions they were filled for.
InstOk ==
    /\ \A s \in Slots : st[s].onames[1] = st[s].onames[2] => st[s].onames[1] = NA
    /\ \A s \in Slots : st[s].ea_comp => st[s].onames = <<DTMP, NA>>
    /\ \A l \in LsqSlots : IsStore(st[l]) => st[l].onames = <<NA, NA>>
    /\ \A l \in LsqWindow : Is(st[l].op, "F_MEM")

LEMMA InitInstOk == Init => InstOk
<1> SUFFICES ASSUME Init PROVE InstOk
  OBVIOUS
<1>1. \A s \in Slots : st[s] = EmptyStation
  BY DEF Init
<1>2. LsqWindow = {}
  <2>1. \A i \in LIndices : ~InLsq(i)
    BY SizeType DEF Init, InLsq, LsqAge, LIndices
  <2> QED
    BY <2>1, LsqSlotOf, AgeOf DEF LsqWindow
<1>3. ~Is("NOP", "F_MEM")
  BY DEF Is, MD_OP_FLAGS
<1> QED
  BY <1>1, <1>2, <1>3, LsqSlotOf DEF InstOk, EmptyStation, IsStore

LEMMA InstOkKept ==
    ASSUME InstOk, \A s \in Slots : SameInst(st[s], st'[s]), LsqWindow' \subseteq LsqWindow
    PROVE  InstOk'
<1>1. PICK S, T, L : S = st /\ T = st' /\ L = LsqWindow'
  OBVIOUS
<1>2. \A s \in Slots : /\ T[s].onames = S[s].onames /\ T[s].ea_comp = S[s].ea_comp
                       /\ T[s].op = S[s].op
  BY <1>1 DEF SameInst
<1>3. /\ \A s \in Slots : T[s].onames[1] = T[s].onames[2] => T[s].onames[1] = NA
      /\ \A s \in Slots : T[s].ea_comp => T[s].onames = <<DTMP, NA>>
      /\ \A l \in LsqSlots : IsStore(T[l]) => T[l].onames = <<NA, NA>>
      /\ \A l \in L : Is(T[l].op, "F_MEM")
  BY <1>1, <1>2, LsqSlotOf, WindowIs DEF InstOk, IsStore
<1> QED
  BY <1>1, <1>3 DEF InstOk

\* The instruction that is dispatched, by the tables of the instruction set.
LEMMA DispInstIs ==
    ASSUME FetchInv, CanDispatch
    PROVE  /\ DispInst.outs \in [1 .. 2 -> Regs \cup {NA}]
           /\ DispInst.outs[1] = DispInst.outs[2] => DispInst.outs[1] = NA
           /\ Is(DispOp, "F_STORE") => DispInst.outs = <<NA, NA>>
<1>1. DispPC \in PCs /\ DispInst.outs \in [1 .. 2 -> Regs \cup {NA}]
  BY DispTyped
<1>2. CASE DispPC \in Text
  BY <1>1, <1>2, RuuAssumption DEF DispInst, DispOp, Inst
<1>3. CASE DispPC \notin Text
  BY <1>1, <1>3 DEF DispInst, DispOp, Inst, NOPInst, Is, MD_OP_FLAGS
<1> QED
  BY <1>1, <1>2, <1>3

\* The results of the new operations.
LEMMA InstallNames ==
    ASSUME TypeInv, NEW F, NEW L, NEW npc, NEW addr, Installed(F, L, npc, addr)
    PROVE  /\ st'[NewRuu].onames = RuuOuts /\ st'[NewRuu].op = RuuOp
           /\ st'[NewRuu].ea_comp = (Is(DispOp, "F_MEM") /\ ~in_LSQ(NewRuu))
           /\ st'[NewRuu].spec_mode = spec_mode /\ st'[NewRuu].seq = inst_seq + 1
           /\ Is(DispOp, "F_MEM") =>
                 /\ st'[NewLsq].onames = DispInst.outs /\ st'[NewLsq].op = DispOp
                 /\ st'[NewLsq].ea_comp = (Is(DispOp, "F_MEM") /\ ~in_LSQ(NewLsq))
                 /\ st'[NewLsq].spec_mode = spec_mode /\ st'[NewLsq].seq = inst_seq + 2
<1>1. PICK T, u, v : T = st' /\ u = NewRuu /\ v = NewLsq
  OBVIOUS
<1>2. /\ Filled(F[u], u, RuuOp, inst_seq + 1, npc, Mispredicted(npc), 0,
                RuuOuts, InstDeps)
      /\ SameInst(F[u], T[u])
      /\ Is(DispOp, "F_MEM") =>
                 /\ Filled(F[v], v, DispOp, inst_seq + 2, npc, FALSE,
                           addr, DispInst.outs, InstDeps)
                 /\ SameInst(F[v], T[v])
  BY <1>1, InstallInst
<1>3. /\ F[u].onames = RuuOuts /\ F[u].op = RuuOp
      /\ F[u].ea_comp = (Is(DispOp, "F_MEM") /\ ~in_LSQ(u))
      /\ F[u].spec_mode = spec_mode /\ F[u].seq = inst_seq + 1
  BY <1>2, Zenon DEF Filled
<1>4. Is(DispOp, "F_MEM") =>
                 /\ F[v].onames = DispInst.outs /\ F[v].op = DispOp
                 /\ F[v].ea_comp = (Is(DispOp, "F_MEM") /\ ~in_LSQ(v))
                 /\ F[v].spec_mode = spec_mode /\ F[v].seq = inst_seq + 2
  BY <1>2, Zenon DEF Filled
<1>5. /\ T[u].onames = F[u].onames /\ T[u].op = F[u].op
      /\ T[u].ea_comp = F[u].ea_comp
      /\ T[u].spec_mode = F[u].spec_mode /\ T[u].seq = F[u].seq
  BY <1>2 DEF SameInst
<1>6. Is(DispOp, "F_MEM") =>
      /\ T[v].onames = F[v].onames /\ T[v].op = F[v].op
      /\ T[v].ea_comp = F[v].ea_comp
      /\ T[v].spec_mode = F[v].spec_mode /\ T[v].seq = F[v].seq
  BY <1>2 DEF SameInst
<1> QED
  BY <1>1, <1>3, <1>4, <1>5, <1>6, Zenon

LEMMA DispatchInstOk ==
    ASSUME TypeInv, InstOk, CanDispatch, NEW F, NEW L, NEW npc, NEW addr,
           Installed(F, L, npc, addr), Install(npc, addr),
           RUU_head' = RUU_head, LSQ_head' = LSQ_head
    PROVE  InstOk'
<1> DEFINE mem == Is(DispOp, "F_MEM")
<1>1. PICK T, u, v, Q : T = st' /\ u = NewRuu /\ v = NewLsq /\ Q = LsqWindow'
  OBVIOUS
<1>2. /\ T[u].onames = RuuOuts /\ (T[u].ea_comp => mem)
      /\ mem => /\ T[v].onames = DispInst.outs /\ T[v].op = DispOp /\ ~T[v].ea_comp
  <2>1. ~in_LSQ(u) /\ in_LSQ(v)
    BY <1>1, NewSlots DEF TypeInv
  <2>2. /\ T[u].onames = RuuOuts /\ T[u].ea_comp = (mem /\ ~in_LSQ(u))
        /\ mem => /\ T[v].onames = DispInst.outs /\ T[v].op = DispOp
                  /\ T[v].ea_comp = (mem /\ ~in_LSQ(v))
    BY <1>1, InstallNames
  <2> QED
    BY <2>1, <2>2, Zenon
<1>3. \A s \in Slots : s # u /\ (s # v \/ ~mem) =>
         /\ T[s].onames = st[s].onames /\ T[s].ea_comp = st[s].ea_comp
         /\ T[s].op = st[s].op
  <2>1. \A s \in Slots : s # u /\ (s # v \/ ~mem) => s \in Slots \ NewOnes
    BY <1>1 DEF NewOnes
  <2>2. \A s \in Slots \ NewOnes : SameInst(st[s], T[s])
    BY <1>1, InstallInst
  <2> QED
    BY <2>1, <2>2 DEF SameInst
<1>4. u \in RuuSlots /\ v \in LsqSlots /\ u \in Slots /\ v \in Slots /\ u \notin LsqSlots
  BY <1>1, NewSlots, LsqSlotOf DEF TypeInv
<1>5. Q = LsqWindow \cup (IF mem THEN {v} ELSE {})
  <2>1. NewOnes \cap LsqSlots = IF mem THEN {v} ELSE {}
    BY <1>1, <1>4 DEF NewOnes
  <2> QED
    BY <1>1, <2>1, InstallWindow
<1>6. /\ DispInst.outs[1] = DispInst.outs[2] => DispInst.outs[1] = NA
      /\ Is(DispOp, "F_STORE") => DispInst.outs = <<NA, NA>>
  BY DispInstIs DEF TypeInv
<1>7. RuuOuts = IF mem THEN <<DTMP, NA>> ELSE DispInst.outs
  BY DEF RuuOuts
<1>8. v \notin LsqWindow
  BY <1>1, InstallWindow
<1>9. \A s \in Slots : T[s].onames[1] = T[s].onames[2] => T[s].onames[1] = NA
  BY <1>2, <1>3, <1>6, <1>7, NotRegs DEF InstOk
<1>10. \A s \in Slots : T[s].ea_comp => T[s].onames = <<DTMP, NA>>
  BY <1>2, <1>3, <1>7 DEF InstOk
<1>11. \A l \in LsqSlots : IsStore(T[l]) => T[l].onames = <<NA, NA>>
  BY <1>2, <1>3, <1>4, <1>6, LsqSlotOf DEF InstOk, IsStore
<1>12. \A l \in Q : Is(T[l].op, "F_MEM")
  BY <1>2, <1>3, <1>4, <1>5, <1>8, WindowIs DEF InstOk, LsqWindow
<1> QED
  BY <1>1, <1>9, <1>10, <1>11, <1>12 DEF InstOk

-----------------------------------------------------------------------------
(* The steps, by what they do to the stations *)

\* No station changes, and none enters or leaves the window.
Idle == UNCHANGED <<st, queueVars, cvVars, inst_seq>>

\* The operation at the head of todo starts, and completes later.
Starting ==
    /\ CanIssue /\ IssueLive /\ \E lat : Start(lat)
    /\ UNCHANGED <<queueVars, cvVars, inst_seq>>

StationSteps ==
    \/ Idle
    \/ RuuCommit
    \/ WritebackOp \/ WritebackRecover
    \/ LsqRefresh
    \/ IssueStore
    \/ Starting
    \/ DispatchInst

LEMMA StepKinds ==
    ASSUME [Next]_vars PROVE Idle \/ (~Panics /\ StationSteps)
<1>1. CASE UNCHANGED vars \/ Exited
  BY <1>1 DEF Exited, vars, orderVars, Idle, cvVars
<1> SUFFICES ASSUME Step PROVE StationSteps
  BY <1>1 DEF Next, Step
<1>2. CASE Commit \/ RuuReleaseFu
  BY <1>2 DEF Commit, RuuCommitDone, RuuReleaseFu, orderVars, Idle, StationSteps
<1>3. CASE Writeback
  BY <1>3 DEF Writeback, WritebackStale, WritebackDone, orderVars, Idle, StationSteps
<1>4. CASE LsqRefresh
  BY <1>4 DEF StationSteps
<1>5. CASE Issue
  <2>1. CASE IssueStale \/ IssueNoUnit \/ IssueDone
    BY <2>1 DEF IssueStale, IssueNoUnit, IssueDone, orderVars, Idle, StationSteps
  <2>2. CASE IssueToUnit \/ IssueNoClass
    BY <2>2 DEF IssueToUnit, IssueNoClass, Start, orderVars, StationSteps, Starting
  <2> QED
    BY <1>5, <2>1, <2>2 DEF Issue, StationSteps
<1>6. CASE Dispatch
  BY <1>6 DEF Dispatch, DispatchNop, DispatchExit, DispatchDone, orderVars, Idle,
              StationSteps
<1>7. CASE Fetch
  BY <1>7 DEF Fetch, FetchStalled, FetchMiss, FetchNotTaken, FetchTaken,
              FetchDone, backVars, orderVars, Idle, StationSteps
<1>8. CASE EndCycle
  BY <1>8 DEF EndCycle, orderVars, Idle, StationSteps
<1> QED
  BY <1>2, <1>3, <1>4, <1>5, <1>6, <1>7, <1>8 DEF Step

LEMMA IdleWindow == ASSUME UNCHANGED queueVars PROVE Window' = Window
<1>1. \A s : InWindow(s)' <=> InWindow(s)
  BY DEF queueVars, Age, InWindow, RuuAge, LsqAge
<1> QED
  BY <1>1 DEF Window

LEMMA InstOkStep == ASSUME TypeInv, InstOk, [Next]_vars PROVE InstOk'
<1>1. CASE DispatchInst
  <2>1. PICK npc \in PCs, addr \in Addrs \cup {0} : Install(npc, addr)
    BY <1>1, DispatchInstIs DEF TypeInv
  <2>2. CanDispatch /\ RUU_head' = RUU_head /\ LSQ_head' = LSQ_head
    BY <1>1 DEF DispatchInst
  <2>3. PICK F, L : Installed(F, L, npc, addr)
    BY <2>1, <2>2, InstallIs DEF TypeInv, OrderTyped
  <2> QED
    BY <2>1, <2>2, <2>3, DispatchInstOk
<1>2. CASE Quiet
  BY <1>2, QuietWindow, InstOkKept DEF Quiet
<1>3. CASE RuuCommit /\ ~Panics
  <2>1. \A s \in Slots : SameInst(st[s], st'[s])
    <3>1. Retired(RetiredNow)
      BY <1>3, RetireIs DEF TypeInv, Typed
    <3> QED
      BY <3>1 DEF Retired
  <2>2. LsqWindow' \subseteq LsqWindow
    BY <1>3, CommitWindow
  <2> QED
    BY <2>1, <2>2, InstOkKept
<1>4. CASE WritebackRecover /\ ~Panics
  <2>1. \A s \in Slots : SameInst(st[s], st'[s])
    BY <1>4, RecoverInst
  <2>2. LsqWindow' \subseteq LsqWindow
    BY <1>4, RecoverWindow
  <2> QED
    BY <2>1, <2>2, InstOkKept
<1> QED
  BY <1>1, <1>2, <1>3, <1>4, QuietSteps

-----------------------------------------------------------------------------
(* The create vector *)

Makes(S, s, r) == \E o \in 1 .. 2 : S[s].onames[o] = r

\* link says of r which of the stations in W makes its next value: nobody if
\* none does or the youngest that does is done.
CvEntry(S, W, link, r) ==
    IF link = CVLINK_NULL
    THEN \A s \in W : Makes(S, s, r) =>
            \/ S[s].completed
            \/ \E t \in W : Makes(S, t, r) /\ S[s].seq < S[t].seq
    ELSE /\ link.rs \in W /\ ~S[link.rs].completed
         /\ link.odep_num \in 1 .. 2 /\ S[link.rs].onames[link.odep_num] = r
         /\ \A s \in W : Makes(S, s, r) => S[s].seq <= S[link.rs].seq

\* The stations of W that are on the path, and those that are speculative.
OnPath(S, W)  == {s \in W : ~S[s].spec_mode}
OffPath(S, W) == {s \in W : S[s].spec_mode}

CvOk(S, W, cv, scv, use) ==
    \A r \in RegNames :
        /\ CvEntry(S, OnPath(S, W), cv[r], r)
        /\ r \in use <=> \E s \in OffPath(S, W) : Makes(S, s, r)
        /\ r \in use => CvEntry(S, OffPath(S, W), scv[r], r)

CvInv == CvOk(st, Window, create_vector, spec_create_vector, use_spec_cv)

\* The numbers name the stations of W.
Named(S, W) == /\ \A s \in W : S[s].seq \in Nat
               /\ \A s, t \in W : S[s].seq = S[t].seq => s = t

\* T is S, as far as the create vector goes.
SameMakers(S, T, W) ==
    \A s \in W : /\ T[s].onames = S[s].onames /\ T[s].seq = S[s].seq
                 /\ T[s].spec_mode = S[s].spec_mode

LEMMA EntryKept ==
    ASSUME NEW S, NEW T, NEW W, SameMakers(S, T, W),
           \A s \in W : T[s].completed = S[s].completed,
           NEW link, NEW r, CvEntry(S, W, link, r)
    PROVE  CvEntry(T, W, link, r)
<1>1. \A s \in W : Makes(T, s, r) <=> Makes(S, s, r)
  BY DEF Makes, SameMakers
<1> QED
  BY <1>1 DEF CvEntry, SameMakers

\* The writeback of c, which takes the entries of c away.
LEMMA EntryDone ==
    ASSUME NEW S, NEW T, NEW W, SameMakers(S, T, W), Named(S, W), NEW c,
           \A s \in W : T[s].completed = IF s = c THEN TRUE ELSE S[s].completed,
           NEW link, NEW r, CvEntry(S, W, link, r)
    PROVE  CvEntry(T, W, IF link # CVLINK_NULL /\ link.rs = c THEN CVLINK_NULL
                         ELSE link, r)
<1>1. \A s \in W : /\ Makes(T, s, r) <=> Makes(S, s, r)
                   /\ T[s].seq = S[s].seq /\ T[s].onames = S[s].onames
  BY DEF Makes, SameMakers
<1>2. CASE link # CVLINK_NULL /\ link.rs = c
  <2>1. c \in W /\ Makes(S, c, r)
    BY <1>2 DEF CvEntry, Makes
  <2>2. \A s \in W : Makes(S, s, r) /\ s # c => S[s].seq < S[c].seq
    BY <1>2, <2>1 DEF CvEntry, Named
  <2> QED
    BY <1>1, <1>2, <2>1, <2>2 DEF CvEntry
<1>3. CASE ~(link # CVLINK_NULL /\ link.rs = c)
  BY <1>1, <1>3 DEF CvEntry
<1> QED
  BY <1>2, <1>3

\* The retirement of the stations in R, done and older than the rest.
LEMMA EntryRetired ==
    ASSUME NEW S, NEW W, NEW V, V \subseteq W, Named(S, W),
           \A s \in W \ V : S[s].completed /\ \A t \in V : S[s].seq < S[t].seq,
           NEW link, NEW r, CvEntry(S, W, link, r)
    PROVE  CvEntry(S, V, link, r)
<1>1. CASE link = CVLINK_NULL
  <2>1. ASSUME NEW s \in V, Makes(S, s, r), ~S[s].completed
        PROVE  \E t \in V : Makes(S, t, r) /\ S[s].seq < S[t].seq
    <3>1. PICK t \in W : Makes(S, t, r) /\ S[s].seq < S[t].seq
      BY <1>1, <2>1 DEF CvEntry
    <3>2. t \in V
      BY <2>1, <3>1 DEF Named
    <3> QED
      BY <3>1, <3>2
  <2> QED
    BY <1>1, <2>1 DEF CvEntry
<1>2. CASE link # CVLINK_NULL
  BY <1>2 DEF CvEntry
<1> QED
  BY <1>1, <1>2

LEMMA EntryUnset ==
    ASSUME NEW S, NEW T, NEW W, NEW N, SameMakers(S, T, W),
           \A s \in W : T[s].completed = S[s].completed,
           NEW link, NEW r, CvEntry(S, W, link, r), \A t \in N : ~Makes(T, t, r)
    PROVE  CvEntry(T, W \cup N, link, r)
<1>1. \A s \in W : Makes(T, s, r) <=> Makes(S, s, r)
  BY DEF Makes, SameMakers
<1> QED
  BY <1>1 DEF CvEntry, SameMakers

LEMMA SameParts ==
    ASSUME NEW S, NEW T, NEW W, SameMakers(S, T, W)
    PROVE  /\ OnPath(T, W) = OnPath(S, W) /\ OffPath(T, W) = OffPath(S, W)
           /\ SameMakers(S, T, OnPath(S, W)) /\ SameMakers(S, T, OffPath(S, W))
           /\ \A s \in W : \A r : Makes(T, s, r) <=> Makes(S, s, r)
  BY DEF SameMakers, OnPath, OffPath, Makes

LEMMA CvOkKept ==
    ASSUME NEW S, NEW T, NEW W, SameMakers(S, T, W),
           \A s \in W : T[s].completed = S[s].completed,
           NEW cv, NEW scv, NEW use, CvOk(S, W, cv, scv, use)
    PROVE  CvOk(T, W, cv, scv, use)
<1> DEFINE P == OnPath(S, W)
           Q == OffPath(S, W)
<1>1. P \subseteq W /\ Q \subseteq W
  BY DEF OnPath, OffPath
<1>2. /\ OnPath(T, W) = P /\ OffPath(T, W) = Q
      /\ SameMakers(S, T, P) /\ SameMakers(S, T, Q)
      /\ \A s \in W : \A r : Makes(T, s, r) <=> Makes(S, s, r)
  BY SameParts
<1>3. ASSUME NEW r \in RegNames
      PROVE  /\ CvEntry(T, P, cv[r], r)
             /\ r \in use <=> \E s \in Q : Makes(T, s, r)
             /\ r \in use => CvEntry(T, Q, scv[r], r)
  <2>1. /\ CvEntry(S, P, cv[r], r)
        /\ r \in use <=> \E s \in Q : Makes(S, s, r)
        /\ r \in use => CvEntry(S, Q, scv[r], r)
    BY DEF CvOk
  <2> HIDE DEF P, Q
  <2>2. CvEntry(T, P, cv[r], r)
    BY <1>1, <1>2, <2>1, EntryKept
  <2>3. r \in use => CvEntry(T, Q, scv[r], r)
    BY <1>1, <1>2, <2>1, EntryKept
  <2> QED
    BY <1>1, <1>2, <2>1, <2>2, <2>3
<1> HIDE DEF P, Q
<1> QED
  BY <1>2, <1>3 DEF CvOk

\* The create vector without the entries of c.
Without(link, c) == IF link # CVLINK_NULL /\ link.rs = c THEN CVLINK_NULL ELSE link

\* Of the operations in W, c becomes completed.
CompletesOnly(S, T, W, c) ==
    \A s \in W : T[s].completed = IF s = c THEN TRUE ELSE S[s].completed

LEMMA CvOkDone ==
    ASSUME NEW S, NEW T, NEW W, SameMakers(S, T, W), Named(S, W), NEW c,
           CompletesOnly(S, T, W, c), NEW cv, NEW scv, NEW use, NEW cv2, NEW scv2,
           \A r \in RegNames :
              /\ CvEntry(S, OnPath(S, W), cv[r], r) /\ ~S[c].spec_mode =>
                    cv2[r] = Without(cv[r], c)
              /\ CvEntry(S, OffPath(S, W), scv[r], r) /\ S[c].spec_mode =>
                    scv2[r] = Without(scv[r], c)
              /\ S[c].spec_mode => cv2[r] = cv[r]
              /\ ~S[c].spec_mode => scv2[r] = scv[r],
           CvOk(S, W, cv, scv, use)
    PROVE  CvOk(T, W, cv2, scv2, use)
<1> DEFINE P == OnPath(S, W)
           Q == OffPath(S, W)
<1>1. /\ P \subseteq W /\ Q \subseteq W
      /\ c \in P => ~S[c].spec_mode
      /\ c \in Q => S[c].spec_mode
  BY DEF OnPath, OffPath
<1>2. /\ OnPath(T, W) = P /\ OffPath(T, W) = Q
      /\ SameMakers(S, T, P) /\ SameMakers(S, T, Q)
      /\ \A s \in W : \A r : Makes(T, s, r) <=> Makes(S, s, r)
  BY SameParts
<1>3. Named(S, P) /\ Named(S, Q)
  BY <1>1 DEF Named
<1>4. /\ \A s \in P : T[s].completed = IF s = c THEN TRUE ELSE S[s].completed
      /\ \A s \in Q : T[s].completed = IF s = c THEN TRUE ELSE S[s].completed
  BY <1>1 DEF CompletesOnly
<1>5. ASSUME NEW r \in RegNames
      PROVE  /\ CvEntry(T, P, cv2[r], r)
             /\ r \in use <=> \E s \in Q : Makes(T, s, r)
             /\ r \in use => CvEntry(T, Q, scv2[r], r)
  <2>1. /\ CvEntry(S, P, cv[r], r)
        /\ r \in use <=> \E s \in Q : Makes(S, s, r)
        /\ r \in use => CvEntry(S, Q, scv[r], r)
    BY DEF CvOk
  <2>2. /\ ~S[c].spec_mode => cv2[r] = Without(cv[r], c)
        /\ r \in use /\ S[c].spec_mode => scv2[r] = Without(scv[r], c)
        /\ S[c].spec_mode => cv2[r] = cv[r]
        /\ ~S[c].spec_mode => scv2[r] = scv[r]
    BY <2>1 DEF P, Q
  <2> HIDE DEF P, Q
  <2>3. CASE S[c].spec_mode
    <3>1. CvEntry(T, P, cv2[r], r)
      <4>1. \A s \in P : T[s].completed = S[s].completed
        BY <1>1, <1>4, <2>3
      <4> QED
        BY <1>2, <2>1, <2>2, <2>3, <4>1, EntryKept
    <3>2. r \in use => CvEntry(T, Q, scv2[r], r)
      <4>1. r \in use => CvEntry(T, Q, Without(scv[r], c), r)
        BY <1>2, <1>3, <1>4, <2>1, EntryDone DEF Without
      <4> QED
        BY <2>2, <2>3, <4>1
    <3> QED
      BY <1>1, <1>2, <2>1, <3>1, <3>2
  <2>4. CASE ~S[c].spec_mode
    <3>1. CvEntry(T, P, cv2[r], r)
      <4>1. CvEntry(T, P, Without(cv[r], c), r)
        BY <1>2, <1>3, <1>4, <2>1, EntryDone DEF Without
      <4> QED
        BY <2>2, <2>4, <4>1
    <3>2. r \in use => CvEntry(T, Q, scv2[r], r)
      <4>1. \A s \in Q : T[s].completed = S[s].completed
        BY <1>1, <1>4, <2>4
      <4> QED
        BY <1>2, <2>1, <2>2, <2>4, <4>1, EntryKept
    <3> QED
      BY <1>1, <1>2, <2>1, <3>1, <3>2
  <2> QED
    BY <2>3, <2>4
<1> HIDE DEF P, Q
<1> QED
  BY <1>2, <1>5 DEF CvOk

\* What is squashed makes nothing any more.
LEMMA CvOkPath ==
    ASSUME NEW S, NEW W, NEW V, V = OnPath(S, W),
           NEW cv, NEW scv, NEW use, CvOk(S, W, cv, scv, use)
    PROVE  CvOk(S, V, cv, scv, {})
<1>1. OnPath(S, V) = V /\ OffPath(S, V) = {}
  BY DEF OnPath, OffPath
<1> QED
  BY <1>1 DEF CvOk

LEMMA CvOkRetired ==
    ASSUME NEW S, NEW W, NEW V, V \subseteq W, Named(S, W),
           \A s \in W \ V : /\ S[s].completed /\ ~S[s].spec_mode
                            /\ \A t \in V : S[s].seq < S[t].seq,
           NEW cv, NEW scv, NEW use, CvOk(S, W, cv, scv, use)
    PROVE  CvOk(S, V, cv, scv, use)
<1>1. /\ OnPath(S, V) \subseteq OnPath(S, W) /\ OffPath(S, V) = OffPath(S, W)
      /\ OnPath(S, W) \ OnPath(S, V) \subseteq W \ V /\ OnPath(S, V) \subseteq V
      /\ OnPath(S, W) \subseteq W
  BY DEF OnPath, OffPath
<1>2. Named(S, OnPath(S, W))
  BY <1>1 DEF Named
<1>3. \A s \in OnPath(S, W) \ OnPath(S, V) :
         S[s].completed /\ \A t \in OnPath(S, V) : S[s].seq < S[t].seq
  BY <1>1
<1>4. \A r \in RegNames : CvEntry(S, OnPath(S, W), cv[r], r)
                            => CvEntry(S, OnPath(S, V), cv[r], r)
  BY <1>1, <1>2, <1>3, EntryRetired
<1> QED
  BY <1>1, <1>4 DEF CvOk

\* The create vector after the stations in N were installed.
Sets(T, N, cv, cv2) ==
    \A r \in RegNames :
        IF \E u \in N : Makes(T, u, r)
        THEN \E u \in N, o \in 1 .. 2 :
                /\ cv2[r] = CVLINK_INIT(u, o) /\ CVLINK_INIT(u, o) # CVLINK_NULL
                /\ T[u].onames[o] = r /\ ~T[u].completed
                /\ \A t \in N : Makes(T, t, r) => t = u
        ELSE cv2[r] = cv[r]

LEMMA EntryInstalled ==
    ASSUME NEW S, NEW T, NEW W, NEW N, SameMakers(S, T, W),
           \A s \in W : T[s].completed = S[s].completed,
           \A s \in W, t \in N : T[s].seq < T[t].seq,
           \A s \in W \cup N : T[s].seq \in Nat,
           NEW cv, NEW cv2, Sets(T, N, cv, cv2), NEW r \in RegNames,
           CvEntry(S, W, cv[r], r) \/ \E u \in N : Makes(T, u, r)
    PROVE  CvEntry(T, W \cup N, cv2[r], r)
<1>1. CASE \E u \in N : Makes(T, u, r)
  <2>1. PICK u \in N, o \in 1 .. 2 :
                /\ cv2[r] = CVLINK_INIT(u, o) /\ CVLINK_INIT(u, o) # CVLINK_NULL
                /\ T[u].onames[o] = r /\ ~T[u].completed
                /\ \A t \in N : Makes(T, t, r) => t = u
    BY <1>1 DEF Sets
  <2>2. CVLINK_INIT(u, o).rs = u /\ CVLINK_INIT(u, o).odep_num = o
    BY DEF CVLINK_INIT
  <2> QED
    BY <2>1, <2>2 DEF CvEntry
<1>2. CASE ~\E u \in N : Makes(T, u, r)
  <2>1. cv2[r] = cv[r] /\ CvEntry(S, W, cv[r], r)
    BY <1>2 DEF Sets
  <2> QED
    BY <1>2, <2>1, EntryUnset
<1> QED
  BY <1>1, <1>2

LEMMA CvOkSet ==
    ASSUME NEW S, NEW T, NEW W, NEW N, SameMakers(S, T, W),
           \A s \in W : T[s].completed = S[s].completed,
           \A s \in W, t \in N : T[s].seq < T[t].seq,
           \A s \in W \cup N : T[s].seq \in Nat,
           NEW b \in BOOLEAN, \A t \in N : T[t].spec_mode = b,
           ~b => OffPath(S, W) = {},
           NEW cv, NEW scv, NEW use, NEW cv2, NEW scv2, NEW use2,
           b => /\ cv2 = cv /\ Sets(T, N, scv, scv2)
                /\ \A r \in RegNames :
                      r \in use2 <=> r \in use \/ \E u \in N : Makes(T, u, r),
           ~b => Sets(T, N, cv, cv2) /\ scv2 = scv /\ use2 = use,
           CvOk(S, W, cv, scv, use)
    PROVE  CvOk(T, W \cup N, cv2, scv2, use2)
<1> DEFINE P == OnPath(S, W)
           Q == OffPath(S, W)
<1>1. P \subseteq W /\ Q \subseteq W
  BY DEF OnPath, OffPath
<1>2. /\ SameMakers(S, T, P) /\ SameMakers(S, T, Q)
      /\ \A s \in W : \A r : Makes(T, s, r) <=> Makes(S, s, r)
      /\ OnPath(T, W) = P /\ OffPath(T, W) = Q
  BY SameParts
<1>3. /\ OnPath(T, W \cup N) = IF b THEN P ELSE P \cup N
      /\ OffPath(T, W \cup N) = IF b THEN Q \cup N ELSE Q
  BY <1>2 DEF OnPath, OffPath
<1>4. /\ \A s \in P : T[s].completed = S[s].completed
      /\ \A s \in Q : T[s].completed = S[s].completed
      /\ \A s \in P, t \in N : T[s].seq < T[t].seq
      /\ \A s \in Q, t \in N : T[s].seq < T[t].seq
      /\ \A s \in P \cup N : T[s].seq \in Nat
      /\ \A s \in Q \cup N : T[s].seq \in Nat
  BY <1>1
<1>5. ASSUME NEW r \in RegNames
      PROVE  /\ CvEntry(T, OnPath(T, W \cup N), cv2[r], r)
             /\ r \in use2 <=> \E s \in OffPath(T, W \cup N) : Makes(T, s, r)
             /\ r \in use2 => CvEntry(T, OffPath(T, W \cup N), scv2[r], r)
  <2>1. /\ CvEntry(S, P, cv[r], r)
        /\ r \in use <=> \E s \in Q : Makes(S, s, r)
        /\ r \in use => CvEntry(S, Q, scv[r], r)
    BY DEF CvOk
  <2>2. ~b => Q = {}
    OBVIOUS
  <2> HIDE DEF P, Q
  <2>3. CASE b
    <3>1. CvEntry(T, P, cv2[r], r)
      BY <1>2, <1>4, <2>1, <2>3, EntryKept
    <3>2. r \in use2 <=> \E s \in Q \cup N : Makes(T, s, r)
      BY <1>1, <1>2, <2>1, <2>3
    <3>3. r \in use2 => CvEntry(T, Q \cup N, scv2[r], r)
      <4>1. r \in use2 => CvEntry(S, Q, scv[r], r) \/ \E u \in N : Makes(T, u, r)
        BY <2>1, <2>3
      <4> QED
        BY <1>2, <1>4, <2>3, <4>1, EntryInstalled
    <3> QED
      BY <1>3, <2>3, <3>1, <3>2, <3>3
  <2>4. CASE ~b
    <3>1. CvEntry(T, P \cup N, cv2[r], r)
      BY <1>2, <1>4, <2>1, <2>4, EntryInstalled
    <3>2. r \notin use2
      BY <2>1, <2>2, <2>4
    <3> QED
      BY <1>3, <2>2, <2>4, <3>1, <3>2
  <2> QED
    BY <2>3, <2>4
<1> QED
  BY <1>5 DEF CvOk

\* The entries that a dispatch makes.
LEMMA SetIs ==
    ASSUME TypeInv, CanDispatch, NEW T, NEW cv,
           \A s \in NewOnes : ~T[s].completed,
           T[NewRuu].onames = RuuOuts,
           Is(DispOp, "F_MEM") => T[NewLsq].onames = DispInst.outs
    PROVE  /\ Sets(T, NewOnes, cv, SET_CREATE_VECTOR(cv))
           /\ \A r \in RegNames : r \in {c[1] : c \in InstCreates} \ {NA}
                                    <=> \E u \in NewOnes : Makes(T, u, r)
<1>1. PICK u, v, outs, mem : /\ u = NewRuu /\ v = NewLsq /\ outs = DispInst.outs
                             /\ mem = Is(DispOp, "F_MEM")
  OBVIOUS
<1>2. /\ outs[1] \in Regs \cup {NA} /\ outs[2] \in Regs \cup {NA}
      /\ outs[1] = outs[2] => outs[1] = NA
  BY <1>1, DispInstIs DEF TypeInv
<1>3. u \in Slots /\ v \in Slots /\ u # v
  BY <1>1, NewSlots DEF TypeInv
<1>4. InstCreates = IF mem THEN {<<DTMP, CVLINK_INIT(u, 1)>>} \cup
                                {<<outs[o], CVLINK_INIT(v, o)>> : o \in 1 .. 2}
                    ELSE {<<outs[o], CVLINK_INIT(u, o)>> : o \in 1 .. 2}
  BY <1>1 DEF InstCreates
<1>5. /\ NewOnes = {u} \cup IF mem THEN {v} ELSE {}
      /\ T[u].onames = IF mem THEN <<DTMP, NA>> ELSE outs
      /\ mem => T[v].onames = outs
  BY <1>1 DEF NewOnes, RuuOuts
<1>6. ASSUME NEW r \in RegNames
      PROVE  /\ \A c \in InstCreates : c[1] = r =>
                   \E x \in NewOnes, o \in 1 .. 2 :
                      c[2] = CVLINK_INIT(x, o) /\ T[x].onames[o] = r
             /\ \A x \in NewOnes, o \in 1 .. 2 : T[x].onames[o] = r =>
                   \E c \in InstCreates : c[1] = r
             /\ \A x, y \in NewOnes : Makes(T, x, r) /\ Makes(T, y, r) => x = y
  <2>1. r # NA
    BY NotRegs
  <2>2. CASE mem
    <3>1. /\ NewOnes = {u, v} /\ T[u].onames[1] = DTMP /\ T[u].onames[2] = NA
          /\ T[v].onames[1] = outs[1] /\ T[v].onames[2] = outs[2]
      BY <1>5, <2>2
    <3>2. InstCreates = {<<DTMP, CVLINK_INIT(u, 1)>>, <<outs[1], CVLINK_INIT(v, 1)>>,
                         <<outs[2], CVLINK_INIT(v, 2)>>}
      BY <1>4, <2>2
    <3>3. Makes(T, u, r) <=> r = DTMP
      BY <2>1, <3>1 DEF Makes
    <3>4. Makes(T, v, r) => r # DTMP
      BY <1>2, <2>1, <3>1, NotRegs DEF Makes
    <3> QED
      BY <2>1, <3>1, <3>2, <3>3, <3>4
  <2>3. CASE ~mem
    <3>1. NewOnes = {u} /\ T[u].onames = outs
      BY <1>5, <2>3
    <3>2. InstCreates = {<<outs[1], CVLINK_INIT(u, 1)>>, <<outs[2], CVLINK_INIT(u, 2)>>}
      BY <1>4, <2>3
    <3> QED
      BY <3>1, <3>2
  <2> QED
    BY <2>2, <2>3
<1>7. NewOnes \subseteq Slots
  BY <1>3, <1>5
<1>8. ASSUME NEW r \in RegNames
      PROVE  IF \E x \in NewOnes : Makes(T, x, r)
             THEN \E x \in NewOnes, o \in 1 .. 2 :
                    /\ SET_CREATE_VECTOR(cv)[r] = CVLINK_INIT(x, o)
                    /\ CVLINK_INIT(x, o) # CVLINK_NULL
                    /\ T[x].onames[o] = r /\ ~T[x].completed
                    /\ \A t \in NewOnes : Makes(T, t, r) => t = x
             ELSE SET_CREATE_VECTOR(cv)[r] = cv[r]
  <2>1. PICK new : new = {c \in InstCreates : c[1] = r}
    OBVIOUS
  <2>2. SET_CREATE_VECTOR(cv)[r] = IF new = {} THEN cv[r] ELSE (CHOOSE c \in new : TRUE)[2]
    BY <2>1 DEF SET_CREATE_VECTOR
  <2>3. new # {} <=> \E x \in NewOnes : Makes(T, x, r)
    BY <1>6, <2>1 DEF Makes
  <2>4. CASE new # {}
    <3>1. PICK c : c = (CHOOSE d \in new : TRUE)
      OBVIOUS
    <3>2. c \in new
      BY <2>4, <3>1
    <3>3. SET_CREATE_VECTOR(cv)[r] = c[2]
      BY <2>2, <2>4, <3>1
    <3>4. PICK x \in NewOnes, o \in 1 .. 2 :
             c[2] = CVLINK_INIT(x, o) /\ T[x].onames[o] = r
      BY <1>6, <2>1, <3>2
    <3>5. Makes(T, x, r) /\ CVLINK_INIT(x, o) # CVLINK_NULL
      BY <1>7, <3>4, CvIs DEF Makes
    <3>6. \A t \in NewOnes : Makes(T, t, r) => t = x
      BY <1>6, <3>5
    <3> QED
      BY <3>3, <3>4, <3>5, <3>6
  <2>5. CASE new = {}
    BY <2>2, <2>3, <2>5
  <2> QED
    BY <2>4, <2>5
<1>9. Sets(T, NewOnes, cv, SET_CREATE_VECTOR(cv))
  BY <1>8 DEF Sets
<1>10. \A r \in RegNames : r \in {c[1] : c \in InstCreates} \ {NA}
                              <=> \E x \in NewOnes : Makes(T, x, r)
  <2> TAKE r \in RegNames
  <2>1. r # NA
    BY NotRegs
  <2>2. (\E x \in NewOnes : Makes(T, x, r)) <=> \E c \in InstCreates : c[1] = r
    BY <1>6 DEF Makes
  <2> QED
    BY <2>1, <2>2
<1> QED
  BY <1>9, <1>10

LEMMA WindowNamed ==
    ASSUME TypeInv, OrderInv PROVE Named(st, Window) /\ Window \subseteq Slots
  BY WindowParts, SeqNamesAll DEF Named

LEMMA SameInstMakers ==
    ASSUME NEW S, NEW T, NEW W \in SUBSET Slots, \A s \in W : SameInst(S[s], T[s])
    PROVE  SameMakers(S, T, W)
  BY DEF SameInst, SameMakers

LEMMA CreatedIs ==
    ASSUME NEW cv \in [RegNames -> CvRange], NEW c, NEW W, NEW r \in RegNames,
           CvEntry(st, W, cv[r], r)
    PROVE  Created(cv, c)[r] = Without(cv[r], c)
<1>1. PICK x : x = cv[r]
  OBVIOUS
<1>2. Created(cv, c)[r] = IF \E o \in 1 .. 2 : st[c].onames[o] = r /\ x = CVLINK_INIT(c, o)
                          THEN CVLINK_NULL ELSE x
  BY <1>1 DEF Created
<1>3. x = CVLINK_NULL \/ x \in [rs : Slots, odep_num : 1 .. 2]
  BY <1>1 DEF CvRange
<1>4. CASE x # CVLINK_NULL /\ x.rs = c
  <2>1. x = CVLINK_INIT(c, x.odep_num)
    BY <1>3, <1>4 DEF CVLINK_INIT
  <2>2. x.odep_num \in 1 .. 2 /\ st[c].onames[x.odep_num] = r
    BY <1>1, <1>4 DEF CvEntry
  <2> QED
    BY <1>1, <1>2, <1>4, <2>1, <2>2 DEF Without
<1>5. CASE ~(x # CVLINK_NULL /\ x.rs = c)
  <2>1. \A o \in 1 .. 2 : x = CVLINK_INIT(c, o) => x = CVLINK_NULL
    BY <1>5 DEF CVLINK_INIT
  <2> QED
    BY <1>1, <1>2, <1>5, <2>1 DEF Without
<1> QED
  BY <1>4, <1>5

\* What a writeback does to all operations, squashed or not.
LEMMA WritebackChanges ==
    ASSUME TypeInv, WritebackOp \/ WritebackRecover
    PROVE  /\ \A s \in Slots : SameInst(st[s], st'[s])
           /\ CompletesOnly(st, st', Slots, Completing)
           /\ create_vector' = IF st[Completing].spec_mode THEN create_vector
                               ELSE Created(create_vector, Completing)
           /\ spec_create_vector' = IF st[Completing].spec_mode
                                    THEN Created(spec_create_vector, Completing)
                                    ELSE spec_create_vector
<1>1. PICK S, freed, c, T :
         /\ Typed(S) /\ Complete(c, S, freed) /\ c \in Slots /\ c = Completing /\ T = st'
         /\ S = st \/ S = SquashOf(c)
  BY WritebackIs DEF TypeInv
<1>2. \A s \in Slots : SameInst(st[s], S[s]) /\ S[s].completed = st[s].completed
  <2>1. CASE S = st
    BY <2>1, SameInstSelf
  <2>2. CASE S = SquashOf(c)
    BY <2>2, SquashIs DEF TypeInv, Typed, SameProgress
  <2> QED
    BY <1>1, <2>1, <2>2
<1>3. PICK links, woken : Completed(S, T, c, links, woken)
  BY <1>1, CompleteIs DEF Typed
<1>4. \A s \in Slots : /\ SameInst(S[s], T[s])
                       /\ T[s].completed = IF s = c THEN TRUE ELSE S[s].completed
  BY <1>3 DEF Completed
<1>5. \A s \in Slots : SameInst(st[s], T[s])
  BY <1>2, <1>4, SameInstTransitive
<1> QED
  BY <1>1, <1>2, <1>4, <1>5 DEF CompletesOnly, Complete

LEMMA CvOkWriteback ==
    ASSUME TypeInv, OrderInv, CvInv, WritebackOp \/ WritebackRecover
    PROVE  CvOk(st', Window, create_vector', spec_create_vector', use_spec_cv)
<1>1. PICK S, T, W, c, cv, scv, use, cv2, scv2 :
         /\ S = st /\ T = st' /\ W = Window /\ c = Completing
         /\ cv = create_vector /\ scv = spec_create_vector /\ use = use_spec_cv
         /\ cv2 = create_vector' /\ scv2 = spec_create_vector'
  OBVIOUS
<1>2. CvOk(S, W, cv, scv, use) /\ Named(S, W) /\ W \subseteq Slots
  BY <1>1, WindowNamed DEF CvInv
<1>3. /\ \A s \in Slots : SameInst(S[s], T[s])
      /\ CompletesOnly(S, T, W, c)
      /\ cv2 = IF S[c].spec_mode THEN cv ELSE Created(cv, c)
      /\ scv2 = IF S[c].spec_mode THEN Created(scv, c) ELSE scv
  BY <1>1, <1>2, WritebackChanges DEF CompletesOnly
<1>4. SameMakers(S, T, W)
  BY <1>2, <1>3, SameInstMakers
<1>5. cv \in [RegNames -> CvRange] /\ scv \in [RegNames -> CvRange]
  BY <1>1 DEF TypeInv, CvTyped
<1>6. \A r \in RegNames :
              /\ CvEntry(S, OnPath(S, W), cv[r], r) => Created(cv, c)[r] = Without(cv[r], c)
              /\ CvEntry(S, OffPath(S, W), scv[r], r)
                    => Created(scv, c)[r] = Without(scv[r], c)
  BY <1>1, <1>5, CreatedIs
<1>7. \A r \in RegNames :
              /\ CvEntry(S, OnPath(S, W), cv[r], r) /\ ~S[c].spec_mode =>
                    cv2[r] = Without(cv[r], c)
              /\ CvEntry(S, OffPath(S, W), scv[r], r) /\ S[c].spec_mode =>
                    scv2[r] = Without(scv[r], c)
              /\ S[c].spec_mode => cv2[r] = cv[r]
              /\ ~S[c].spec_mode => scv2[r] = scv[r]
  BY <1>3, <1>6
<1>8. CvOk(T, W, cv2, scv2, use)
  BY <1>2, <1>3, <1>4, <1>7, CvOkDone
<1> QED
  BY <1>1, <1>8

LEMMA IssueStoreCvOk ==
    ASSUME TypeInv, OrderInv, InstOk, CvInv, IssueStore
    PROVE  CvOk(st', Window, create_vector, spec_create_vector, use_spec_cv)
<1>1. PICK S, T, W, c, cv, scv, use :
         /\ S = st /\ T = st' /\ W = Window /\ c = Issuing
         /\ cv = create_vector /\ scv = spec_create_vector /\ use = use_spec_cv
  OBVIOUS
<1>2. CvOk(S, W, cv, scv, use) /\ Named(S, W) /\ W \subseteq Slots
  BY <1>1, WindowNamed DEF CvInv
<1>3. Started(S, T, c, TRUE)
  BY <1>1, IssueStoreIs DEF TypeInv, Typed
<1>4. /\ \A s \in W : SameInst(S[s], T[s])
      /\ CompletesOnly(S, T, W, c)
  BY <1>2, <1>3 DEF Started, CompletesOnly
<1>5. SameMakers(S, T, W)
  BY <1>2, <1>4, SameInstMakers
<1>6. S[c].onames = <<NA, NA>>
  BY <1>1, LsqSlotOf DEF IssueStore, IssueLive, RSLINK_VALID, Issuing, InstOk
<1>7. \A P : \A link : \A r \in RegNames :
         CvEntry(S, P, link, r) => link = Without(link, c)
  BY <1>6, NotRegs DEF CvEntry, Without
<1>8. CvOk(T, W, cv, scv, use)
  BY <1>2, <1>4, <1>5, <1>7, CvOkDone
<1> QED
  BY <1>1, <1>8

LEMMA DispatchCvOk ==
    ASSUME TypeInv, OrderInv, SpecInv, CvInv, CanDispatch, NEW F, NEW L, NEW npc, NEW addr,
           Installed(F, L, npc, addr), Install(npc, addr),
           RUU_head' = RUU_head, LSQ_head' = LSQ_head
    PROVE  CvInv'
<1>1. PICK S, T, W, N, b, cv, scv, use, cv2, scv2, use2 :
         /\ S = st /\ T = st' /\ W = Window /\ N = NewOnes /\ b = spec_mode
         /\ cv = create_vector /\ scv = spec_create_vector /\ use = use_spec_cv
         /\ cv2 = create_vector' /\ scv2 = spec_create_vector' /\ use2 = use_spec_cv'
  OBVIOUS
<1>2. CvOk(S, W, cv, scv, use) /\ Named(S, W) /\ W \subseteq Slots
  BY <1>1, WindowNamed DEF CvInv
<1>3. N \subseteq Slots /\ N \cap W = {} /\ Window' = W \cup N
  BY <1>1, DispatchAdds
<1>4. /\ T[NewRuu].onames = RuuOuts
      /\ Is(DispOp, "F_MEM") => T[NewLsq].onames = DispInst.outs
      /\ \A t \in N : T[t].spec_mode = b /\ T[t].seq \in {inst_seq + 1, inst_seq + 2}
  <2>1. /\ T[NewRuu].onames = RuuOuts
        /\ T[NewRuu].spec_mode = b /\ T[NewRuu].seq = inst_seq + 1
        /\ Is(DispOp, "F_MEM") =>
               /\ T[NewLsq].onames = DispInst.outs
               /\ T[NewLsq].spec_mode = b /\ T[NewLsq].seq = inst_seq + 2
    BY <1>1, InstallNames
  <2> QED
    BY <1>1, <2>1 DEF NewOnes
<1>5. /\ \A s \in Slots : SameInst(F[s], T[s]) /\ T[s].completed = F[s].completed
  <2>1. ListsOnly(F, L) /\ Marked(L, T, ReadyNow(F))
    BY <1>1 DEF Installed, LinkedIn
  <2>2. \A s \in Slots : SameInst(F[s], L[s]) /\ SameProgress(F[s], L[s])
    BY <2>1, Zenon DEF ListsOnly
  <2>3. \A s \in Slots : SameInst(L[s], T[s]) /\ T[s].completed = L[s].completed
    BY <2>1 DEF Marked
  <2> QED
    BY <2>2, <2>3, SameInstTransitive DEF SameProgress
<1>6. /\ \A s \in W : F[s] = S[s]
      /\ \A s \in N : F[s].completed = FALSE
  <2>1. \A s \in W : F[s] = S[s]
    BY <1>1, <1>2, <1>3 DEF Installed, FilledIn
  <2>2. F[NewRuu].completed = FALSE
    BY DEF Installed, FilledIn, Filled
  <2>3. Is(DispOp, "F_MEM") => F[NewLsq].completed = FALSE
    BY DEF Installed, FilledIn, Filled
  <2> QED
    BY <1>1, <2>1, <2>2, <2>3 DEF NewOnes
<1>7. /\ SameMakers(S, T, W)
      /\ \A s \in W : T[s].completed = S[s].completed
      /\ \A s \in N : ~T[s].completed
  <2>1. \A s \in W : SameInst(S[s], T[s])
    BY <1>2, <1>5, <1>6
  <2>2. SameMakers(S, T, W)
    BY <1>2, <2>1, SameInstMakers
  <2> QED
    BY <1>2, <1>3, <1>5, <1>6, <2>2
<1>8. inst_seq \in Nat /\ \A s \in W : S[s].seq <= inst_seq
  BY <1>1, WindowParts DEF TypeInv, OrderTyped
<1>9. /\ \A s \in W, t \in N : T[s].seq < T[t].seq
      /\ \A s \in W \cup N : T[s].seq \in Nat
  <2>1. \A s \in W : T[s].seq = S[s].seq /\ S[s].seq \in Nat
    BY <1>2, <1>7 DEF SameMakers, Named
  <2> QED
    BY <1>4, <1>8, <2>1
<1>10. b \in BOOLEAN /\ (~b => OffPath(S, W) = {})
  BY <1>1, SpecYounger DEF TypeInv, FetchInv, FetchType, OffPath
<1>11. /\ Sets(T, N, cv, SET_CREATE_VECTOR(cv)) /\ Sets(T, N, scv, SET_CREATE_VECTOR(scv))
       /\ \A r \in RegNames : r \in {c[1] : c \in InstCreates} \ {NA}
                                    <=> \E u \in N : Makes(T, u, r)
  BY <1>1, <1>4, <1>7, SetIs
<1>12. /\ b => /\ cv2 = cv /\ Sets(T, N, scv, scv2)
               /\ \A r \in RegNames :
                     r \in use2 <=> r \in use \/ \E u \in N : Makes(T, u, r)
       /\ ~b => Sets(T, N, cv, cv2) /\ scv2 = scv /\ use2 = use
  BY <1>1, <1>11 DEF Install
<1>13. CvOk(T, W \cup N, cv2, scv2, use2)
  BY <1>2, <1>4, <1>7, <1>9, <1>10, <1>12, CvOkSet
<1> QED
  BY <1>1, <1>3, <1>13 DEF CvInv

LEMMA QuietCvInv ==
    ASSUME TypeInv, OrderInv, CvInv, NEW T, T = st',
           \A s \in Slots : SameInst(st[s], T[s]) /\ T[s].completed = st[s].completed,
           UNCHANGED queueVars, UNCHANGED cvVars
    PROVE  CvInv'
<1>1. Window' = Window /\ Window \subseteq Slots
  BY IdleWindow, WindowNamed
<1>2. SameMakers(st, T, Window)
  BY <1>1, SameInstMakers
<1>3. CvOk(T, Window, create_vector, spec_create_vector, use_spec_cv)
  BY <1>1, <1>2, CvOkKept DEF CvInv
<1> QED
  BY <1>1, <1>3 DEF CvInv, cvVars

LEMMA InitWindow == Init => Window = {}
<1> SUFFICES ASSUME Init PROVE Window = {}
  OBVIOUS
<1>1. /\ \A i \in Indices : ~InRuu(i)
      /\ \A i \in LIndices : ~InLsq(i)
  BY SizeType DEF Init, InRuu, InLsq, RuuAge, LsqAge, Indices, LIndices
<1>2. RuuWindow = {} /\ LsqWindow = {}
  BY <1>1, RuuSlotOf, LsqSlotOf, AgeOf DEF RuuWindow, LsqWindow
<1> QED
  BY <1>2, WindowIs

LEMMA InitCvInv == Init => CvInv
  BY InitWindow DEF CvInv, CvOk, CvEntry, OnPath, OffPath, Init

LEMMA CvInvStep ==
    ASSUME TypeInv, OrderInv, SpecInv, InstOk, CvInv, [Next]_vars PROVE CvInv'
<1>1. CASE Idle
  BY <1>1, SameInstSelf, QuietCvInv DEF Idle
<1>2. CASE RuuCommit /\ ~Panics
  <2>1. /\ RetiredNow \subseteq Window /\ Window' = Window \ RetiredNow
        /\ \A s \in RetiredNow : ~st[s].spec_mode /\ st[s].completed
        /\ \A s \in RetiredNow, t \in Window' : st[s].seq < st[t].seq
    BY <1>2, CommitTakes
  <2>2. PICK S, T, W, V, cv, scv, use :
           /\ S = st /\ T = st' /\ W = Window /\ V = Window'
           /\ cv = create_vector /\ scv = spec_create_vector /\ use = use_spec_cv
    OBVIOUS
  <2>3. CvOk(S, W, cv, scv, use) /\ Named(S, W) /\ V \subseteq W /\ V \subseteq Slots
    BY <2>1, <2>2, WindowNamed DEF CvInv
  <2>4. \A s \in W \ V : /\ S[s].completed /\ ~S[s].spec_mode
                         /\ \A t \in V : S[s].seq < S[t].seq
    BY <2>1, <2>2
  <2>5. CvOk(S, V, cv, scv, use)
    BY <2>3, <2>4, CvOkRetired
  <2>6. \A s \in Slots : SameInst(S[s], T[s]) /\ T[s].completed = S[s].completed
    BY <1>2, <2>2, RetireIs DEF Retired, SameProgress, TypeInv, Typed
  <2>7. SameMakers(S, T, V)
    BY <2>3, <2>6, SameInstMakers
  <2>8. CvOk(T, V, cv, scv, use)
    BY <2>3, <2>5, <2>6, <2>7, CvOkKept
  <2> QED
    BY <1>2, <2>2, <2>8 DEF CvInv, RuuCommit, cvVars
<1>3. CASE WritebackOp
  <2>1. Window' = Window
    BY <1>3, IdleWindow DEF WritebackOp
  <2> QED
    BY <1>3, <2>1, CvOkWriteback DEF CvInv, WritebackOp
<1>4. CASE WritebackRecover /\ ~Panics
  <2>1. CvOk(st', Window, create_vector', spec_create_vector', use_spec_cv)
    BY <1>4, CvOkWriteback
  <2>2. Window' = {s \in Window : ~st[s].spec_mode}
    BY <1>4, RecoverTakes
  <2>3. \A s \in Slots : SameInst(st[s], st'[s])
    BY <1>4, RecoverInst
  <2>4. Window' = OnPath(st', Window)
    BY <2>2, <2>3, WindowNamed DEF OnPath, SameInst
  <2>5. PICK T, W, V, cv, scv :
           T = st' /\ W = Window /\ V = Window' /\ cv = create_vector' /\ scv = spec_create_vector'
    OBVIOUS
  <2>6. CvOk(T, V, cv, scv, {})
    BY <2>1, <2>4, <2>5, CvOkPath
  <2> QED
    BY <1>4, <2>5, <2>6 DEF CvInv, WritebackRecover
<1>5. CASE LsqRefresh
  <2>1. PICK T : T = st'
    OBVIOUS
  <2>2. Marked(st, T, ReadyLoads)
    BY <1>5, <2>1, MarkQueuedIs DEF LsqRefresh, TypeInv, Typed
  <2>3. \A s \in Slots : SameInst(st[s], T[s]) /\ T[s].completed = st[s].completed
    BY <2>2 DEF Marked
  <2> QED
    BY <1>5, <2>1, <2>3, QuietCvInv DEF LsqRefresh
<1>6. CASE IssueStore
  <2>1. Window' = Window
    BY <1>6, IdleWindow DEF IssueStore
  <2> QED
    BY <1>6, <2>1, IssueStoreCvOk DEF CvInv, IssueStore, cvVars
<1>7. CASE Starting
  <2>1. PICK T, lat : T = st' /\ Start(lat)
    BY <1>7 DEF Starting
  <2>2. Started(st, T, Issuing, FALSE)
    BY <1>7, <2>1, StartActionIs DEF TypeInv, Typed, Starting
  <2>3. \A s \in Slots : SameInst(st[s], T[s]) /\ T[s].completed = st[s].completed
    BY <2>2 DEF Started
  <2> QED
    BY <1>7, <2>1, <2>3, QuietCvInv DEF Starting
<1>8. CASE DispatchInst
  <2>1. PICK npc \in PCs, addr \in Addrs \cup {0} : Install(npc, addr)
    BY <1>8, DispatchInstIs DEF TypeInv
  <2>2. CanDispatch /\ RUU_head' = RUU_head /\ LSQ_head' = LSQ_head
    BY <1>8 DEF DispatchInst
  <2>3. PICK F, L : Installed(F, L, npc, addr)
    BY <2>1, <2>2, InstallIs DEF TypeInv, OrderTyped
  <2> QED
    BY <2>1, <2>2, <2>3, DispatchCvOk
<1> QED
  BY <1>1, <1>2, <1>3, <1>4, <1>5, <1>6, <1>7, <1>8, StepKinds DEF StationSteps

\* The youngest of some operations.
LEMMA YoungestIs ==
    ASSUME NEW S, NEW W, Named(S, W), NEW m \in Nat, \A s \in W : S[s].seq <= m,
           NEW M \in SUBSET W, M # {}
    PROVE  \E s \in M : /\ \A t \in M : S[t].seq <= S[s].seq
                        /\ s = CHOOSE x \in M : \A t \in M : S[t].seq <= S[x].seq
<1> DEFINE T == {S[s].seq + 1 : s \in M}
<1>1. T \subseteq 1 .. m + 1 /\ T # {} /\ m + 1 \in Nat
  BY DEF Named
<1>2. PICK x \in T : \A y \in T : y <= x
  <2> HIDE DEF T
  <2> QED
    BY <1>1, GreatestNat
<1>3. PICK s \in M : x = S[s].seq + 1
  BY <1>2
<1>4. \A t \in M : S[t].seq <= S[s].seq
  <2> TAKE t \in M
  <2>1. S[t].seq + 1 <= S[s].seq + 1
    BY <1>2, <1>3
  <2>2. S[t].seq \in Nat /\ S[s].seq \in Nat
    BY DEF Named
  <2> QED
    BY <2>1, <2>2
<1>5. \A x1 \in M : (\A t \in M : S[t].seq <= S[x1].seq) => x1 = s
  BY <1>4 DEF Named
<1> QED
  BY <1>4, <1>5

LEMMA EntryIsCreator ==
    ASSUME InstOk, NEW W \in SUBSET Slots, Named(st, W), NEW m \in Nat,
           \A s \in W : st[s].seq <= m, NEW r \in RegNames, NEW link \in CvRange,
           CvEntry(st, W, link, r)
    PROVE  link = Creator(r, W)
<1> DEFINE M == {s \in W : \E o \in 1 .. 2 : st[s].onames[o] = r}
           l == CHOOSE s \in M : \A t \in M : st[t].seq <= st[s].seq
<1>0. Creator(r, W) = IF M = {} \/ st[l].completed THEN CVLINK_NULL
                      ELSE CVLINK_INIT(l, CHOOSE o \in 1 .. 2 : st[l].onames[o] = r)
  BY DEF Creator
<1> HIDE DEF l
<1>1. PICK last : last = l
  OBVIOUS
<1>2. PICK makers : makers = M /\ last = CHOOSE s \in makers : \A t \in makers : st[t].seq <= st[s].seq
  BY <1>1 DEF l
<1>3. Creator(r, W) = IF makers = {} \/ st[last].completed THEN CVLINK_NULL
                      ELSE CVLINK_INIT(last, CHOOSE o \in 1 .. 2 : st[last].onames[o] = r)
  <2> HIDE DEF M
  <2> QED
    BY <1>0, <1>1, <1>2
<1>4. \A s : s \in makers <=> s \in W /\ Makes(st, s, r)
  BY <1>2 DEF Makes
<1>5. CASE makers = {}
  <2>1. link = CVLINK_NULL
    BY <1>4, <1>5 DEF CvEntry, Makes
  <2> QED
    BY <1>3, <1>5, <2>1
<1>6. CASE makers # {}
  <2>1. last \in makers /\ \A t \in makers : st[t].seq <= st[last].seq
    BY <1>2, <1>4, <1>6, YoungestIs
  <2>2. \A s \in W : st[s].seq \in Nat
    BY DEF Named
  <2>3. CASE link = CVLINK_NULL
    <3>1. st[last].completed
      BY <1>4, <2>1, <2>2, <2>3 DEF CvEntry
    <3> QED
      BY <1>3, <2>3, <3>1
  <2>4. CASE link # CVLINK_NULL
    <3>1. /\ link.rs \in W /\ ~st[link.rs].completed
          /\ link.odep_num \in 1 .. 2 /\ st[link.rs].onames[link.odep_num] = r
          /\ \A s \in W : Makes(st, s, r) => st[s].seq <= st[link.rs].seq
      BY <2>4 DEF CvEntry
    <3>2. link.rs \in makers
      BY <1>4, <3>1 DEF Makes
    <3>3. link.rs = last
      BY <1>4, <2>1, <2>2, <3>1, <3>2 DEF Named
    <3>4. \A o \in 1 .. 2 : st[last].onames[o] = r => o = link.odep_num
      <4>1. last \in Slots /\ r # NA
        BY <3>1, <3>3, NotRegs
      <4> QED
        BY <3>1, <3>3, <4>1 DEF InstOk
    <3>5. (CHOOSE o \in 1 .. 2 : st[last].onames[o] = r) = link.odep_num
      BY <3>1, <3>3, <3>4
    <3>6. link = CVLINK_INIT(last, link.odep_num)
      BY <2>4, <3>3 DEF CvRange, CVLINK_INIT
    <3> QED
      BY <1>3, <1>6, <3>1, <3>3, <3>5, <3>6
  <2> QED
    BY <2>3, <2>4
<1> QED
  BY <1>5, <1>6

\* The entry of a register among all operations, speculative ones included.
LEMMA EntryOfAll ==
    ASSUME TypeInv, OrderInv, SpecInv, CvInv, NEW r \in RegNames
    PROVE  CvEntry(st, Window, CREATE_VECTOR(r), r)
<1>1. /\ CvEntry(st, OnPath(st, Window), create_vector[r], r)
      /\ r \in use_spec_cv <=> \E s \in OffPath(st, Window) : Makes(st, s, r)
      /\ r \in use_spec_cv => CvEntry(st, OffPath(st, Window), spec_create_vector[r], r)
  BY DEF CvInv, CvOk
<1>2. /\ Window = OnPath(st, Window) \cup OffPath(st, Window)
      /\ \A s \in OnPath(st, Window), t \in OffPath(st, Window) : st[s].seq < st[t].seq
      /\ \A s \in Window : st[s].seq \in Nat
      /\ OnPath(st, Window) \subseteq Window /\ OffPath(st, Window) \subseteq Window
  BY SpecYounger, WindowParts DEF OnPath, OffPath
<1>3. CASE r \in use_spec_cv
  <2>1. CREATE_VECTOR(r) = spec_create_vector[r]
    BY <1>3 DEF CREATE_VECTOR
  <2>2. PICK u \in OffPath(st, Window) : Makes(st, u, r)
    BY <1>1, <1>3
  <2>3. CvEntry(st, Window, spec_create_vector[r], r)
    <3>1. CASE spec_create_vector[r] = CVLINK_NULL
      BY <1>1, <1>2, <1>3, <2>2, <3>1 DEF CvEntry
    <3>2. CASE spec_create_vector[r] # CVLINK_NULL
      BY <1>1, <1>2, <1>3, <3>2 DEF CvEntry
    <3> QED
      BY <3>1, <3>2
  <2> QED
    BY <2>1, <2>3
<1>4. CASE r \notin use_spec_cv
  <2>1. CREATE_VECTOR(r) = create_vector[r]
    BY <1>4 DEF CREATE_VECTOR
  <2> QED
    BY <1>1, <1>2, <1>4, <2>1 DEF CvEntry
<1> QED
  BY <1>3, <1>4

RegInv == TypeInv /\ OrderInv /\ SpecInv /\ InstOk /\ CvInv

LEMMA RegInvAlways == Spec => []RegInv
<1>1. Init => InstOk /\ CvInv
  BY InitInstOk, InitCvInv
<1>2. TypeInv /\ OrderInv /\ SpecInv /\ (InstOk /\ CvInv) /\ [Next]_vars => (InstOk /\ CvInv)'
  BY InstOkStep, CvInvStep
<1>3. Spec => []SpecInv
  <2>1. Init => SpecInv
    BY InitSpecInv
  <2>2. TypeInv /\ SpecInv /\ [Next]_vars => SpecInv'
    BY SpecInvStep
  <2> QED
    BY <2>1, <2>2, TypeInvAlways, PTL DEF Spec
<1>4. TypeInv /\ OrderInv /\ SpecInv /\ (InstOk /\ CvInv) => RegInv
  BY DEF RegInv
<1> QED
  BY <1>1, <1>2, <1>3, <1>4, TypeInvAlways, OrderInvAlways, PTL DEF Spec

\* In every run of every machine the create vector names, for every register,
\* the youngest writer of the window that has not completed, on a wrong path
\* as well as after the recovery from it: what ruu_dispatch installs,
\* ruu_writeback clears and ruu_recover falls back to by clearing use_spec_cv.
THEOREM CreateVectorIsPrecise == Spec => []CreateVectorPrecise
<1>1. ASSUME RegInv PROVE CreateVectorPrecise
  <2>1. /\ Named(st, Window) /\ Window \subseteq Slots
        /\ inst_seq \in Nat /\ \A s \in Window : st[s].seq <= inst_seq
    BY <1>1, WindowNamed, WindowParts DEF RegInv, TypeInv, OrderTyped
  <2>2. ASSUME NEW r \in RegNames PROVE CREATE_VECTOR(r) = Creator(r, Window)
    <3>1. CREATE_VECTOR(r) \in CvRange
      BY <1>1 DEF RegInv, TypeInv, CvTyped, CREATE_VECTOR
    <3>2. CvEntry(st, Window, CREATE_VECTOR(r), r)
      BY <1>1, EntryOfAll DEF RegInv
    <3> QED
      BY <1>1, <2>1, <3>1, <3>2, EntryIsCreator DEF RegInv
  <2>3. ASSUME NEW r \in RegNames
        PROVE  create_vector[r] = Creator(r, OnPath(st, Window))
    <3>1. /\ OnPath(st, Window) \subseteq Window /\ Named(st, OnPath(st, Window))
          /\ \A s \in OnPath(st, Window) : st[s].seq <= inst_seq
      BY <2>1 DEF OnPath, Named
    <3>2. create_vector[r] \in CvRange
      BY <1>1 DEF RegInv, TypeInv, CvTyped
    <3>3. CvEntry(st, OnPath(st, Window), create_vector[r], r)
      BY <1>1 DEF RegInv, CvInv, CvOk
    <3> QED
      BY <1>1, <2>1, <3>1, <3>2, <3>3, EntryIsCreator DEF RegInv
  <2> QED
    BY <2>2, <2>3 DEF CreateVectorPrecise, OnPath
<1> QED
  BY <1>1, RegInvAlways, PTL

-----------------------------------------------------------------------------
(* Wakeup: the RS_LINKs on the output lists *)

Link(s, t, k) == [rs |-> s, tag |-> t, opnum |-> k]

\* How many links output o of c has to operand k of what s holds at tag t.
LinksTo(S, c, o, s, t, k) == Links(S, c, o, Link(s, t, k))

\* What such a link says of the two stations.
LinkSound(S, W, c, o, s, t, k) ==
    /\ c \in W /\ ~S[c].completed /\ S[c].onames[o] # NA
    /\ t <= S[s].tag
    /\ t = S[s].tag => s \in W /\ ~S[s].idep_ready[k] /\ S[c].seq < S[s].seq

OneLink(S, s, k) ==
    \E c \in Slots, o \in 1 .. 2 :
        /\ LinksTo(S, c, o, s, S[s].tag, k) = 1
        /\ \A d \in Slots, p \in 1 .. 2 :
              d # c \/ p # o => LinksTo(S, d, p, s, S[s].tag, k) = 0

WakeOk(S, W) ==
    /\ \A c \in Slots, o \in 1 .. 2 : \A s \in Slots, k \in 1 .. 3, t \in Nat :
          LinksTo(S, c, o, s, t, k) # 0 => LinkSound(S, W, c, o, s, t, k)
    /\ \A s \in W, k \in 1 .. 3 : ~S[s].idep_ready[k] => OneLink(S, s, k)

WakeInv == WakeOk(st, Window)

LEMMA ListOfNone ==
    ASSUME NEW S, Lists(S), NEW c \in Slots, NEW o \in 1 .. 2,
           \A s \in Slots, k \in 1 .. 3, t \in Nat : LinksTo(S, c, o, s, t, k) = 0
    PROVE  S[c].odep_list[o] = <<>>
<1>1. PICK q : q = S[c].odep_list[o]
  OBVIOUS
<1>2. q \in Seq(LinkType)
  BY <1>1 DEF Lists
<1>3. ASSUME NEW i \in DOMAIN q PROVE FALSE
  <2>1. q[i] \in LinkType
    BY <1>2, <1>3
  <2>2. q[i] = Link(q[i].rs, q[i].tag, q[i].opnum)
    BY <2>1 DEF LinkType, Link
  <2>3. q[i].rs \in Slots /\ q[i].tag \in Nat /\ q[i].opnum \in 1 .. 3
    BY <2>1 DEF LinkType
  <2>4. Links(S, c, o, q[i]) = 0
    BY <2>2, <2>3 DEF LinksTo
  <2> QED
    BY <1>1, <1>3, <2>4, LinksZero
<1>4. Len(q) \in Nat /\ DOMAIN q = 1 .. Len(q)
  BY <1>2
<1>5. Len(q) = 0
  BY <1>3, <1>4
<1> QED
  BY <1>1, <1>2, <1>5

LEMMA LinksToNone ==
    ASSUME NEW S, NEW c, NEW o, S[c].odep_list[o] = <<>>
    PROVE  \A s, t, k : LinksTo(S, c, o, s, t, k) = 0
  BY LinksEmpty DEF LinksTo

\* What has completed, or is outside of the window, has no consumers.
LEMMA DoneListsEmpty ==
    ASSUME NEW S, Lists(S), NEW W, WakeOk(S, W), NEW c \in Slots, NEW o \in 1 .. 2,
           c \notin W \/ S[c].completed \/ S[c].onames[o] = NA
    PROVE  S[c].odep_list[o] = <<>>
<1>1. \A s \in Slots, k \in 1 .. 3, t \in Nat : LinksTo(S, c, o, s, t, k) = 0
  BY DEF WakeOk, LinkSound
<1> QED
  BY <1>1, ListOfNone

\* T is S, as far as the links go.
SameLinks(S, T) ==
    \A s \in Slots : /\ \A o \in 1 .. 2 : T[s].odep_list[o] = S[s].odep_list[o]
                     /\ T[s].tag = S[s].tag /\ T[s].idep_ready = S[s].idep_ready
                     /\ T[s].seq = S[s].seq /\ T[s].onames = S[s].onames

LEMMA WakeKept ==
    ASSUME NEW S, NEW T, SameLinks(S, T), NEW W \in SUBSET Slots,
           \A s \in Slots, o \in 1 .. 2 :
              T[s].completed = S[s].completed \/ S[s].onames[o] = NA,
           WakeOk(S, W)
    PROVE  WakeOk(T, W)
<1>1. \A c \in Slots, o \in 1 .. 2 : \A s, t, k :
         LinksTo(T, c, o, s, t, k) = LinksTo(S, c, o, s, t, k)
  BY DEF SameLinks, LinksTo, Links
<1>2. ASSUME NEW c \in Slots, NEW o \in 1 .. 2, NEW s \in Slots, NEW k \in 1 .. 3,
             NEW t \in Nat, LinksTo(T, c, o, s, t, k) # 0
      PROVE  LinkSound(T, W, c, o, s, t, k)
  <2>1. LinkSound(S, W, c, o, s, t, k)
    BY <1>1, <1>2 DEF WakeOk
  <2> QED
    BY <2>1 DEF LinkSound, SameLinks
<1>3. ASSUME NEW s \in W, NEW k \in 1 .. 3, ~T[s].idep_ready[k] PROVE OneLink(T, s, k)
  <2>1. OneLink(S, s, k) /\ T[s].tag = S[s].tag
    BY <1>3 DEF WakeOk, SameLinks
  <2> QED
    BY <1>1, <2>1 DEF OneLink
<1> QED
  BY <1>2, <1>3 DEF WakeOk

\* The stations of W \ V retire.
LEMMA WakeRetired ==
    ASSUME NEW S, NEW T, NEW W \in SUBSET Slots, NEW V \in SUBSET W,
           \A s \in Slots : S[s].tag \in Nat,
           \A s \in Slots :
              /\ T[s].odep_list = S[s].odep_list /\ T[s].idep_ready = S[s].idep_ready
              /\ T[s].seq = S[s].seq /\ T[s].onames = S[s].onames
              /\ T[s].completed = S[s].completed
              /\ T[s].tag = IF s \in W \ V THEN S[s].tag + 1 ELSE S[s].tag,
           \A s \in W \ V : S[s].completed,
           WakeOk(S, W)
    PROVE  WakeOk(T, V)
<1>1. \A c \in Slots, o \in 1 .. 2 : \A s, t, k :
         LinksTo(T, c, o, s, t, k) = LinksTo(S, c, o, s, t, k)
  BY DEF LinksTo, Links
<1>2. ASSUME NEW c \in Slots, NEW o \in 1 .. 2, NEW s \in Slots, NEW k \in 1 .. 3,
             NEW t \in Nat, LinksTo(T, c, o, s, t, k) # 0
      PROVE  LinkSound(T, V, c, o, s, t, k)
  <2>1. LinkSound(S, W, c, o, s, t, k)
    BY <1>1, <1>2 DEF WakeOk
  <2>2. c \in V /\ t <= T[s].tag
    BY <2>1 DEF LinkSound
  <2>3. t = T[s].tag => t = S[s].tag /\ s \notin W \ V
    BY <2>1 DEF LinkSound
  <2> QED
    BY <2>1, <2>2, <2>3 DEF LinkSound
<1>3. ASSUME NEW s \in V, NEW k \in 1 .. 3, ~T[s].idep_ready[k] PROVE OneLink(T, s, k)
  <2>1. OneLink(S, s, k) /\ T[s].tag = S[s].tag
    BY <1>3 DEF WakeOk
  <2> QED
    BY <1>1, <2>1 DEF OneLink
<1> QED
  BY <1>2, <1>3 DEF WakeOk

\* The stations of W \ V are squashed.
LEMMA WakeSquashed ==
    ASSUME NEW S, NEW T, NEW W \in SUBSET Slots, NEW V \in SUBSET W,
           \A s \in Slots : S[s].tag \in Nat /\ S[s].seq \in Nat,
           \A s \in Slots :
              /\ T[s].idep_ready = S[s].idep_ready
              /\ T[s].seq = S[s].seq /\ T[s].onames = S[s].onames
              /\ T[s].completed = S[s].completed
              /\ T[s].tag = IF s \in W \ V THEN S[s].tag + 1 ELSE S[s].tag
              /\ T[s].odep_list = IF s \in W \ V THEN << <<>>, <<>> >>
                                  ELSE S[s].odep_list,
           \A s \in V, t \in W \ V : S[s].seq < S[t].seq,
           WakeOk(S, W)
    PROVE  WakeOk(T, V)
<1>1. \A c \in Slots, o \in 1 .. 2 : \A s, t, k :
         LinksTo(T, c, o, s, t, k) = IF c \in W \ V THEN 0 ELSE LinksTo(S, c, o, s, t, k)
  <2> TAKE c \in Slots, o \in 1 .. 2
  <2>1. CASE c \in W \ V
    <3>1. T[c].odep_list[o] = <<>>
      BY <2>1
    <3> QED
      BY <2>1, <3>1, LinksToNone
  <2>2. CASE c \notin W \ V
    <3>1. T[c].odep_list[o] = S[c].odep_list[o]
      BY <2>2
    <3> QED
      BY <2>2, <3>1 DEF LinksTo, Links
  <2> QED
    BY <2>1, <2>2
<1>2. ASSUME NEW c \in Slots, NEW o \in 1 .. 2, NEW s \in Slots, NEW k \in 1 .. 3,
             NEW t \in Nat, LinksTo(T, c, o, s, t, k) # 0
      PROVE  LinkSound(T, V, c, o, s, t, k)
  <2>1. LinkSound(S, W, c, o, s, t, k) /\ c \notin W \ V
    BY <1>1, <1>2 DEF WakeOk
  <2>2. c \in V /\ t <= T[s].tag
    BY <2>1 DEF LinkSound
  <2>3. t = T[s].tag => t = S[s].tag /\ s \notin W \ V
    BY <2>1 DEF LinkSound
  <2> QED
    BY <2>1, <2>2, <2>3 DEF LinkSound
<1>3. ASSUME NEW s \in V, NEW k \in 1 .. 3, ~T[s].idep_ready[k] PROVE OneLink(T, s, k)
  <2>1. OneLink(S, s, k) /\ T[s].tag = S[s].tag
    BY <1>3 DEF WakeOk
  <2>2. PICK c \in Slots, o \in 1 .. 2 :
           /\ LinksTo(S, c, o, s, S[s].tag, k) = 1
           /\ \A d \in Slots, p \in 1 .. 2 :
                 d # c \/ p # o => LinksTo(S, d, p, s, S[s].tag, k) = 0
    BY <2>1 DEF OneLink
  <2>3. c \notin W \ V
    <3>1. LinkSound(S, W, c, o, s, S[s].tag, k)
      BY <2>2 DEF WakeOk
    <3>2. S[c].seq < S[s].seq
      BY <3>1 DEF LinkSound
    <3> QED
      BY <3>2
  <2> QED
    BY <1>1, <2>1, <2>2, <2>3 DEF OneLink
<1> QED
  BY <1>2, <1>3 DEF WakeOk

\* The consumers that the writeback of c tells.
LEMMA ToldIs ==
    ASSUME NEW S, Lists(S), NEW W, WakeOk(S, W), NEW c \in Slots,
           NEW x \in Slots, NEW k \in 1 .. 3
    PROVE  Told(S, OutputLinks(S[c]), x, k)
              <=> \E o \in 1 .. 2 : LinksTo(S, c, o, x, S[x].tag, k) # 0
<1>1. PICK q1, q2, l : /\ q1 = S[c].odep_list[1] /\ q2 = S[c].odep_list[2]
                       /\ l = OutputLinks(S[c])
  OBVIOUS
<1>2. q1 \in Seq(LinkType) /\ q2 \in Seq(LinkType)
  BY <1>1 DEF Lists
<1>3. /\ S[c].onames[1] = NA => q1 = <<>>
      /\ S[c].onames[2] = NA => q2 = <<>>
  BY <1>1, DoneListsEmpty
<1>4. l = q1 \o q2
  BY <1>1, <1>3 DEF OutputLinks
<1>5. \A e : (\E i \in DOMAIN l : l[i] = e)
               <=> (\E i \in DOMAIN q1 : q1[i] = e) \/ (\E i \in DOMAIN q2 : q2[i] = e)
  <2> TAKE e
  <2>1. /\ Len(l) = Len(q1) + Len(q2) /\ DOMAIN l = 1 .. Len(l)
        /\ \A i \in 1 .. Len(l) : l[i] = IF i <= Len(q1) THEN q1[i] ELSE q2[i - Len(q1)]
    BY <1>2, <1>4
  <2>2. /\ Len(q1) \in Nat /\ Len(q2) \in Nat
        /\ DOMAIN q1 = 1 .. Len(q1) /\ DOMAIN q2 = 1 .. Len(q2)
    BY <1>2
  <2>3. ASSUME NEW i \in DOMAIN q2 PROVE i + Len(q1) \in DOMAIN l /\ l[i + Len(q1)] = q2[i]
    BY <2>1, <2>2
  <2>4. \A i \in DOMAIN q1 : i \in DOMAIN l /\ l[i] = q1[i]
    BY <2>1, <2>2
  <2>5. \A i \in DOMAIN l : i \notin DOMAIN q1 => i - Len(q1) \in DOMAIN q2
    BY <2>1, <2>2
  <2>6. \A i \in DOMAIN l : i \notin DOMAIN q1 => l[i] = q2[i - Len(q1)]
    BY <2>1, <2>2
  <2> QED
    BY <2>3, <2>4, <2>5, <2>6
<1>6. \A i \in DOMAIN l : l[i] \in LinkType
  BY <1>2, <1>4, ConcatTyped
<1>7. Told(S, l, x, k) <=> \E i \in DOMAIN l : l[i] = Link(x, S[x].tag, k)
  <2>1. ASSUME NEW i \in DOMAIN l
        PROVE  RSLINK_VALID(l[i], S) /\ l[i].rs = x /\ l[i].opnum = k
                 <=> l[i] = Link(x, S[x].tag, k)
    BY <1>6 DEF LinkType, Link, RSLINK_VALID
  <2> QED
    BY <2>1 DEF Told
<1>8. /\ LinksTo(S, c, 1, x, S[x].tag, k) # 0 <=> \E i \in DOMAIN q1 : q1[i] = Link(x, S[x].tag, k)
      /\ LinksTo(S, c, 2, x, S[x].tag, k) # 0 <=> \E i \in DOMAIN q2 : q2[i] = Link(x, S[x].tag, k)
  BY <1>1, LinksZero DEF LinksTo
<1> QED
  BY <1>1, <1>5, <1>7, <1>8

\* A writeback tells all who wait for it, and has nobody waiting afterwards.
LEMMA WakeDone ==
    ASSUME NEW S, Typed(S), NEW T, NEW W \in SUBSET Slots, WakeOk(S, W), NEW c \in Slots,
           SameInst(st[c], S[c]), NEW woken, Completed(S, T, c, OutputLinks(S[c]), woken)
    PROVE  WakeOk(T, W)
<1>0. Lists(S) /\ \A s \in Slots : S[s].tag \in Nat
  BY DEF Typed
<1>1. \A o \in 1 .. 2 : T[c].odep_list[o] = <<>>
  <2> TAKE o \in 1 .. 2
  <2>1. st[c].onames[o] = NA => S[c].odep_list[o] = <<>>
    BY <1>0, DoneListsEmpty DEF SameInst
  <2>2. T[c].odep_list[o] = IF st[c].onames[o] = NA THEN S[c].odep_list[o] ELSE <<>>
    BY DEF Completed
  <2> QED
    BY <2>1, <2>2
<1>2. \A d \in Slots, o \in 1 .. 2 : \A s, t, k :
         LinksTo(T, d, o, s, t, k) = IF d = c THEN 0 ELSE LinksTo(S, d, o, s, t, k)
  <2> TAKE d \in Slots, o \in 1 .. 2
  <2>1. CASE d = c
    BY <1>1, <2>1, LinksToNone
  <2>2. CASE d # c
    <3>1. T[d].odep_list = S[d].odep_list
      BY <2>2 DEF Completed
    <3> QED
      BY <2>2, <3>1 DEF LinksTo, Links
  <2> QED
    BY <2>1, <2>2
<1>3. \A s \in Slots, k \in 1 .. 3 :
         T[s].idep_ready[k] <=> \/ S[s].idep_ready[k]
                                \/ \E o \in 1 .. 2 : LinksTo(S, c, o, s, S[s].tag, k) # 0
  <2> TAKE s \in Slots, k \in 1 .. 3
  <2>1. T[s].idep_ready = [j \in 1 .. 3 |-> S[s].idep_ready[j] \/
                                            Told(S, OutputLinks(S[c]), s, j)]
    BY DEF Completed
  <2>2. T[s].idep_ready[k] <=> S[s].idep_ready[k] \/ Told(S, OutputLinks(S[c]), s, k)
    BY <2>1, Zenon
  <2> QED
    BY <1>0, <2>2, ToldIs
<1>4. \A s \in Slots : /\ T[s].tag = S[s].tag /\ T[s].seq = S[s].seq
                       /\ T[s].onames = S[s].onames
                       /\ s # c => T[s].completed = S[s].completed
  BY DEF Completed, SameInst
<1>5. ASSUME NEW d \in Slots, NEW o \in 1 .. 2, NEW s \in Slots, NEW k \in 1 .. 3,
             NEW t \in Nat, LinksTo(T, d, o, s, t, k) # 0
      PROVE  LinkSound(T, W, d, o, s, t, k)
  <2>1. d # c /\ LinksTo(S, d, o, s, t, k) # 0
    BY <1>2, <1>5
  <2>2. LinkSound(S, W, d, o, s, t, k)
    BY <2>1 DEF WakeOk
  <2>3. ASSUME t = S[s].tag PROVE ~T[s].idep_ready[k]
    <3>1. s \in W /\ ~S[s].idep_ready[k]
      BY <2>2, <2>3 DEF LinkSound
    <3>2. OneLink(S, s, k)
      BY <3>1 DEF WakeOk
    <3>3. \A p \in 1 .. 2 : LinksTo(S, c, p, s, S[s].tag, k) = 0
      BY <2>1, <2>3, <3>2 DEF OneLink
    <3> QED
      BY <1>3, <3>1, <3>3
  <2> QED
    BY <1>4, <2>1, <2>2, <2>3 DEF LinkSound
<1>6. ASSUME NEW s \in W, NEW k \in 1 .. 3, ~T[s].idep_ready[k] PROVE OneLink(T, s, k)
  <2>1. /\ ~S[s].idep_ready[k] /\ \A o \in 1 .. 2 : LinksTo(S, c, o, s, S[s].tag, k) = 0
    BY <1>3, <1>6
  <2>2. OneLink(S, s, k)
    BY <2>1 DEF WakeOk
  <2>3. PICK d \in Slots, p \in 1 .. 2 :
           /\ LinksTo(S, d, p, s, S[s].tag, k) = 1
           /\ \A e \in Slots, q \in 1 .. 2 :
                 e # d \/ q # p => LinksTo(S, e, q, s, S[s].tag, k) = 0
    BY <2>2 DEF OneLink
  <2>4. d # c
    BY <2>1, <2>3
  <2>5. T[s].tag = S[s].tag
    BY <1>4
  <2>6. LinksTo(T, d, p, s, T[s].tag, k) = 1
    BY <1>2, <2>3, <2>4, <2>5
  <2>7. \A e \in Slots, q \in 1 .. 2 :
           e # d \/ q # p => LinksTo(T, e, q, s, T[s].tag, k) = 0
    BY <1>2, <2>3, <2>5
  <2> QED
    BY <2>6, <2>7 DEF OneLink
<1> QED
  BY <1>5, <1>6 DEF WakeOk

\* A dependence is on an operation of the window that has not completed, or of
\* a load or store on its own address computation.
Founded(d) ==
    \/ /\ d.creator.rs \in Window /\ ~st[d.creator.rs].completed
       /\ st[d.creator.rs].onames[d.creator.odep_num] # NA
    \/ Is(DispOp, "F_MEM") /\ d.rs = NewLsq /\ d.creator = CVLINK_INIT(NewRuu, 1)

\* The dependences q are founded, and at most one for each of the operands K.
DepList(q, K) ==
    /\ q \in Seq(DependsType)
    /\ \A i \in DOMAIN q : <<q[i].rs, q[i].opnum>> \in K /\ Founded(q[i])
    /\ \A i, j \in DOMAIN q : q[i].rs = q[j].rs /\ q[i].opnum = q[j].opnum => i = j

LEMMA DepListConcat ==
    ASSUME NEW q, NEW r, NEW K, NEW J, DepList(q, K), DepList(r, J), K \cap J = {}
    PROVE  DepList(q \o r, K \cup J)
<1>1. q \in Seq(DependsType) /\ r \in Seq(DependsType)
  BY DEF DepList
<1>2. PICK c : c = q \o r
  OBVIOUS
<1>3. /\ c \in Seq(DependsType) /\ Len(c) = Len(q) + Len(r)
      /\ DOMAIN c = 1 .. Len(c) /\ DOMAIN q = 1 .. Len(q) /\ DOMAIN r = 1 .. Len(r)
      /\ Len(q) \in Nat /\ Len(r) \in Nat
      /\ \A i \in 1 .. Len(c) : c[i] = IF i <= Len(q) THEN q[i] ELSE r[i - Len(q)]
  BY <1>1, <1>2
<1>4. \A i \in DOMAIN c : \/ i \in DOMAIN q /\ c[i] = q[i]
                          \/ i - Len(q) \in DOMAIN r /\ c[i] = r[i - Len(q)]
  BY <1>3
<1>5. \A i \in DOMAIN c : <<c[i].rs, c[i].opnum>> \in K \cup J /\ Founded(c[i])
  BY <1>4 DEF DepList
<1>6. \A i, j \in DOMAIN c : c[i].rs = c[j].rs /\ c[i].opnum = c[j].opnum => i = j
  <2> TAKE i, j \in DOMAIN c
  <2> SUFFICES ASSUME c[i].rs = c[j].rs, c[i].opnum = c[j].opnum PROVE i = j
    OBVIOUS
  <2>1. i \in Nat /\ j \in Nat
    BY <1>3
  <2>2. CASE i <= Len(q) /\ j <= Len(q)
    BY <1>3, <2>1, <2>2 DEF DepList
  <2>3. CASE i > Len(q) /\ j > Len(q)
    <3>1. i - Len(q) \in DOMAIN r /\ j - Len(q) \in DOMAIN r
      BY <1>3, <2>1, <2>3
    <3>2. c[i] = r[i - Len(q)] /\ c[j] = r[j - Len(q)]
      BY <1>3, <2>1, <2>3
    <3>3. i - Len(q) = j - Len(q)
      BY <3>1, <3>2 DEF DepList
    <3> QED
      BY <1>3, <2>1, <3>3
  <2>4. ASSUME NEW a \in DOMAIN c, NEW b \in DOMAIN c, a <= Len(q), b > Len(q),
               c[a].rs = c[b].rs, c[a].opnum = c[b].opnum
        PROVE  FALSE
    <3>1. a \in DOMAIN q /\ c[a] = q[a] /\ b - Len(q) \in DOMAIN r /\ c[b] = r[b - Len(q)]
      BY <1>3, <2>4
    <3>2. /\ <<q[a].rs, q[a].opnum>> \in K
          /\ <<r[b - Len(q)].rs, r[b - Len(q)].opnum>> \in J
      BY <3>1 DEF DepList
    <3> QED
      BY <2>4, <3>1, <3>2
  <2> QED
    BY <1>3, <2>1, <2>2, <2>3, <2>4
<1> QED
  BY <1>2, <1>3, <1>5, <1>6 DEF DepList

LEMMA DepListWaits ==
    ASSUME TypeInv, OrderInv, SpecInv, CvInv, NEW s \in Slots, NEW k \in 1 .. 3,
           NEW r \in Regs \cup {NA}
    PROVE  DepList(Waits(s, k, r), {<<s, k>>})
<1>1. Waits(s, k, r) \in Seq(DependsType)
  BY WaitsTyped DEF TypeInv
<1>2. CASE r = NA \/ CREATE_VECTOR(r) = CVLINK_NULL
  <2>1. Waits(s, k, r) = <<>>
    BY <1>2 DEF Waits
  <2> QED
    BY <1>1, <2>1 DEF DepList
<1>3. CASE ~(r = NA \/ CREATE_VECTOR(r) = CVLINK_NULL)
  <2>1. PICK d : d = Depends(s, k, CREATE_VECTOR(r))
    OBVIOUS
  <2>2. Waits(s, k, r) = <<d>>
    BY <1>3, <2>1 DEF Waits
  <2>3. d.rs = s /\ d.opnum = k /\ d.creator = CREATE_VECTOR(r)
    BY <2>1 DEF Depends
  <2>4. r \in RegNames /\ r # NA
    BY <1>3 DEF RegNames
  <2>5. CvEntry(st, Window, CREATE_VECTOR(r), r)
    BY <2>4, EntryOfAll
  <2>6. Founded(d)
    BY <1>3, <2>3, <2>4, <2>5 DEF CvEntry, Founded
  <2>7. DOMAIN <<d>> = {1} /\ <<d>>[1] = d
    OBVIOUS
  <2> QED
    BY <1>1, <2>2, <2>3, <2>6, <2>7 DEF DepList
<1> QED
  BY <1>2, <1>3

LEMMA InstDepsFounded ==
    ASSUME TypeInv, OrderInv, SpecInv, CvInv, CanDispatch
    PROVE  \E K : K \subseteq NewOnes \X (1 .. 3) /\ DepList(InstDeps, K)
<1>1. PICK u, v, in : u = NewRuu /\ v = NewLsq /\ in = DispInst.ins
  OBVIOUS
<1>2. /\ u \in Slots /\ v \in Slots /\ u # v
      /\ in[1] \in Regs \cup {NA} /\ in[2] \in Regs \cup {NA} /\ in[3] \in Regs \cup {NA}
  BY <1>1, NewSlots, DispTyped DEF TypeInv
<1>3. /\ DepList(Waits(u, 1, in[1]), {<<u, 1>>})
      /\ DepList(Waits(u, 2, in[2]), {<<u, 2>>})
      /\ DepList(Waits(u, 3, in[3]), {<<u, 3>>})
      /\ DepList(Waits(v, 1, in[1]), {<<v, 1>>})
  <2>1. 1 \in 1 .. 3 /\ 2 \in 1 .. 3 /\ 3 \in 1 .. 3
    OBVIOUS
  <2>2. DepList(Waits(u, 1, in[1]), {<<u, 1>>})
    BY <1>2, <2>1, DepListWaits, Zenon
  <2>3. DepList(Waits(u, 2, in[2]), {<<u, 2>>})
    BY <1>2, <2>1, DepListWaits, Zenon
  <2>4. DepList(Waits(u, 3, in[3]), {<<u, 3>>})
    BY <1>2, <2>1, DepListWaits, Zenon
  <2>5. DepList(Waits(v, 1, in[1]), {<<v, 1>>})
    BY <1>2, <2>1, DepListWaits, Zenon
  <2> QED
    BY <2>2, <2>3, <2>4, <2>5
<1>4. CASE Is(DispOp, "F_MEM")
  <2>1. PICK d : d = Depends(v, STORE_ADDR_INDEX, CVLINK_INIT(u, 1))
    OBVIOUS
  <2>2. d.rs = v /\ d.opnum = 2 /\ d.creator = CVLINK_INIT(u, 1)
    BY <2>1 DEF Depends, STORE_ADDR_INDEX
  <2>3. d \in DependsType
    BY <1>2, <2>1 DEF Depends, STORE_ADDR_INDEX, CVLINK_INIT, DependsType
  <2>4. Founded(d)
    BY <1>1, <1>4, <2>2 DEF Founded
  <2>5. <<d>> \in Seq(DependsType) /\ DOMAIN <<d>> = {1} /\ <<d>>[1] = d
    BY <2>3
  <2>6. DepList(<<d>>, {<<v, 2>>})
    BY <2>2, <2>4, <2>5 DEF DepList
  <2>7. PICK w2, w3, w1 : /\ w2 = Waits(u, 2, in[2]) /\ w3 = Waits(u, 3, in[3])
                          /\ w1 = Waits(v, 1, in[1])
    OBVIOUS
  <2>8. InstDeps = w2 \o w3 \o w1 \o <<d>>
    BY <1>1, <1>4, <2>1, <2>7 DEF InstDeps
  <2>9. DepList(w2 \o w3, {<<u, 2>>} \cup {<<u, 3>>})
    BY <1>3, <2>7, DepListConcat
  <2>10. DepList(w2 \o w3 \o w1, {<<u, 2>>} \cup {<<u, 3>>} \cup {<<v, 1>>})
    BY <1>2, <1>3, <2>7, <2>9, DepListConcat
  <2>11. DepList(w2 \o w3 \o w1 \o <<d>>,
                 {<<u, 2>>} \cup {<<u, 3>>} \cup {<<v, 1>>} \cup {<<v, 2>>})
    BY <1>2, <2>6, <2>10, DepListConcat
  <2>12. {<<u, 2>>} \cup {<<u, 3>>} \cup {<<v, 1>>} \cup {<<v, 2>>}
            \subseteq NewOnes \X (1 .. 3)
    BY <1>1, <1>4 DEF NewOnes
  <2> QED
    BY <2>8, <2>11, <2>12
<1>5. CASE ~Is(DispOp, "F_MEM")
  <2>7. PICK w1, w2, w3 : /\ w1 = Waits(u, 1, in[1]) /\ w2 = Waits(u, 2, in[2])
                          /\ w3 = Waits(u, 3, in[3])
    OBVIOUS
  <2>8. InstDeps = w1 \o w2 \o w3
    BY <1>1, <1>5, <2>7 DEF InstDeps
  <2>9. DepList(w1 \o w2, {<<u, 1>>} \cup {<<u, 2>>})
    BY <1>3, <2>7, DepListConcat
  <2>10. DepList(w1 \o w2 \o w3, {<<u, 1>>} \cup {<<u, 2>>} \cup {<<u, 3>>})
    BY <1>3, <2>7, <2>9, DepListConcat
  <2>12. {<<u, 1>>} \cup {<<u, 2>>} \cup {<<u, 3>>} \subseteq NewOnes \X (1 .. 3)
    BY <1>1 DEF NewOnes
  <2> QED
    BY <2>8, <2>10, <2>12
<1> QED
  BY <1>4, <1>5

\* What a dispatch fills, before the links are made.
LEMMA FilledLinks ==
    ASSUME TypeInv, OrderInv, WakeInv, CanDispatch, NEW F, NEW L, NEW npc, NEW addr,
           Installed(F, L, npc, addr), Install(npc, addr),
           RUU_head' = RUU_head, LSQ_head' = LSQ_head
    PROVE  /\ \A s \in Slots \ NewOnes : F[s] = st[s]
           /\ \A s \in Slots : F[s].tag = st[s].tag
           /\ \A u \in NewOnes : /\ ~F[u].completed
                                 /\ \A o \in 1 .. 2 : F[u].odep_list[o] = <<>>
                                 /\ \A k \in 1 .. 3 : F[u].idep_ready[k] <=>
                                      \A i \in DOMAIN InstDeps :
                                         ~(InstDeps[i].rs = u /\ InstDeps[i].opnum = k)
           /\ F[NewRuu].onames = RuuOuts
           /\ F[NewRuu].seq = inst_seq + 1
           /\ Is(DispOp, "F_MEM") => F[NewLsq].seq = inst_seq + 2
<1>1. /\ \A s \in Slots \ NewOnes : F[s] = st[s]
      /\ F[NewRuu].onames = RuuOuts
      /\ F[NewRuu].seq = inst_seq + 1
      /\ Is(DispOp, "F_MEM") => F[NewLsq].seq = inst_seq + 2
  BY DEF Installed, FilledIn, Filled
<1>2. /\ NewOnes \subseteq Slots /\ NewOnes \cap Window = {}
      /\ NewRuu \in Slots \ Window /\ NewLsq \in Slots \ Window
  BY DispatchAdds, NewSlots DEF TypeInv
<1>3. \A u \in Slots \ Window, o \in 1 .. 2 : st[u].odep_list[o] = <<>>
  BY DoneListsEmpty DEF WakeInv, TypeInv, Typed
<1>4. ASSUME NEW u \in NewOnes
      PROVE  /\ F[u].tag = st[u].tag /\ F[u].completed = FALSE
             /\ F[u].idep_ready = [k \in 1 .. 3 |->
                  \A i \in DOMAIN InstDeps :
                     ~(InstDeps[i].rs = u /\ InstDeps[i].opnum = k)]
             /\ \A o \in 1 .. 2 : F[u].odep_list[o] \in {st[u].odep_list[o], <<>>}
  <2>1. CASE u = NewRuu
    <3>1. Filled(F[u], u, RuuOp, inst_seq + 1, npc, Mispredicted(npc), 0, RuuOuts, InstDeps)
      BY <2>1 DEF Installed, FilledIn
    <3>2. \A o \in 1 .. 2 : F[u].odep_list[o] \in {st[u].odep_list[o], <<>>}
      BY <3>1 DEF Filled
    <3> QED
      BY <3>1, <3>2, Zenon DEF Filled
  <2>2. CASE u # NewRuu
    <3>1. u = NewLsq /\ Is(DispOp, "F_MEM")
      BY <2>2 DEF NewOnes
    <3>2. Filled(F[u], u, DispOp, inst_seq + 2, npc, FALSE, addr, DispInst.outs, InstDeps)
      BY <3>1 DEF Installed, FilledIn
    <3>3. \A o \in 1 .. 2 : F[u].odep_list[o] \in {st[u].odep_list[o], <<>>}
      BY <3>2 DEF Filled
    <3> QED
      BY <3>2, <3>3, Zenon DEF Filled
  <2> QED
    BY <2>1, <2>2
<1>5. ASSUME NEW u \in NewOnes, NEW o \in 1 .. 2 PROVE F[u].odep_list[o] = <<>>
  <2>1. F[u].odep_list[o] \in {st[u].odep_list[o], <<>>}
    BY <1>4
  <2>2. u \in Slots \ Window
    BY <1>2
  <2> QED
    BY <1>3, <2>1, <2>2
<1>6. ASSUME NEW u \in NewOnes, NEW k \in 1 .. 3
      PROVE  F[u].idep_ready[k] <=> \A i \in DOMAIN InstDeps :
                     ~(InstDeps[i].rs = u /\ InstDeps[i].opnum = k)
  BY <1>4, Zenon
<1>7. \A s \in Slots : F[s].tag = st[s].tag
  BY <1>1, <1>4
<1> QED
  BY <1>1, <1>4, <1>5, <1>6, <1>7

\* The links that a dispatch makes are founded, and one for each operand that
\* is not ready.
LEMMA DispatchWakeInv ==
    ASSUME TypeInv, OrderInv, SpecInv, CvInv, WakeInv, CanDispatch,
           NEW F, NEW L, NEW npc, NEW addr,
           Installed(F, L, npc, addr), Install(npc, addr),
           RUU_head' = RUU_head, LSQ_head' = LSQ_head
    PROVE  WakeInv'
<1>1. PICK S, T, W, N, deps, u, v :
         /\ S = st /\ T = st' /\ W = Window /\ N = NewOnes /\ deps = InstDeps
         /\ u = NewRuu /\ v = NewLsq
  OBVIOUS
<1>2. /\ W \subseteq Slots /\ N \subseteq Slots /\ N \cap W = {} /\ Window' = W \cup N
      /\ u \in N /\ inst_seq \in Nat /\ \A s \in W : S[s].seq \in Nat /\ S[s].seq <= inst_seq
      /\ WakeOk(S, W) /\ \A s \in Slots : S[s].tag \in Nat
  <2>1. N \subseteq Slots /\ N \cap W = {} /\ Window' = W \cup N
    BY <1>1, DispatchAdds
  <2>2. /\ W \subseteq Slots /\ inst_seq \in Nat
        /\ \A s \in W : S[s].seq \in Nat /\ S[s].seq <= inst_seq
    BY <1>1, WindowParts DEF TypeInv, OrderTyped
  <2> QED
    BY <1>1, <2>1, <2>2 DEF NewOnes, WakeInv, TypeInv, Typed
<1>3. /\ \A s \in Slots \ N : F[s] = S[s]
      /\ \A s \in Slots : F[s].tag = S[s].tag
      /\ \A s \in N : /\ ~F[s].completed
                      /\ \A o \in 1 .. 2 : F[s].odep_list[o] = <<>>
                      /\ \A k \in 1 .. 3 : F[s].idep_ready[k] <=>
                            \A i \in DOMAIN deps : ~(deps[i].rs = s /\ deps[i].opnum = k)
      /\ F[u].onames = RuuOuts /\ F[u].seq = inst_seq + 1
      /\ Is(DispOp, "F_MEM") => v \in N /\ F[v].seq = inst_seq + 2
      /\ \A s \in N : F[s].seq \in {inst_seq + 1, inst_seq + 2}
  BY <1>1, FilledLinks DEF NewOnes
<1>4. \A c \in Slots, o \in 1 .. 2 : \A s, t, k :
         LinksTo(F, c, o, s, t, k) = IF c \in N THEN 0 ELSE LinksTo(S, c, o, s, t, k)
  <2> TAKE c \in Slots, o \in 1 .. 2
  <2>1. CASE c \in N
    BY <1>3, <2>1, LinksToNone
  <2>2. CASE c \notin N
    BY <1>3, <2>2 DEF LinksTo, Links
  <2> QED
    BY <2>1, <2>2
<1>5. PICK K : K \subseteq N \X (1 .. 3) /\ DepList(deps, K)
  BY <1>1, InstDepsFounded
<1>6. /\ deps \in Seq(DependsType) /\ DOMAIN deps = 1 .. Len(deps) /\ Len(deps) \in Nat
      /\ \A i, j \in DOMAIN deps :
            deps[i].rs = deps[j].rs /\ deps[i].opnum = deps[j].opnum => i = j
  BY <1>5 DEF DepList
<1>7. ASSUME NEW i \in DOMAIN deps, NEW c, NEW o, NEW s,
             deps[i].creator = CVLINK_INIT(c, o), deps[i].rs = s
      PROVE  /\ s \in N /\ c \in W \cup N /\ ~F[c].completed /\ F[c].onames[o] # NA
             /\ F[c].seq < F[s].seq
  <2>1. <<deps[i].rs, deps[i].opnum>> \in K /\ Founded(deps[i])
    BY <1>5 DEF DepList
  <2>2. s \in N
    BY <1>5, <1>7, <2>1
  <2>3. deps[i].creator.rs = c /\ deps[i].creator.odep_num = o
    BY <1>7 DEF CVLINK_INIT
  <2>4. CASE c \in W /\ ~S[c].completed /\ S[c].onames[o] # NA
    <3>1. F[c] = S[c]
      BY <1>2, <1>3, <2>4
    <3>2. S[c].seq < F[s].seq
      BY <1>2, <1>3, <2>2, <2>4
    <3> QED
      BY <2>2, <2>4, <3>1, <3>2
  <2>5. CASE Is(DispOp, "F_MEM") /\ s = v /\ deps[i].creator = CVLINK_INIT(u, 1)
    <3>1. c = u /\ o = 1
      BY <2>3, <2>5 DEF CVLINK_INIT
    <3>2. F[u].onames[1] # NA
      BY <1>3, <2>5, NotRegs DEF RuuOuts
    <3>3. F[c].seq < F[s].seq
      BY <1>2, <1>3, <2>5, <3>1
    <3>4. ~F[u].completed
      BY <1>2, <1>3
    <3> QED
      BY <1>2, <2>2, <3>1, <3>2, <3>3, <3>4
  <2> QED
    BY <1>1, <1>7, <2>1, <2>3, <2>4, <2>5 DEF Founded
<1> DEFINE A(c, o, s, t, k) == Asks(F, deps, Len(deps), c, o, Link(s, t, k))
<1>8. \A c, o, s, t, k : \A i :
         i \in A(c, o, s, t, k) <=>
            /\ i \in DOMAIN deps /\ deps[i].creator = CVLINK_INIT(c, o)
            /\ deps[i].rs = s /\ deps[i].opnum = k /\ t = F[s].tag
  BY <1>6 DEF Asks, LinkOf, Link
<1>9. \A c, o, s, t, k : /\ IsFiniteSet(A(c, o, s, t, k))
                         /\ Cardinality(A(c, o, s, t, k)) \in Nat
                         /\ Cardinality(A(c, o, s, t, k)) = 0 <=> A(c, o, s, t, k) = {}
  <2> TAKE c, o, s, t, k
  <2>1. PICK B : B = A(c, o, s, t, k)
    OBVIOUS
  <2>2. B \in SUBSET (1 .. Len(deps))
    BY <1>6, <1>8, <2>1
  <2>3. IsFiniteSet(B) /\ Cardinality(B) \in Nat
    BY <1>6, <2>2, SubsetOfInterval
  <2>4. Cardinality(B) = 0 <=> B = {}
    BY <2>3, FS_EmptySet
  <2> QED
    BY <2>1, <2>3, <2>4
<1>10. \A c \in Slots, o \in 1 .. 2 : \A s, t, k :
          LinksTo(L, c, o, s, t, k) = LinksTo(F, c, o, s, t, k)
                                      + Cardinality(A(c, o, s, t, k))
  BY <1>1 DEF Installed, LinkedIn, LinksTo
<1>11. \A c \in Slots, o \in 1 .. 2 : \A s, t, k : LinksTo(S, c, o, s, t, k) \in Nat
  BY <1>1, LinksType DEF LinksTo, TypeInv, Typed
<1>12. \A s \in Slots : /\ L[s].tag = F[s].tag /\ L[s].idep_ready = F[s].idep_ready
                        /\ L[s].seq = F[s].seq /\ L[s].onames = F[s].onames
                        /\ L[s].completed = F[s].completed
  <2>1. ListsOnly(F, L)
    BY DEF Installed, LinkedIn
  <2> QED
    BY <2>1 DEF ListsOnly, SameInst, SameProgress
<1> HIDE DEF A
<1>13. ASSUME NEW c \in Slots, NEW o \in 1 .. 2, NEW s \in Slots, NEW k \in 1 .. 3,
              NEW t \in Nat, LinksTo(L, c, o, s, t, k) # 0
       PROVE  LinkSound(L, W \cup N, c, o, s, t, k)
  <2>1. CASE c \notin N /\ LinksTo(S, c, o, s, t, k) # 0
    <3>1. LinkSound(S, W, c, o, s, t, k)
      BY <1>2, <2>1 DEF WakeOk
    <3>2. c \in W /\ F[c] = S[c] /\ (s \in W => F[s] = S[s])
      BY <1>2, <1>3, <2>1, <3>1 DEF LinkSound
    <3> QED
      BY <1>3, <1>12, <3>1, <3>2 DEF LinkSound
  <2>2. CASE A(c, o, s, t, k) # {}
    <3>1. PICK i : i \in A(c, o, s, t, k)
      BY <2>2
    <3>2. /\ i \in DOMAIN deps /\ deps[i].creator = CVLINK_INIT(c, o)
          /\ deps[i].rs = s /\ deps[i].opnum = k /\ t = F[s].tag
      BY <1>8, <3>1
    <3>3. /\ s \in N /\ c \in W \cup N /\ ~F[c].completed /\ F[c].onames[o] # NA
          /\ F[c].seq < F[s].seq
      BY <1>7, <3>2
    <3>4. ~F[s].idep_ready[k]
      BY <1>3, <3>2, <3>3
    <3>5. t <= L[s].tag
      BY <1>12, <3>2
    <3> QED
      BY <1>12, <3>2, <3>3, <3>4, <3>5 DEF LinkSound
  <2> QED
    BY <1>4, <1>9, <1>10, <1>11, <1>13, <2>1, <2>2
<1>14. ASSUME NEW s \in W, NEW k \in 1 .. 3, ~L[s].idep_ready[k] PROVE OneLink(L, s, k)
  <2>1. s \in Slots /\ s \notin N /\ F[s] = S[s] /\ L[s].tag = S[s].tag
    BY <1>2, <1>3, <1>12
  <2>2. OneLink(S, s, k)
    BY <1>2, <1>12, <1>14, <2>1 DEF WakeOk
  <2>3. \A c, o, t : A(c, o, s, t, k) = {}
    BY <1>7, <1>8, <2>1
  <2>4. \A c \in Slots, o \in 1 .. 2 : \A t \in Nat :
           LinksTo(L, c, o, s, t, k) = LinksTo(F, c, o, s, t, k)
    <3> TAKE c \in Slots, o \in 1 .. 2
    <3> TAKE t \in Nat
    <3> QED
      BY <1>4, <1>9, <1>10, <1>11, <2>3
  <2>5. \A c \in N, o \in 1 .. 2 : LinksTo(S, c, o, s, S[s].tag, k) = 0
    BY <1>2, <2>1 DEF WakeOk, LinkSound
  <2>6. \A c \in Slots, o \in 1 .. 2 :
           LinksTo(L, c, o, s, L[s].tag, k) = LinksTo(S, c, o, s, S[s].tag, k)
    BY <1>2, <1>4, <2>1, <2>4, <2>5
  <2> QED
    BY <2>2, <2>6 DEF OneLink
<1>15. ASSUME NEW s \in N, NEW k \in 1 .. 3, ~L[s].idep_ready[k] PROVE OneLink(L, s, k)
  <2>1. s \in Slots /\ s \notin W /\ L[s].tag = S[s].tag /\ S[s].tag \in Nat
        /\ L[s].tag = F[s].tag
    BY <1>2, <1>3, <1>12
  <2>2. PICK i \in DOMAIN deps : deps[i].rs = s /\ deps[i].opnum = k
    BY <1>3, <1>12, <1>15, <2>1
  <2>3. PICK c, o : c = deps[i].creator.rs /\ o = deps[i].creator.odep_num
    OBVIOUS
  <2>4. c \in Slots /\ o \in 1 .. 2 /\ deps[i].creator = CVLINK_INIT(c, o)
    <3>1. deps[i] \in DependsType
      BY <1>6
    <3> QED
      BY <2>3, <3>1 DEF DependsType, CVLINK_INIT
  <2>5. \A d \in Slots, p \in 1 .. 2 : LinksTo(F, d, p, s, L[s].tag, k) = 0
    <3> TAKE d \in Slots, p \in 1 .. 2
    <3>1. LinksTo(S, d, p, s, S[s].tag, k) = 0
      BY <1>2, <2>1 DEF WakeOk, LinkSound
    <3> QED
      BY <1>4, <2>1, <3>1
  <2>6. A(c, o, s, L[s].tag, k) = {i}
    BY <1>6, <1>8, <2>1, <2>2, <2>4
  <2>7. LinksTo(L, c, o, s, L[s].tag, k) = 1
    <3>1. Cardinality({i}) = 1
      BY FS_Singleton
    <3> QED
      BY <1>10, <2>4, <2>5, <2>6, <3>1
  <2>8. ASSUME NEW d \in Slots, NEW p \in 1 .. 2, d # c \/ p # o
        PROVE  LinksTo(L, d, p, s, L[s].tag, k) = 0
    <3>1. A(d, p, s, L[s].tag, k) = {}
      <4>1. ASSUME NEW j \in A(d, p, s, L[s].tag, k) PROVE FALSE
        <5>1. j \in DOMAIN deps /\ deps[j].creator = CVLINK_INIT(d, p)
              /\ deps[j].rs = s /\ deps[j].opnum = k
          BY <1>8, <4>1
        <5>2. j = i
          BY <1>6, <2>2, <5>1
        <5>3. CVLINK_INIT(d, p).rs = d /\ CVLINK_INIT(d, p).odep_num = p
          BY DEF CVLINK_INIT
        <5> QED
          BY <2>3, <2>8, <5>1, <5>2, <5>3
      <4> QED
        BY <4>1
    <3> QED
      BY <1>9, <1>10, <2>5, <3>1
  <2> QED
    BY <2>4, <2>7, <2>8 DEF OneLink
<1>16. WakeOk(L, W \cup N)
  BY <1>13, <1>14, <1>15 DEF WakeOk
<1>17. SameLinks(L, T) /\ \A s \in Slots : T[s].completed = L[s].completed
  BY <1>1 DEF Installed, Marked, SameLinks, SameInst
<1>18. WakeOk(T, W \cup N)
  BY <1>2, <1>16, <1>17, WakeKept
<1> QED
  BY <1>1, <1>2, <1>18 DEF WakeInv

LEMMA InitWakeInv == Init => WakeInv
<1> SUFFICES ASSUME Init PROVE WakeInv
  OBVIOUS
<1>1. \A c \in Slots, o \in 1 .. 2 : st[c].odep_list[o] = <<>>
  BY DEF Init, EmptyStation
<1>2. \A c \in Slots, o \in 1 .. 2 : \A s, t, k : LinksTo(st, c, o, s, t, k) = 0
  BY <1>1, LinksToNone
<1> QED
  BY <1>2, InitWindow DEF WakeInv, WakeOk

\* T is S after the writeback of c, which wakes w.
WokenBy(S, T, c, w) ==
    w = Woken(S, OutputLinks(S[c])) /\ Completed(S, T, c, OutputLinks(S[c]), w)

\* A writeback squashes what leaves the window, the stations becoming S, and
\* then completes its operation and wakes w.
WritebackVia(S, w) ==
    /\ Typed(S) /\ Completing \in Slots
    /\ Window' \subseteq Window
    /\ \A s \in Slots :
          /\ SameInst(st[s], S[s]) /\ SameProgress(st[s], S[s])
          /\ S[s].idep_ready = st[s].idep_ready
          /\ S[s].tag = IF s \in Window \ Window' THEN st[s].tag + 1 ELSE st[s].tag
          /\ S[s].odep_list = IF s \in Window \ Window' THEN << <<>>, <<>> >>
                              ELSE st[s].odep_list
    /\ WokenBy(S, st', Completing, w)
    /\ ready_queue' = ReadyqEnqueue(ready_queue, w, S)
    /\ event_queue' = Tail(event_queue)
    /\ \E freed : /\ rslink_free' = rslink_free + 1 + freed
                                    + Len(OutputLinks(S[Completing])) - Len(w)
                  /\ freed = Cardinality(OdepPlaces(st, Window \ Window'))

LEMMA WritebackParts ==
    ASSUME TypeInv, OrderInv, SpecInv, WakeInv, WritebackOp \/ WritebackRecover, ~Panics
    PROVE  \E S, w : WritebackVia(S, w) /\ WakeOk(S, Window')
<1>1. PICK Q, T, W, V, c : /\ Q = st /\ T = st' /\ W = Window /\ V = Window'
                           /\ c = Completing
  OBVIOUS
<1>2. W \subseteq Slots /\ Typed(Q) /\ WakeOk(Q, W) /\ c \in Slots
  BY <1>1, WindowNamed, WritebackIs DEF TypeInv, WakeInv
<1> DEFINE Squash(S, freed) ==
      /\ Typed(S) /\ V \subseteq W /\ WakeOk(S, V) /\ Complete(c, S, freed)
      /\ \A s \in Slots :
            /\ SameInst(Q[s], S[s]) /\ SameProgress(Q[s], S[s])
            /\ S[s].idep_ready = Q[s].idep_ready
            /\ S[s].tag = IF s \in W \ V THEN Q[s].tag + 1 ELSE Q[s].tag
            /\ S[s].odep_list = IF s \in W \ V THEN << <<>>, <<>> >> ELSE Q[s].odep_list
      /\ freed = Cardinality(OdepPlaces(Q, W \ V))
<1>3. ASSUME WritebackOp PROVE \E S, freed : Squash(S, freed)
  <2>1. V = W /\ Complete(c, Q, 0)
    BY <1>1, <1>3, IdleWindow DEF WritebackOp
  <2>2. Cardinality(OdepPlaces(Q, W \ V)) = 0
    <3>1. OdepPlaces(Q, W \ V) = {}
      BY <2>1 DEF OdepPlaces
    <3> QED
      BY <3>1, FS_EmptySet
  <2>3. Squash(Q, 0)
    BY <1>2, <2>1, <2>2, SameInstSelf DEF SameProgress
  <2> QED
    BY <2>3
<1>4. ASSUME WritebackRecover PROVE \E S, freed : Squash(S, freed)
  <2>1. /\ V = {s \in W : ~Q[s].spec_mode} /\ Squashed(c) = {s \in W : Q[s].spec_mode}
        /\ \A s, t \in W : ~Q[s].spec_mode /\ Q[t].spec_mode => Q[s].seq < Q[t].seq
    BY <1>1, <1>4, RecoverTakes, SpecYounger
  <2>2. PICK S : S = SquashOf(c) /\ Complete(c, S, FreedLinks(c))
    BY <1>1, <1>4 DEF WritebackRecover, SquashOf
  <2>3. Typed(S)
    BY <1>1, <1>2, <2>2, TypedSquash
  <2>4. W \ V = Squashed(c) /\ V \subseteq W
    BY <2>1
  <2>5. \A s \in Slots :
          /\ SameInst(Q[s], S[s]) /\ SameProgress(Q[s], S[s])
          /\ S[s].idep_ready = Q[s].idep_ready
          /\ S[s].tag = IF s \in W \ V THEN Q[s].tag + 1 ELSE Q[s].tag
          /\ S[s].odep_list = IF s \in W \ V THEN << <<>>, <<>> >> ELSE Q[s].odep_list
    BY <1>1, <1>2, <2>2, <2>4, SquashIs DEF Typed
  <2>6. /\ \A s \in Slots : Q[s].tag \in Nat /\ Q[s].seq \in Nat
        /\ \A s \in V, t \in W \ V : Q[s].seq < Q[t].seq
    BY <1>2, <2>1, <2>4 DEF Typed, InstTyped
  <2>7. \A s \in Slots :
          /\ S[s].idep_ready = Q[s].idep_ready
          /\ S[s].seq = Q[s].seq /\ S[s].onames = Q[s].onames
          /\ S[s].completed = Q[s].completed
          /\ S[s].tag = IF s \in W \ V THEN Q[s].tag + 1 ELSE Q[s].tag
          /\ S[s].odep_list = IF s \in W \ V THEN << <<>>, <<>> >> ELSE Q[s].odep_list
    BY <2>5 DEF SameInst, SameProgress
  <2>8. WakeOk(S, V)
    BY <1>2, <2>4, <2>6, <2>7, WakeSquashed
  <2>9. FreedLinks(c) = Cardinality(OdepPlaces(Q, W \ V))
    BY <1>1, <2>4 DEF FreedLinks
  <2>10. Squash(S, FreedLinks(c))
    BY <2>2, <2>3, <2>4, <2>5, <2>8, <2>9
  <2> QED
    BY <2>10
<1>5. PICK S, freed : Squash(S, freed)
  BY <1>3, <1>4
<1>6. PICK w : w = Woken(S, OutputLinks(S[c]))
  OBVIOUS
<1>7. WokenBy(S, T, c, w)
  BY <1>1, <1>2, <1>5, <1>6, CompleteIs DEF WokenBy, Typed
<1>8. /\ ready_queue' = ReadyqEnqueue(ready_queue, w, S)
      /\ event_queue' = Tail(event_queue)
      /\ rslink_free' = rslink_free + 1 + freed + Len(OutputLinks(S[c])) - Len(w)
  BY <1>5, <1>6 DEF Complete
<1>9. WritebackVia(S, w)
  BY <1>1, <1>2, <1>5, <1>7, <1>8 DEF WritebackVia
<1> QED
  BY <1>1, <1>5, <1>9

LEMMA WakeInvStep ==
    ASSUME TypeInv, OrderInv, SpecInv, InstOk, CvInv, WakeInv, [Next]_vars
    PROVE  WakeInv'
<1> DEFINE Same(T) ==
      SameLinks(st, T) /\ \A s \in Slots, o \in 1 .. 2 :
              T[s].completed = st[s].completed \/ st[s].onames[o] = NA
<1>0. ASSUME UNCHANGED queueVars, Same(st') PROVE WakeInv'
  <2>1. Window' = Window /\ Window \subseteq Slots
    BY <1>0, IdleWindow, WindowNamed
  <2>2. PICK T, W : T = st' /\ W = Window
    OBVIOUS
  <2>3. WakeOk(T, W)
    BY <1>0, <2>1, <2>2, WakeKept DEF WakeInv
  <2> QED
    BY <2>1, <2>2, <2>3 DEF WakeInv
<1>1. CASE Idle
  BY <1>0, <1>1 DEF Idle, SameLinks
<1>2. CASE RuuCommit /\ ~Panics
  <2>1. /\ RetiredNow \subseteq Window /\ Window' = Window \ RetiredNow
        /\ \A s \in RetiredNow : st[s].completed
    BY <1>2, CommitTakes
  <2>2. PICK S, T, W, V, R : /\ S = st /\ T = st' /\ W = Window /\ V = Window'
                             /\ R = RetiredNow
    OBVIOUS
  <2>3. /\ W \subseteq Slots /\ V \subseteq W /\ W \ V = R
        /\ \A s \in Slots : S[s].tag \in Nat
    BY <2>1, <2>2, WindowNamed DEF TypeInv, Typed
  <2>4. \A s \in Slots :
              /\ T[s].odep_list = S[s].odep_list /\ T[s].idep_ready = S[s].idep_ready
              /\ T[s].seq = S[s].seq /\ T[s].onames = S[s].onames
              /\ T[s].completed = S[s].completed
              /\ T[s].tag = IF s \in W \ V THEN S[s].tag + 1 ELSE S[s].tag
    BY <1>2, <2>2, <2>3, RetireIs DEF Retired, SameInst, SameProgress, TypeInv, Typed
  <2>5. WakeOk(T, V)
    BY <2>1, <2>2, <2>3, <2>4, WakeRetired DEF WakeInv
  <2> QED
    BY <2>2, <2>5 DEF WakeInv
<1>3. CASE (WritebackOp \/ WritebackRecover) /\ ~Panics
  <2>1. PICK S, w : /\ WritebackVia(S, w) /\ WakeOk(S, Window')
    BY <1>3, WritebackParts
  <2>2. PICK T, V, c : T = st' /\ V = Window' /\ c = Completing
    OBVIOUS
  <2>3. /\ Typed(S) /\ c \in Slots /\ SameInst(st[c], S[c]) /\ V \subseteq Slots
        /\ Completed(S, T, c, OutputLinks(S[c]), w)
    BY <2>1, <2>2, WindowNamed DEF WritebackVia, WokenBy
  <2>4. WakeOk(T, V)
    BY <2>1, <2>2, <2>3, WakeDone
  <2> QED
    BY <2>2, <2>4 DEF WakeInv
<1>5. CASE LsqRefresh
  <2>1. PICK T : T = st'
    OBVIOUS
  <2>2. Marked(st, T, ReadyLoads)
    BY <1>5, <2>1, MarkQueuedIs DEF LsqRefresh, TypeInv, Typed
  <2>3. Same(T)
    BY <2>2 DEF Marked, SameInst, SameLinks
  <2> QED
    BY <1>0, <1>5, <2>1, <2>3 DEF LsqRefresh
<1>6. CASE IssueStore
  <2>1. PICK T, c : T = st' /\ c = Issuing
    OBVIOUS
  <2>2. Started(st, T, c, TRUE)
    BY <1>6, <2>1, IssueStoreIs DEF TypeInv, Typed
  <2>3. st[c].onames = <<NA, NA>>
    BY <1>6, <2>1, LsqSlotOf DEF IssueStore, IssueLive, RSLINK_VALID, Issuing, InstOk
  <2>4. \A s \in Slots, o \in 1 .. 2 :
           T[s].completed = st[s].completed \/ st[s].onames[o] = NA
    <3> TAKE s \in Slots, o \in 1 .. 2
    <3>1. s = c => st[s].onames[o] = NA
      BY <2>3
    <3>2. s # c => T[s].completed = st[s].completed
      BY <2>2 DEF Started
    <3> QED
      BY <3>1, <3>2
  <2>5. SameLinks(st, T)
    BY <2>2 DEF Started, SameInst, SameLinks
  <2> QED
    BY <1>0, <1>6, <2>1, <2>4, <2>5 DEF IssueStore
<1>7. CASE Starting
  <2>1. PICK T, lat : T = st' /\ Start(lat)
    BY <1>7 DEF Starting
  <2>2. Started(st, T, Issuing, FALSE)
    BY <1>7, <2>1, StartActionIs DEF TypeInv, Typed, Starting
  <2>3. Same(T)
    BY <2>2 DEF Started, SameInst, SameLinks
  <2> QED
    BY <1>0, <1>7, <2>1, <2>3 DEF Starting
<1>8. CASE DispatchInst
  <2>1. PICK npc \in PCs, addr \in Addrs \cup {0} : Install(npc, addr)
    BY <1>8, DispatchInstIs DEF TypeInv
  <2>2. CanDispatch /\ RUU_head' = RUU_head /\ LSQ_head' = LSQ_head
    BY <1>8 DEF DispatchInst
  <2>3. PICK F, L : Installed(F, L, npc, addr)
    BY <2>1, <2>2, InstallIs DEF TypeInv, OrderTyped
  <2> QED
    BY <2>1, <2>2, <2>3, DispatchWakeInv
<1> QED
  BY <1>1, <1>2, <1>3, <1>5, <1>6, <1>7, <1>8, StepKinds DEF StationSteps

LEMMA WakeInvAlways == Spec => [](RegInv /\ WakeInv)
<1>1. Init => WakeInv
  BY InitWakeInv
<1>2. RegInv /\ WakeInv /\ [Next]_vars => WakeInv'
  BY WakeInvStep DEF RegInv
<1> QED
  BY <1>1, <1>2, RegInvAlways, PTL DEF Spec

\* The places of the links to operand k of s.
PlacesTo(s, k) == {x \in LiveLinks : LinkAt(x).rs = s /\ LinkAt(x).opnum = k}

LEMMA PlacesToIs ==
    ASSUME TypeInv, NEW s \in Slots, NEW k \in 1 .. 3
    PROVE  /\ \A x \in PlacesTo(s, k) :
                 /\ x = <<x[1], x[2], x[3]>> /\ x[1] \in Slots /\ x[2] \in 1 .. 2
                 /\ x[3] \in Positions(st[x[1]].odep_list[x[2]], {Link(s, st[s].tag, k)})
                 /\ LinksTo(st, x[1], x[2], s, st[s].tag, k) # 0
           /\ \A c \in Slots, o \in 1 .. 2 :
                 \A i \in Positions(st[c].odep_list[o], {Link(s, st[s].tag, k)}) :
                    <<c, o, i>> \in PlacesTo(s, k)
<1>1. Lists(st) /\ \A c \in Slots : st[c].tag \in Nat
  BY DEF TypeInv, Typed
<1>2. \A c \in Slots, o \in 1 .. 2 : \A i \in DOMAIN st[c].odep_list[o] :
         LET e == st[c].odep_list[o][i]
         IN  RSLINK_VALID(e, st) /\ e.rs = s /\ e.opnum = k <=> e = Link(s, st[s].tag, k)
  <2> TAKE c \in Slots, o \in 1 .. 2
  <2> TAKE i \in DOMAIN st[c].odep_list[o]
  <2>1. st[c].odep_list[o][i] \in LinkType
    BY <1>1 DEF Lists
  <2> QED
    BY <2>1 DEF LinkType, Link, RSLINK_VALID
<1>3. ASSUME NEW x \in PlacesTo(s, k)
      PROVE  /\ x = <<x[1], x[2], x[3]>> /\ x[1] \in Slots /\ x[2] \in 1 .. 2
             /\ x[3] \in Positions(st[x[1]].odep_list[x[2]], {Link(s, st[s].tag, k)})
             /\ LinksTo(st, x[1], x[2], s, st[s].tag, k) # 0
  <2>1. x \in OdepPlaces(st, Slots)
    BY DEF PlacesTo, LiveLinks
  <2>2. /\ x = <<x[1], x[2], x[3]>> /\ x[1] \in Slots /\ x[2] \in 1 .. 2
        /\ x[3] \in DOMAIN st[x[1]].odep_list[x[2]]
    BY <2>1, PlaceIn
  <2>3. st[x[1]].odep_list[x[2]][x[3]] = Link(s, st[s].tag, k)
    BY <1>2, <2>2 DEF PlacesTo, LiveLinks, LinkAt
  <2>4. LinksTo(st, x[1], x[2], s, st[s].tag, k) # 0
    BY <1>1, <2>2, <2>3, LinksZero DEF LinksTo
  <2> QED
    BY <2>2, <2>3, <2>4 DEF Positions
<1>4. ASSUME NEW c \in Slots, NEW o \in 1 .. 2,
             NEW i \in Positions(st[c].odep_list[o], {Link(s, st[s].tag, k)})
      PROVE  <<c, o, i>> \in PlacesTo(s, k)
  <2>1. i \in DOMAIN st[c].odep_list[o] /\ st[c].odep_list[o][i] = Link(s, st[s].tag, k)
    BY DEF Positions
  <2>2. <<c, o, i>> \in OdepPlaces(st, Slots)
    BY <2>1, PlaceIn
  <2>3. LinkAt(<<c, o, i>>) = st[c].odep_list[o][i]
    BY DEF LinkAt
  <2> QED
    BY <1>2, <2>1, <2>2, <2>3 DEF PlacesTo, LiveLinks
<1> QED
  BY <1>3, <1>4

\* In every run of every machine an operand that is not ready waits on exactly
\* one link, of an older operation that has not completed, and a ready one on
\* none: ruu_link_idep makes one for each dependence, ruu_writeback takes all of
\* the operation it completes, and neither a commit nor a recovery takes one
\* whose consumer stays.
THEOREM NoWakeupIsLost == Spec => []NoLostWakeup
<1>1. ASSUME RegInv, WakeInv PROVE NoLostWakeup
  <2> SUFFICES ASSUME NEW s \in Window, NEW k \in 1 .. 3
               PROVE  IF st[s].idep_ready[k] THEN PlacesTo(s, k) = {}
                      ELSE /\ Cardinality(PlacesTo(s, k)) = 1
                           /\ \A x \in PlacesTo(s, k) :
                                 /\ InWindow(x[1]) /\ ~st[x[1]].completed
                                 /\ st[x[1]].onames[x[2]] # NA
                                 /\ st[x[1]].seq < st[s].seq
    BY DEF NoLostWakeup, PlacesTo
  <2>1. TypeInv /\ Window \subseteq Slots /\ s \in Slots /\ st[s].tag \in Nat
    BY <1>1, WindowNamed DEF RegInv, TypeInv, Typed
  <2>2. PICK to : to = PlacesTo(s, k)
    OBVIOUS
  <2>3. /\ \A x \in to :
              /\ x = <<x[1], x[2], x[3]>> /\ x[1] \in Slots /\ x[2] \in 1 .. 2
              /\ x[3] \in Positions(st[x[1]].odep_list[x[2]], {Link(s, st[s].tag, k)})
              /\ LinksTo(st, x[1], x[2], s, st[s].tag, k) # 0
        /\ \A c \in Slots, o \in 1 .. 2 :
              \A i \in Positions(st[c].odep_list[o], {Link(s, st[s].tag, k)}) :
                 <<c, o, i>> \in to
    BY <2>1, <2>2, PlacesToIs
  <2>4. \A x \in to : /\ x[1] \in Window /\ ~st[x[1]].completed
                      /\ st[x[1]].onames[x[2]] # NA
                      /\ st[x[1]].seq < st[s].seq /\ ~st[s].idep_ready[k]
    BY <1>1, <2>1, <2>3 DEF WakeInv, WakeOk, LinkSound
  <2>5. ASSUME ~st[s].idep_ready[k] PROVE Cardinality(to) = 1
    <3>1. PICK c \in Slots, o \in 1 .. 2 :
             /\ LinksTo(st, c, o, s, st[s].tag, k) = 1
             /\ \A d \in Slots, p \in 1 .. 2 :
                   d # c \/ p # o => LinksTo(st, d, p, s, st[s].tag, k) = 0
      BY <1>1, <2>5 DEF WakeInv, WakeOk, OneLink
    <3>2. PICK P : P = Positions(st[c].odep_list[o], {Link(s, st[s].tag, k)})
      OBVIOUS
    <3>3. Cardinality(P) = 1
      BY <3>1, <3>2 DEF LinksTo, Links
    <3>4. IsFiniteSet(P)
      <4>1. st[c].odep_list[o] \in Seq(LinkType)
        BY <2>1 DEF TypeInv, Typed, Lists
      <4> QED
        BY <3>2, <4>1, PositionsType
    <3>5. PICK f : f = [i \in P |-> <<c, o, i>>]
      OBVIOUS
    <3>6. \A x \in to : x[1] = c /\ x[2] = o /\ x[3] \in P /\ x = <<c, o, x[3]>>
      BY <2>3, <3>1, <3>2
    <3>7. \A i \in P : f[i] = <<c, o, i>> /\ f[i] \in to /\ f[i][3] = i
      BY <2>3, <3>2, <3>5
    <3>8. Pairs(f, P, to)
      <4>1. f \in [P -> to]
        BY <3>5, <3>7
      <4>2. \A a, b \in P : f[a] = f[b] => a = b
        BY <3>7
      <4>3. \A x \in to : \E i \in P : f[i] = x
        BY <3>6, <3>7
      <4> QED
        BY <4>1, <4>2, <4>3 DEF Pairs
    <3> QED
      BY <3>3, <3>4, <3>8, PairsCardinality
  <2>6. \A x \in to : InWindow(x[1])
    BY <2>4 DEF Window
  <2> QED
    BY <2>2, <2>4, <2>5, <2>6
<1> QED
  BY <1>1, WakeInvAlways, PTL

-----------------------------------------------------------------------------
(* How far the operations are *)

Progress(s, r) ==
    /\ r.queued => ~r.issued /\ OPERANDS_READY(r)
    /\ r.issued => OPERANDS_READY(r)
    /\ r.completed => r.issued /\ ~r.queued
    /\ OPERANDS_READY(r) => r.queued \/ r.issued \/ (in_LSQ(s) /\ IsLoad(r))

ProgressOk(S, W) == \A s \in W : Progress(s, S[s])

ProgressInv == ProgressOk(st, Window)

LEMMA MemOps == \A op \in Ops : Is(op, "F_MEM") => Is(op, "F_LOAD") \/ Is(op, "F_STORE")
  BY DEF Is, Ops, MD_OP_FLAGS

LEMMA ProgressKept ==
    ASSUME NEW S, NEW T, NEW V,
           \A s \in V : /\ SameInst(S[s], T[s]) /\ SameProgress(S[s], T[s])
                        /\ T[s].idep_ready = S[s].idep_ready,
           ProgressOk(S, V)
    PROVE  ProgressOk(T, V)
  BY DEF ProgressOk, Progress, SameInst, SameProgress, OPERANDS_READY, IsLoad

\* What wakes is in w, once: it waited, and has all it needs.
WokenReady(S, T, W, c, w) ==
    /\ w \in Seq(Slots)
    /\ \A x \in Slots : Times(w, x) = IF \E i \in DOMAIN w : w[i] = x THEN 1 ELSE 0
    /\ \A x \in Slots : (\E i \in DOMAIN w : w[i] = x) =>
          /\ x \in W /\ x # c /\ OPERANDS_READY(T[x])
          /\ ~S[x].queued /\ ~S[x].issued /\ ~S[x].completed
    /\ \A x \in W : OPERANDS_READY(T[x]) =>
          \/ OPERANDS_READY(S[x])
          \/ \E i \in DOMAIN w : w[i] = x
          \/ in_LSQ(x) /\ ~IsStore(T[x])
    /\ \A x \in W : OPERANDS_READY(S[x]) => OPERANDS_READY(T[x])

LEMMA WokenProgress ==
    ASSUME NEW S, Typed(S), NEW T, NEW W \in SUBSET Slots, WakeOk(S, W),
           ProgressOk(S, W), NEW c \in Slots, OPERANDS_READY(S[c]),
           NEW w, WokenBy(S, T, c, w)
    PROVE  WokenReady(S, T, W, c, w)
<1>1. PICK links, Q : links = OutputLinks(S[c]) /\ Q = Wake(S, links)
  OBVIOUS
<1>2. Lists(S) /\ Stations(S) /\ links \in Seq(LinkType)
  BY <1>1, OutputLinksTyped DEF Typed
<1>0. w = Woken(S, links) /\ Completed(S, T, c, links, w)
  BY <1>1 DEF WokenBy
<1>3. /\ w \in Seq(Slots)
      /\ \A x : Times(w, x) = IF \E i \in DOMAIN w : w[i] = x THEN 1 ELSE 0
      /\ \A x : (\E i \in DOMAIN w : w[i] = x)
                  <=> (\E k : Told(S, links, x, k)) /\ Readies(x, Q[x])
  <2>1. PICK v : v = Woken(S, links)
    OBVIOUS
  <2>2. /\ v \in Seq(Slots)
        /\ \A x : Times(v, x) = IF \E i \in DOMAIN v : v[i] = x THEN 1 ELSE 0
        /\ \A x : (\E i \in DOMAIN v : v[i] = x)
                    <=> (\E k : Told(S, links, x, k)) /\ Readies(x, Wake(S, links)[x])
    BY <1>2, <2>1, WokenIs
  <2>3. v = w /\ Q = Wake(S, links)
    BY <1>0, <1>1, <2>1
  <2> QED
    BY <2>2, <2>3
<1>4. \A x \in Slots : /\ Q[x].op = T[x].op /\ Q[x].idep_ready = T[x].idep_ready
                       /\ T[x].idep_ready =
                             [k \in 1 .. 3 |-> S[x].idep_ready[k] \/ Told(S, links, x, k)]
  <2>1. Woke(S, Q, links)
    BY <1>1, <1>2, WakeIs
  <2>2. \A x \in Slots : /\ Q[x].op = S[x].op
                         /\ Q[x].idep_ready =
                               [k \in 1 .. 3 |-> S[x].idep_ready[k] \/ Told(S, links, x, k)]
    BY <2>1, Zenon DEF Woke, SameInst
  <2>3. \A x \in Slots : /\ T[x].op = S[x].op
                         /\ T[x].idep_ready =
                               [k \in 1 .. 3 |-> S[x].idep_ready[k] \/ Told(S, links, x, k)]
    BY <1>0, Zenon DEF Completed, SameInst
  <2> QED
    BY <2>2, <2>3
<1>5. \A x \in Slots : /\ OPERANDS_READY(Q[x]) <=> OPERANDS_READY(T[x])
                       /\ IsStore(Q[x]) <=> IsStore(T[x])
                       /\ Readies(x, Q[x]) <=> OPERANDS_READY(T[x]) /\
                                               (in_LSQ(x) => IsStore(T[x]))
  BY <1>4 DEF OPERANDS_READY, IsStore, Readies
<1>6. \A x \in Slots, k \in 1 .. 3 :
         T[x].idep_ready[k] <=> S[x].idep_ready[k] \/ Told(S, links, x, k)
  BY <1>4, Zenon
<1>7. ASSUME NEW x \in Slots, NEW k, Told(S, links, x, k)
      PROVE  x \in W /\ ~OPERANDS_READY(S[x])
  <2>1. k \in 1 .. 3
    <3>1. PICK i \in DOMAIN links : links[i].opnum = k
      BY <1>7 DEF Told
    <3>2. links[i] \in LinkType
      BY <1>2, <3>1
    <3> QED
      BY <3>1, <3>2 DEF LinkType
  <2>2. PICK o \in 1 .. 2 : LinksTo(S, c, o, x, S[x].tag, k) # 0
    BY <1>1, <1>2, <1>7, <2>1, ToldIs
  <2>3. LinkSound(S, W, c, o, x, S[x].tag, k)
    BY <2>1, <2>2 DEF WakeOk, Typed
  <2> QED
    BY <2>1, <2>3 DEF LinkSound, OPERANDS_READY
<1>8. ASSUME NEW x \in Slots, \E i \in DOMAIN w : w[i] = x
      PROVE  /\ x \in W /\ x # c /\ OPERANDS_READY(T[x])
             /\ ~S[x].queued /\ ~S[x].issued /\ ~S[x].completed
  <2>1. PICK k : Told(S, links, x, k)
    BY <1>3, <1>8
  <2>2. x \in W /\ ~OPERANDS_READY(S[x]) /\ OPERANDS_READY(T[x])
    BY <1>3, <1>5, <1>7, <1>8, <2>1
  <2> QED
    BY <2>2 DEF ProgressOk, Progress
<1>9. ASSUME NEW x \in W, OPERANDS_READY(T[x]), ~OPERANDS_READY(S[x])
      PROVE  (\E i \in DOMAIN w : w[i] = x) \/ (in_LSQ(x) /\ ~IsStore(T[x]))
  <2>1. PICK k \in 1 .. 3 : ~S[x].idep_ready[k] /\ T[x].idep_ready[k]
    BY <1>9 DEF OPERANDS_READY
  <2>2. Told(S, links, x, k)
    BY <1>6, <2>1
  <2> QED
    BY <1>3, <1>5, <1>9, <2>2
<1>10. \A x \in W : OPERANDS_READY(S[x]) => OPERANDS_READY(T[x])
  BY <1>6 DEF OPERANDS_READY
<1> QED
  BY <1>3, <1>8, <1>9, <1>10 DEF WokenReady

LEMMA ProgressDone ==
    ASSUME NEW S, Typed(S), NEW T, NEW W \in SUBSET Slots, WakeOk(S, W),
           ProgressOk(S, W), NEW c \in Slots,
           OPERANDS_READY(S[c]), ~S[c].queued, S[c].issued,
           NEW w, WokenBy(S, T, c, w),
           \A x \in W : in_LSQ(x) => Is(S[x].op, "F_MEM")
    PROVE  ProgressOk(T, W)
<1>0. WokenReady(S, T, W, c, w)
  BY WokenProgress
<1>1. /\ \A x \in Slots : (\E i \in DOMAIN w : w[i] = x) =>
            /\ x \in W /\ x # c /\ OPERANDS_READY(T[x])
            /\ ~S[x].queued /\ ~S[x].issued /\ ~S[x].completed
      /\ \A x \in W : OPERANDS_READY(T[x]) =>
            \/ OPERANDS_READY(S[x])
            \/ \E i \in DOMAIN w : w[i] = x
            \/ in_LSQ(x) /\ ~IsStore(T[x])
      /\ \A x \in W : OPERANDS_READY(S[x]) => OPERANDS_READY(T[x])
  BY <1>0 DEF WokenReady
<1>2. \A x \in Slots : /\ T[x].op = S[x].op
                       /\ T[x].issued = S[x].issued
                       /\ T[x].completed = IF x = c THEN TRUE ELSE S[x].completed
                       /\ T[x].queued = IF \E i \in DOMAIN w : w[i] = x THEN TRUE
                                        ELSE S[x].queued
  BY Zenon DEF WokenBy, Completed, SameInst
<1>3. SUFFICES ASSUME NEW x \in W PROVE Progress(x, T[x])
  BY DEF ProgressOk
<1>4. x \in Slots /\ Progress(x, S[x]) /\ S[x].op \in Ops
  BY DEF ProgressOk, Typed, InstTyped
<1>5. CASE \E i \in DOMAIN w : w[i] = x
  BY <1>1, <1>2, <1>4, <1>5 DEF Progress
<1>6. CASE ~\E i \in DOMAIN w : w[i] = x
  <2>1. /\ T[x].queued = S[x].queued /\ T[x].issued = S[x].issued
        /\ T[x].completed = IF x = c THEN TRUE ELSE S[x].completed
    BY <1>2, <1>4, <1>6
  <2>2. IsLoad(T[x]) <=> IsLoad(S[x])
    BY <1>2, <1>4 DEF IsLoad
  <2>3. in_LSQ(x) /\ ~IsStore(T[x]) => IsLoad(T[x])
    BY <1>2, <1>4, MemOps DEF IsStore, IsLoad
  <2> QED
    BY <1>1, <1>4, <1>6, <2>1, <2>2, <2>3 DEF Progress
<1> QED
  BY <1>5, <1>6

\* The events that complete, and the operations that start, as the checks of
\* ruu_writeback and ruu_issue find them.
LEMMA WritebackFound ==
    ASSUME WritebackOp \/ WritebackRecover, ~Panics
    PROVE  /\ OPERANDS_READY(st[Completing]) /\ ~st[Completing].queued
           /\ st[Completing].issued /\ ~st[Completing].completed
  BY DEF WritebackOp, WritebackRecover, Panics, WritebackPanics

LEMMA IssueFound ==
    ASSUME CanIssue, IssueLive, ~Panics
    PROVE  /\ OPERANDS_READY(st[Issuing]) /\ st[Issuing].queued
           /\ ~st[Issuing].issued /\ ~st[Issuing].completed
  BY DEF Panics, IssuePanics

LEMMA InitProgressInv == Init => ProgressInv
  BY InitWindow DEF ProgressInv, ProgressOk

\* An entry of the LSQ waits for the address that its other half computes.
LEMMA MemWaits ==
    ASSUME TypeInv, CanDispatch, Is(DispOp, "F_MEM")
    PROVE  \E i \in DOMAIN InstDeps :
              /\ InstDeps[i].rs = NewLsq /\ InstDeps[i].opnum = STORE_ADDR_INDEX
              /\ InstDeps[i].creator = CVLINK_INIT(NewRuu, 1)
<1>1. PICK q, d : /\ q = Waits(NewRuu, 2, DispInst.ins[2]) \o Waits(NewRuu, 3, DispInst.ins[3])
                         \o Waits(NewLsq, 1, DispInst.ins[1])
                  /\ d = Depends(NewLsq, STORE_ADDR_INDEX, CVLINK_INIT(NewRuu, 1))
  OBVIOUS
<1>2. q \in Seq(DependsType)
  <2>1. DispInst.ins \in [1 .. 3 -> Regs \cup {NA}] /\ NewRuu \in Slots /\ NewLsq \in Slots
    BY DispTyped, NewSlots DEF TypeInv
  <2>2. /\ DispInst.ins[1] \in Regs \cup {NA} /\ DispInst.ins[2] \in Regs \cup {NA}
        /\ DispInst.ins[3] \in Regs \cup {NA}
    BY <2>1
  <2>3. CvTyped /\ 1 \in 1 .. 3 /\ 2 \in 1 .. 3 /\ 3 \in 1 .. 3
    BY DEF TypeInv
  <2>4. Waits(NewRuu, 2, DispInst.ins[2]) \in Seq(DependsType)
    BY <2>1, <2>2, <2>3, WaitsTyped, Zenon
  <2>5. Waits(NewRuu, 3, DispInst.ins[3]) \in Seq(DependsType)
    BY <2>1, <2>2, <2>3, WaitsTyped, Zenon
  <2>6. Waits(NewLsq, 1, DispInst.ins[1]) \in Seq(DependsType)
    BY <2>1, <2>2, <2>3, WaitsTyped, Zenon
  <2> QED
    BY <1>1, <2>4, <2>5, <2>6, ConcatTyped
<1>3. InstDeps = q \o <<d>>
  BY <1>1, Zenon DEF InstDeps
<1>4. Len(q) + 1 \in DOMAIN (q \o <<d>>) /\ (q \o <<d>>)[Len(q) + 1] = d
  BY <1>2
<1>5. /\ d.rs = NewLsq /\ d.opnum = STORE_ADDR_INDEX
      /\ d.creator = CVLINK_INIT(NewRuu, 1)
  BY <1>1 DEF Depends
<1> QED
  BY <1>3, <1>4, <1>5

\* What a dispatch puts in the window is queued or waits.
LEMMA DispatchProgress ==
    ASSUME TypeInv, OrderInv, WakeInv, ProgressInv, CanDispatch,
           NEW F, NEW L, NEW npc, NEW addr,
           Installed(F, L, npc, addr), Install(npc, addr),
           RUU_head' = RUU_head, LSQ_head' = LSQ_head
    PROVE  /\ ProgressInv'
           /\ \A s \in Slots :
                 /\ L[s].tag = st[s].tag /\ st'[s].tag = st[s].tag
                 /\ s \notin NewOnes => SameProgress(st[s], st'[s])
                 /\ s \in NewOnes => ~st'[s].issued /\ ~st'[s].completed
                 /\ s \in NewOnes => (st'[s].queued <=> \E i \in DOMAIN ReadyNow(F) :
                                                          ReadyNow(F)[i] = s)
<1>1. PICK S, T, W, V, w : /\ S = st /\ T = st' /\ W = Window /\ V = Window'
                           /\ w = ReadyNow(F)
  OBVIOUS
<1>2. /\ NewOnes \subseteq Slots /\ NewOnes \cap W = {} /\ V = W \cup NewOnes
      /\ NewRuu \in NewOnes /\ NewRuu \in Slots /\ NewRuu # NewLsq /\ W \subseteq Slots
      /\ NewOnes = {NewRuu} \cup IF Is(DispOp, "F_MEM") THEN {NewLsq} ELSE {}
  BY <1>1, DispatchAdds, NewSlots, WindowNamed DEF NewOnes, TypeInv
<1>3. /\ Marked(L, T, w) /\ ListsOnly(F, L) /\ FilledIn(F, npc, addr)
  BY <1>1 DEF Installed, LinkedIn
<1>4. \A s \in Slots : /\ T[s].tag = F[s].tag /\ T[s].idep_ready = F[s].idep_ready
                       /\ T[s].issued = F[s].issued /\ T[s].completed = F[s].completed
                       /\ T[s].queued = IF \E i \in DOMAIN w : w[i] = s THEN TRUE
                                        ELSE F[s].queued
                       /\ SameInst(F[s], T[s]) /\ L[s].tag = F[s].tag
  <2> TAKE s \in Slots
  <2>1. /\ SameInst(L[s], T[s]) /\ T[s].tag = L[s].tag /\ T[s].idep_ready = L[s].idep_ready
        /\ T[s].issued = L[s].issued /\ T[s].completed = L[s].completed
        /\ T[s].queued = IF \E i \in DOMAIN w : w[i] = s THEN TRUE ELSE L[s].queued
    BY <1>3, Zenon DEF Marked
  <2>2. /\ SameInst(F[s], L[s]) /\ L[s].tag = F[s].tag /\ L[s].idep_ready = F[s].idep_ready
        /\ L[s].issued = F[s].issued /\ L[s].completed = F[s].completed
        /\ L[s].queued = F[s].queued
    BY <1>3, Zenon DEF ListsOnly, SameProgress
  <2>3. SameInst(F[s], T[s])
    BY <2>1, <2>2, Zenon DEF SameInst
  <2> QED
    BY <2>1, <2>2, <2>3
<1>5. \A s \in Slots \ NewOnes : F[s] = S[s]
  BY <1>1, <1>3 DEF FilledIn
<1>6. \A s : (\E i \in DOMAIN w : w[i] = s) <=> s = NewRuu /\ OPERANDS_READY(F[NewRuu])
  BY <1>1 DEF ReadyNow
<1>7. \A s \in NewOnes : /\ F[s].queued = FALSE /\ F[s].issued = FALSE
                         /\ F[s].completed = FALSE /\ F[s].tag = S[s].tag
  BY <1>1, <1>2, <1>3 DEF FilledIn, Filled
<1>8. \A s \in Slots : L[s].tag = S[s].tag /\ T[s].tag = S[s].tag
  BY <1>4, <1>5, <1>7
<1>9. ASSUME NEW s \in Slots \ NewOnes
      PROVE  /\ SameProgress(S[s], T[s]) /\ SameInst(S[s], T[s])
             /\ T[s].idep_ready = S[s].idep_ready
  BY <1>2, <1>4, <1>5, <1>6 DEF SameProgress
<1>10. ASSUME NEW s \in NewOnes
       PROVE  /\ ~T[s].issued /\ ~T[s].completed
              /\ T[s].queued <=> \E i \in DOMAIN w : w[i] = s
  BY <1>2, <1>4, <1>7
<1>11. ASSUME Is(DispOp, "F_MEM") PROVE ~OPERANDS_READY(T[NewLsq])
  <2>1. \A u \in NewOnes, k \in 1 .. 3 :
           F[u].idep_ready[k] <=> \A i \in DOMAIN InstDeps :
                                    ~(InstDeps[i].rs = u /\ InstDeps[i].opnum = k)
    BY FilledLinks
  <2>2. NewLsq \in NewOnes /\ STORE_ADDR_INDEX \in 1 .. 3
    BY <1>2, <1>11 DEF STORE_ADDR_INDEX
  <2>3. ~F[NewLsq].idep_ready[STORE_ADDR_INDEX]
    BY <1>11, <2>1, <2>2, MemWaits
  <2> QED
    BY <1>2, <1>4, <2>2, <2>3 DEF OPERANDS_READY
<1>12. ProgressOk(T, V)
  <2>1. ProgressOk(T, W)
    BY <1>1, <1>2, <1>9, ProgressKept DEF ProgressInv
  <2>2. Progress(NewRuu, T[NewRuu])
    <3>1. OPERANDS_READY(T[NewRuu]) <=> OPERANDS_READY(F[NewRuu])
      BY <1>2, <1>4 DEF OPERANDS_READY
    <3> QED
      BY <1>2, <1>6, <1>10, <3>1 DEF Progress
  <2>3. Is(DispOp, "F_MEM") => Progress(NewLsq, T[NewLsq])
    <3>1. Is(DispOp, "F_MEM") => NewLsq \in NewOnes
      BY <1>2
    <3> QED
      BY <1>2, <1>6, <1>10, <1>11, <3>1 DEF Progress
  <2> QED
    BY <1>2, <2>1, <2>2, <2>3 DEF ProgressOk
<1> QED
  BY <1>1, <1>8, <1>9, <1>10, <1>12 DEF ProgressInv

LEMMA WritebackProgress ==
    ASSUME TypeInv, OrderInv, SpecInv, InstOk, WakeInv, ProgressInv,
           WritebackOp \/ WritebackRecover, ~Panics,
           NEW S, NEW w, WritebackVia(S, w), WakeOk(S, Window')
    PROVE  /\ ProgressInv' /\ Window' \subseteq Slots /\ Completing \in Slots
           /\ WokenReady(S, st', Window', Completing, w)
           /\ ~S[Completing].queued /\ S[Completing].issued /\ ~S[Completing].completed
<1>1. PICK Q, T, W, V, c : /\ Q = st /\ T = st' /\ W = Window /\ V = Window'
                           /\ c = Completing
  OBVIOUS
<1>2. /\ Typed(S) /\ c \in Slots /\ V \subseteq W /\ WokenBy(S, T, c, w) /\ WakeOk(S, V)
      /\ \A s \in Slots : /\ SameInst(Q[s], S[s]) /\ SameProgress(Q[s], S[s])
                          /\ S[s].idep_ready = Q[s].idep_ready
  BY <1>1 DEF WritebackVia
<1>3. W \subseteq Slots /\ V \subseteq Slots
  BY <1>1, <1>2, WindowNamed
<1>4. ProgressOk(S, V)
  <2>1. ProgressOk(Q, V)
    BY <1>1, <1>2 DEF ProgressInv, ProgressOk
  <2> QED
    BY <1>2, <1>3, <2>1, ProgressKept
<1>5. OPERANDS_READY(S[c]) /\ ~S[c].queued /\ S[c].issued /\ ~S[c].completed
  <2>1. OPERANDS_READY(Q[c]) /\ ~Q[c].queued /\ Q[c].issued /\ ~Q[c].completed
    BY <1>1, WritebackFound
  <2> QED
    BY <1>2, <2>1 DEF SameProgress, OPERANDS_READY
<1>6. \A x \in V : in_LSQ(x) => Is(S[x].op, "F_MEM")
  <2> SUFFICES ASSUME NEW x \in V, in_LSQ(x) PROVE Is(S[x].op, "F_MEM")
    OBVIOUS
  <2>1. x \in LsqWindow
    BY <1>1, <1>2, <1>3, LsqSlotOf DEF Window, LsqWindow
  <2>2. Is(Q[x].op, "F_MEM")
    BY <1>1, <2>1 DEF InstOk
  <2> QED
    BY <1>2, <1>3, <2>2 DEF SameInst
<1>7. WokenReady(S, T, V, c, w)
  BY <1>2, <1>3, <1>4, <1>5, WokenProgress
<1>8. ProgressOk(T, V)
  BY <1>2, <1>3, <1>4, <1>5, <1>6, ProgressDone
<1> QED
  BY <1>1, <1>3, <1>5, <1>7, <1>8, <1>2 DEF ProgressInv

LEMMA ProgressInvStep ==
    ASSUME TypeInv, OrderInv, SpecInv, InstOk, CvInv, WakeInv, ProgressInv, [Next]_vars
    PROVE  ProgressInv'
<1>1. PICK S, T, W, V : S = st /\ T = st' /\ W = Window /\ V = Window'
  OBVIOUS
<1>2. ProgressOk(S, W) /\ W \subseteq Slots
  BY <1>1, WindowNamed DEF ProgressInv
<1> DEFINE Steady == \A s \in Slots : /\ SameInst(S[s], T[s]) /\ SameProgress(S[s], T[s])
                                      /\ T[s].idep_ready = S[s].idep_ready
<1>3. ASSUME Steady, V \subseteq W PROVE ProgressInv'
  <2>1. ProgressOk(S, V)
    BY <1>2, <1>3 DEF ProgressOk
  <2>2. ProgressOk(T, V)
    BY <1>2, <1>3, <2>1, ProgressKept
  <2> QED
    BY <1>1, <2>2 DEF ProgressInv
<1>4. CASE Idle
  <2>1. V = W /\ T = S
    BY <1>1, <1>4, IdleWindow DEF Idle
  <2>2. Steady
    BY <2>1, SameInstSelf DEF SameProgress
  <2> QED
    BY <1>3, <2>1, <2>2
<1>5. CASE RuuCommit /\ ~Panics
  <2>1. V = W \ RetiredNow
    BY <1>1, <1>5, CommitTakes
  <2>2. Steady
    BY <1>1, <1>5, RetireIs DEF Retired, TypeInv, Typed
  <2> QED
    BY <1>3, <2>1, <2>2
<1>6. CASE (WritebackOp \/ WritebackRecover) /\ ~Panics
  <2>1. PICK R, w : WritebackVia(R, w) /\ WakeOk(R, Window')
    BY <1>6, WritebackParts
  <2> QED
    BY <1>6, <2>1, WritebackProgress
<1>7. CASE LsqRefresh
  <2>1. PICK w : w = ReadyLoads
    OBVIOUS
  <2>2. Marked(S, T, w) /\ V = W
    BY <1>1, <1>7, <2>1, MarkQueuedIs, IdleWindow DEF LsqRefresh, TypeInv, Typed
  <2>3. \A x : (\E i \in DOMAIN w : w[i] = x) =>
           /\ ~S[x].issued /\ ~S[x].completed /\ OPERANDS_READY(S[x])
    BY <1>1, <2>1, ReadyLoadsIs DEF LoadReady, TypeInv
  <2>4. ASSUME NEW s \in W PROVE Progress(s, T[s])
    <3>1. s \in Slots /\ Progress(s, S[s])
      BY <1>2 DEF ProgressOk
    <3>2. /\ T[s].op = S[s].op /\ T[s].idep_ready = S[s].idep_ready
          /\ T[s].issued = S[s].issued /\ T[s].completed = S[s].completed
          /\ T[s].queued = IF \E i \in DOMAIN w : w[i] = s THEN TRUE ELSE S[s].queued
      BY <2>2, <3>1 DEF Marked, SameInst
    <3>3. OPERANDS_READY(T[s]) <=> OPERANDS_READY(S[s])
      BY <3>2 DEF OPERANDS_READY
    <3>4. IsLoad(T[s]) <=> IsLoad(S[s])
      BY <3>2 DEF IsLoad
    <3> QED
      BY <2>3, <3>1, <3>2, <3>3, <3>4 DEF Progress
  <2> QED
    BY <1>1, <2>2, <2>4 DEF ProgressInv, ProgressOk
<1>8. ASSUME NEW done, Started(S, T, Issuing, done), V = W,
             OPERANDS_READY(S[Issuing]), ~S[Issuing].completed
      PROVE  ProgressInv'
  <2>1. ASSUME NEW s \in W PROVE Progress(s, T[s])
    <3>1. s \in Slots /\ Progress(s, S[s])
      BY <1>2 DEF ProgressOk
    <3>2. /\ T[s].op = S[s].op /\ T[s].idep_ready = S[s].idep_ready
          /\ T[s].queued = IF s = Issuing THEN FALSE ELSE S[s].queued
          /\ T[s].issued = IF s = Issuing THEN TRUE ELSE S[s].issued
          /\ T[s].completed = IF s = Issuing /\ done THEN TRUE ELSE S[s].completed
      BY <1>8, <3>1 DEF Started, SameInst
    <3>3. OPERANDS_READY(T[s]) <=> OPERANDS_READY(S[s])
      BY <3>2 DEF OPERANDS_READY
    <3>4. IsLoad(T[s]) <=> IsLoad(S[s])
      BY <3>2 DEF IsLoad
    <3> QED
      BY <1>8, <3>1, <3>2, <3>3, <3>4 DEF Progress
  <2> QED
    BY <1>1, <1>8, <2>1 DEF ProgressInv, ProgressOk
<1>9. CASE IssueStore /\ ~Panics
  <2>1. CanIssue /\ IssueLive /\ V = W
    BY <1>1, <1>9, IdleWindow DEF IssueStore
  <2>2. Started(S, T, Issuing, TRUE)
    BY <1>1, <1>9, IssueStoreIs DEF TypeInv, Typed
  <2> QED
    BY <1>1, <1>8, <1>9, <2>1, <2>2, IssueFound
<1>10. CASE Starting /\ ~Panics
  <2>1. PICK lat : CanIssue /\ IssueLive /\ V = W /\ Start(lat)
    BY <1>1, <1>10, IdleWindow DEF Starting
  <2>2. Started(S, T, Issuing, FALSE)
    BY <1>1, <1>10, <2>1, StartActionIs DEF TypeInv, Typed
  <2> QED
    BY <1>1, <1>8, <1>10, <2>1, <2>2, IssueFound
<1>11. CASE DispatchInst
  <2>1. PICK npc \in PCs, addr \in Addrs \cup {0} : Install(npc, addr)
    BY <1>11, DispatchInstIs DEF TypeInv
  <2>2. CanDispatch /\ RUU_head' = RUU_head /\ LSQ_head' = LSQ_head
    BY <1>11 DEF DispatchInst
  <2>3. PICK F, L : Installed(F, L, npc, addr)
    BY <2>1, <2>2, InstallIs DEF TypeInv, OrderTyped
  <2> QED
    BY <2>1, <2>2, <2>3, DispatchProgress
<1> QED
  BY <1>4, <1>5, <1>6, <1>7, <1>9, <1>10, <1>11, StepKinds DEF StationSteps

LEMMA ProgressAlways == Spec => [](RegInv /\ WakeInv /\ ProgressInv)
<1>1. Init => ProgressInv
  BY InitProgressInv
<1>2. RegInv /\ WakeInv /\ ProgressInv /\ [Next]_vars => ProgressInv'
  BY ProgressInvStep DEF RegInv
<1> QED
  BY <1>1, <1>2, WakeInvAlways, PTL DEF Spec

-----------------------------------------------------------------------------
(* The nodes and events of the operations *)

\* A slot whose station is r, seen from the queues: one node while it is queued,
\* one event while it executes, and none for an operation still to come.
SlotOk(rq, td, eq, s, r, W) ==
    /\ \A t \in Nat : t > r.tag =>
          Count(rq, s, t) = 0 /\ Count(td, s, t) = 0 /\ Count(eq, s, t) = 0
    /\ Count(rq, s, r.tag) + Count(td, s, r.tag) = IF s \in W /\ r.queued THEN 1 ELSE 0
    /\ Count(eq, s, r.tag) = IF s \in W /\ r.issued /\ ~r.completed THEN 1 ELSE 0

SchedOk(rq, td, eq, S, W) == \A s \in Slots : SlotOk(rq, td, eq, s, S[s], W)

SchedInv ==
    /\ SchedOk(ready_queue, todo, event_queue, st, Window)
    /\ stage # "issue" => todo = <<>>

Queues(rq, td, eq) == rq \in Seq(NodeType) /\ td \in Seq(NodeType) /\ eq \in Seq(EventType)

LEMMA CountsType ==
    ASSUME NEW rq, NEW td, NEW eq, Queues(rq, td, eq), NEW s, NEW t
    PROVE  Count(rq, s, t) \in Nat /\ Count(td, s, t) \in Nat /\ Count(eq, s, t) \in Nat
BY CountType DEF Queues

LEMMA CountTail ==
    ASSUME NEW X, NEW q \in Seq(X), q # <<>>, NEW s, NEW t
    PROVE  /\ Count(q, s, t) = Count(Tail(q), s, t) + IsFor(Head(q), s, t)
           /\ Count(Tail(q), s, t) \in Nat
<1>1. Tail(q) \in Seq(X) /\ Inserted(Tail(q), q, 1, Head(q))
  BY TailInserted
<1>2. PICK r, h : r = Tail(q) /\ h = Head(q)
  OBVIOUS
<1>3. r \in Seq(X) /\ Inserted(r, q, 1, h)
  BY <1>1, <1>2
<1>4. Count(q, s, t) = Count(r, s, t) + IsFor(h, s, t)
  BY <1>3, CountInserted
<1>5. Count(r, s, t) \in Nat
  BY <1>3, CountType
<1> QED
  BY <1>2, <1>4, <1>5

\* The queues stay, and the stations of W \ V leave.
LEMMA SlotsLeave ==
    ASSUME NEW rq, NEW td, NEW eq, NEW S, NEW T, NEW W, NEW V \in SUBSET W,
           Queues(rq, td, eq), SchedOk(rq, td, eq, S, W),
           \A s \in Slots :
              /\ SameProgress(S[s], T[s]) /\ S[s].tag \in Nat
              /\ T[s].tag = IF s \in W \ V THEN S[s].tag + 1 ELSE S[s].tag
    PROVE  SchedOk(rq, td, eq, T, V)
<1> SUFFICES ASSUME NEW s \in Slots PROVE SlotOk(rq, td, eq, s, T[s], V)
  BY DEF SchedOk
<1>1. SlotOk(rq, td, eq, s, S[s], W) /\ S[s].tag \in Nat
  BY DEF SchedOk
<1>2. CASE s \in W \ V
  <2>1. T[s].tag = S[s].tag + 1 /\ T[s].tag \in Nat /\ T[s].tag > S[s].tag /\ s \notin V
    BY <1>1, <1>2
  <2>2. /\ Count(rq, s, T[s].tag) = 0 /\ Count(td, s, T[s].tag) = 0
        /\ Count(eq, s, T[s].tag) = 0
    BY <1>1, <2>1 DEF SlotOk
  <2>3. \A t \in Nat : t > T[s].tag => t > S[s].tag
    BY <1>1, <2>1
  <2> QED
    BY <1>1, <2>1, <2>2, <2>3 DEF SlotOk
<1>3. CASE s \notin W \ V
  <2>1. T[s].tag = S[s].tag /\ (s \in V <=> s \in W)
    BY <1>3
  <2>2. /\ T[s].queued = S[s].queued /\ T[s].issued = S[s].issued
        /\ T[s].completed = S[s].completed
    BY DEF SameProgress
  <2> QED
    BY <1>1, <2>1, <2>2 DEF SlotOk
<1> QED
  BY <1>2, <1>3

\* The head of the event queue or of todo is taken away, and is of no station.
LEMMA StaleEvent ==
    ASSUME NEW rq, NEW td, NEW eq, NEW S, NEW W, Queues(rq, td, eq),
           SchedOk(rq, td, eq, S, W), \A s \in Slots : S[s].tag \in Nat,
           eq # <<>>, ~RSLINK_VALID(Head(eq), S)
    PROVE  SchedOk(rq, td, Tail(eq), S, W)
<1> SUFFICES ASSUME NEW s \in Slots PROVE SlotOk(rq, td, Tail(eq), s, S[s], W)
  BY DEF SchedOk
<1>1. \A t : /\ Count(eq, s, t) = Count(Tail(eq), s, t) + IsFor(Head(eq), s, t)
             /\ Count(Tail(eq), s, t) \in Nat
  BY CountTail DEF Queues
<1>2. IsFor(Head(eq), s, S[s].tag) = 0 /\ \A t : IsFor(Head(eq), s, t) \in {0, 1}
  BY DEF IsFor, RSLINK_VALID
<1>3. /\ Count(Tail(eq), s, S[s].tag) = Count(eq, s, S[s].tag)
      /\ \A t : Count(eq, s, t) = 0 => Count(Tail(eq), s, t) = 0
  BY <1>1, <1>2
<1>4. SlotOk(rq, td, eq, s, S[s], W)
  BY DEF SchedOk
<1> QED
  BY <1>3, <1>4 DEF SlotOk

LEMMA StaleNode ==
    ASSUME NEW rq, NEW td, NEW eq, NEW S, NEW W, Queues(rq, td, eq),
           SchedOk(rq, td, eq, S, W), \A s \in Slots : S[s].tag \in Nat,
           td # <<>>, ~RSLINK_VALID(Head(td), S)
    PROVE  SchedOk(rq, Tail(td), eq, S, W)
<1> SUFFICES ASSUME NEW s \in Slots PROVE SlotOk(rq, Tail(td), eq, s, S[s], W)
  BY DEF SchedOk
<1>1. \A t : /\ Count(td, s, t) = Count(Tail(td), s, t) + IsFor(Head(td), s, t)
             /\ Count(Tail(td), s, t) \in Nat
  BY CountTail DEF Queues
<1>2. IsFor(Head(td), s, S[s].tag) = 0 /\ \A t : IsFor(Head(td), s, t) \in {0, 1}
  BY DEF IsFor, RSLINK_VALID
<1>3. /\ Count(Tail(td), s, S[s].tag) = Count(td, s, S[s].tag)
      /\ \A t : Count(td, s, t) = 0 => Count(Tail(td), s, t) = 0
  BY <1>1, <1>2
<1>4. SlotOk(rq, td, eq, s, S[s], W)
  BY DEF SchedOk
<1> QED
  BY <1>3, <1>4 DEF SlotOk

\* The stations on w, each on it once and none of them queued, are queued.
Queueable(S, W, w) ==
    /\ w \in Seq(Slots)
    /\ \A s \in Slots : Times(w, s) = IF \E i \in DOMAIN w : w[i] = s THEN 1 ELSE 0
    /\ \A s \in Slots : (\E i \in DOMAIN w : w[i] = s) => s \in W /\ ~S[s].queued

NowQueued(S, T, w) ==
    \A s \in Slots :
       /\ T[s].tag = S[s].tag
       /\ T[s].issued = S[s].issued /\ T[s].completed = S[s].completed
       /\ T[s].queued = IF \E i \in DOMAIN w : w[i] = s THEN TRUE ELSE S[s].queued

SameTags(S, R) == \A s \in Slots : R[s].tag = S[s].tag /\ Node(s, R) \in NodeType

LEMMA SlotsQueued ==
    ASSUME NEW rq, NEW td, NEW eq, NEW S, NEW T, NEW W, Queues(rq, td, eq),
           SchedOk(rq, td, eq, S, W), \A s \in Slots : S[s].tag \in Nat,
           NEW w, Queueable(S, W, w), NowQueued(S, T, w), NEW R, SameTags(S, R)
    PROVE  SchedOk(ReadyqEnqueue(rq, w, R), td, eq, T, W)
<1> SUFFICES ASSUME NEW s \in Slots
             PROVE  SlotOk(ReadyqEnqueue(rq, w, R), td, eq, s, T[s], W)
  BY DEF SchedOk
<1>1. PICK rq2 : rq2 = ReadyqEnqueue(rq, w, R)
  OBVIOUS
<1>2. \A t : Count(rq2, s, t) = Count(rq, s, t)
                                + IF t = R[s].tag THEN Times(w, s) ELSE 0
  <2>1. \A u \in Slots : \A t :
           Count(ReadyqEnqueue(rq, w, R), u, t)
              = Count(rq, u, t) + IF t = R[u].tag THEN Times(w, u) ELSE 0
    <3>1. \A u \in Slots : Node(u, R) \in NodeType
      BY DEF SameTags
    <3>2. rq \in Seq(NodeType) /\ w \in Seq(Slots)
      BY DEF Queues, Queueable
    <3> QED
      BY <3>1, <3>2, EnqueueIs
  <2> QED
    BY <1>1, <2>1
<1>3. /\ SlotOk(rq, td, eq, s, S[s], W) /\ S[s].tag \in Nat
      /\ T[s].tag = S[s].tag /\ R[s].tag = S[s].tag
      /\ T[s].issued = S[s].issued /\ T[s].completed = S[s].completed
      /\ T[s].queued = IF \E i \in DOMAIN w : w[i] = s THEN TRUE ELSE S[s].queued
  BY DEF SchedOk, NowQueued, SameTags
<1>4. \A t : Count(rq, s, t) \in Nat /\ Count(td, s, t) \in Nat
  BY CountsType
<1>5. \A t \in Nat : t > T[s].tag =>
         Count(rq2, s, t) = 0 /\ Count(td, s, t) = 0 /\ Count(eq, s, t) = 0
  BY <1>2, <1>3, <1>4 DEF SlotOk
<1>6. Count(eq, s, T[s].tag) = IF s \in W /\ T[s].issued /\ ~T[s].completed THEN 1 ELSE 0
  BY <1>3 DEF SlotOk
<1>7. Count(rq2, s, T[s].tag) + Count(td, s, T[s].tag)
         = IF s \in W /\ T[s].queued THEN 1 ELSE 0
  <2>1. Count(rq, s, S[s].tag) + Count(td, s, S[s].tag)
           = IF s \in W /\ S[s].queued THEN 1 ELSE 0
    BY <1>3 DEF SlotOk
  <2>2. Count(rq2, s, S[s].tag) = Count(rq, s, S[s].tag) + Times(w, s)
    BY <1>2, <1>3
  <2>3. CASE \E i \in DOMAIN w : w[i] = s
    <3>1. /\ Times(w, s) = 1 /\ s \in W /\ ~S[s].queued /\ T[s].queued
          /\ T[s].tag = S[s].tag
      BY <1>3, <2>3 DEF Queueable
    <3>2. Count(rq2, s, S[s].tag) + Count(td, s, S[s].tag) = 1
      BY <1>4, <2>1, <2>2, <3>1
    <3> QED
      BY <3>1, <3>2
  <2>4. CASE ~\E i \in DOMAIN w : w[i] = s
    <3>1. /\ Times(w, s) = 0 /\ T[s].queued = S[s].queued
          /\ T[s].tag = S[s].tag
      BY <1>3, <2>4 DEF Queueable
    <3>2. Count(rq2, s, S[s].tag) = Count(rq, s, S[s].tag)
      BY <1>4, <2>2, <3>1
    <3> QED
      BY <2>1, <3>1, <3>2
  <2> QED
    BY <2>3, <2>4
<1> QED
  BY <1>1, <1>5, <1>6, <1>7 DEF SlotOk

NowCompleted(S, T, c) ==
    \A s \in Slots :
       /\ T[s].tag = S[s].tag /\ T[s].queued = S[s].queued
       /\ T[s].issued = S[s].issued
       /\ T[s].completed = IF s = c THEN TRUE ELSE S[s].completed

\* The event at the head of the event queue is that of c, which completes.
LEMMA EventDone ==
    ASSUME NEW rq, NEW td, NEW eq, NEW S, NEW T, NEW W, Queues(rq, td, eq),
           SchedOk(rq, td, eq, S, W), \A s \in Slots : S[s].tag \in Nat,
           eq # <<>>, NEW c \in Slots, Head(eq).rs = c,
           c \in W => Head(eq).tag = S[c].tag, S[c].issued, ~S[c].completed,
           NowCompleted(S, T, c)
    PROVE  SchedOk(rq, td, Tail(eq), T, W)
<1> SUFFICES ASSUME NEW s \in Slots PROVE SlotOk(rq, td, Tail(eq), s, T[s], W)
  BY DEF SchedOk
<1>1. \A t : /\ Count(eq, s, t) = Count(Tail(eq), s, t) + IsFor(Head(eq), s, t)
             /\ Count(Tail(eq), s, t) \in Nat
  BY CountTail DEF Queues
<1>2. PICK t, h : t = Tail(eq) /\ h = Head(eq)
  OBVIOUS
<1>3. /\ SlotOk(rq, td, eq, s, S[s], W) /\ S[s].tag \in Nat /\ T[s].tag = S[s].tag
      /\ T[s].queued = S[s].queued /\ T[s].issued = S[s].issued
      /\ T[s].completed = IF s = c THEN TRUE ELSE S[s].completed
  BY DEF SchedOk, NowCompleted
<1>4. \A u : IsFor(h, s, u) \in {0, 1} /\ (s # c => IsFor(h, s, u) = 0)
  BY <1>2 DEF IsFor
<1>5. \A u : Count(eq, s, u) = 0 => Count(t, s, u) = 0
  BY <1>1, <1>2, <1>4
<1>6. Count(t, s, T[s].tag) = IF s \in W /\ T[s].issued /\ ~T[s].completed THEN 1 ELSE 0
  <2>1. Count(eq, s, S[s].tag) = IF s \in W /\ S[s].issued /\ ~S[s].completed THEN 1 ELSE 0
    BY <1>3 DEF SlotOk
  <2>2. CASE s # c
    <3>1. Count(t, s, S[s].tag) = Count(eq, s, S[s].tag)
      BY <1>1, <1>2, <1>4, <2>2
    <3> QED
      BY <1>3, <2>1, <2>2, <3>1
  <2>3. CASE s = c /\ s \in W
    <3>1. IsFor(h, s, S[s].tag) = 1
      BY <1>2, <2>3 DEF IsFor
    <3>2. Count(t, s, S[s].tag) = 0
      BY <1>1, <1>2, <2>1, <2>3, <3>1
    <3> QED
      BY <1>3, <2>3, <3>2
  <2>4. CASE s = c /\ s \notin W
    BY <1>3, <1>5, <2>1, <2>4
  <2> QED
    BY <2>2, <2>3, <2>4
<1> QED
  BY <1>2, <1>3, <1>5, <1>6 DEF SlotOk

\* eq2 is eq, with an event of c if c is not done.
Scheduled(eq, eq2, S, c, done) ==
    \A s, t : Count(eq2, s, t) = Count(eq, s, t) +
                  IF ~done /\ s = c /\ t = S[c].tag THEN 1 ELSE 0

\* The node at the head of todo is that of c, which starts: its event is queued,
\* or it is done.
LEMMA NodeStarts ==
    ASSUME NEW rq, NEW td, NEW eq, NEW S, NEW T, NEW W, Queues(rq, td, eq),
           SchedOk(rq, td, eq, S, W), \A s \in Slots : S[s].tag \in Nat,
           td # <<>>, NEW c \in Slots, Head(td).rs = c, Head(td).tag = S[c].tag,
           ~S[c].issued, ~S[c].completed, NEW done \in BOOLEAN,
           Started(S, T, c, done),
           NEW eq2, Queues(rq, td, eq2),
           Scheduled(eq, eq2, S, c, done)
    PROVE  SchedOk(rq, Tail(td), eq2, T, W)
<1> SUFFICES ASSUME NEW s \in Slots PROVE SlotOk(rq, Tail(td), eq2, s, T[s], W)
  BY DEF SchedOk
<1>1. \A t : /\ Count(td, s, t) = Count(Tail(td), s, t) + IsFor(Head(td), s, t)
             /\ Count(Tail(td), s, t) \in Nat
  BY CountTail DEF Queues
<1>2. PICK t, h : t = Tail(td) /\ h = Head(td)
  OBVIOUS
<1>3. /\ SlotOk(rq, td, eq, s, S[s], W) /\ S[s].tag \in Nat /\ T[s].tag = S[s].tag
      /\ T[s].queued = IF s = c THEN FALSE ELSE S[s].queued
      /\ T[s].issued = IF s = c THEN TRUE ELSE S[s].issued
      /\ T[s].completed = IF s = c /\ done THEN TRUE ELSE S[s].completed
  BY DEF SchedOk, Started
<1>4. \A u : Count(rq, s, u) \in Nat /\ Count(td, s, u) \in Nat /\ Count(eq, s, u) \in Nat
  BY CountsType
<1>5. \A u : IsFor(h, s, u) = IF s = c /\ u = S[c].tag THEN 1 ELSE 0
  BY <1>2 DEF IsFor
<1>10. \A u : Count(eq2, s, u) = Count(eq, s, u) +
                  IF ~done /\ s = c /\ u = S[c].tag THEN 1 ELSE 0
  BY DEF Scheduled
<1>6. \A u \in Nat : u > T[s].tag =>
         Count(rq, s, u) = 0 /\ Count(t, s, u) = 0 /\ Count(eq2, s, u) = 0
  BY <1>1, <1>2, <1>3, <1>4, <1>5, <1>10 DEF SlotOk
<1>7. /\ Count(rq, s, S[s].tag) + Count(td, s, S[s].tag)
           = IF s \in W /\ S[s].queued THEN 1 ELSE 0
      /\ Count(eq, s, S[s].tag) = IF s \in W /\ S[s].issued /\ ~S[s].completed THEN 1 ELSE 0
  BY <1>3 DEF SlotOk
<1>8. CASE s # c
  <2>1. Count(t, s, S[s].tag) = Count(td, s, S[s].tag)
    BY <1>1, <1>2, <1>5, <1>8
  <2>2. Count(eq2, s, S[s].tag) = Count(eq, s, S[s].tag)
    BY <1>4, <1>8, <1>10
  <2>3. /\ T[s].queued = S[s].queued /\ T[s].issued = S[s].issued
        /\ T[s].completed = S[s].completed
    BY <1>3, <1>8
  <2> QED
    BY <1>2, <1>3, <1>6, <1>7, <2>1, <2>2, <2>3 DEF SlotOk
<1>9. CASE s = c
  <2>1. Count(td, s, S[s].tag) = Count(t, s, S[s].tag) + 1 /\ Count(t, s, S[s].tag) \in Nat
    BY <1>1, <1>2, <1>5, <1>9
  <2>2. s \in W /\ Count(rq, s, S[s].tag) = 0 /\ Count(t, s, S[s].tag) = 0
    BY <1>4, <1>7, <2>1
  <2>3. Count(eq, s, S[s].tag) = 0
    BY <1>7, <1>9
  <2>4. Count(eq2, s, S[s].tag) = IF done THEN 0 ELSE 1
    BY <1>4, <1>9, <1>10, <2>3
  <2>5. T[s].queued = FALSE /\ T[s].issued = TRUE /\ (T[s].completed <=> done)
    BY <1>3, <1>9
  <2> QED
    BY <1>2, <1>3, <1>6, <2>2, <2>4, <2>5 DEF SlotOk
<1> QED
  BY <1>8, <1>9

\* Nodes go from todo to the ready queue; each station keeps its valid ones,
\* and none is made.
LEMMA NodesMove ==
    ASSUME NEW rq, NEW td, NEW eq, NEW S, NEW W, SchedOk(rq, td, eq, S, W),
           NEW rq2, NEW td2, NEW eq2,
           \A s \in Slots : /\ Count(rq2, s, S[s].tag) + Count(td2, s, S[s].tag)
                                 = Count(rq, s, S[s].tag) + Count(td, s, S[s].tag)
                            /\ Count(eq2, s, S[s].tag) = Count(eq, s, S[s].tag),
           \A s \in Slots : \A t \in Nat :
              t > S[s].tag /\ Count(rq, s, t) = 0 /\ Count(td, s, t) = 0
                           /\ Count(eq, s, t) = 0 =>
                 Count(rq2, s, t) = 0 /\ Count(td2, s, t) = 0 /\ Count(eq2, s, t) = 0
    PROVE  SchedOk(rq2, td2, eq2, S, W)
<1> SUFFICES ASSUME NEW s \in Slots PROVE SlotOk(rq2, td2, eq2, s, S[s], W)
  BY DEF SchedOk
<1>1. SlotOk(rq, td, eq, s, S[s], W)
  BY DEF SchedOk
<1> QED
  BY <1>1 DEF SlotOk

\* The steps, by what they do to the queues.
SchedIdle == UNCHANGED <<st, queueVars, schedVars>>

SchedSteps ==
    \/ RuuCommit
    \/ WritebackStale \/ WritebackOp \/ WritebackRecover
    \/ LsqRefresh
    \/ IssueStale \/ IssueStore \/ Starting \/ IssueNoUnit \/ IssueDone
    \/ DispatchInst
    \/ EndCycle

LEMMA SchedKinds == ASSUME [Next]_vars PROVE SchedIdle \/ (~Panics /\ SchedSteps)
<1>1. CASE UNCHANGED vars
  BY <1>1 DEF SchedIdle, vars
<1>2. CASE Exited
  BY <1>2 DEF SchedIdle, Exited, vars
<1>3. CASE Step
  <2>1. CASE RuuCommitDone \/ RuuReleaseFu
    BY <2>1 DEF SchedIdle, RuuCommitDone, RuuReleaseFu
  <2>2. CASE WritebackDone
    BY <2>2 DEF SchedIdle, WritebackDone
  <2>3. CASE IssueToUnit
    BY <1>3, <2>3 DEF Step, SchedSteps, Starting, IssueToUnit, Start, orderVars
  <2>4. CASE IssueNoClass
    BY <1>3, <2>4 DEF Step, SchedSteps, Starting, IssueNoClass, Start, orderVars
  <2>5. CASE DispatchNop
    BY <2>5 DEF SchedIdle, DispatchNop
  <2>6. CASE DispatchExit \/ DispatchDone
    BY <2>6 DEF SchedIdle, DispatchExit, DispatchDone
  <2>7. CASE Fetch
    BY <2>7 DEF SchedIdle, Fetch, FetchStalled, FetchMiss, FetchNotTaken, FetchTaken,
                FetchDone, backVars
  <2>8. CASE SchedSteps
    BY <1>3, <2>8 DEF Step
  <2> QED
    BY <1>3, <2>1, <2>2, <2>3, <2>4, <2>5, <2>6, <2>7, <2>8
       DEF Step, SchedSteps, Commit, Writeback, Issue, Dispatch
<1> QED
  BY <1>1, <1>2, <1>3 DEF Next

LEMMA TodoStep ==
    ASSUME stage # "issue" => todo = <<>>, [Next]_vars
    PROVE  stage' # "issue" => todo' = <<>>
<1>1. CASE UNCHANGED <<stage, todo>>
  BY <1>1
<1>2. CASE stage # "issue" /\ todo' = todo
  BY <1>2
<1>3. ASSUME Commit \/ RuuReleaseFu PROVE stage # "issue" /\ todo' = todo
  BY <1>3 DEF Commit, RuuCommit, RuuCommitDone, RuuReleaseFu, schedVars
<1>4. ASSUME Writeback PROVE stage # "issue" /\ todo' = todo
  BY <1>4 DEF Writeback, WritebackStale, WritebackOp, WritebackRecover, WritebackDone,
              schedVars
<1>5. CASE LsqRefresh
  BY <1>5 DEF LsqRefresh, Enter
<1>6. CASE Issue
  BY <1>6 DEF Issue, IssueStale, IssueStore, IssueToUnit, IssueNoUnit, IssueNoClass,
              IssueDone, Start, CanIssue
<1>7. ASSUME Dispatch PROVE stage # "issue" /\ todo' = todo
  BY <1>7 DEF Dispatch, DispatchNop, DispatchInst, DispatchExit, DispatchDone, schedVars
<1>8. ASSUME Fetch PROVE stage # "issue" /\ todo' = todo
  BY <1>8 DEF Fetch, FetchStalled, FetchMiss, FetchNotTaken, FetchTaken, FetchDone,
              backVars, schedVars
<1>9. ASSUME EndCycle PROVE stage # "issue" /\ todo' = todo
  BY <1>9 DEF EndCycle
<1>10. CASE UNCHANGED vars
  BY <1>1, <1>10 DEF vars, schedVars
<1> QED
  BY <1>2, <1>3, <1>4, <1>5, <1>6, <1>7, <1>8, <1>9, <1>10 DEF Next, Step, Exited

LEMMA QueuesTypes ==
    ASSUME TypeInv
    PROVE  /\ Queues(ready_queue, todo, event_queue)
           /\ \A s \in Slots : st[s].tag \in Nat
           /\ \A S : Typed(S) => \A s \in Slots : Node(s, S) \in NodeType
BY NodeTyped DEF TypeInv, QueuesTyped, Queues, EventType, Typed

LEMMA CommitSched ==
    ASSUME TypeInv, OrderInv, SpecInv, SchedInv, RuuCommit, ~Panics
    PROVE  SchedOk(ready_queue', todo', event_queue', st', Window')
<1>1. PICK S, T, W, V : S = st /\ T = st' /\ W = Window /\ V = Window'
  OBVIOUS
<1>2. V \subseteq W /\ RetiredNow = W \ V
  BY <1>1, CommitTakes
<1>3. \A s \in Slots :
         /\ SameProgress(S[s], T[s]) /\ S[s].tag \in Nat
         /\ T[s].tag = IF s \in W \ V THEN S[s].tag + 1 ELSE S[s].tag
  BY <1>1, <1>2, RetireIs DEF Retired, TypeInv, Typed
<1>4. Queues(ready_queue, todo, event_queue) /\ SchedOk(ready_queue, todo, event_queue, S, W)
  BY <1>1, QueuesTypes DEF SchedInv
<1>5. SchedOk(ready_queue, todo, event_queue, T, V)
  BY <1>2, <1>3, <1>4, SlotsLeave
<1> QED
  BY <1>1, <1>5 DEF RuuCommit, schedVars

LEMMA WritebackSched ==
    ASSUME TypeInv, OrderInv, SpecInv, InstOk, WakeInv, ProgressInv, SchedInv,
           WritebackOp \/ WritebackRecover, ~Panics
    PROVE  SchedOk(ready_queue', todo', event_queue', st', Window')
<1>1. PICK Q, T, W, V, c, eq : /\ Q = st /\ T = st' /\ W = Window /\ V = Window'
                               /\ c = Completing /\ eq = event_queue
  OBVIOUS
<1>2. PICK S, w : WritebackVia(S, w) /\ WakeOk(S, Window')
  BY WritebackParts
<1>3. /\ Typed(S) /\ c \in Slots /\ V \subseteq W /\ WokenBy(S, T, c, w)
      /\ \A s \in Slots : /\ SameProgress(Q[s], S[s])
                          /\ S[s].tag = IF s \in W \ V THEN Q[s].tag + 1 ELSE Q[s].tag
      /\ ready_queue' = ReadyqEnqueue(ready_queue, w, S) /\ event_queue' = Tail(eq)
  BY <1>1, <1>2 DEF WritebackVia
<1>4. /\ WokenReady(S, T, V, c, w)
      /\ ~S[c].queued /\ S[c].issued /\ ~S[c].completed
  BY <1>1, <1>2, WritebackProgress
<1>5. /\ Queues(ready_queue, todo, eq) /\ SchedOk(ready_queue, todo, eq, Q, W)
      /\ \A s \in Slots : Q[s].tag \in Nat /\ S[s].tag \in Nat /\ Node(s, S) \in NodeType
  BY <1>1, <1>3, QueuesTypes DEF SchedInv, Typed
<1>6. SchedOk(ready_queue, todo, eq, S, V)
  BY <1>3, <1>5, SlotsLeave
<1>7. eq # <<>> /\ Head(eq).rs = c /\ Head(eq).tag = Q[c].tag /\ todo' = todo
  BY <1>1 DEF WritebackOp, WritebackRecover, EventDue, EventLive, RSLINK_VALID, Completing
<1>8. c \in V => Head(eq).tag = S[c].tag
  BY <1>3, <1>7
<1>9. PICK R : R = [s \in Slots |->
                       [tag |-> S[s].tag, queued |-> S[s].queued, issued |-> S[s].issued,
                        completed |-> IF s = c THEN TRUE ELSE S[s].completed]]
  OBVIOUS
<1>10. \A s \in Slots :
          /\ R[s].tag = S[s].tag /\ R[s].queued = S[s].queued
          /\ R[s].issued = S[s].issued
          /\ R[s].completed = IF s = c THEN TRUE ELSE S[s].completed
  BY <1>9, Zenon
<1>20. NowCompleted(S, R, c)
  BY <1>10, Zenon DEF NowCompleted
<1>11. SchedOk(ready_queue, todo, Tail(eq), R, V)
  BY <1>3, <1>4, <1>5, <1>6, <1>7, <1>8, <1>20, EventDone
<1>12. Queues(ready_queue, todo, Tail(eq))
  BY <1>5, <1>7, TailTyped DEF Queues
<1>13. Queueable(R, V, w)
  BY <1>4, <1>10 DEF WokenReady, Queueable
<1>14. NowQueued(R, T, w)
  <2> SUFFICES ASSUME NEW s \in Slots
               PROVE  /\ T[s].tag = R[s].tag
                      /\ T[s].issued = R[s].issued /\ T[s].completed = R[s].completed
                      /\ T[s].queued = IF \E i \in DOMAIN w : w[i] = s THEN TRUE
                                       ELSE R[s].queued
    BY Zenon DEF NowQueued
  <2>1. /\ T[s].tag = S[s].tag /\ T[s].issued = S[s].issued
        /\ T[s].completed = IF s = c THEN TRUE ELSE S[s].completed
        /\ T[s].queued = IF \E i \in DOMAIN w : w[i] = s THEN TRUE ELSE S[s].queued
    BY <1>3, Zenon DEF WokenBy, Completed
  <2> QED
    BY <1>10, <2>1
<1>15. SchedOk(ReadyqEnqueue(ready_queue, w, S), todo, Tail(eq), T, V)
  <2>1. SameTags(R, S) /\ \A s \in Slots : R[s].tag \in Nat
    BY <1>5, <1>10 DEF SameTags
  <2> QED
    BY <1>11, <1>12, <1>13, <1>14, <2>1, SlotsQueued
<1> QED
  BY <1>1, <1>3, <1>7, <1>15

LEMMA RefreshSched ==
    ASSUME TypeInv, ProgressInv, SchedInv, LsqRefresh
    PROVE  SchedOk(ready_queue', todo', event_queue', st', Window')
<1>1. PICK S, T, W, w, rq, eq : /\ S = st /\ T = st' /\ W = Window /\ w = ReadyLoads
                                /\ rq = ready_queue /\ eq = event_queue
  OBVIOUS
<1>2. /\ todo' = ReadyqEnqueue(rq, w, S) /\ ready_queue' = <<>> /\ event_queue' = eq
      /\ T = MarkQueued(S, w) /\ todo = <<>> /\ Window' = W
  BY <1>1, IdleWindow DEF LsqRefresh, SchedInv
<1>3. Queues(rq, <<>>, eq) /\ SchedOk(rq, <<>>, eq, S, W) /\ SameTags(S, S)
  BY <1>1, <1>2, QueuesTypes DEF SchedInv, TypeInv, SameTags
<1>4. Queueable(S, W, w)
  <2>1. /\ w \in Seq(Slots)
        /\ \A x : Times(w, x) = IF \E i \in DOMAIN w : w[i] = x THEN 1 ELSE 0
        /\ \A x : (\E i \in DOMAIN w : w[i] = x)
                    <=> \E k \in 0 .. ScanLength - 1 : LoadReady(k) /\ LsqAt(k) = x
    BY <1>1, ReadyLoadsIs DEF TypeInv
  <2>2. ASSUME NEW x \in Slots, \E i \in DOMAIN w : w[i] = x PROVE x \in W /\ ~S[x].queued
    <3>1. PICK k \in 0 .. ScanLength - 1 : LoadReady(k) /\ LsqAt(k) = x
      BY <2>1, <2>2
    <3>2. k \in 0 .. LSQ_num - 1
      BY <3>1, ScanIs DEF TypeInv, LsqShape
    <3>3. x \in LsqWindow
      BY <3>1, <3>2, LsqAtWindow DEF TypeInv
    <3> QED
      BY <1>1, <3>1, <3>3, WindowIs DEF LoadReady
  <2> QED
    BY <2>1, <2>2 DEF Queueable
<1>5. NowQueued(S, T, w)
  <2>1. Marked(S, T, w)
    BY <1>1, <1>2, MarkQueuedIs DEF TypeInv, Typed
  <2> QED
    BY <2>1, Zenon DEF Marked, NowQueued
<1>6. SchedOk(ReadyqEnqueue(rq, w, S), <<>>, eq, T, W)
  BY <1>1, <1>3, <1>4, <1>5, QueuesTypes, SlotsQueued
<1>7. PICK q : q = ReadyqEnqueue(rq, w, S)
  OBVIOUS
<1>8. q \in Seq(NodeType)
  <2>1. \A u \in Slots : Node(u, S) \in NodeType
    BY <1>3 DEF SameTags
  <2>2. rq \in Seq(NodeType) /\ w \in Seq(Slots)
    BY <1>3, <1>4 DEF Queues, Queueable
  <2> QED
    BY <1>7, <2>1, <2>2, EnqueueIs
<1>9. SchedOk(<<>>, q, eq, T, W)
  <2>1. \A s, t : Count(<<>>, s, t) = 0
    BY CountEmpty
  <2>2. \A s, t : Count(q, s, t) \in Nat
    BY <1>8, CountType
  <2>3. SchedOk(q, <<>>, eq, T, W)
    BY <1>6, <1>7
  <2>4. /\ \A s \in Slots : /\ Count(<<>>, s, T[s].tag) + Count(q, s, T[s].tag)
                                  = Count(q, s, T[s].tag) + Count(<<>>, s, T[s].tag)
                            /\ Count(eq, s, T[s].tag) = Count(eq, s, T[s].tag)
        /\ \A s \in Slots : \A t \in Nat :
              t > T[s].tag /\ Count(q, s, t) = 0 /\ Count(<<>>, s, t) = 0
                           /\ Count(eq, s, t) = 0 =>
                 Count(<<>>, s, t) = 0 /\ Count(q, s, t) = 0 /\ Count(eq, s, t) = 0
    BY <2>1, <2>2
  <2> QED
    BY <2>3, <2>4, NodesMove
<1> QED
  BY <1>1, <1>2, <1>7, <1>9

\* The head of todo, when it is valid.
LEMMA IssuingIs ==
    ASSUME CanIssue, IssueLive
    PROVE  /\ todo # <<>> /\ Issuing \in Slots /\ Head(todo).rs = Issuing
           /\ Head(todo).tag = st[Issuing].tag
BY DEF CanIssue, IssueLive, RSLINK_VALID, Issuing

LEMMA IssueStoreSched ==
    ASSUME TypeInv, ProgressInv, SchedInv, IssueStore, ~Panics
    PROVE  SchedOk(ready_queue', todo', event_queue', st', Window')
<1>1. PICK S, T, W, c, rq, td, eq : /\ S = st /\ T = st' /\ W = Window /\ c = Issuing
                                    /\ rq = ready_queue /\ td = todo /\ eq = event_queue
  OBVIOUS
<1>2. /\ todo' = Tail(td) /\ ready_queue' = rq /\ event_queue' = eq /\ Window' = W
      /\ CanIssue /\ IssueLive
  BY <1>1, IdleWindow DEF IssueStore
<1>3. /\ Queues(rq, td, eq) /\ SchedOk(rq, td, eq, S, W)
      /\ \A s \in Slots : S[s].tag \in Nat
  BY <1>1, QueuesTypes DEF SchedInv
<1>4. /\ td # <<>> /\ c \in Slots /\ Head(td).rs = c /\ Head(td).tag = S[c].tag
      /\ ~S[c].issued /\ ~S[c].completed
  BY <1>1, <1>2, IssuingIs, IssueFound
<1>5. Started(S, T, c, TRUE)
  BY <1>1, IssueStoreIs DEF TypeInv, Typed
<1>6. Scheduled(eq, eq, S, c, TRUE)
  BY <1>3, CountsType DEF Scheduled
<1>7. SchedOk(rq, Tail(td), eq, T, W)
  BY <1>3, <1>4, <1>5, <1>6, NodeStarts
<1> QED
  BY <1>1, <1>2, <1>7

LEMMA StartingSched ==
    ASSUME TypeInv, ProgressInv, SchedInv, Starting, [Next]_vars, ~Panics
    PROVE  SchedOk(ready_queue', todo', event_queue', st', Window')
<1>1. PICK S, T, W, c, rq, td, eq, eq2 :
          /\ S = st /\ T = st' /\ W = Window /\ c = Issuing
          /\ rq = ready_queue /\ td = todo /\ eq = event_queue /\ eq2 = event_queue'
  OBVIOUS
<1>2. PICK lat : CanIssue /\ IssueLive /\ Start(lat) /\ Window' = W
  BY <1>1, IdleWindow DEF Starting
<1>3. /\ todo' = Tail(td) /\ ready_queue' = rq /\ eq2 = EventqInsert(eq, c, S, lat)
  BY <1>1, <1>2 DEF Start
<1>4. /\ Queues(rq, td, eq) /\ SchedOk(rq, td, eq, S, W)
      /\ \A s \in Slots : S[s].tag \in Nat
  BY <1>1, QueuesTypes DEF SchedInv
<1>5. /\ td # <<>> /\ c \in Slots /\ Head(td).rs = c /\ Head(td).tag = S[c].tag
      /\ ~S[c].issued /\ ~S[c].completed
  BY <1>1, <1>2, IssuingIs, IssueFound
<1>6. Started(S, T, c, FALSE)
  BY <1>1, <1>2, StartActionIs DEF TypeInv, Typed
<1>7. eq2 \in Seq(EventType)
  BY <1>1, QueuesTypedStep DEF QueuesTyped
<1>8. PICK e : e = [rs |-> c, tag |-> S[c].tag, when |-> lat]
  OBVIOUS
<1>9. \A s, t : Count(eq2, s, t) = Count(eq, s, t) + IsFor(e, s, t)
  <2>1. PICK X : X = EventType \cup {e}
    OBVIOUS
  <2>2. eq \in Seq(X) /\ e \in X
    BY <1>4, <2>1 DEF Queues
  <2>3. /\ EventqInsert(eq, c, S, lat) \in Seq(X)
        /\ \E p : Inserted(eq, EventqInsert(eq, c, S, lat), p, e)
    BY <1>8, <2>2, EventqInsertIs
  <2>4. PICK p : Inserted(eq, eq2, p, e)
    BY <1>3, <2>3
  <2>5. eq2 \in Seq(X)
    BY <1>3, <2>3
  <2> QED
    BY <2>2, <2>4, <2>5, CountInserted
<1>10. Scheduled(eq, eq2, S, c, FALSE)
  <2>1. e.rs = c /\ e.tag = S[c].tag
    BY <1>8
  <2>2. \A s, t : IsFor(e, s, t) = IF ~FALSE /\ s = c /\ t = S[c].tag THEN 1 ELSE 0
    BY <2>1 DEF IsFor
  <2> QED
    BY <1>9, <2>2 DEF Scheduled
<1>11. Queues(rq, td, eq2)
  BY <1>4, <1>7 DEF Queues
<1>12. SchedOk(rq, Tail(td), eq2, T, W)
  BY <1>4, <1>5, <1>6, <1>10, <1>11, NodeStarts
<1> QED
  BY <1>1, <1>2, <1>3, <1>12

LEMMA NoUnitSched ==
    ASSUME TypeInv, SchedInv, IssueNoUnit
    PROVE  SchedOk(ready_queue', todo', event_queue', st', Window')
<1>1. PICK S, W, c, rq, td, eq, rq2 :
          /\ S = st /\ W = Window /\ c = Issuing /\ rq2 = ready_queue'
          /\ rq = ready_queue /\ td = todo /\ eq = event_queue
  OBVIOUS
<1>2. /\ todo' = Tail(td) /\ rq2 = ReadyqInsert(rq, c, S) /\ event_queue' = eq
      /\ CanIssue /\ IssueLive /\ st' = S /\ Window' = W
  BY <1>1, IdleWindow DEF IssueNoUnit
<1>3. /\ Queues(rq, td, eq) /\ SchedOk(rq, td, eq, S, W)
      /\ \A s \in Slots : S[s].tag \in Nat /\ Node(s, S) \in NodeType
  BY <1>1, QueuesTypes DEF SchedInv, TypeInv
<1>4. /\ td # <<>> /\ c \in Slots /\ Head(td).rs = c /\ Head(td).tag = S[c].tag
  BY <1>1, <1>2, IssuingIs
<1>5. PICK e, h, td2 : e = Node(c, S) /\ h = Head(td) /\ td2 = Tail(td)
  OBVIOUS
<1>6. \A s, t : Count(rq2, s, t) = Count(rq, s, t) + IsFor(e, s, t)
  <2>1. ReadyqInsert(rq, c, S) \in Seq(NodeType) /\
        \E p : Inserted(rq, ReadyqInsert(rq, c, S), p, Node(c, S))
    BY <1>3, <1>4, ReadyqInsertIs DEF Queues
  <2>2. PICK p : rq2 \in Seq(NodeType) /\ Inserted(rq, rq2, p, e)
    BY <1>2, <1>5, <2>1
  <2> QED
    BY <1>3, <2>2, CountInserted DEF Queues
<1>7. \A s, t : /\ Count(td, s, t) = Count(td2, s, t) + IsFor(h, s, t)
                /\ Count(td2, s, t) \in Nat
  BY <1>3, <1>4, <1>5, CountTail DEF Queues
<1>8. \A s, t : /\ IsFor(e, s, t) = IsFor(h, s, t) /\ IsFor(h, s, t) \in {0, 1}
  <2>1. e.rs = c /\ e.tag = S[c].tag
    BY <1>5 DEF Node
  <2> QED
    BY <1>4, <1>5, <2>1 DEF IsFor
<1>9. \A s, t : Count(rq, s, t) \in Nat
  BY <1>3, CountsType
<1>10. /\ \A s, t : Count(rq2, s, t) + Count(td2, s, t) = Count(rq, s, t) + Count(td, s, t)
       /\ \A s, t : Count(rq, s, t) = 0 /\ Count(td, s, t) = 0
                       => Count(rq2, s, t) = 0 /\ Count(td2, s, t) = 0
  BY <1>6, <1>7, <1>8, <1>9
<1>11. SchedOk(rq2, td2, eq, S, W)
  BY <1>3, <1>10, NodesMove
<1> QED
  BY <1>1, <1>2, <1>5, <1>11

LEMMA IssueDoneSched ==
    ASSUME TypeInv, SchedInv, IssueDone
    PROVE  SchedOk(ready_queue', todo', event_queue', st', Window')
<1>1. PICK S, W, rq, td, eq, rq2, w :
          /\ S = st /\ W = Window /\ rq2 = ready_queue' /\ w = GivenBack
          /\ rq = ready_queue /\ td = todo /\ eq = event_queue
  OBVIOUS
<1>2. /\ rq2 = ReadyqEnqueue(rq, w, S) /\ todo' = <<>> /\ event_queue' = eq
      /\ st' = S /\ Window' = W
  <2>1. ready_queue' = ReadyqEnqueue(ready_queue, GivenBack, st)
    BY DEF IssueDone, GivenBack, LiveAt
  <2> QED
    BY <1>1, <2>1, IdleWindow DEF IssueDone
<1>3. /\ Queues(rq, td, eq) /\ SchedOk(rq, td, eq, S, W)
      /\ \A s \in Slots : S[s].tag \in Nat /\ Node(s, S) \in NodeType
  BY <1>1, QueuesTypes DEF SchedInv, TypeInv
<1>4. w \in Seq(Slots) /\ \A s \in Slots : Times(w, s) = Count(td, s, S[s].tag)
  BY <1>1, <1>3, GivenBackIs DEF Queues
<1>5. \A s \in Slots : \A t :
         Count(rq2, s, t) = Count(rq, s, t) + IF t = S[s].tag THEN Times(w, s) ELSE 0
  <2>1. \A s \in Slots : \A t :
           Count(ReadyqEnqueue(rq, w, S), s, t)
              = Count(rq, s, t) + IF t = S[s].tag THEN Times(w, s) ELSE 0
    BY <1>3, <1>4, EnqueueIs DEF Queues
  <2> QED
    BY <1>2, <2>1
<1>6. \A s, t : Count(<<>>, s, t) = 0 /\ Count(rq, s, t) \in Nat /\ Count(td, s, t) \in Nat
  BY <1>3, CountEmpty, CountsType
<1>7. \A s \in Slots : /\ Count(rq2, s, S[s].tag) + Count(<<>>, s, S[s].tag)
                             = Count(rq, s, S[s].tag) + Count(td, s, S[s].tag)
                       /\ Count(eq, s, S[s].tag) = Count(eq, s, S[s].tag)
  BY <1>4, <1>5, <1>6
<1>8. \A s \in Slots : \A t \in Nat :
         t > S[s].tag /\ Count(rq, s, t) = 0 /\ Count(td, s, t) = 0
                      /\ Count(eq, s, t) = 0 =>
            Count(rq2, s, t) = 0 /\ Count(<<>>, s, t) = 0 /\ Count(eq, s, t) = 0
  <2> TAKE s \in Slots
  <2> TAKE t \in Nat
  <2>1. t > S[s].tag => t # S[s].tag
    BY <1>3
  <2> QED
    BY <1>5, <1>6, <2>1
<1>9. SchedOk(rq2, <<>>, eq, S, W)
  BY <1>3, <1>7, <1>8, NodesMove
<1> QED
  BY <1>1, <1>2, <1>9

LEMMA DispatchSched ==
    ASSUME TypeInv, OrderInv, WakeInv, ProgressInv, SchedInv, DispatchInst
    PROVE  SchedOk(ready_queue', todo', event_queue', st', Window')
<1>1. PICK npc \in PCs, addr \in Addrs \cup {0} : Install(npc, addr)
  BY DispatchInstIs DEF TypeInv
<1>2. /\ CanDispatch /\ RUU_head' = RUU_head /\ LSQ_head' = LSQ_head
      /\ todo' = todo /\ event_queue' = event_queue
  BY DEF DispatchInst
<1>3. PICK F, L : Installed(F, L, npc, addr)
  BY <1>1, <1>2, InstallIs DEF TypeInv, OrderTyped
<1>4. PICK S, T, W, V, w, rq, td, eq :
          /\ S = st /\ T = st' /\ W = Window /\ V = Window' /\ w = ReadyNow(F)
          /\ rq = ready_queue /\ td = todo /\ eq = event_queue
  OBVIOUS
<1>5. ready_queue' = ReadyqEnqueue(rq, w, L)
  BY <1>3, <1>4 DEF Installed, InstalledRest
<1>6. /\ Queues(rq, td, eq) /\ SchedOk(rq, td, eq, S, W)
      /\ \A s \in Slots : S[s].tag \in Nat
  BY <1>4, QueuesTypes DEF SchedInv
<1>7. \A s \in Slots :
         /\ L[s].tag = S[s].tag /\ T[s].tag = S[s].tag
         /\ s \notin NewOnes => SameProgress(S[s], T[s])
         /\ s \in NewOnes => ~T[s].issued /\ ~T[s].completed
         /\ s \in NewOnes => (T[s].queued <=> \E i \in DOMAIN w : w[i] = s)
  BY <1>1, <1>2, <1>3, <1>4, DispatchProgress
<1>8. NewOnes \subseteq Slots /\ NewOnes \cap W = {} /\ V = W \cup NewOnes
  BY <1>1, <1>2, <1>4, DispatchAdds
<1>9. /\ w = <<NewRuu>> \/ w = <<>>
      /\ NewRuu \in NewOnes /\ NewRuu \in Slots
  BY <1>4, NewSlots DEF ReadyNow, NewOnes, TypeInv
<1>10. PICK R : R = [s \in Slots |->
                       [tag |-> S[s].tag, queued |-> s \notin NewOnes /\ S[s].queued,
                        issued |-> s \notin NewOnes /\ S[s].issued,
                        completed |-> s \notin NewOnes /\ S[s].completed]]
  OBVIOUS
<1>11. \A s \in Slots :
          /\ R[s].tag = S[s].tag
          /\ R[s].queued <=> s \notin NewOnes /\ S[s].queued
          /\ R[s].issued <=> s \notin NewOnes /\ S[s].issued
          /\ R[s].completed <=> s \notin NewOnes /\ S[s].completed
  BY <1>10, Zenon
<1>12. SchedOk(rq, td, eq, R, V)
  <2> SUFFICES ASSUME NEW s \in Slots PROVE SlotOk(rq, td, eq, s, R[s], V)
    BY DEF SchedOk
  <2>1. SlotOk(rq, td, eq, s, S[s], W)
    BY <1>6 DEF SchedOk
  <2>2. /\ R[s].tag = S[s].tag
        /\ s \in V /\ R[s].queued <=> s \in W /\ S[s].queued
        /\ s \in V /\ R[s].issued /\ ~R[s].completed <=> s \in W /\ S[s].issued /\ ~S[s].completed
    BY <1>8, <1>11
  <2> QED
    BY <2>1, <2>2 DEF SlotOk
<1>13. Queueable(R, V, w)
  <2>1. w \in Seq(Slots)
    <3>1. PICK u : u = NewRuu
      OBVIOUS
    <3>2. u \in Slots /\ (w = <<u>> \/ w = <<>>)
      BY <1>9, <3>1
    <3>3. <<u>> \in Seq(Slots) /\ <<>> \in Seq(Slots)
      BY <3>2
    <3> QED
      BY <3>2, <3>3, Zenon
  <2>2. ASSUME NEW s \in Slots
        PROVE  /\ Times(w, s) = IF \E i \in DOMAIN w : w[i] = s THEN 1 ELSE 0
               /\ (\E i \in DOMAIN w : w[i] = s) => s \in V /\ ~R[s].queued
    <3>1. CASE \E i \in DOMAIN w : w[i] = s
      <4>1. DOMAIN w = {1} /\ s = NewRuu /\ w[1] = s
        BY <1>9, <3>1
      <4>2. {i \in DOMAIN w : w[i] = s} = {1}
        BY <4>1
      <4>3. Times(w, s) = 1
        BY <4>2, FS_Singleton DEF Times
      <4> QED
        BY <1>8, <1>9, <1>11, <3>1, <4>1, <4>3
    <3>2. CASE ~\E i \in DOMAIN w : w[i] = s
      <4>1. {i \in DOMAIN w : w[i] = s} = {}
        BY <3>2
      <4>2. Times(w, s) = 0
        BY <4>1, FS_EmptySet DEF Times
      <4> QED
        BY <3>2, <4>2
    <3> QED
      BY <3>1, <3>2
  <2> QED
    BY <2>1, <2>2 DEF Queueable
<1>14. NowQueued(R, T, w)
  <2> SUFFICES ASSUME NEW s \in Slots
               PROVE  /\ T[s].tag = R[s].tag
                      /\ T[s].issued = R[s].issued /\ T[s].completed = R[s].completed
                      /\ T[s].queued = IF \E i \in DOMAIN w : w[i] = s THEN TRUE
                                       ELSE R[s].queued
    BY Zenon DEF NowQueued
  <2>1. /\ T[s].issued \in BOOLEAN /\ T[s].completed \in BOOLEAN /\ T[s].queued \in BOOLEAN
        /\ R[s].issued \in BOOLEAN /\ R[s].completed \in BOOLEAN /\ R[s].queued \in BOOLEAN
    <3>1. Typed(T)
      BY <1>1, <1>2, <1>4, InstallIs DEF TypeInv, OrderTyped
    <3>2. /\ R[s].issued \in BOOLEAN /\ R[s].completed \in BOOLEAN /\ R[s].queued \in BOOLEAN
      BY <1>10
    <3> QED
      BY <3>1, <3>2 DEF Typed, ProgressTyped
  <2>2. /\ T[s].issued <=> R[s].issued
        /\ T[s].completed <=> R[s].completed
    BY <1>7, <1>11 DEF SameProgress
  <2>3. T[s].queued <=> IF \E i \in DOMAIN w : w[i] = s THEN TRUE ELSE R[s].queued
    <3>1. (\E i \in DOMAIN w : w[i] = s) => s \in NewOnes
      BY <1>9
    <3> QED
      BY <1>7, <1>11, <3>1 DEF SameProgress
  <2> QED
    BY <1>7, <1>11, <2>1, <2>2, <2>3
<1>15. SameTags(R, L) /\ \A s \in Slots : R[s].tag \in Nat
  <2>1. \A s \in Slots : L[s].tag = R[s].tag /\ R[s].tag \in Nat
    BY <1>6, <1>7, <1>11
  <2>2. Typed(L)
    <3>1. Typed(F) /\ LinkedIn(F, L)
      BY <1>3 DEF Installed
    <3> QED
      BY <3>1, TypedFrom DEF LinkedIn, ListsOnly, SameProgress, Typed, ProgressTyped, Lists
  <2> QED
    BY <2>1, <2>2, NodeTyped DEF SameTags
<1>16. SchedOk(ReadyqEnqueue(rq, w, L), td, eq, T, V)
  BY <1>6, <1>12, <1>13, <1>14, <1>15, SlotsQueued
<1> QED
  BY <1>2, <1>4, <1>5, <1>16

LEMMA EndCycleSched ==
    ASSUME TypeInv, SchedInv, EndCycle
    PROVE  SchedOk(ready_queue', todo', event_queue', st', Window')
<1>1. PICK S, W, rq, td, eq, eq2 :
          /\ S = st /\ W = Window /\ rq = ready_queue /\ td = todo
          /\ eq = event_queue /\ eq2 = event_queue'
  OBVIOUS
<1>2. /\ eq2 = [i \in DOMAIN eq |-> [eq[i] EXCEPT !.when = @ - 1]]
      /\ ready_queue' = rq /\ todo' = td /\ st' = S /\ Window' = W
  BY <1>1, IdleWindow DEF EndCycle
<1>3. Queues(rq, td, eq) /\ SchedOk(rq, td, eq, S, W)
  BY <1>1, QueuesTypes DEF SchedInv
<1>4. \A s, t : Count(eq2, s, t) = Count(eq, s, t)
  <2>1. \A i \in DOMAIN eq : eq[i] \in EventType
    BY <1>3 DEF Queues
  <2>2. DOMAIN eq2 = DOMAIN eq /\ \A i \in DOMAIN eq : /\ eq2[i].rs = eq[i].rs
                                                       /\ eq2[i].tag = eq[i].tag
    BY <1>2, <2>1 DEF EventType
  <2> QED
    BY <2>2, CountSame
<1>5. SchedOk(rq, td, eq2, S, W)
  BY <1>3, <1>4 DEF SchedOk, SlotOk
<1> QED
  BY <1>1, <1>2, <1>5

LEMMA InitSchedInv == Init => SchedInv
<1> SUFFICES ASSUME Init PROVE SchedInv
  OBVIOUS
<1>1. SchedOk(ready_queue, todo, event_queue, st, Window)
  <2>1. \A s, t : /\ Count(ready_queue, s, t) = 0 /\ Count(todo, s, t) = 0
                  /\ Count(event_queue, s, t) = 0
    BY CountEmpty DEF Init
  <2> QED
    BY <2>1, InitWindow DEF SchedOk, SlotOk
<1> QED
  BY <1>1 DEF SchedInv, Init

LEMMA SchedInvStep ==
    ASSUME TypeInv, OrderInv, SpecInv, InstOk, CvInv, WakeInv, ProgressInv, SchedInv,
           [Next]_vars
    PROVE  SchedInv'
<1>1. stage' # "issue" => todo' = <<>>
  BY TodoStep DEF SchedInv
<1>2. CASE SchedIdle
  BY <1>1, <1>2, IdleWindow DEF SchedIdle, schedVars, SchedInv
<1>3. CASE RuuCommit /\ ~Panics
  BY <1>1, <1>3, CommitSched DEF SchedInv
<1>4. CASE WritebackStale
  <2>1. PICK S, W, rq, td, eq : /\ S = st /\ W = Window /\ rq = ready_queue /\ td = todo
                                /\ eq = event_queue
    OBVIOUS
  <2>2. /\ Queues(rq, td, eq) /\ SchedOk(rq, td, eq, S, W)
        /\ \A s \in Slots : S[s].tag \in Nat
    BY <2>1, QueuesTypes DEF SchedInv
  <2>3. /\ eq # <<>> /\ ~RSLINK_VALID(Head(eq), S) /\ event_queue' = Tail(eq)
        /\ UNCHANGED <<st, ready_queue, todo>> /\ Window' = W
    BY <1>4, <2>1, IdleWindow DEF WritebackStale, EventDue, EventLive
  <2>4. SchedOk(rq, td, Tail(eq), S, W)
    BY <2>2, <2>3, StaleEvent
  <2> QED
    BY <1>1, <2>1, <2>3, <2>4 DEF SchedInv
<1>5. CASE (WritebackOp \/ WritebackRecover) /\ ~Panics
  BY <1>1, <1>5, WritebackSched DEF SchedInv
<1>6. CASE LsqRefresh
  BY <1>1, <1>6, RefreshSched DEF SchedInv
<1>7. CASE IssueStale
  <2>1. PICK S, W, rq, td, eq : /\ S = st /\ W = Window /\ rq = ready_queue /\ td = todo
                                /\ eq = event_queue
    OBVIOUS
  <2>2. /\ Queues(rq, td, eq) /\ SchedOk(rq, td, eq, S, W)
        /\ \A s \in Slots : S[s].tag \in Nat
    BY <2>1, QueuesTypes DEF SchedInv
  <2>3. /\ td # <<>> /\ ~RSLINK_VALID(Head(td), S) /\ todo' = Tail(td)
        /\ UNCHANGED <<st, ready_queue, event_queue>> /\ Window' = W
    BY <1>7, <2>1, IdleWindow DEF IssueStale, CanIssue, IssueLive
  <2>4. SchedOk(rq, Tail(td), eq, S, W)
    BY <2>2, <2>3, StaleNode
  <2> QED
    BY <1>1, <2>1, <2>3, <2>4 DEF SchedInv
<1>8. CASE IssueStore /\ ~Panics
  BY <1>1, <1>8, IssueStoreSched DEF SchedInv
<1>9. CASE Starting /\ ~Panics
  BY <1>1, <1>9, StartingSched DEF SchedInv
<1>10. CASE IssueNoUnit
  BY <1>1, <1>10, NoUnitSched DEF SchedInv
<1>11. CASE IssueDone
  BY <1>1, <1>11, IssueDoneSched DEF SchedInv
<1>12. CASE DispatchInst
  BY <1>1, <1>12, DispatchSched DEF SchedInv
<1>13. CASE EndCycle
  BY <1>1, <1>13, EndCycleSched DEF SchedInv
<1> QED
  BY <1>2, <1>3, <1>4, <1>5, <1>6, <1>7, <1>8, <1>9, <1>10, <1>11, <1>12, <1>13, SchedKinds
     DEF SchedSteps

CoreInv == RegInv /\ WakeInv /\ ProgressInv /\ SchedInv

LEMMA CoreInvAlways == Spec => []CoreInv
<1>1. Init => SchedInv
  BY InitSchedInv
<1>2. RegInv /\ WakeInv /\ ProgressInv /\ SchedInv /\ [Next]_vars => SchedInv'
  BY SchedInvStep DEF RegInv
<1> QED
  BY <1>1, <1>2, ProgressAlways, PTL DEF Spec, CoreInv

LEMMA LiveIs ==
    ASSUME TypeInv, NEW X, NEW q \in Seq(X), NEW s \in Slots
    PROVE  /\ Cardinality(Live(q, s)) = Count(q, s, st[s].tag)
           /\ Live(q, s) # {} => Count(q, s, st[s].tag) # 0
<1>1. Live(q, s) = NodesFor(q, s, st[s].tag)
  BY DEF Live, NodesFor, RSLINK_VALID
<1>2. Count(q, s, st[s].tag) = 0 <=> NodesFor(q, s, st[s].tag) = {}
  BY CountType
<1> QED
  BY <1>1, <1>2 DEF Count

\* In every run of every machine an operation of the window has one node while
\* it is queued and one event while it executes, however ruu_issue takes nodes
\* off the ready queue and puts them back, recoveries invalidate them, and
\* stations are reused; and with all its operands it is queued, executing, done
\* or a load that lsq_refresh has still to find.
THEOREM OperationsScheduledOnce == Spec => []ScheduledOnce
<1>1. ASSUME CoreInv PROVE ScheduledOnce
  <2> SUFFICES ASSUME NEW s \in Window
               PROVE  /\ Cardinality(Live(ready_queue, s)) + Cardinality(Live(todo, s))
                            = IF st[s].queued THEN 1 ELSE 0
                      /\ Cardinality(Live(event_queue, s))
                            = IF st[s].issued /\ ~st[s].completed THEN 1 ELSE 0
                      /\ st[s].queued => ~st[s].issued
                      /\ st[s].issued => OPERANDS_READY(st[s])
                      /\ OPERANDS_READY(st[s]) => \/ st[s].queued \/ st[s].issued
                                                  \/ in_LSQ(s) /\ IsLoad(st[s])
    BY DEF ScheduledOnce
  <2>1. TypeInv /\ s \in Slots /\ Queues(ready_queue, todo, event_queue)
    BY <1>1, QueuesTypes DEF CoreInv, RegInv, Window
  <2>2. /\ Cardinality(Live(ready_queue, s)) = Count(ready_queue, s, st[s].tag)
        /\ Cardinality(Live(todo, s)) = Count(todo, s, st[s].tag)
        /\ Cardinality(Live(event_queue, s)) = Count(event_queue, s, st[s].tag)
    BY <2>1, LiveIs DEF Queues
  <2>3. SlotOk(ready_queue, todo, event_queue, s, st[s], Window)
    BY <1>1, <2>1 DEF CoreInv, SchedInv, SchedOk
  <2>4. Progress(s, st[s])
    BY <1>1 DEF CoreInv, ProgressInv, ProgressOk
  <2> QED
    BY <2>2, <2>3, <2>4 DEF SlotOk, Progress
<1> QED
  BY <1>1, CoreInvAlways, PTL

\* In every run of every machine a link with the tag of its station is one to
\* an operation of the window: tags grow at every retirement and squash, and
\* none is made ahead of its operation.
THEOREM ValidLinksAreLive == Spec => []LinksLive
<1>1. ASSUME CoreInv PROVE LinksLive
  <2>1. TypeInv /\ Queues(ready_queue, todo, event_queue)
    BY <1>1, QueuesTypes DEF CoreInv, RegInv
  <2>2. ASSUME NEW q \in {ready_queue, todo, event_queue}, NEW s \in Slots,
               Live(q, s) # {}
        PROVE  s \in Window
    <3>1. \E X : q \in Seq(X)
      BY <2>1 DEF Queues
    <3>2. Count(q, s, st[s].tag) # 0 /\ Count(q, s, st[s].tag) \in Nat
      BY <2>1, <2>2, <3>1, LiveIs, CountType
    <3>3. SlotOk(ready_queue, todo, event_queue, s, st[s], Window)
      BY <1>1 DEF CoreInv, SchedInv, SchedOk
    <3>4. /\ Count(ready_queue, s, st[s].tag) \in Nat /\ Count(todo, s, st[s].tag) \in Nat
          /\ Count(event_queue, s, st[s].tag) \in Nat
      BY <2>1, CountsType
    <3> QED
      BY <3>2, <3>3, <3>4 DEF SlotOk
  <2>3. ASSUME NEW x \in LiveLinks PROVE LinkAt(x).rs \in Window
    <3>1. x \in OdepPlaces(st, Slots) /\ RSLINK_VALID(LinkAt(x), st)
      BY DEF LiveLinks
    <3>0. PICK c \in Slots, o \in 1 .. 2 :
             \E i \in DOMAIN st[c].odep_list[o] : LinkAt(x) = st[c].odep_list[o][i]
      BY <3>1, PlaceIn DEF LinkAt
    <3>2. PICK i \in DOMAIN st[c].odep_list[o] : LinkAt(x) = st[c].odep_list[o][i]
      BY <3>0
    <3>3. PICK e : e = LinkAt(x)
      OBVIOUS
    <3>4. e \in LinkType
      BY <2>1, <3>2, <3>3 DEF TypeInv, Typed, Lists
    <3>5. /\ e.rs \in Slots /\ e.tag = st[e.rs].tag /\ e.opnum \in 1 .. 3
          /\ e = Link(e.rs, e.tag, e.opnum) /\ e.tag \in Nat
      BY <3>1, <3>3, <3>4 DEF LinkType, Link, RSLINK_VALID
    <3>6. LinksTo(st, c, o, e.rs, e.tag, e.opnum) # 0
      <4>1. Lists(st)
        BY <2>1 DEF TypeInv, Typed
      <4> QED
        BY <3>2, <3>3, <3>5, <4>1, LinksZero DEF LinksTo
    <3>7. LinkSound(st, Window, c, o, e.rs, e.tag, e.opnum)
      BY <1>1, <3>5, <3>6 DEF CoreInv, WakeInv, WakeOk
    <3> QED
      BY <3>3, <3>5, <3>7 DEF LinkSound
  <2> QED
    BY <2>2, <2>3 DEF LinksLive
<1> QED
  BY <1>1, CoreInvAlways, PTL

-----------------------------------------------------------------------------
(* The RS_LINKs, counted *)

Places(S) == Cardinality(OdepPlaces(S, Slots))

\* The sum of LinksConserved.
Total(free, rq, td, eq, S) == free + Len(rq) + Len(td) + Len(eq) + Places(S)

LEMMA TotalTyped ==
    ASSUME TypeInv
    PROVE  /\ rslink_free \in Nat /\ Len(ready_queue) \in Nat /\ Len(todo) \in Nat
           /\ Len(event_queue) \in Nat /\ Places(st) \in Nat
           /\ LinksConserved <=> Total(rslink_free, ready_queue, todo, event_queue, st)
                                    = MAX_RS_LINKS
BY PlacesFinite DEF TypeInv, QueuesTyped, Typed, Places, Total, LinksConserved

LEMMA PlacesKept ==
    ASSUME NEW S, NEW T,
           \A s \in Slots, o \in 1 .. 2 : T[s].odep_list[o] = S[s].odep_list[o]
    PROVE  Places(T) = Places(S)
BY PlacesSame DEF Places

LEMMA TailLen ==
    \A X : \A q \in Seq(X) : q # <<>> => Len(Tail(q)) = Len(q) - 1 /\ Len(q) \in Nat
  OBVIOUS

\* The places that a writeback and its recovery empty.
LEMMA WritebackPlaces ==
    ASSUME TypeInv, OrderInv, SpecInv, WakeInv, WritebackOp \/ WritebackRecover, ~Panics,
           NEW S, NEW w, WritebackVia(S, w), WakeOk(S, Window')
    PROVE  Places(st) = Places(st') + Len(OutputLinks(S[Completing]))
                           + Cardinality(OdepPlaces(st, Window \ Window'))
<1>1. PICK Q, T, c, D, E : /\ Q = st /\ T = st' /\ c = Completing
                           /\ D = Window \ Window' /\ E = Slots \ D
  OBVIOUS
<1>2. /\ Typed(S) /\ c \in Slots /\ WokenBy(S, T, c, w)
      /\ \A s \in Slots : /\ SameInst(Q[s], S[s])
                          /\ S[s].odep_list = IF s \in D THEN << <<>>, <<>> >>
                                              ELSE Q[s].odep_list
  BY <1>1 DEF WritebackVia
<1>3. /\ D \subseteq Slots /\ E \subseteq Slots /\ D \cap E = {} /\ D \cup E = Slots
  BY <1>1, WindowNamed
<1>4. Lists(S) /\ Lists(Q)
  BY <1>1, <1>2 DEF Typed, TypeInv
<1>5. Places(Q) = Places(S) + Cardinality(OdepPlaces(Q, D))
  <2>1. /\ Cardinality(OdepPlaces(Q, Slots)) = Cardinality(OdepPlaces(Q, D))
                                               + Cardinality(OdepPlaces(Q, E))
        /\ Cardinality(OdepPlaces(S, Slots)) = Cardinality(OdepPlaces(S, D))
                                               + Cardinality(OdepPlaces(S, E))
    BY <1>3, <1>4, PlacesSplit
  <2>2. OdepPlaces(S, E) = OdepPlaces(Q, E)
    <3>1. \A s \in E, o \in 1 .. 2 : S[s].odep_list[o] = Q[s].odep_list[o]
      BY <1>2, <1>3
    <3> QED
      BY <3>1, PlacesSame
  <2>3. OdepPlaces(S, D) = {}
    <3>1. \A s \in D, o \in 1 .. 2 : S[s].odep_list[o] = <<>>
      BY <1>2, <1>3
    <3> QED
      BY <3>1, PlacesNone
  <2>4. /\ Cardinality(OdepPlaces(Q, D)) \in Nat /\ Cardinality(OdepPlaces(Q, E)) \in Nat
    BY <1>3, <1>4, PlacesFinite
  <2> QED
    BY <2>1, <2>2, <2>3, <2>4, FS_EmptySet DEF Places
<1>6. Typed(T)
  BY <1>1, TypeInvStep, <1>2, TypedCompleted DEF WokenBy
<1>7. Places(S) = Places(T) + Len(OutputLinks(S[c]))
  <2>1. PICK B : B = Slots \ {c}
    OBVIOUS
  <2>2. /\ {c} \subseteq Slots /\ B \subseteq Slots /\ {c} \cap B = {} /\ {c} \cup B = Slots
    BY <1>2, <2>1
  <2>3. Lists(T)
    BY <1>6 DEF Typed
  <2>4. /\ Cardinality(OdepPlaces(S, Slots)) = Cardinality(OdepPlaces(S, {c}))
                                               + Cardinality(OdepPlaces(S, B))
        /\ Cardinality(OdepPlaces(T, Slots)) = Cardinality(OdepPlaces(T, {c}))
                                               + Cardinality(OdepPlaces(T, B))
    BY <1>4, <2>2, <2>3, PlacesSplit
  <2>5. Completed(S, T, c, OutputLinks(S[c]), w)
    BY <1>2 DEF WokenBy
  <2>6. OdepPlaces(T, B) = OdepPlaces(S, B)
    <3>1. \A s \in B : T[s].odep_list = S[s].odep_list
      BY <2>1, <2>5, Zenon DEF Completed
    <3>2. \A s \in B, o \in 1 .. 2 : T[s].odep_list[o] = S[s].odep_list[o]
      BY <3>1
    <3> QED
      BY <3>2, PlacesSame
  <2>7. /\ S[c].onames = Q[c].onames
        /\ \A o \in 1 .. 2 : S[c].onames[o] = NA => S[c].odep_list[o] = <<>>
    <3>1. WakeOk(S, Window')
      OBVIOUS
    <3> QED
      BY <1>2, <1>4, <3>1, DoneListsEmpty DEF SameInst
  <2>8. \A o \in 1 .. 2 : T[c].odep_list[o] = <<>>
    <3>1. T[c].odep_list = [o \in 1 .. 2 |-> IF st[c].onames[o] = NA
                                             THEN S[c].odep_list[o] ELSE <<>>]
      BY <2>5, Zenon DEF Completed
    <3> QED
      BY <1>1, <2>7, <3>1
  <2>9. OdepPlaces(T, {c}) = {}
    BY <2>8, PlacesNone
  <2>10. Cardinality(OdepPlaces(S, {c})) = OdepLinks(S[c])
    BY <1>2, <1>4, PlacesOne
  <2>11. OdepLinks(S[c]) = Len(OutputLinks(S[c]))
    <3>1. PICK a, b : a = S[c].odep_list[1] /\ b = S[c].odep_list[2]
      OBVIOUS
    <3>2. a \in Seq(LinkType) /\ b \in Seq(LinkType)
      BY <1>2, <1>4, <3>1 DEF Lists
    <3>4. /\ (IF S[c].onames[1] = NA THEN <<>> ELSE S[c].odep_list[1]) = a
          /\ (IF S[c].onames[2] = NA THEN <<>> ELSE S[c].odep_list[2]) = b
      BY <2>7, <3>1
    <3>3. OutputLinks(S[c]) = a \o b
      BY <3>4, Zenon DEF OutputLinks
    <3> QED
      BY <3>1, <3>2, <3>3, ConcatTyped DEF OdepLinks
  <2>12. /\ Cardinality(OdepPlaces(S, {c})) \in Nat /\ Cardinality(OdepPlaces(S, B)) \in Nat
    BY <1>4, <2>2, PlacesFinite
  <2>13. Cardinality(OdepPlaces(T, {c})) = 0
    BY <2>9, FS_EmptySet, Zenon
  <2>14. Cardinality(OdepPlaces(T, B)) = Cardinality(OdepPlaces(S, B))
    BY <2>6, Zenon
  <2>15. PICK x, y : x = Cardinality(OdepPlaces(S, {c})) /\ y = Cardinality(OdepPlaces(S, B))
    OBVIOUS
  <2>16. /\ Places(S) = x + y /\ x \in Nat /\ y \in Nat
         /\ x = Len(OutputLinks(S[c]))
    BY <2>4, <2>10, <2>11, <2>12, <2>15, Zenon DEF Places
  <2>17. Places(T) = 0 + y
    BY <2>4, <2>13, <2>14, <2>15, Zenon DEF Places
  <2> QED
    BY <2>16, <2>17
<1>8. /\ Places(T) \in Nat /\ Len(OutputLinks(S[c])) \in Nat
      /\ Cardinality(OdepPlaces(Q, D)) \in Nat
  <2>1. OutputLinks(S[c]) \in Seq(LinkType)
    BY <1>2, <1>4, OutputLinksTyped
  <2> QED
    BY <1>3, <1>4, <1>6, <2>1, PlacesFinite DEF Places, Typed
<1> QED
  BY <1>1, <1>5, <1>7, <1>8

\* The places that a dispatch fills.
LEMMA DispatchPlaces ==
    ASSUME TypeInv, OrderInv, WakeInv, CanDispatch, NEW F, NEW L, NEW npc, NEW addr,
           Installed(F, L, npc, addr), Install(npc, addr),
           RUU_head' = RUU_head, LSQ_head' = LSQ_head
    PROVE  Places(st') = Places(st) + Len(InstDeps)
<1>1. PICK S, T : S = st /\ T = st'
  OBVIOUS
<1>2. /\ \A s \in Slots \ NewOnes : F[s] = S[s]
      /\ \A u \in NewOnes : \A o \in 1 .. 2 : F[u].odep_list[o] = <<>>
  BY <1>1, FilledLinks
<1>3. \A u \in NewOnes : u \in Slots /\ \A o \in 1 .. 2 : S[u].odep_list[o] = <<>>
  <2>1. NewOnes \subseteq Slots /\ NewOnes \cap Window = {}
    BY DispatchAdds
  <2>2. Lists(S) /\ WakeOk(S, Window)
    BY <1>1 DEF TypeInv, Typed, WakeInv
  <2> QED
    BY <2>1, <2>2, DoneListsEmpty
<1>4. \A s \in Slots, o \in 1 .. 2 : F[s].odep_list[o] = S[s].odep_list[o]
  BY <1>2, <1>3
<1>5. Places(F) = Places(S)
  BY <1>4, PlacesKept
<1>6. Places(L) = Places(F) + Len(InstDeps)
  BY DEF Installed, LinkedIn, Places
<1>7. Places(T) = Places(L)
  <2>1. \A s \in Slots, o \in 1 .. 2 : T[s].odep_list[o] = L[s].odep_list[o]
    BY <1>1 DEF Installed, Marked
  <2> QED
    BY <2>1, PlacesKept
<1> QED
  BY <1>1, <1>5, <1>6, <1>7

LEMMA RefreshLinks ==
    ASSUME TypeInv, SchedInv, LsqRefresh, LinksConserved
    PROVE  Total(rslink_free', ready_queue', todo', event_queue', st') = MAX_RS_LINKS
<1>1. PICK S, w, rq, q : /\ S = st /\ w = ReadyLoads /\ rq = ready_queue
                         /\ q = ReadyqEnqueue(rq, w, S)
  OBVIOUS
<1>2. /\ todo' = q /\ ready_queue' = <<>> /\ event_queue' = event_queue
      /\ rslink_free' = rslink_free - Len(w) /\ st' = MarkQueued(S, w) /\ todo = <<>>
  BY <1>1 DEF LsqRefresh, SchedInv
<1>3. w \in Seq(Slots) /\ Len(w) \in Nat
  BY <1>1, ReadyLoadsIs DEF TypeInv
<1>4. Len(q) = Len(rq) + Len(w)
  <2>1. rq \in Seq(NodeType) /\ \A s \in Slots : Node(s, S) \in NodeType
    BY <1>1, QueuesTypes DEF Queues, TypeInv
  <2> QED
    BY <1>1, <1>3, <2>1, EnqueueIs
<1>5. Places(st') = Places(S)
  <2>1. Marked(S, MarkQueued(S, w), w)
    BY <1>1, MarkQueuedIs DEF TypeInv, Typed
  <2>2. \A s \in Slots, o \in 1 .. 2 : MarkQueued(S, w)[s].odep_list[o] = S[s].odep_list[o]
    BY <2>1 DEF Marked
  <2> QED
    BY <1>2, <2>2, PlacesKept
<1>6. /\ rslink_free \in Nat /\ Len(rq) \in Nat /\ Len(event_queue) \in Nat
      /\ Places(S) \in Nat
      /\ rslink_free + Len(rq) + Len(todo) + Len(event_queue) + Places(S) = MAX_RS_LINKS
  BY <1>1, TotalTyped DEF Total
<1>7. Len(todo) = 0 /\ Len(ready_queue') = 0
  BY <1>2
<1> QED
  BY <1>1, <1>2, <1>3, <1>4, <1>5, <1>6, <1>7 DEF Total

LEMMA IssueDoneLinks ==
    ASSUME TypeInv, IssueDone, LinksConserved
    PROVE  Total(rslink_free', ready_queue', todo', event_queue', st') = MAX_RS_LINKS
<1>1. PICK S, w, rq, td, q : /\ S = st /\ w = GivenBack /\ rq = ready_queue /\ td = todo
                             /\ q = ReadyqEnqueue(rq, w, S)
  OBVIOUS
<1>2. /\ todo' = <<>> /\ ready_queue' = q /\ event_queue' = event_queue /\ st' = S
      /\ rslink_free' = rslink_free + Len(td) - Len(InOrder(LiveAt))
  BY <1>1 DEF IssueDone, GivenBack, LiveAt
<1>3. /\ rq \in Seq(NodeType) /\ td \in Seq(NodeType)
      /\ \A s \in Slots : Node(s, S) \in NodeType
  BY <1>1, QueuesTypes DEF Queues, TypeInv
<1>4. w \in Seq(Slots) /\ Len(w) = Len(InOrder(LiveAt)) /\ Len(w) \in Nat
  BY <1>1, <1>3, GivenBackIs
<1>5. Len(q) = Len(rq) + Len(w)
  BY <1>1, <1>3, <1>4, EnqueueIs
<1>6. /\ rslink_free \in Nat /\ Len(rq) \in Nat /\ Len(td) \in Nat /\ Len(event_queue) \in Nat
      /\ Places(S) \in Nat
      /\ rslink_free + Len(rq) + Len(td) + Len(event_queue) + Places(S) = MAX_RS_LINKS
  BY <1>1, TotalTyped DEF Total
<1>7. Len(todo') = 0
  BY <1>2
<1>8. rslink_free' = (rslink_free + Len(td)) - Len(w)
  <2>1. PICK a, b, d : a = rslink_free /\ b = Len(td) /\ d = Len(w)
    OBVIOUS
  <2>2. a \in Nat /\ b \in Nat /\ d \in Nat
    BY <1>4, <1>6, <2>1, Zenon
  <2>3. rslink_free' = a + b - d
    BY <1>2, <1>4, <2>1, Zenon
  <2> QED
    BY <2>1, <2>2, <2>3
<1> QED
  BY <1>1, <1>2, <1>4, <1>5, <1>6, <1>7, <1>8 DEF Total

LEMMA WritebackLinks ==
    ASSUME TypeInv, OrderInv, SpecInv, InstOk, WakeInv, ProgressInv, LinksConserved,
           WritebackOp \/ WritebackRecover, ~Panics
    PROVE  Total(rslink_free', ready_queue', todo', event_queue', st') = MAX_RS_LINKS
<1>1. PICK S, w : WritebackVia(S, w) /\ WakeOk(S, Window')
  BY WritebackParts
<1>2. PICK rq, td, eq, rq2, m, f : /\ rq = ready_queue /\ td = todo /\ eq = event_queue
                             /\ rq2 = ReadyqEnqueue(rq, w, S)
                             /\ m = Len(OutputLinks(S[Completing]))
                             /\ f = Cardinality(OdepPlaces(st, Window \ Window'))
  OBVIOUS
<1>3. /\ ready_queue' = rq2 /\ event_queue' = Tail(eq) /\ Typed(S) /\ Completing \in Slots
      /\ rslink_free' = rslink_free + 1 + f + m - Len(w)
  BY <1>1, <1>2 DEF WritebackVia
<1>4. todo' = td /\ eq # <<>>
  BY <1>2 DEF WritebackOp, WritebackRecover, EventDue
<1>5. /\ rq \in Seq(NodeType) /\ td \in Seq(NodeType) /\ eq \in Seq(EventType)
      /\ \A s \in Slots : Node(s, S) \in NodeType
  BY <1>2, <1>3, QueuesTypes DEF Queues
<1>6. w \in Seq(Slots) /\ Len(w) \in Nat
  BY <1>1, WritebackProgress DEF WokenReady
<1>7. Len(rq2) = Len(rq) + Len(w)
  BY <1>2, <1>5, <1>6, EnqueueIs
<1>8. Len(Tail(eq)) = Len(eq) - 1
  BY <1>4, <1>5, TailLen
<1>9. Places(st) = Places(st') + m + f
  BY <1>1, <1>2, WritebackPlaces
<1>10. /\ rslink_free \in Nat /\ Len(rq) \in Nat /\ Len(td) \in Nat /\ Len(eq) \in Nat
       /\ Places(st) \in Nat
       /\ rslink_free + Len(rq) + Len(td) + Len(eq) + Places(st) = MAX_RS_LINKS
  BY <1>2, TotalTyped DEF Total
<1>11. Places(st') \in Nat /\ m \in Nat /\ f \in Nat
  <2>1. Typed(st') /\ Typed(st)
    BY TypedStep, <1>1, <1>3, TypedCompleted DEF WritebackVia, WokenBy, TypeInv
  <2>2. OutputLinks(S[Completing]) \in Seq(LinkType)
    BY <1>3, OutputLinksTyped DEF Typed
  <2>3. Window \ Window' \subseteq Slots
    BY WindowNamed
  <2> QED
    BY <1>2, <2>1, <2>2, <2>3, PlacesFinite DEF Places, Typed
<1>12. rslink_free' = (rslink_free + 1 + f + m) - Len(w)
  BY <1>3, <1>6, <1>10, <1>11
<1>13. Total(rslink_free', rq2, td, Tail(eq), st') = MAX_RS_LINKS
  <2>1. PICK a, b, d, e, l, p, q, r, x, y, z :
           /\ a = rslink_free /\ b = Len(rq) /\ d = Len(td) /\ e = Len(eq) /\ l = Len(w)
           /\ p = Places(st) /\ q = Places(st') /\ r = rslink_free' /\ x = Len(rq2)
           /\ y = Len(Tail(eq)) /\ z = MAX_RS_LINKS
    OBVIOUS
  <2>2. /\ a \in Nat /\ b \in Nat /\ d \in Nat /\ e \in Nat /\ l \in Nat /\ p \in Nat
        /\ q \in Nat /\ m \in Nat /\ f \in Nat
    BY <1>6, <1>10, <1>11, <2>1, Zenon
  <2>3. /\ x = b + l /\ y = e - 1 /\ p = q + m + f /\ r = (a + 1 + f + m) - l
        /\ a + b + d + e + p = z
    BY <1>7, <1>8, <1>9, <1>10, <1>12, <2>1, Zenon
  <2>4. r + x + d + y + q = z
    BY <2>2, <2>3
  <2> QED
    BY <2>1, <2>4, Zenon DEF Total
<1> QED
  BY <1>3, <1>4, <1>13

LEMMA DispatchLinks ==
    ASSUME TypeInv, OrderInv, WakeInv, LinksConserved, DispatchInst
    PROVE  Total(rslink_free', ready_queue', todo', event_queue', st') = MAX_RS_LINKS
<1>1. PICK npc \in PCs, addr \in Addrs \cup {0} : Install(npc, addr)
  BY DispatchInstIs DEF TypeInv
<1>2. /\ CanDispatch /\ RUU_head' = RUU_head /\ LSQ_head' = LSQ_head
      /\ todo' = todo /\ event_queue' = event_queue
  BY DEF DispatchInst
<1>3. PICK F, L : Installed(F, L, npc, addr)
  BY <1>1, <1>2, InstallIs DEF TypeInv, OrderTyped
<1>4. PICK w, rq, d : w = ReadyNow(F) /\ rq = ready_queue /\ d = Len(InstDeps)
  OBVIOUS
<1>5. /\ ready_queue' = ReadyqEnqueue(rq, w, L)
      /\ rslink_free' = rslink_free - d - Len(w)
  BY <1>3, <1>4 DEF Installed, InstalledRest
<1>6. w \in Seq(Slots) /\ Len(w) \in Nat
  <2>1. PICK u : u = NewRuu
    OBVIOUS
  <2>2. u \in Slots /\ (w = <<u>> \/ w = <<>>)
    BY <1>4, <2>1, NewSlots DEF ReadyNow, TypeInv
  <2>3. <<u>> \in Seq(Slots) /\ <<>> \in Seq(Slots)
    BY <2>2
  <2>4. w \in Seq(Slots)
    BY <2>2, <2>3, Zenon
  <2> QED
    BY <2>4
<1>7. Len(ready_queue') = Len(rq) + Len(w)
  <2>1. Typed(L)
    <3>1. Typed(F) /\ LinkedIn(F, L)
      BY <1>3 DEF Installed
    <3> QED
      BY <3>1, TypedFrom DEF LinkedIn, ListsOnly, SameProgress, Typed, ProgressTyped, Lists
  <2>2. rq \in Seq(NodeType) /\ \A s \in Slots : Node(s, L) \in NodeType
    BY <1>4, <2>1, NodeTyped DEF TypeInv, QueuesTyped
  <2> QED
    BY <1>5, <1>6, <2>2, EnqueueIs
<1>8. Places(st') = Places(st) + d
  BY <1>1, <1>2, <1>3, <1>4, DispatchPlaces
<1>9. d \in Nat
  BY <1>2, <1>4, DepsTyped DEF TypeInv
<1>10. /\ rslink_free \in Nat /\ Len(rq) \in Nat /\ Len(todo) \in Nat
       /\ Len(event_queue) \in Nat /\ Places(st) \in Nat
       /\ rslink_free + Len(rq) + Len(todo) + Len(event_queue) + Places(st) = MAX_RS_LINKS
  BY <1>4, TotalTyped DEF Total
<1> QED
  BY <1>2, <1>5, <1>6, <1>7, <1>8, <1>9, <1>10 DEF Total

LEMMA TakenOff ==
    ASSUME TypeInv, LinksConserved, NEW f, NEW d, NEW e,
           f = rslink_free + 1, UNCHANGED <<st, ready_queue>>,
           \/ todo # <<>> /\ d = Len(Tail(todo)) /\ e = Len(event_queue)
           \/ event_queue # <<>> /\ d = Len(todo) /\ e = Len(Tail(event_queue))
    PROVE  f + Len(ready_queue') + d + e + Places(st') = MAX_RS_LINKS
<1>1. PICK a, b, td, eq, p, z : /\ a = rslink_free /\ b = Len(ready_queue) /\ td = todo
                                /\ eq = event_queue /\ p = Places(st) /\ z = MAX_RS_LINKS
  OBVIOUS
<1>2. /\ a \in Nat /\ b \in Nat /\ Len(td) \in Nat /\ Len(eq) \in Nat /\ p \in Nat
      /\ a + b + Len(td) + Len(eq) + p = z
  BY <1>1, TotalTyped DEF Total
<1>3. /\ td # <<>> => Len(Tail(td)) = Len(td) - 1
      /\ eq # <<>> => Len(Tail(eq)) = Len(eq) - 1
  <2>1. Queues(ready_queue, td, eq)
    BY <1>1, QueuesTypes
  <2> QED
    BY <2>1, TailLen DEF Queues
<1>4. (a + 1) + b + d + e + p = z
  <2>1. PICK x, y : x = Len(td) /\ y = Len(eq)
    OBVIOUS
  <2>2. (d = x - 1 /\ e = y) \/ (d = x /\ e = y - 1)
    BY <1>1, <1>3, <2>1, Zenon
  <2>3. /\ a \in Nat /\ b \in Nat /\ x \in Nat /\ y \in Nat /\ p \in Nat
        /\ a + b + x + y + p = z
    BY <1>2, <2>1, Zenon
  <2> QED
    BY <2>2, <2>3
<1>5. Len(ready_queue') = b /\ Places(st') = p
  BY <1>1, Zenon DEF Places
<1> QED
  BY <1>1, <1>4, <1>5

LEMMA StartingLinks ==
    ASSUME TypeInv, LinksConserved, Starting
    PROVE  Total(rslink_free', ready_queue', todo', event_queue', st') = MAX_RS_LINKS
<1>1. PICK S, T, c, td, eq, eq2 :
          /\ S = st /\ T = st' /\ c = Issuing /\ td = todo /\ eq = event_queue
          /\ eq2 = event_queue'
  OBVIOUS
<1>2. PICK lat : CanIssue /\ IssueLive /\ Start(lat)
  BY DEF Starting
<1>3. /\ todo' = Tail(td) /\ ready_queue' = ready_queue /\ rslink_free' = rslink_free
      /\ eq2 = EventqInsert(eq, c, S, lat)
  BY <1>1, <1>2 DEF Start
<1>4. td # <<>> /\ c \in Slots /\ Queues(ready_queue, td, eq)
  BY <1>1, <1>2, IssuingIs, QueuesTypes
<1>5. Len(eq2) = Len(eq) + 1
  <2>1. PICK e, X : /\ e = [rs |-> c, tag |-> S[c].tag, when |-> lat]
                    /\ X = EventType \cup {e}
    OBVIOUS
  <2>2. eq \in Seq(X) /\ e \in X
    BY <1>4, <2>1 DEF Queues
  <2>3. \E p : Inserted(eq, EventqInsert(eq, c, S, lat), p, e)
    BY <2>1, <2>2, EventqInsertIs
  <2> QED
    BY <1>3, <2>3 DEF Inserted
<1>6. Len(Tail(td)) = Len(td) - 1
  BY <1>4, TailLen DEF Queues
<1>7. Places(T) = Places(S)
  <2>1. Started(S, T, c, FALSE)
    BY <1>1, <1>2, StartActionIs DEF TypeInv, Typed
  <2>2. \A s \in Slots, o \in 1 .. 2 : T[s].odep_list[o] = S[s].odep_list[o]
    BY <2>1 DEF Started
  <2> QED
    BY <2>2, PlacesKept
<1>8. /\ rslink_free \in Nat /\ Len(ready_queue) \in Nat /\ Len(td) \in Nat
      /\ Len(eq) \in Nat /\ Places(S) \in Nat
      /\ rslink_free + Len(ready_queue) + Len(td) + Len(eq) + Places(S) = MAX_RS_LINKS
  BY <1>1, TotalTyped DEF Total
<1>9. PICK a, b, d, e, p, z :
          /\ a = rslink_free /\ b = Len(ready_queue) /\ d = Len(td) /\ e = Len(eq)
          /\ p = Places(S) /\ z = MAX_RS_LINKS
  OBVIOUS
<1>10. /\ a \in Nat /\ b \in Nat /\ d \in Nat /\ e \in Nat /\ p \in Nat
       /\ a + b + d + e + p = z
  BY <1>8, <1>9, Zenon
<1>11. Total(a, ready_queue', todo', event_queue', st') = a + b + (d - 1) + (e + 1) + p
  BY <1>1, <1>3, <1>5, <1>6, <1>7, <1>9, Zenon DEF Total
<1>12. a + b + (d - 1) + (e + 1) + p = z
  BY <1>10
<1> QED
  BY <1>3, <1>9, <1>11, <1>12, Zenon

LEMMA NoUnitLinks ==
    ASSUME TypeInv, LinksConserved, IssueNoUnit
    PROVE  Total(rslink_free', ready_queue', todo', event_queue', st') = MAX_RS_LINKS
<1>1. PICK S, c, td, rq : /\ S = st /\ c = Issuing /\ td = todo /\ rq = ready_queue
  OBVIOUS
<1>2. /\ todo' = Tail(td) /\ event_queue' = event_queue /\ rslink_free' = rslink_free
      /\ ready_queue' = ReadyqInsert(rq, c, S) /\ st' = S /\ CanIssue /\ IssueLive
  BY <1>1 DEF IssueNoUnit
<1>3. /\ td # <<>> /\ c \in Slots /\ Queues(rq, td, event_queue)
      /\ Node(c, S) \in NodeType
  BY <1>1, <1>2, IssuingIs, QueuesTypes DEF TypeInv
<1>4. Len(ReadyqInsert(rq, c, S)) = Len(rq) + 1
  <2>1. \E p : Inserted(rq, ReadyqInsert(rq, c, S), p, Node(c, S))
    BY <1>3, ReadyqInsertIs DEF Queues
  <2> QED
    BY <2>1 DEF Inserted
<1>5. Len(Tail(td)) = Len(td) - 1
  BY <1>3, TailLen DEF Queues
<1>6. PICK a, b, d, e, p, z :
          /\ a = rslink_free /\ b = Len(rq) /\ d = Len(td) /\ e = Len(event_queue)
          /\ p = Places(S) /\ z = MAX_RS_LINKS
  OBVIOUS
<1>7. /\ a \in Nat /\ b \in Nat /\ d \in Nat /\ e \in Nat /\ p \in Nat
      /\ a + b + d + e + p = z
  <2>1. /\ rslink_free \in Nat /\ Len(rq) \in Nat /\ Len(td) \in Nat
        /\ Len(event_queue) \in Nat /\ Places(S) \in Nat
        /\ rslink_free + Len(rq) + Len(td) + Len(event_queue) + Places(S) = MAX_RS_LINKS
    BY <1>1, TotalTyped DEF Total
  <2> QED
    BY <1>6, <2>1, Zenon
<1>8. Total(a, ready_queue', todo', event_queue', st') = a + (b + 1) + (d - 1) + e + p
  BY <1>2, <1>4, <1>5, <1>6, Zenon DEF Total
<1>9. a + (b + 1) + (d - 1) + e + p = z
  BY <1>7
<1> QED
  BY <1>2, <1>6, <1>8, <1>9, Zenon

LEMMA InitLinks == Init => LinksConserved
<1> SUFFICES ASSUME Init PROVE LinksConserved
  OBVIOUS
<1>1. TypeInv
  BY InitTypeInv
<1>2. Places(st) = 0
  <2>1. \A s \in Slots, o \in 1 .. 2 : st[s].odep_list[o] = <<>>
    BY DEF Init, EmptyStation
  <2>2. OdepPlaces(st, Slots) = {}
    BY <2>1, PlacesNone
  <2> QED
    BY <2>2, FS_EmptySet DEF Places
<1>3. /\ rslink_free = MAX_RS_LINKS /\ ready_queue = <<>> /\ todo = <<>>
      /\ event_queue = <<>> /\ rslink_free \in Nat
  BY <1>1, TotalTyped DEF Init
<1>4. Total(rslink_free, ready_queue, todo, event_queue, st) = MAX_RS_LINKS
  BY <1>2, <1>3 DEF Total
<1> QED
  BY <1>1, <1>4, TotalTyped

LEMMA LinksStep ==
    ASSUME CoreInv, LinksConserved, [Next]_vars
    PROVE  Total(rslink_free', ready_queue', todo', event_queue', st') = MAX_RS_LINKS
<1>1. /\ TypeInv /\ OrderInv /\ SpecInv /\ InstOk /\ WakeInv /\ ProgressInv /\ SchedInv
      /\ Total(rslink_free, ready_queue, todo, event_queue, st) = MAX_RS_LINKS
  BY TotalTyped DEF CoreInv, RegInv
<1>2. CASE SchedIdle
  BY <1>1, <1>2 DEF SchedIdle, schedVars
<1>3. CASE RuuCommit /\ ~Panics
  <2>1. PICK S, T : S = st /\ T = st'
    OBVIOUS
  <2>2. \A s \in Slots, o \in 1 .. 2 : T[s].odep_list[o] = S[s].odep_list[o]
    BY <1>1, <1>3, <2>1, RetireIs DEF Retired, TypeInv, Typed
  <2>3. Places(T) = Places(S)
    BY <2>2, PlacesKept
  <2> QED
    BY <1>1, <1>3, <2>1, <2>3 DEF Total, RuuCommit, schedVars
<1>4. CASE WritebackStale
  <2>1. /\ event_queue # <<>> /\ event_queue' = Tail(event_queue) /\ todo' = todo
        /\ rslink_free' = rslink_free + 1 /\ UNCHANGED <<st, ready_queue>>
    BY <1>4 DEF WritebackStale, EventDue
  <2>2. \A f, d, e : f = rslink_free + 1 /\ d = Len(todo) /\ e = Len(Tail(event_queue)) =>
           f + Len(ready_queue') + d + e + Places(st') = MAX_RS_LINKS
    BY <1>1, <2>1, TakenOff
  <2> QED
    BY <2>1, <2>2 DEF Total
<1>5. CASE (WritebackOp \/ WritebackRecover) /\ ~Panics
  BY <1>1, <1>5, WritebackLinks
<1>6. CASE LsqRefresh
  BY <1>1, <1>6, RefreshLinks
<1>7. CASE IssueStale
  <2>1. /\ todo # <<>> /\ todo' = Tail(todo) /\ event_queue' = event_queue
        /\ rslink_free' = rslink_free + 1 /\ UNCHANGED <<st, ready_queue>>
    BY <1>7 DEF IssueStale, CanIssue
  <2>2. \A f, d, e : f = rslink_free + 1 /\ d = Len(Tail(todo)) /\ e = Len(event_queue) =>
           f + Len(ready_queue') + d + e + Places(st') = MAX_RS_LINKS
    BY <1>1, <2>1, TakenOff
  <2> QED
    BY <2>1, <2>2 DEF Total
<1>8. CASE IssueStore /\ ~Panics
  <2>1. PICK S, T, c, td : S = st /\ T = st' /\ c = Issuing /\ td = todo
    OBVIOUS
  <2>2. /\ todo' = Tail(td) /\ event_queue' = event_queue /\ ready_queue' = ready_queue
        /\ rslink_free' = rslink_free + 1 /\ CanIssue /\ IssueLive
    BY <1>8, <2>1 DEF IssueStore
  <2>3. Places(T) = Places(S)
    <3>1. Started(S, T, c, TRUE)
      BY <1>1, <1>8, <2>1, IssueStoreIs DEF TypeInv, Typed
    <3>2. \A s \in Slots, o \in 1 .. 2 : T[s].odep_list[o] = S[s].odep_list[o]
      BY <3>1 DEF Started
    <3> QED
      BY <3>2, PlacesKept
  <2>4. td # <<>> /\ Len(Tail(td)) = Len(td) - 1
    BY <1>1, <2>1, <2>2, TailLen, QueuesTypes DEF Queues, CanIssue
  <2>5. PICK a, b, d, e, p, z :
            /\ a = rslink_free /\ b = Len(ready_queue) /\ d = Len(td)
            /\ e = Len(event_queue) /\ p = Places(S) /\ z = MAX_RS_LINKS
    OBVIOUS
  <2>6. /\ a \in Nat /\ b \in Nat /\ d \in Nat /\ e \in Nat /\ p \in Nat
        /\ a + b + d + e + p = z
    BY <1>1, <2>1, <2>5, TotalTyped DEF Total
  <2>7. Total(a + 1, ready_queue', todo', event_queue', st') = (a + 1) + b + (d - 1) + e + p
    BY <2>1, <2>2, <2>3, <2>4, <2>5, Zenon DEF Total
  <2>8. (a + 1) + b + (d - 1) + e + p = z
    BY <2>6
  <2> QED
    BY <2>2, <2>5, <2>7, <2>8, Zenon
<1>9. CASE Starting /\ ~Panics
  BY <1>1, <1>9, StartingLinks
<1>10. CASE IssueNoUnit
  BY <1>1, <1>10, NoUnitLinks
<1>11. CASE IssueDone
  BY <1>1, <1>11, IssueDoneLinks
<1>12. CASE DispatchInst
  BY <1>1, <1>12, DispatchLinks
<1>13. CASE EndCycle
  <2>1. PICK eq : eq = event_queue
    OBVIOUS
  <2>2. /\ event_queue' = [i \in DOMAIN eq |-> [eq[i] EXCEPT !.when = @ - 1]]
        /\ UNCHANGED <<st, ready_queue, todo, rslink_free>>
    BY <1>13, <2>1 DEF EndCycle
  <2>3. eq \in Seq(EventType)
    BY <1>1, <2>1, QueuesTypes DEF Queues
  <2>4. Len(event_queue') = Len(eq)
    BY <2>2, <2>3
  <2> QED
    BY <1>1, <2>1, <2>2, <2>4 DEF Total
<1> QED
  BY <1>2, <1>3, <1>4, <1>5, <1>6, <1>7, <1>8, <1>9, <1>10, <1>11, <1>12, <1>13, SchedKinds
     DEF SchedSteps

\* In every run of every machine each RS_LINK is on the free list, in one of
\* the three queues or on a list of dependents, and on one of them only:
\* neither a recovery nor a stale event loses one or frees it twice.
THEOREM LinksAreConserved == Spec => []LinksConserved
<1>1. Init => LinksConserved
  BY InitLinks
<1>2. CoreInv /\ LinksConserved /\ [Next]_vars => LinksConserved'
  <2> SUFFICES ASSUME CoreInv, LinksConserved, [Next]_vars
               PROVE  LinksConserved'
    OBVIOUS
  <2>1. Total(rslink_free', ready_queue', todo', event_queue', st') = MAX_RS_LINKS
    BY LinksStep
  <2> QED
    BY <2>1 DEF Total, Places, LinksConserved
<1> QED
  BY <1>1, <1>2, CoreInvAlways, PTL DEF Spec

-----------------------------------------------------------------------------
(* Loads and the stores before them *)

\* lsq_refresh let the load in r go.
Released(r) == IsLoad(r) /\ (r.queued \/ r.issued)

OlderStore(S, W, s, l) == s \in W /\ in_LSQ(s) /\ IsStore(S[s]) /\ S[s].seq < S[l].seq

\* The stores before l have their addresses, and each to the address of l has
\* its data or is followed by another one to that address.
LoadSafe(S, W, l) ==
    \A s \in W : OlderStore(S, W, s, l) =>
        /\ STORE_ADDR_READY(S[s])
        /\ S[s].addr = S[l].addr =>
              \/ OPERANDS_READY(S[s])
              \/ \E t \in W : /\ OlderStore(S, W, t, l) /\ S[t].addr = S[l].addr
                              /\ S[s].seq < S[t].seq

LoadsOk(S, W) == \A l \in W : in_LSQ(l) /\ Released(S[l]) => LoadSafe(S, W, l)

LoadInv == LoadsOk(st, Window)

\* What a load found stays so: operations enter behind it, those that leave are
\* the oldest or the youngest, and what is ready stays ready.
LEMMA LoadsKept ==
    ASSUME NEW S, NEW T, NEW W, NEW V,
           \A s \in W \cup V : S[s].seq \in Nat /\ T[s].seq \in Nat,
           \A s \in W \cap V :
              /\ T[s].op = S[s].op /\ T[s].seq = S[s].seq /\ T[s].addr = S[s].addr
              /\ \A k \in 1 .. 3 : S[s].idep_ready[k] => T[s].idep_ready[k],
           \A s \in V \ W, l \in W \cap V : T[l].seq < T[s].seq,
           \A s, l \in W \cap V, t \in W \ V :
              S[s].seq < S[t].seq => ~(S[t].seq < S[l].seq),
           \A l \in V : in_LSQ(l) /\ Released(T[l]) => l \in W /\ LoadSafe(S, W, l)
    PROVE  LoadsOk(T, V)
<1> SUFFICES ASSUME NEW l \in V, in_LSQ(l), Released(T[l]),
                    NEW s \in V, OlderStore(T, V, s, l)
             PROVE  /\ STORE_ADDR_READY(T[s])
                    /\ T[s].addr = T[l].addr =>
                          \/ OPERANDS_READY(T[s])
                          \/ \E t \in V : /\ OlderStore(T, V, t, l)
                                          /\ T[t].addr = T[l].addr
                                          /\ T[s].seq < T[t].seq
  BY DEF LoadsOk, LoadSafe
<1>1. l \in W /\ LoadSafe(S, W, l)
  OBVIOUS
<1>2. s \in W
  <2>1. T[s].seq < T[l].seq /\ T[s].seq \in Nat /\ T[l].seq \in Nat
    BY DEF OlderStore
  <2> QED
    BY <1>1, <2>1
<1>3. \A t \in W \cap V : OlderStore(T, V, t, l) <=> OlderStore(S, W, t, l)
  BY <1>1 DEF OlderStore, IsStore
<1>4. OlderStore(S, W, s, l)
  BY <1>2, <1>3
<1>5. STORE_ADDR_READY(S[s]) => STORE_ADDR_READY(T[s])
  BY <1>2 DEF STORE_ADDR_READY, STORE_ADDR_INDEX
<1>6. OPERANDS_READY(S[s]) => OPERANDS_READY(T[s])
  BY <1>2 DEF OPERANDS_READY
<1>7. ASSUME NEW t \in W, OlderStore(S, W, t, l), S[t].addr = S[l].addr,
             S[s].seq < S[t].seq
      PROVE  t \in V /\ OlderStore(T, V, t, l) /\ T[t].addr = T[l].addr
             /\ T[s].seq < T[t].seq
  <2>1. t \in V
    BY <1>1, <1>2, <1>7 DEF OlderStore
  <2> QED
    BY <1>1, <1>2, <1>3, <1>7, <2>1
<1> QED
  BY <1>1, <1>2, <1>4, <1>5, <1>6, <1>7 DEF LoadSafe

\* The scan of lsq_refresh passes only stores with an address, and at the load
\* remembers the address of each of them without data, but for those that a
\* later store to the same address with its data has covered.
LEMMA RefreshSafe ==
    ASSUME TypeInv, OrderInv, NEW k \in 0 .. ScanLength - 1, LoadReady(k)
    PROVE  LsqAt(k) \in Window /\ LoadSafe(st, Window, LsqAt(k))
<1>1. PICK l : l = LsqAt(k)
  OBVIOUS
<1>2. /\ ScanLength \in 0 .. LSQ_num /\ LSQ_num \in Nat /\ ScanLength \in Nat
      /\ \A j \in 0 .. ScanLength - 1 :
            IsStore(st[LsqAt(j)]) => STORE_ADDR_READY(st[LsqAt(j)])
  BY ScanIs DEF TypeInv, LsqShape, Stops
<1>3. /\ \A j \in 0 .. LSQ_num - 1 : LsqAt(j) \in LsqWindow /\ Age(LsqAt(j)) = j
      /\ \A x \in LsqWindow : Age(x) \in 0 .. LSQ_num - 1 /\ LsqAt(Age(x)) = x
  BY LsqAtWindow DEF TypeInv
<1>4. /\ l \in LsqWindow /\ Age(l) = k /\ k \in Nat /\ k < ScanLength
  BY <1>1, <1>2, <1>3
<1>5. /\ Window = RuuWindow \cup LsqWindow
      /\ \A s \in Window : in_LSQ(s) => s \in LsqWindow
  <2>1. \A s \in RuuSlots : ~in_LSQ(s)
    BY DEF RuuSlots, RuuSlot, in_LSQ
  <2> QED
    BY <2>1, WindowIs DEF RuuWindow
<1>6. \A s, t \in LsqWindow : Age(s) < Age(t) <=> st[s].seq < st[t].seq
  BY SeqNames
<1>7. ASSUME NEW s \in Window, OlderStore(st, Window, s, l)
      PROVE  /\ STORE_ADDR_READY(st[s])
             /\ st[s].addr = st[l].addr =>
                   \/ OPERANDS_READY(st[s])
                   \/ \E t \in Window : /\ OlderStore(st, Window, t, l)
                                        /\ st[t].addr = st[l].addr
                                        /\ st[s].seq < st[t].seq
  <2>1. PICK j : j = Age(s)
    OBVIOUS
  <2>2. s \in LsqWindow /\ j < k /\ j \in Nat /\ LsqAt(j) = s /\ IsStore(st[s])
        /\ j \in 0 .. ScanLength - 1
    BY <1>3, <1>4, <1>5, <1>6, <1>7, <2>1, <1>2 DEF OlderStore
  <2>3. STORE_ADDR_READY(st[s])
    BY <1>2, <2>2
  <2>4. ASSUME st[s].addr = st[l].addr, ~OPERANDS_READY(st[s])
        PROVE  \E t \in Window : /\ OlderStore(st, Window, t, l)
                                 /\ st[t].addr = st[l].addr
                                 /\ st[s].seq < st[t].seq
    <3>1. j \in StdUnknown
      BY <2>2, <2>4 DEF StdUnknown
    <3>2. RecordedAddr(j, k) # st[l].addr
      BY <1>1, <2>2, <3>1 DEF LoadReady
    <3>3. PICK m \in j + 1 .. k - 1 : /\ IsStore(st[LsqAt(m)])
                                      /\ st[LsqAt(m)].addr = st[LsqAt(j)].addr
      BY <2>2, <2>4, <3>2 DEF RecordedAddr
    <3>4. PICK t : t = LsqAt(m)
      OBVIOUS
    <3>5. t \in LsqWindow /\ Age(t) = m /\ j < m /\ m < k
      BY <1>2, <1>3, <1>4, <2>2, <3>3, <3>4
    <3>6. in_LSQ(t)
      BY <3>5 DEF LsqWindow, LsqSlots, LsqSlot, in_LSQ
    <3>7. st[t].seq < st[l].seq /\ st[s].seq < st[t].seq
      BY <1>4, <1>6, <2>1, <2>2, <3>5
    <3>8. IsStore(st[t]) /\ st[t].addr = st[l].addr
      BY <2>2, <2>4, <3>3, <3>4
    <3> QED
      BY <1>5, <3>5, <3>6, <3>7, <3>8 DEF OlderStore
  <2> QED
    BY <2>3, <2>4
<1> QED
  BY <1>1, <1>4, <1>5, <1>7 DEF LoadSafe

LEMMA LoadNotStore == \A op \in Ops : ~(Is(op, "F_LOAD") /\ Is(op, "F_STORE"))
  BY DEF Is, Ops, MD_OP_FLAGS

\* A writeback queues no load.
LEMMA WokenStores ==
    ASSUME NEW S, Typed(S), NEW T, NEW c \in Slots, NEW w, WokenBy(S, T, c, w),
           NEW x \in Slots, in_LSQ(x), IsLoad(T[x]), T[x].queued
    PROVE  S[x].queued
<1>1. PICK links, Q : links = OutputLinks(S[c]) /\ Q = Wake(S, links)
  OBVIOUS
<1>2. Lists(S) /\ Stations(S) /\ links \in Seq(LinkType) /\ S[x].op \in Ops
  BY <1>1, OutputLinksTyped DEF Typed, InstTyped
<1>3. w = Woken(S, links) /\ Completed(S, T, c, links, w)
  BY <1>1 DEF WokenBy
<1>4. T[x].op = S[x].op /\ Q[x].op = S[x].op
  <2>1. Woke(S, Q, links)
    BY <1>1, <1>2, WakeIs
  <2> QED
    BY <1>3, <2>1, Zenon DEF Completed, Woke, SameInst
<1>5. ~IsStore(Q[x])
  BY <1>2, <1>4, LoadNotStore DEF IsLoad, IsStore
<1>6. ~\E i \in DOMAIN w : w[i] = x
  <2>1. PICK v : v = Woken(S, links)
    OBVIOUS
  <2>2. \A y : (\E i \in DOMAIN v : v[i] = y)
                  <=> (\E k : Told(S, links, y, k)) /\ Readies(y, Wake(S, links)[y])
    BY <1>2, <2>1, WokenIs
  <2> QED
    BY <1>1, <1>3, <1>5, <2>1, <2>2 DEF Readies
<1>7. T[x].queued = IF \E i \in DOMAIN w : w[i] = x THEN TRUE ELSE S[x].queued
  BY <1>3, Zenon DEF Completed
<1> QED
  BY <1>6, <1>7

\* What a writeback squashes is the youngest.
LEMMA WritebackLeaves ==
    ASSUME TypeInv, OrderInv, SpecInv, WritebackOp \/ WritebackRecover, ~Panics
    PROVE  /\ Window' \subseteq Window
           /\ \A s \in Window', t \in Window \ Window' : st[s].seq < st[t].seq
<1>1. CASE WritebackOp
  BY <1>1, IdleWindow DEF WritebackOp
<1>2. CASE WritebackRecover
  <2>1. Window' = {s \in Window : ~st[s].spec_mode}
    BY <1>2, RecoverTakes
  <2>2. \A s, t \in Window : ~st[s].spec_mode /\ st[t].spec_mode => st[s].seq < st[t].seq
    BY SpecYounger
  <2>3. PICK Q, W, V : Q = st /\ W = Window /\ V = Window'
    OBVIOUS
  <2>4. V = {s \in W : ~Q[s].spec_mode}
    BY <2>1, <2>3
  <2>5. \A s, t \in W : ~Q[s].spec_mode /\ Q[t].spec_mode => Q[s].seq < Q[t].seq
    BY <2>2, <2>3
  <2>6. V \subseteq W /\ \A s \in V, t \in W \ V : Q[s].seq < Q[t].seq
    BY <2>4, <2>5
  <2> QED
    BY <2>3, <2>6
<1> QED
  BY <1>1, <1>2

\* Steps in which nobody enters and only the youngest or the oldest leave.
LEMMA LoadsStay ==
    ASSUME TypeInv, OrderInv, LoadInv, NEW T, T = st', NEW V, V = Window',
           V \subseteq Window,
           \/ \A s \in V, t \in Window \ V : st[s].seq < st[t].seq
           \/ \A s \in V, t \in Window \ V : st[t].seq < st[s].seq,
           \A s \in Slots : SameInst(st[s], T[s]),
           \A s \in Slots, k \in 1 .. 3 : st[s].idep_ready[k] => T[s].idep_ready[k],
           \A l \in V : in_LSQ(l) /\ Released(T[l]) =>
              Released(st[l]) \/ LoadSafe(st, Window, l)
    PROVE  LoadInv'
<1>1. PICK Q, W : Q = st /\ W = Window
  OBVIOUS
<1>2. W \subseteq Slots /\ V \subseteq W /\ \A s \in Slots : Q[s].seq \in Nat
  BY <1>1, WindowNamed, WindowParts
<1>3. /\ \A s \in W \cup V : Q[s].seq \in Nat /\ T[s].seq \in Nat
      /\ \A s \in W \cap V :
            /\ T[s].op = Q[s].op /\ T[s].seq = Q[s].seq /\ T[s].addr = Q[s].addr
            /\ \A k \in 1 .. 3 : Q[s].idep_ready[k] => T[s].idep_ready[k]
      /\ \A s \in V \ W, l \in W \cap V : T[l].seq < T[s].seq
  BY <1>1, <1>2 DEF SameInst
<1>4. \A s, l \in W \cap V, t \in W \ V : Q[s].seq < Q[t].seq => ~(Q[t].seq < Q[l].seq)
  <2> SUFFICES ASSUME NEW s \in W \cap V, NEW l \in W \cap V, NEW t \in W \ V,
                      Q[s].seq < Q[t].seq, Q[t].seq < Q[l].seq
               PROVE  FALSE
    OBVIOUS
  <2>1. Q[s].seq \in Nat /\ Q[t].seq \in Nat /\ Q[l].seq \in Nat
    BY <1>2
  <2>2. Q[l].seq < Q[t].seq \/ Q[t].seq < Q[s].seq
    BY <1>1
  <2> QED
    BY <2>1, <2>2
<1>5. \A l \in V : in_LSQ(l) /\ Released(T[l]) => l \in W /\ LoadSafe(Q, W, l)
  BY <1>1, <1>2 DEF LoadInv, LoadsOk
<1>6. LoadsOk(T, V)
  BY <1>3, <1>4, <1>5, LoadsKept
<1> QED
  BY <1>6 DEF LoadInv

LEMMA InitLoadInv == Init => LoadInv
  BY InitWindow DEF LoadInv, LoadsOk

LEMMA DispatchLoads ==
    ASSUME TypeInv, OrderInv, WakeInv, ProgressInv, LoadInv, DispatchInst
    PROVE  LoadInv'
<1>1. PICK npc \in PCs, addr \in Addrs \cup {0} : Install(npc, addr)
  BY DispatchInstIs DEF TypeInv
<1>2. CanDispatch /\ RUU_head' = RUU_head /\ LSQ_head' = LSQ_head
  BY DEF DispatchInst
<1>3. PICK F, L : Installed(F, L, npc, addr)
  BY <1>1, <1>2, InstallIs DEF TypeInv, OrderTyped
<1>4. PICK Q, T, W, V, w : /\ Q = st /\ T = st' /\ W = Window /\ V = Window'
                           /\ w = ReadyNow(F)
  OBVIOUS
<1>5. /\ NewOnes \subseteq Slots /\ NewOnes \cap W = {} /\ V = W \cup NewOnes
      /\ W \subseteq Slots
  BY <1>1, <1>2, <1>4, DispatchAdds, WindowNamed
<1>6. /\ \A s \in Slots : s \notin NewOnes => SameProgress(Q[s], T[s])
      /\ \A s \in NewOnes : ~T[s].issued
      /\ \A s \in NewOnes : T[s].queued => \E i \in DOMAIN w : w[i] = s
  BY <1>1, <1>2, <1>3, <1>4, <1>5, DispatchProgress
<1>7. \A s \in NewOnes : in_LSQ(s) => ~T[s].queued
  <2>1. ~in_LSQ(NewRuu)
    BY DEF NewRuu, RuuSlot, in_LSQ
  <2> QED
    BY <1>4, <1>6, <2>1 DEF ReadyNow
<1>8. \A s \in Slots \ NewOnes : SameInst(Q[s], T[s]) /\ T[s].idep_ready = Q[s].idep_ready
  <2>1. \A s \in Slots \ NewOnes : SameInst(Q[s], T[s])
    BY <1>3, <1>4, InstallInst
  <2>2. \A s \in Slots \ NewOnes : F[s] = Q[s]
    BY <1>3, <1>4 DEF Installed, FilledIn
  <2>3. \A s \in Slots : T[s].idep_ready = F[s].idep_ready
    BY <1>3, <1>4, Zenon DEF Installed, LinkedIn, ListsOnly, Marked
  <2> QED
    BY <2>1, <2>2, <2>3
<1>9. /\ \A s \in W \cup V : Q[s].seq \in Nat /\ T[s].seq \in Nat
      /\ \A s \in NewOnes, l \in W : T[l].seq < T[s].seq
  <2>1. \A s \in Slots : Q[s].seq \in Nat /\ T[s].seq \in Nat
    <3>1. Typed(st')
      BY <1>1, <1>2, <1>3, InstallIs DEF TypeInv, OrderTyped
    <3> QED
      BY <1>4, <3>1 DEF TypeInv, Typed, InstTyped
  <2>2. inst_seq \in Nat /\ \A l \in W : Q[l].seq <= inst_seq
    BY <1>4, WindowParts DEF TypeInv, OrderTyped
  <2>3. \A s \in NewOnes : T[s].seq = inst_seq + 1 \/ T[s].seq = inst_seq + 2
    BY <1>3, <1>4, InstallNames DEF NewOnes
  <2>4. \A l \in W : T[l].seq = Q[l].seq
    BY <1>5, <1>8 DEF SameInst
  <2> QED
    BY <1>5, <2>1, <2>2, <2>3, <2>4
<1>10. \A s \in W \cap V :
          /\ T[s].op = Q[s].op /\ T[s].seq = Q[s].seq /\ T[s].addr = Q[s].addr
          /\ \A k \in 1 .. 3 : Q[s].idep_ready[k] => T[s].idep_ready[k]
  BY <1>5, <1>8 DEF SameInst
<1>11. \A l \in V : in_LSQ(l) /\ Released(T[l]) => l \in W /\ LoadSafe(Q, W, l)
  <2> SUFFICES ASSUME NEW l \in V, in_LSQ(l), Released(T[l])
               PROVE  l \in W /\ LoadSafe(Q, W, l)
    OBVIOUS
  <2>1. l \notin NewOnes
    BY <1>6, <1>7 DEF Released
  <2>2. l \in W /\ l \in Slots
    BY <1>5, <2>1
  <2>3. Released(Q[l])
    BY <1>6, <1>8, <2>1, <2>2 DEF Released, SameProgress, SameInst, IsLoad
  <2> QED
    BY <1>4, <2>2, <2>3 DEF LoadInv, LoadsOk
<1>12. /\ \A s \in V \ W, l \in W \cap V : T[l].seq < T[s].seq
       /\ W \ V = {}
  BY <1>5, <1>9
<1>13. LoadsOk(T, V)
  BY <1>9, <1>10, <1>11, <1>12, LoadsKept
<1> QED
  BY <1>4, <1>13 DEF LoadInv

LEMMA LoadInvStep ==
    ASSUME TypeInv, OrderInv, SpecInv, InstOk, CvInv, WakeInv, ProgressInv, LoadInv,
           [Next]_vars
    PROVE  LoadInv'
<1>1. PICK S, T, W, V : S = st /\ T = st' /\ W = Window /\ V = Window'
  OBVIOUS
<1>2. LoadsOk(S, W) /\ W \subseteq Slots
  BY <1>1, WindowNamed DEF LoadInv
<1> DEFINE Stay == /\ \A s \in Slots : SameInst(S[s], T[s])
                   /\ \A s \in Slots, k \in 1 .. 3 :
                         S[s].idep_ready[k] => T[s].idep_ready[k]
<1>3. ASSUME V = W, Stay,
             \A l \in W : in_LSQ(l) /\ Released(T[l]) =>
                Released(S[l]) \/ LoadSafe(S, W, l)
      PROVE  LoadInv'
  BY <1>1, <1>3, LoadsStay
<1>4. CASE Idle
  <2>1. V = W /\ T = S
    BY <1>1, <1>4, IdleWindow DEF Idle
  <2> QED
    BY <1>3, <2>1, SameInstSelf
<1>5. CASE RuuCommit /\ ~Panics
  <2>1. /\ V \subseteq W
        /\ \A s \in V, t \in W \ V : S[t].seq < S[s].seq
    BY <1>1, <1>5, CommitTakes
  <2>2. \A s \in Slots : /\ SameInst(S[s], T[s]) /\ SameProgress(S[s], T[s])
                         /\ T[s].idep_ready = S[s].idep_ready
    BY <1>1, <1>5, RetireIs DEF Retired, TypeInv, Typed
  <2>3. \A l \in V : Released(T[l]) => Released(S[l])
    BY <1>2, <2>1, <2>2 DEF Released, SameProgress, SameInst, IsLoad
  <2> QED
    BY <1>1, <2>1, <2>2, <2>3, LoadsStay
<1>6. CASE (WritebackOp \/ WritebackRecover) /\ ~Panics
  <2>1. PICK R, w, c : WritebackVia(R, w) /\ c = Completing
    BY <1>6, WritebackParts
  <2>2. /\ Typed(R) /\ c \in Slots /\ V \subseteq W /\ WokenBy(R, T, c, w)
        /\ \A s \in Slots : /\ SameInst(S[s], R[s]) /\ SameProgress(S[s], R[s])
                            /\ R[s].idep_ready = S[s].idep_ready
    BY <1>1, <2>1 DEF WritebackVia
  <2>3. PICK links : Completed(R, T, c, links, w)
    BY <2>2 DEF WokenBy
  <2>4. \A s \in Slots : /\ SameInst(R[s], T[s]) /\ T[s].issued = R[s].issued
                         /\ T[s].idep_ready =
                               [k \in 1 .. 3 |-> R[s].idep_ready[k] \/ Told(R, links, s, k)]
    BY <2>3, Zenon DEF Completed
  <2>5. /\ \A s \in Slots : SameInst(S[s], T[s])
        /\ \A s \in Slots, k \in 1 .. 3 : S[s].idep_ready[k] => T[s].idep_ready[k]
    <3>1. \A s \in Slots : SameInst(S[s], T[s])
      <4>1. \A s \in Slots : SameInst(S[s], R[s]) /\ SameInst(R[s], T[s])
        BY <2>2, <2>4, Zenon
      <4> QED
        BY <4>1 DEF SameInst
    <3>2. \A s \in Slots, k \in 1 .. 3 :
             T[s].idep_ready[k] <=> R[s].idep_ready[k] \/ Told(R, links, s, k)
      BY <2>4, Zenon
    <3> QED
      BY <2>2, <3>1, <3>2
  <2>6. ASSUME NEW l \in V, in_LSQ(l), Released(T[l]) PROVE Released(S[l])
    <3>1. l \in Slots /\ IsLoad(T[l]) /\ (T[l].queued \/ T[l].issued)
      BY <1>2, <2>2, <2>6 DEF Released
    <3>2. T[l].queued => R[l].queued
      BY <2>2, <2>6, <3>1, WokenStores
    <3>3. S[l].queued \/ S[l].issued
      BY <2>2, <2>4, <3>1, <3>2 DEF SameProgress
    <3> QED
      BY <2>5, <3>1, <3>3 DEF Released, SameInst, IsLoad
  <2>7. \A s \in V, t \in W \ V : S[s].seq < S[t].seq
    BY <1>1, <1>6, WritebackLeaves
  <2> QED
    BY <1>1, <2>2, <2>5, <2>6, <2>7, LoadsStay
<1>7. CASE LsqRefresh
  <2>1. PICK w : w = ReadyLoads
    OBVIOUS
  <2>2. Marked(S, T, w) /\ V = W
    BY <1>1, <1>7, <2>1, MarkQueuedIs, IdleWindow DEF LsqRefresh, TypeInv, Typed
  <2>3. \A x : (\E i \in DOMAIN w : w[i] = x) => LoadSafe(S, W, x)
    <3>1. \A x : (\E i \in DOMAIN w : w[i] = x)
                    => \E k \in 0 .. ScanLength - 1 : LoadReady(k) /\ LsqAt(k) = x
      BY <2>1, ReadyLoadsIs DEF TypeInv
    <3> QED
      BY <1>1, <3>1, RefreshSafe
  <2>4. \A s \in Slots : /\ SameInst(S[s], T[s]) /\ T[s].issued = S[s].issued
                         /\ T[s].idep_ready = S[s].idep_ready
                         /\ T[s].queued = IF \E i \in DOMAIN w : w[i] = s THEN TRUE
                                          ELSE S[s].queued
    BY <2>2, Zenon DEF Marked
  <2>5. \A l \in W : Released(T[l]) => Released(S[l]) \/ LoadSafe(S, W, l)
    BY <1>2, <2>3, <2>4 DEF Released, SameInst, IsLoad
  <2> QED
    BY <1>3, <2>2, <2>4, <2>5
<1>8. ASSUME NEW done, Started(S, T, Issuing, done), V = W, S[Issuing].queued
      PROVE  LoadInv'
  <2>1. \A s \in Slots : /\ SameInst(S[s], T[s]) /\ T[s].idep_ready = S[s].idep_ready
                         /\ T[s].queued = IF s = Issuing THEN FALSE ELSE S[s].queued
                         /\ T[s].issued = IF s = Issuing THEN TRUE ELSE S[s].issued
    BY <1>8, Zenon DEF Started
  <2>2. \A l \in W : Released(T[l]) => Released(S[l])
    BY <1>2, <1>8, <2>1 DEF Released, SameInst, IsLoad
  <2> QED
    BY <1>3, <1>8, <2>1, <2>2
<1>9. CASE IssueStore /\ ~Panics
  <2>1. CanIssue /\ IssueLive /\ V = W
    BY <1>1, <1>9, IdleWindow DEF IssueStore
  <2>2. Started(S, T, Issuing, TRUE)
    BY <1>1, <1>9, IssueStoreIs DEF TypeInv, Typed
  <2> QED
    BY <1>1, <1>8, <1>9, <2>1, <2>2, IssueFound
<1>10. CASE Starting /\ ~Panics
  <2>1. PICK lat : CanIssue /\ IssueLive /\ V = W /\ Start(lat)
    BY <1>1, <1>10, IdleWindow DEF Starting
  <2>2. Started(S, T, Issuing, FALSE)
    BY <1>1, <1>10, <2>1, StartActionIs DEF TypeInv, Typed
  <2> QED
    BY <1>1, <1>8, <1>10, <2>1, <2>2, IssueFound
<1>11. CASE DispatchInst
  BY <1>11, DispatchLoads
<1> QED
  BY <1>4, <1>5, <1>6, <1>7, <1>9, <1>10, <1>11, StepKinds DEF StationSteps

\* In every run of every machine lsq_refresh releases a load only when all
\* older stores have their addresses and the youngest of them to its own
\* address has its data, and nothing that is dispatched, squashed or retired
\* afterwards takes that back: the load never has to be executed again.
THEOREM LoadsWaitForStores == Spec => []LoadsOrdered
<1>1. Init => LoadInv
  BY InitLoadInv
<1>2. RegInv /\ WakeInv /\ ProgressInv /\ LoadInv /\ [Next]_vars => LoadInv'
  BY LoadInvStep DEF RegInv
<1>3. ASSUME TypeInv, OrderInv, LoadInv PROVE LoadsOrdered
  <2>1. /\ Window = RuuWindow \cup LsqWindow
        /\ \A s \in Window : in_LSQ(s) => s \in LsqWindow
    <3>1. \A s \in RuuSlots : ~in_LSQ(s)
      BY DEF RuuSlots, RuuSlot, in_LSQ
    <3> QED
      BY <3>1, WindowIs DEF RuuWindow
  <2>2. \A s, t \in LsqWindow : Age(s) < Age(t) <=> st[s].seq < st[t].seq
    BY <1>3, SeqNames
  <2>3. \A s \in LsqWindow : Age(s) \in Nat /\ st[s].seq \in Nat
    BY <1>3, AgeType, SeqType, WindowIs DEF LsqWindow, TypeInv
  <2> SUFFICES ASSUME NEW l \in Window, in_LSQ(l), IsLoad(st[l]),
                      st[l].queued \/ st[l].issued, NEW O, NEW M,
                      O = {s \in Window : in_LSQ(s) /\ Age(s) < Age(l) /\ IsStore(st[s])},
                      M = {s \in O : st[s].addr = st[l].addr}
               PROVE  /\ \A s \in O : STORE_ADDR_READY(st[s])
                      /\ \A s \in M : (\A t \in M : Age(t) <= Age(s))
                                         => OPERANDS_READY(st[s])
    BY DEF LoadsOrdered
  <2>4. LoadSafe(st, Window, l)
    BY <1>3 DEF LoadInv, LoadsOk, Released
  <2>5. \A s \in Window : OlderStore(st, Window, s, l) <=> s \in O
    BY <2>1, <2>2 DEF OlderStore
  <2>6. \A s \in O : STORE_ADDR_READY(st[s])
    BY <2>4, <2>5 DEF LoadSafe
  <2>7. ASSUME NEW s \in M, \A t \in M : Age(t) <= Age(s), ~OPERANDS_READY(st[s])
        PROVE  FALSE
    <3>1. s \in Window /\ OlderStore(st, Window, s, l) /\ st[s].addr = st[l].addr
      BY <2>5
    <3>2. PICK t \in Window : /\ OlderStore(st, Window, t, l) /\ st[t].addr = st[l].addr
                              /\ st[s].seq < st[t].seq
      BY <2>4, <2>7, <3>1 DEF LoadSafe
    <3>3. t \in M /\ t \in LsqWindow /\ s \in LsqWindow
      BY <2>1, <2>5, <3>1, <3>2 DEF OlderStore
    <3>4. Age(t) <= Age(s) /\ Age(s) < Age(t)
      BY <2>2, <2>7, <3>2, <3>3
    <3> QED
      BY <2>3, <3>3, <3>4
  <2> QED
    BY <2>6, <2>7
<1>4. RegInv /\ LoadInv => LoadsOrdered
  BY <1>3 DEF RegInv
<1> QED
  BY <1>1, <1>2, <1>4, ProgressAlways, PTL DEF Spec

-----------------------------------------------------------------------------
(* Address computations and in-order issue *)

\* s computes the address for l.
Computes(S, s, l) == S[s].ea_comp /\ in_LSQ(l) /\ S[l].seq = S[s].seq + 1

\* An entry of the LSQ waits for its address on a link of its own address
\* computation, and does not have it before that has completed.
AddrOk(S, W) ==
    /\ \A c \in Slots, o \in 1 .. 2 : \A l \in Slots :
          in_LSQ(l) /\ LinksTo(S, c, o, l, S[l].tag, STORE_ADDR_INDEX) # 0
             => Computes(S, c, l)
    /\ \A s, l \in W : Computes(S, s, l) /\ STORE_ADDR_READY(S[l]) => S[s].completed

AddrInv == AddrOk(st, Window)

\* Lists are emptied or stay.
FewerLinks(S, T) ==
    \A c \in Slots, o \in 1 .. 2 :
        T[c].odep_list[o] = S[c].odep_list[o] \/ T[c].odep_list[o] = <<>>

LEMMA FewerLinksTo ==
    ASSUME NEW S, NEW T, FewerLinks(S, T), NEW c \in Slots, NEW o \in 1 .. 2,
           NEW s, NEW t, NEW k, LinksTo(T, c, o, s, t, k) # 0
    PROVE  LinksTo(S, c, o, s, t, k) # 0
<1>1. T[c].odep_list[o] # <<>>
  BY LinksToNone
<1>2. T[c].odep_list[o] = S[c].odep_list[o]
  BY <1>1 DEF FewerLinks
<1> QED
  BY <1>2 DEF LinksTo, Links

LEMMA AddrKept ==
    ASSUME NEW S, NEW T, NEW W \in SUBSET Slots, NEW V \in SUBSET W,
           WakeOk(S, W), FewerLinks(S, T),
           \A s \in Slots : /\ S[s].tag \in Nat
                            /\ T[s].tag = S[s].tag \/ T[s].tag = S[s].tag + 1
                            /\ T[s].seq = S[s].seq /\ T[s].ea_comp = S[s].ea_comp,
           \A s \in V : S[s].completed => T[s].completed,
           \A l \in V : STORE_ADDR_READY(T[l]) =>
              \/ STORE_ADDR_READY(S[l])
              \/ \A s \in V : Computes(S, s, l) => T[s].completed,
           AddrOk(S, W)
    PROVE  AddrOk(T, V)
<1>1. \A s, l \in Slots : Computes(T, s, l) <=> Computes(S, s, l)
  BY DEF Computes
<1>2. ASSUME NEW c \in Slots, NEW o \in 1 .. 2, NEW l \in Slots, in_LSQ(l),
             LinksTo(T, c, o, l, T[l].tag, STORE_ADDR_INDEX) # 0
      PROVE  Computes(T, c, l)
  <2>1. LinksTo(S, c, o, l, T[l].tag, STORE_ADDR_INDEX) # 0
    BY <1>2, FewerLinksTo
  <2>2. LinkSound(S, W, c, o, l, T[l].tag, STORE_ADDR_INDEX)
    <3>1. T[l].tag \in Nat /\ STORE_ADDR_INDEX \in 1 .. 3
      BY DEF STORE_ADDR_INDEX
    <3> QED
      BY <2>1, <3>1 DEF WakeOk
  <2>3. T[l].tag = S[l].tag
    BY <2>2 DEF LinkSound
  <2>4. Computes(S, c, l)
    BY <1>2, <2>1, <2>3 DEF AddrOk
  <2> QED
    BY <1>1, <2>4
<1>3. ASSUME NEW s \in V, NEW l \in V, Computes(T, s, l), STORE_ADDR_READY(T[l])
      PROVE  T[s].completed
  <2>1. Computes(S, s, l) /\ s \in W /\ l \in W
    BY <1>1, <1>3
  <2> QED
    BY <1>3, <2>1 DEF AddrOk
<1> QED
  BY <1>2, <1>3 DEF AddrOk

\* The links that a dispatch makes for an address are to the address computation.
LEMMA AddrDeps ==
    ASSUME TypeInv, OrderInv, SpecInv, CvInv, CanDispatch,
           NEW i \in DOMAIN InstDeps, in_LSQ(InstDeps[i].rs),
           InstDeps[i].opnum = STORE_ADDR_INDEX
    PROVE  /\ Is(DispOp, "F_MEM") /\ InstDeps[i].rs = NewLsq
           /\ InstDeps[i].creator = CVLINK_INIT(NewRuu, 1)
<1>1. PICK K : K \subseteq NewOnes \X (1 .. 3) /\ DepList(InstDeps, K)
  BY InstDepsFounded
<1>2. InstDeps[i].rs \in NewOnes
  BY <1>1 DEF DepList
<1>3. ~in_LSQ(NewRuu)
  BY DEF NewRuu, RuuSlot, in_LSQ
<1>4. Is(DispOp, "F_MEM") /\ InstDeps[i].rs = NewLsq
  BY <1>2, <1>3 DEF NewOnes
<1>5. PICK j \in DOMAIN InstDeps :
         /\ InstDeps[j].rs = NewLsq /\ InstDeps[j].opnum = STORE_ADDR_INDEX
         /\ InstDeps[j].creator = CVLINK_INIT(NewRuu, 1)
  BY <1>4, MemWaits
<1>6. i = j
  BY <1>1, <1>4, <1>5 DEF DepList
<1> QED
  BY <1>4, <1>5, <1>6

\* The links after a dispatch are those before it, in the stations it has not
\* filled, and one for each dependence.
LEMMA NewLinks ==
    ASSUME NEW F, NEW L, Lists(F), LinkedIn(F, L), InstDeps \in Seq(DependsType),
           NEW c \in Slots, NEW o \in 1 .. 2, NEW s, NEW t, NEW k,
           LinksTo(L, c, o, s, t, k) # 0, LinksTo(F, c, o, s, t, k) = 0
    PROVE  \E i \in DOMAIN InstDeps :
              /\ InstDeps[i].creator = CVLINK_INIT(c, o)
              /\ InstDeps[i].rs = s /\ InstDeps[i].opnum = k /\ t = F[s].tag
<1>1. PICK deps, B : /\ deps = InstDeps
                     /\ B = Asks(F, deps, Len(deps), c, o, Link(s, t, k))
  OBVIOUS
<1>2. DOMAIN deps = 1 .. Len(deps) /\ Len(deps) \in Nat
  BY <1>1
<1>3. LinksTo(L, c, o, s, t, k) = LinksTo(F, c, o, s, t, k) + Cardinality(B)
  BY <1>1 DEF LinkedIn, LinksTo
<1>4. B # {}
  <2>1. B = {} => Cardinality(B) = 0
    BY FS_EmptySet
  <2> QED
    BY <1>3, <2>1
<1>5. PICK i : i \in B
  BY <1>4
<1>6. i \in DOMAIN deps /\ deps[i].creator = CVLINK_INIT(c, o)
      /\ LinkOf(F, deps[i]) = Link(s, t, k)
  BY <1>1, <1>2, <1>5 DEF Asks
<1>7. deps[i].rs = s /\ deps[i].opnum = k /\ t = F[s].tag
  BY <1>6 DEF LinkOf, Link
<1> QED
  BY <1>1, <1>6, <1>7

LEMMA DispatchAddr ==
    ASSUME TypeInv, OrderInv, SpecInv, CvInv, WakeInv, ProgressInv, AddrInv, DispatchInst
    PROVE  AddrInv'
<1>1. PICK npc \in PCs, addr \in Addrs \cup {0} : Install(npc, addr)
  BY DispatchInstIs DEF TypeInv
<1>2. CanDispatch /\ RUU_head' = RUU_head /\ LSQ_head' = LSQ_head
  BY DEF DispatchInst
<1>3. PICK F, L : Installed(F, L, npc, addr)
  BY <1>1, <1>2, InstallIs DEF TypeInv, OrderTyped
<1>4. PICK S, T, W, V, N, deps, u, v :
         /\ S = st /\ T = st' /\ W = Window /\ V = Window' /\ N = NewOnes
         /\ deps = InstDeps /\ u = NewRuu /\ v = NewLsq
  OBVIOUS
<1>5. /\ N \subseteq Slots /\ N \cap W = {} /\ V = W \cup N /\ W \subseteq Slots
      /\ WakeOk(S, W) /\ AddrOk(S, W) /\ \A s \in Slots : S[s].tag \in Nat
      /\ Lists(S)
  BY <1>1, <1>2, <1>4, DispatchAdds, WindowNamed DEF AddrInv, WakeInv, TypeInv, Typed
<1>6. /\ LinkedIn(F, L) /\ ListsOnly(F, L) /\ Marked(L, T, ReadyNow(F))
  BY <1>3, <1>4 DEF Installed, LinkedIn
<1>7. \A s \in Slots : /\ T[s].tag = F[s].tag /\ T[s].idep_ready = F[s].idep_ready
                       /\ T[s].completed = F[s].completed
                       /\ T[s].odep_list = L[s].odep_list
  BY <1>6, Zenon DEF Marked, ListsOnly, SameProgress
<1>8. /\ \A s \in Slots \ N : F[s] = S[s]
      /\ \A s \in Slots : F[s].tag = S[s].tag
      /\ \A s \in N : /\ \A o \in 1 .. 2 : F[s].odep_list[o] = <<>>
                      /\ \A k \in 1 .. 3 : F[s].idep_ready[k] <=>
                            \A i \in DOMAIN deps : ~(deps[i].rs = s /\ deps[i].opnum = k)
  BY <1>1, <1>2, <1>3, <1>4, FilledLinks
<1>9. /\ \A s \in Slots \ N : T[s].seq = S[s].seq /\ T[s].ea_comp = S[s].ea_comp
      /\ T[u].seq = inst_seq + 1 /\ T[u].ea_comp = (Is(DispOp, "F_MEM") /\ ~in_LSQ(u))
      /\ Is(DispOp, "F_MEM") => T[v].seq = inst_seq + 2
      /\ ~in_LSQ(u) /\ in_LSQ(v)
      /\ u \in N /\ \A s \in N : s = u \/ (Is(DispOp, "F_MEM") /\ s = v)
  <2>1. \A s \in Slots \ N : T[s].seq = S[s].seq /\ T[s].ea_comp = S[s].ea_comp
    BY <1>3, <1>4, InstallInst DEF SameInst
  <2>2. ~in_LSQ(u) /\ in_LSQ(v)
    BY <1>4 DEF NewRuu, NewLsq, RuuSlot, LsqSlot, in_LSQ
  <2>3. u \in N /\ \A s \in N : s = u \/ (Is(DispOp, "F_MEM") /\ s = v)
    BY <1>4 DEF NewOnes
  <2>4. /\ T[u].seq = inst_seq + 1 /\ T[u].ea_comp = (Is(DispOp, "F_MEM") /\ ~in_LSQ(u))
        /\ Is(DispOp, "F_MEM") => T[v].seq = inst_seq + 2
    BY <1>3, <1>4, InstallNames
  <2> QED
    BY <2>1, <2>2, <2>3, <2>4
<1>10. /\ inst_seq \in Nat /\ \A s \in W : S[s].seq \in Nat /\ S[s].seq <= inst_seq
  BY <1>4, WindowParts DEF TypeInv, OrderTyped
<1>11. /\ deps \in Seq(DependsType) /\ STORE_ADDR_INDEX \in 1 .. 3 /\ Lists(F)
  <2>1. deps \in Seq(DependsType)
    BY <1>2, <1>4, DepsTyped DEF TypeInv
  <2>2. Lists(F)
    BY <1>3 DEF Installed, Typed
  <2> QED
    BY <2>1, <2>2 DEF STORE_ADDR_INDEX
<1>12. ASSUME NEW c \in Slots, NEW o \in 1 .. 2, NEW l \in Slots, in_LSQ(l),
              LinksTo(T, c, o, l, T[l].tag, STORE_ADDR_INDEX) # 0
       PROVE  Computes(T, c, l)
  <2>1. LinksTo(L, c, o, l, S[l].tag, STORE_ADDR_INDEX) # 0
    BY <1>7, <1>8, <1>12 DEF LinksTo, Links
  <2>2. CASE LinksTo(F, c, o, l, S[l].tag, STORE_ADDR_INDEX) # 0
    <3>1. c \notin N
      BY <1>8, <2>2, LinksToNone
    <3>2. LinksTo(S, c, o, l, S[l].tag, STORE_ADDR_INDEX) # 0
      BY <1>8, <2>2, <3>1 DEF LinksTo, Links
    <3>3. l \in W
      BY <1>5, <1>11, <3>2 DEF WakeOk, LinkSound
    <3>4. Computes(S, c, l)
      BY <1>5, <1>12, <3>2 DEF AddrOk
    <3> QED
      BY <1>5, <1>9, <3>1, <3>3, <3>4 DEF Computes
  <2>3. CASE LinksTo(F, c, o, l, S[l].tag, STORE_ADDR_INDEX) = 0
    <3>1. PICK i \in DOMAIN deps : /\ deps[i].creator = CVLINK_INIT(c, o)
                                   /\ deps[i].rs = l /\ deps[i].opnum = STORE_ADDR_INDEX
      BY <1>4, <1>6, <1>11, <2>1, <2>3, NewLinks
    <3>2. Is(DispOp, "F_MEM") /\ l = v /\ CVLINK_INIT(c, o) = CVLINK_INIT(u, 1)
      BY <1>2, <1>4, <1>12, <3>1, AddrDeps
    <3>3. c = u
      BY <3>2 DEF CVLINK_INIT
    <3>4. T[c].ea_comp
      BY <1>9, <3>2, <3>3, Zenon
    <3>5. T[c].seq = inst_seq + 1 /\ T[l].seq = inst_seq + 2
      BY <1>9, <3>2, <3>3
    <3>6. T[l].seq = T[c].seq + 1
      BY <1>10, <3>5
    <3> QED
      BY <1>12, <3>4, <3>6 DEF Computes
  <2> QED
    BY <2>2, <2>3
<1>13. ASSUME NEW s \in V, NEW l \in V, Computes(T, s, l), STORE_ADDR_READY(T[l])
       PROVE  T[s].completed
  <2>1. s \in Slots /\ l \in Slots /\ F[l].idep_ready[STORE_ADDR_INDEX]
    BY <1>5, <1>7, <1>13 DEF STORE_ADDR_READY
  <2>2. l \notin N
    <3> SUFFICES ASSUME l \in N PROVE FALSE
      OBVIOUS
    <3>1. Is(DispOp, "F_MEM") /\ l = v
      BY <1>9, <1>13 DEF Computes
    <3>2. \E i \in DOMAIN deps : deps[i].rs = l /\ deps[i].opnum = STORE_ADDR_INDEX
      BY <1>2, <1>4, <3>1, MemWaits
    <3> QED
      BY <1>8, <1>11, <2>1, <3>2
  <2>3. s \notin N
    BY <1>5, <1>9, <1>10, <1>13, <2>1, <2>2 DEF Computes
  <2>4. s \in W /\ l \in W /\ F[s] = S[s] /\ F[l] = S[l]
    BY <1>5, <1>8, <2>1, <2>2, <2>3
  <2>5. Computes(S, s, l) /\ STORE_ADDR_READY(S[l])
    BY <1>9, <1>13, <2>1, <2>2, <2>3, <2>4 DEF Computes, STORE_ADDR_READY
  <2> QED
    BY <1>5, <1>7, <2>1, <2>4, <2>5 DEF AddrOk
<1>14. AddrOk(T, V)
  BY <1>12, <1>13 DEF AddrOk
<1> QED
  BY <1>4, <1>14 DEF AddrInv

LEMMA InitAddrInv == Init => AddrInv
<1> SUFFICES ASSUME Init PROVE AddrInv
  OBVIOUS
<1>1. Window = {}
  BY InitWindow
<1>2. ASSUME NEW c \in Slots, NEW o \in 1 .. 2
      PROVE  \A s, t, k : LinksTo(st, c, o, s, t, k) = 0
  <2>1. st[c].odep_list[o] = <<>>
    BY <1>2 DEF Init, EmptyStation
  <2> QED
    BY <2>1, LinksToNone
<1> QED
  BY <1>1, <1>2 DEF AddrInv, AddrOk

\* Steps that make no link, and in which nobody learns its address.
LEMMA AddrStays ==
    ASSUME TypeInv, OrderInv, WakeInv, AddrInv, NEW T, T = st', NEW V, V = Window',
           V \subseteq Window,
           \A s \in Slots : /\ SameInst(st[s], T[s])
                            /\ T[s].tag = st[s].tag \/ T[s].tag = st[s].tag + 1
                            /\ T[s].odep_list = st[s].odep_list
                            /\ T[s].idep_ready = st[s].idep_ready
                            /\ st[s].completed => T[s].completed
    PROVE  AddrInv'
<1>1. PICK S, W : S = st /\ W = Window
  OBVIOUS
<1>2. /\ W \subseteq Slots /\ V \subseteq W /\ WakeOk(S, W) /\ AddrOk(S, W)
      /\ \A s \in Slots : S[s].tag \in Nat
  BY <1>1, WindowNamed DEF WakeInv, AddrInv, TypeInv, Typed
<1>3. FewerLinks(S, T)
  BY <1>1 DEF FewerLinks
<1>4. \A s \in Slots : T[s].seq = S[s].seq /\ T[s].ea_comp = S[s].ea_comp
  BY <1>1 DEF SameInst
<1>5. \A l \in V : STORE_ADDR_READY(T[l]) => STORE_ADDR_READY(S[l])
  BY <1>1, <1>2 DEF STORE_ADDR_READY
<1>6. AddrOk(T, V)
  BY <1>1, <1>2, <1>3, <1>4, <1>5, AddrKept
<1> QED
  BY <1>6 DEF AddrInv

\* Who learns its address from a writeback does so from its own computation.
LEMMA WritebackAddr ==
    ASSUME TypeInv, OrderInv, SpecInv, WakeInv, AddrInv,
           WritebackOp \/ WritebackRecover, ~Panics
    PROVE  AddrInv'
<1>1. PICK R, w : WritebackVia(R, w) /\ WakeOk(R, Window')
  BY WritebackParts
<1>2. PICK S, T, W, V, c : /\ S = st /\ T = st' /\ W = Window /\ V = Window'
                           /\ c = Completing
  OBVIOUS
<1>3. /\ W \subseteq Slots /\ V \subseteq W /\ WakeOk(S, W) /\ AddrOk(S, W)
      /\ WakeOk(R, V) /\ Typed(R) /\ c \in Slots
      /\ \A s \in Slots : S[s].tag \in Nat /\ R[s].tag \in Nat
  BY <1>1, <1>2, WindowNamed DEF WakeInv, AddrInv, TypeInv, Typed, WritebackVia
<1>4. \A s \in Slots : /\ SameInst(S[s], R[s]) /\ SameProgress(S[s], R[s])
                       /\ R[s].idep_ready = S[s].idep_ready
                       /\ R[s].tag = S[s].tag \/ R[s].tag = S[s].tag + 1
                       /\ R[s].odep_list = S[s].odep_list \/ R[s].odep_list = << <<>>, <<>> >>
  BY <1>1, <1>2 DEF WritebackVia
<1>5. AddrOk(R, V)
  <2>1. FewerLinks(S, R)
    BY <1>4 DEF FewerLinks
  <2>2. \A s \in Slots : R[s].seq = S[s].seq /\ R[s].ea_comp = S[s].ea_comp
    BY <1>4 DEF SameInst
  <2>3. \A s \in V : S[s].completed => R[s].completed
    BY <1>3, <1>4 DEF SameProgress
  <2>4. \A l \in V : STORE_ADDR_READY(R[l]) => STORE_ADDR_READY(S[l])
    BY <1>3, <1>4 DEF STORE_ADDR_READY
  <2> QED
    BY <1>3, <1>4, <2>1, <2>2, <2>3, <2>4, AddrKept
<1>6. PICK links : links = OutputLinks(R[c]) /\ Completed(R, T, c, links, w)
  BY <1>1, <1>2 DEF WritebackVia, WokenBy
<1>7. \A s \in Slots : /\ SameInst(R[s], T[s]) /\ T[s].tag = R[s].tag
                       /\ T[s].completed = IF s = c THEN TRUE ELSE R[s].completed
                       /\ T[s].idep_ready =
                             [k \in 1 .. 3 |-> R[s].idep_ready[k] \/ Told(R, links, s, k)]
                       /\ s # c => T[s].odep_list = R[s].odep_list
  BY <1>6, Zenon DEF Completed
<1>8. T[c].odep_list = [o \in 1 .. 2 |-> IF S[c].onames[o] = NA
                                         THEN R[c].odep_list[o] ELSE <<>>]
  BY <1>2, <1>6, Zenon DEF Completed
<1>9. FewerLinks(R, T)
  <2>1. ASSUME NEW x \in Slots, NEW o \in 1 .. 2
        PROVE  T[x].odep_list[o] = R[x].odep_list[o] \/ T[x].odep_list[o] = <<>>
    <3>1. CASE x = c
      BY <1>8, <3>1
    <3>2. CASE x # c
      BY <1>7, <3>2
    <3> QED
      BY <3>1, <3>2
  <2> QED
    BY <2>1 DEF FewerLinks
<1>10. ASSUME NEW l \in V, STORE_ADDR_READY(T[l]), ~STORE_ADDR_READY(R[l])
       PROVE  \A s \in V : Computes(R, s, l) => T[s].completed
  <2>1. l \in Slots /\ STORE_ADDR_INDEX \in 1 .. 3
    BY <1>3 DEF STORE_ADDR_INDEX
  <2>2. Told(R, links, l, STORE_ADDR_INDEX)
    <3>1. T[l].idep_ready[STORE_ADDR_INDEX]
             <=> R[l].idep_ready[STORE_ADDR_INDEX] \/ Told(R, links, l, STORE_ADDR_INDEX)
      BY <1>7, <2>1, Zenon
    <3> QED
      BY <1>10, <3>1 DEF STORE_ADDR_READY
  <2>3. PICK o \in 1 .. 2 : LinksTo(R, c, o, l, R[l].tag, STORE_ADDR_INDEX) # 0
    <3>1. Lists(R)
      BY <1>3 DEF Typed
    <3> QED
      BY <1>3, <1>6, <2>1, <2>2, <3>1, ToldIs
  <2>4. c \in V
    BY <1>3, <2>1, <2>3 DEF WakeOk, LinkSound
  <2> SUFFICES ASSUME NEW s \in V, Computes(R, s, l) PROVE T[s].completed
    OBVIOUS
  <2>5. Computes(R, c, l)
    BY <1>3, <1>5, <2>1, <2>3 DEF AddrOk, Computes
  <2>6. R[s].seq = R[c].seq
    <3>1. R[s].seq \in Nat /\ R[c].seq \in Nat /\ R[s].seq + 1 = R[c].seq + 1
      BY <1>3, <2>4, <2>5 DEF Computes, Typed, InstTyped
    <3> QED
      BY <3>1
  <2>7. S[s].seq = S[c].seq
    BY <1>3, <1>4, <2>4, <2>6 DEF SameInst
  <2>8. s = c
    BY <1>2, <1>3, <2>4, <2>7, SeqNamesAll
  <2> QED
    BY <1>3, <1>7, <2>8
<1>11. AddrOk(T, V)
  <2>1. \A s \in Slots : T[s].seq = R[s].seq /\ T[s].ea_comp = R[s].ea_comp
    BY <1>7 DEF SameInst
  <2>2. \A s \in V : R[s].completed => T[s].completed
    BY <1>3, <1>7
  <2>3. V \subseteq Slots /\ \A s \in Slots : T[s].tag = R[s].tag
    BY <1>3, <1>7
  <2> QED
    BY <1>3, <1>5, <1>9, <1>10, <2>1, <2>2, <2>3, AddrKept
<1> QED
  BY <1>2, <1>11 DEF AddrInv

LEMMA AddrInvStep ==
    ASSUME TypeInv, OrderInv, SpecInv, InstOk, CvInv, WakeInv, ProgressInv, AddrInv,
           [Next]_vars
    PROVE  AddrInv'
<1>1. PICK S, T, W, V : S = st /\ T = st' /\ W = Window /\ V = Window'
  OBVIOUS
<1>2. CASE Idle
  <2>1. V = W /\ T = S
    BY <1>1, <1>2, IdleWindow DEF Idle
  <2> QED
    BY <1>1, <2>1, SameInstSelf, AddrStays
<1>3. CASE RuuCommit /\ ~Panics
  <2>1. V \subseteq W
    BY <1>1, <1>3, CommitTakes
  <2>2. \A s \in Slots : /\ SameInst(S[s], T[s]) /\ SameProgress(S[s], T[s])
                         /\ T[s].idep_ready = S[s].idep_ready
                         /\ T[s].odep_list = S[s].odep_list
                         /\ T[s].tag = S[s].tag \/ T[s].tag = S[s].tag + 1
    BY <1>1, <1>3, RetireIs DEF Retired, TypeInv, Typed
  <2>3. \A s \in Slots : S[s].completed => T[s].completed
    BY <2>2 DEF SameProgress
  <2> QED
    BY <1>1, <2>1, <2>2, <2>3, AddrStays
<1>4. CASE (WritebackOp \/ WritebackRecover) /\ ~Panics
  BY <1>4, WritebackAddr
<1>5. CASE LsqRefresh
  <2>1. Marked(S, T, ReadyLoads) /\ V = W
    BY <1>1, <1>5, MarkQueuedIs, IdleWindow DEF LsqRefresh, TypeInv, Typed
  <2>2. \A s \in Slots : /\ SameInst(S[s], T[s]) /\ T[s].idep_ready = S[s].idep_ready
                         /\ T[s].odep_list = S[s].odep_list /\ T[s].tag = S[s].tag
                         /\ T[s].completed = S[s].completed
    BY <2>1, Zenon DEF Marked
  <2> QED
    BY <1>1, <2>1, <2>2, AddrStays
<1>6. ASSUME NEW done, Started(S, T, Issuing, done), V = W PROVE AddrInv'
  <2>1. \A s \in Slots : /\ SameInst(S[s], T[s]) /\ T[s].idep_ready = S[s].idep_ready
                         /\ T[s].odep_list = S[s].odep_list /\ T[s].tag = S[s].tag
                         /\ T[s].completed = IF s = Issuing /\ done THEN TRUE
                                             ELSE S[s].completed
    BY <1>6, Zenon DEF Started
  <2>2. \A s \in Slots : S[s].completed => T[s].completed
    BY <2>1
  <2> QED
    BY <1>1, <1>6, <2>1, <2>2, AddrStays
<1>7. CASE IssueStore
  <2>1. V = W
    BY <1>1, <1>7, IdleWindow DEF IssueStore
  <2>2. Started(S, T, Issuing, TRUE)
    BY <1>1, <1>7, IssueStoreIs DEF TypeInv, Typed
  <2> QED
    BY <1>6, <2>1, <2>2
<1>8. CASE Starting
  <2>1. PICK lat : V = W /\ Start(lat)
    BY <1>1, <1>8, IdleWindow DEF Starting
  <2>2. Started(S, T, Issuing, FALSE)
    BY <1>1, <1>8, <2>1, StartActionIs DEF TypeInv, Typed, Starting
  <2> QED
    BY <1>6, <2>1, <2>2
<1>9. CASE DispatchInst
  BY <1>9, DispatchAddr
<1> QED
  BY <1>2, <1>3, <1>4, <1>5, <1>7, <1>8, <1>9, StepKinds DEF StationSteps

\* The last operation that was dispatched is the youngest of the window, or has
\* left it; when operations issue in order, nobody else waits but its address
\* computation.
WaitOk(S, W, link) ==
    /\ link.rs \in Slots => link.tag <= S[link.rs].tag
    /\ RSLINK_VALID(link, S) =>
          link.rs \in W /\ \A t \in W : S[t].seq <= S[link.rs].seq
    /\ ruu_inorder_issue => \A s \in W : ~OPERANDS_READY(S[s]) =>
          /\ RSLINK_VALID(link, S)
          /\ s = link.rs \/ (S[s].ea_comp /\ S[link.rs].seq = S[s].seq + 1)

WaitInv == WaitOk(st, Window, last_op)

\* Every address computation has its other half, and the numbers are names.
Paired(S, W) ==
    /\ \A s \in W : S[s].ea_comp => \E l \in W : S[l].seq = S[s].seq + 1 /\ in_LSQ(l)
    /\ \A s, t \in W : S[s].seq = S[t].seq => s = t

LEMMA PairedIs == TypeInv /\ OrderInv => Paired(st, Window)
<1> SUFFICES ASSUME TypeInv, OrderInv PROVE Paired(st, Window)
  OBVIOUS
<1>1. \A s, t \in Window : st[s].seq = st[t].seq => s = t
  BY SeqNamesAll
<1>2. ASSUME NEW s \in Window, st[s].ea_comp
      PROVE  \E l \in Window : st[l].seq = st[s].seq + 1 /\ in_LSQ(l)
  <2>1. s \in RuuWindow
    BY <1>2, WindowIs DEF OrderInv, MemOnly, LsqWindow
  <2>2. PICK l \in LsqWindow : PartOf(s, l)
    BY <1>2, <2>1 DEF OrderInv, InPairs
  <2> QED
    BY <2>2, WindowIs, LsqSlotOf DEF PartOf, LsqWindow
<1> QED
  BY <1>1, <1>2 DEF Paired

LEMMA PairedStep ==
    ASSUME TypeInv', OrderInv' PROVE Paired(st', Window')
<1>1. (TypeInv /\ OrderInv => Paired(st, Window))'
  BY PairedIs, PTL
<1> QED
  BY <1>1

\* What leaves the window takes its other half along.
LEMMA WaitKept ==
    ASSUME NEW S, NEW T, NEW W \in SUBSET Slots, NEW V \in SUBSET W, NEW link,
           link.rs \in Slots => link.tag \in Nat,
           \A s \in Slots :
              /\ S[s].tag \in Nat
              /\ T[s].tag = IF s \in W \ V THEN S[s].tag + 1 ELSE S[s].tag
              /\ T[s].seq = S[s].seq /\ T[s].ea_comp = S[s].ea_comp,
           \A s \in V : OPERANDS_READY(S[s]) => OPERANDS_READY(T[s]),
           Paired(S, W), Paired(T, V), WaitOk(S, W, link)
    PROVE  WaitOk(T, V, link)
<1>1. link.rs \in Slots => link.tag <= T[link.rs].tag
  BY DEF WaitOk
<1>2. RSLINK_VALID(link, T) => RSLINK_VALID(link, S) /\ link.rs \in V
  BY DEF WaitOk, RSLINK_VALID
<1>3. RSLINK_VALID(link, T) => \A t \in V : T[t].seq <= T[link.rs].seq
  BY <1>2 DEF WaitOk
<1>4. ASSUME ruu_inorder_issue, NEW s \in V, ~OPERANDS_READY(T[s])
      PROVE  /\ RSLINK_VALID(link, T)
             /\ s = link.rs \/ (T[s].ea_comp /\ T[link.rs].seq = T[s].seq + 1)
  <2>1. /\ RSLINK_VALID(link, S) /\ link.rs \in W /\ s \in Slots
        /\ s = link.rs \/ (S[s].ea_comp /\ S[link.rs].seq = S[s].seq + 1)
    BY <1>4 DEF WaitOk
  <2>2. link.rs \in V
    <3>1. CASE S[s].ea_comp /\ S[link.rs].seq = S[s].seq + 1
      <4>1. PICK l \in V : T[l].seq = T[s].seq + 1
        BY <2>1, <3>1 DEF Paired
      <4>2. S[l].seq = S[link.rs].seq
        BY <2>1, <3>1, <4>1
      <4>3. l = link.rs
        BY <2>1, <4>1, <4>2 DEF Paired
      <4> QED
        BY <4>3
    <3> QED
      BY <2>1, <3>1
  <2>3. RSLINK_VALID(link, T)
    BY <2>1, <2>2 DEF RSLINK_VALID
  <2> QED
    BY <2>1, <2>2, <2>3
<1> QED
  BY <1>1, <1>2, <1>3, <1>4 DEF WaitOk

\* Only ruu_dispatch sets last_op.
LEMMA LastOpStays == ASSUME [Next]_vars PROVE DispatchInst \/ last_op' = last_op
<1>1. CASE UNCHANGED vars
  BY <1>1 DEF vars, orderVars
<1>2. CASE Commit \/ RuuReleaseFu
  BY <1>2 DEF Commit, RuuCommit, RuuCommitDone, RuuReleaseFu, orderVars
<1>3. CASE Writeback
  BY <1>3 DEF Writeback, WritebackStale, WritebackOp, WritebackRecover, WritebackDone,
              orderVars
<1>4. CASE LsqRefresh
  BY <1>4 DEF LsqRefresh, orderVars
<1>5. CASE Issue
  <2>1. ASSUME NEW lat, Start(lat) PROVE last_op' = last_op
    BY <2>1 DEF Start, orderVars
  <2>2. CASE IssueToUnit
    BY <2>1, <2>2 DEF IssueToUnit
  <2>3. CASE IssueNoClass
    BY <2>1, <2>3 DEF IssueNoClass
  <2> QED
    BY <1>5, <2>2, <2>3 DEF Issue, IssueStale, IssueStore, IssueNoUnit, IssueDone,
                            orderVars
<1>6. CASE Dispatch
  BY <1>6 DEF Dispatch, DispatchNop, DispatchExit, DispatchDone, orderVars
<1>7. CASE Fetch
  BY <1>7 DEF Fetch, FetchStalled, FetchMiss, FetchNotTaken, FetchTaken, FetchDone,
              backVars, orderVars
<1>8. CASE EndCycle
  BY <1>8 DEF EndCycle, orderVars
<1> QED
  BY <1>1, <1>2, <1>3, <1>4, <1>5, <1>6, <1>7, <1>8 DEF Next, Step, Exited

\* In-order issue dispatches only when nobody in the window waits.
LEMMA AllReady ==
    ASSUME TypeInv, OrderInv, ProgressInv, AddrInv, WaitInv, ruu_inorder_issue,
           CanDispatch, NEW s \in Window
    PROVE  OPERANDS_READY(st[s])
<1> SUFFICES ASSUME ~OPERANDS_READY(st[s]) PROVE FALSE
  OBVIOUS
<1>1. /\ RSLINK_VALID(last_op, st) /\ last_op.rs \in Window
      /\ s = last_op.rs \/ (st[s].ea_comp /\ st[last_op.rs].seq = st[s].seq + 1)
  BY DEF WaitInv, WaitOk
<1>2. OPERANDS_READY(st[last_op.rs])
  BY <1>1 DEF CanDispatch, InorderBlocked
<1>3. PICK l \in Window : st[l].seq = st[s].seq + 1 /\ in_LSQ(l) /\ st[s].ea_comp
  BY <1>1, <1>2, PairedIs DEF Paired
<1>4. l = last_op.rs
  BY <1>1, <1>2, <1>3, PairedIs DEF Paired
<1>5. Computes(st, s, l) /\ STORE_ADDR_READY(st[l])
  BY <1>2, <1>3, <1>4 DEF Computes, STORE_ADDR_READY, STORE_ADDR_INDEX, OPERANDS_READY
<1>6. st[s].completed
  BY <1>3, <1>5 DEF AddrInv, AddrOk
<1> QED
  BY <1>6 DEF ProgressInv, ProgressOk, Progress

LEMMA NullLink == \A S : ~RSLINK_VALID(RSLINK_NULL, S) /\ RSLINK_NULL.rs \notin Slots
<1>1. NoSlot \notin Slots
  BY DEF NoSlot, Slots, RuuSlots, LsqSlots, RuuSlot, LsqSlot
<1> QED
  BY <1>1 DEF RSLINK_NULL, RSLINK_VALID

\* The link last_op is to the youngest of the new operations, or is null when
\* they need not be waited for.
LEMMA DispatchWait ==
    ASSUME TypeInv, OrderInv, WakeInv, ProgressInv, AddrInv, WaitInv, DispatchInst
    PROVE  WaitInv'
<1>1. PICK npc \in PCs, addr \in Addrs \cup {0} : Install(npc, addr)
  BY DispatchInstIs DEF TypeInv
<1>2. CanDispatch /\ RUU_head' = RUU_head /\ LSQ_head' = LSQ_head
  BY DEF DispatchInst
<1>3. PICK F, L : Installed(F, L, npc, addr)
  BY <1>1, <1>2, InstallIs DEF TypeInv, OrderTyped
<1>4. PICK S, T, W, V, N, u, v, link :
         /\ S = st /\ T = st' /\ W = Window /\ V = Window' /\ N = NewOnes
         /\ u = NewRuu /\ v = NewLsq /\ link = last_op'
  OBVIOUS
<1>5. /\ N \subseteq Slots /\ N \cap W = {} /\ V = W \cup N /\ W \subseteq Slots
      /\ \A s \in Slots : S[s].tag \in Nat
  BY <1>1, <1>2, <1>4, DispatchAdds, WindowNamed DEF TypeInv, Typed
<1>6. /\ ~in_LSQ(u) /\ u \in N /\ u \in Slots
      /\ Is(DispOp, "F_MEM") => v \in N /\ v \in Slots
      /\ \A s \in N : s = u \/ (Is(DispOp, "F_MEM") /\ s = v)
  <2>1. /\ ~in_LSQ(u) /\ u \in N /\ (Is(DispOp, "F_MEM") => v \in N)
        /\ \A s \in N : s = u \/ (Is(DispOp, "F_MEM") /\ s = v)
    BY <1>4 DEF NewOnes, NewRuu, RuuSlot, in_LSQ
  <2> QED
    BY <1>5, <2>1
<1>7. \A s \in Slots : T[s].tag = S[s].tag
  BY <1>1, <1>2, <1>3, <1>4, DispatchProgress
<1>8. \A s \in Slots : T[s].idep_ready = F[s].idep_ready
  BY <1>3, <1>4, Zenon DEF Installed, LinkedIn, ListsOnly, Marked
<1>9. \A s \in Slots \ N : T[s].seq = S[s].seq /\ F[s] = S[s]
  <2>1. \A s \in Slots \ N : T[s].seq = S[s].seq
    BY <1>3, <1>4, InstallInst DEF SameInst
  <2>2. \A s \in Slots \ N : F[s] = S[s]
    BY <1>3, <1>4 DEF Installed, FilledIn
  <2> QED
    BY <2>1, <2>2
<1>10. /\ T[u].seq = inst_seq + 1 /\ T[u].ea_comp = (Is(DispOp, "F_MEM") /\ ~in_LSQ(u))
       /\ Is(DispOp, "F_MEM") => T[v].seq = inst_seq + 2
  BY <1>3, <1>4, InstallNames
<1>11. /\ inst_seq \in Nat /\ \A s \in W : S[s].seq \in Nat /\ S[s].seq <= inst_seq
  BY <1>4, WindowParts DEF TypeInv, OrderTyped
<1>12. \A t \in V : /\ T[t].seq <= inst_seq + 2
                    /\ ~Is(DispOp, "F_MEM") => T[t].seq <= inst_seq + 1
  BY <1>5, <1>6, <1>9, <1>10, <1>11
<1>13. \A s \in W : ruu_inorder_issue => OPERANDS_READY(T[s])
  <2> SUFFICES ASSUME NEW s \in W, ruu_inorder_issue PROVE OPERANDS_READY(T[s])
    OBVIOUS
  <2>1. OPERANDS_READY(S[s])
    BY <1>2, <1>4, AllReady
  <2>2. T[s].idep_ready = S[s].idep_ready
    BY <1>5, <1>8, <1>9
  <2> QED
    BY <2>1, <2>2 DEF OPERANDS_READY
<1>14. link = IF Is(DispOp, "F_MEM") THEN RSLINK_INIT(v, S)
              ELSE IF ReadyNow(F) # <<>> THEN RSLINK_NULL
              ELSE RSLINK_INIT(u, S)
  BY <1>3, <1>4, Zenon DEF Installed, InstalledRest
<1>15. CASE Is(DispOp, "F_MEM")
  <2>1. link.rs = v /\ link.tag = S[v].tag /\ v \in V /\ v \in Slots
    BY <1>5, <1>6, <1>14, <1>15 DEF RSLINK_INIT
  <2>2. RSLINK_VALID(link, T) /\ link.tag <= T[link.rs].tag
    BY <1>5, <1>7, <2>1 DEF RSLINK_VALID
  <2>3. \A t \in V : T[t].seq <= T[link.rs].seq
    BY <1>10, <1>12, <1>15, <2>1
  <2>4. T[u].ea_comp /\ T[v].seq = T[u].seq + 1
    <3>1. T[u].ea_comp
      BY <1>6, <1>10, <1>15, Zenon
    <3>2. T[v].seq = T[u].seq + 1
      BY <1>10, <1>11, <1>15
    <3> QED
      BY <3>1, <3>2
  <2>5. ASSUME NEW s \in V, ruu_inorder_issue, ~OPERANDS_READY(T[s])
        PROVE  s = link.rs \/ (T[s].ea_comp /\ T[link.rs].seq = T[s].seq + 1)
    <3>1. s = u \/ s = v
      BY <1>5, <1>6, <1>13, <2>5
    <3> QED
      BY <2>1, <2>4, <3>1
  <2>6. WaitOk(T, V, link)
    BY <2>1, <2>2, <2>3, <2>5 DEF WaitOk
  <2> QED
    BY <1>4, <2>6 DEF WaitInv
<1>16. CASE ~Is(DispOp, "F_MEM") /\ ReadyNow(F) # <<>>
  <2>1. link = RSLINK_NULL
    BY <1>14, <1>16, Zenon
  <2>2. link.rs \notin Slots /\ ~RSLINK_VALID(link, T)
    BY <2>1, NullLink
  <2>3. \A s \in V : ruu_inorder_issue => OPERANDS_READY(T[s])
    <3>1. OPERANDS_READY(F[u])
      BY <1>4, <1>16 DEF ReadyNow
    <3>2. OPERANDS_READY(T[u])
      BY <1>6, <1>8, <3>1 DEF OPERANDS_READY
    <3> QED
      BY <1>5, <1>6, <1>13, <1>16, <3>2
  <2>4. WaitOk(T, V, link)
    BY <2>2, <2>3 DEF WaitOk
  <2> QED
    BY <1>4, <2>4 DEF WaitInv
<1>17. CASE ~Is(DispOp, "F_MEM") /\ ReadyNow(F) = <<>>
  <2>1. link.rs = u /\ link.tag = S[u].tag /\ u \in V
    BY <1>5, <1>6, <1>14, <1>17 DEF RSLINK_INIT
  <2>2. RSLINK_VALID(link, T) /\ link.tag <= T[link.rs].tag
    BY <1>5, <1>6, <1>7, <2>1 DEF RSLINK_VALID
  <2>3. \A t \in V : T[t].seq <= T[link.rs].seq
    BY <1>10, <1>12, <1>17, <2>1
  <2>4. \A s \in V : ruu_inorder_issue /\ ~OPERANDS_READY(T[s]) => s = link.rs
    BY <1>5, <1>6, <1>13, <1>17, <2>1
  <2>5. WaitOk(T, V, link)
    BY <2>1, <2>2, <2>3, <2>4 DEF WaitOk
  <2> QED
    BY <1>4, <2>5 DEF WaitInv
<1> QED
  BY <1>15, <1>16, <1>17

LEMMA InitWaitInv == Init => WaitInv
<1> SUFFICES ASSUME Init PROVE WaitInv
  OBVIOUS
<1>1. Window = {} /\ last_op = RSLINK_NULL
  BY InitWindow DEF Init
<1> QED
  BY <1>1, NullLink DEF WaitInv, WaitOk

\* Steps that only take operations out of the window, or none.
LEMMA WaitStays ==
    ASSUME TypeInv, OrderInv, TypeInv', OrderInv', WaitInv, last_op' = last_op,
           NEW T, T = st', NEW V, V = Window', V \subseteq Window,
           \A s \in Slots :
              /\ SameInst(st[s], T[s])
              /\ T[s].tag = IF s \in Window \ V THEN st[s].tag + 1 ELSE st[s].tag,
           \A s \in V : OPERANDS_READY(st[s]) => OPERANDS_READY(T[s])
    PROVE  WaitInv'
<1>1. PICK S, W, link : S = st /\ W = Window /\ link = last_op
  OBVIOUS
<1>2. /\ W \subseteq Slots /\ V \subseteq W /\ WaitOk(S, W, link)
      /\ \A s \in Slots : S[s].tag \in Nat
      /\ link.rs \in Slots => link.tag \in Nat
  BY <1>1, WindowNamed DEF WaitInv, TypeInv, Typed, OrderTyped, QueuesTyped
<1>3. Paired(S, W) /\ Paired(T, V)
  BY <1>1, PairedIs, PairedStep
<1>4. \A s \in Slots : T[s].seq = S[s].seq /\ T[s].ea_comp = S[s].ea_comp
  BY <1>1 DEF SameInst
<1>5. WaitOk(T, V, link)
  BY <1>1, <1>2, <1>3, <1>4, WaitKept
<1> QED
  BY <1>1, <1>5 DEF WaitInv

LEMMA WaitInvStep ==
    ASSUME TypeInv, OrderInv, SpecInv, InstOk, CvInv, WakeInv, ProgressInv, AddrInv,
           WaitInv, TypeInv', OrderInv', [Next]_vars
    PROVE  WaitInv'
<1>1. PICK S, T, W, V : S = st /\ T = st' /\ W = Window /\ V = Window'
  OBVIOUS
<1>2. W \subseteq Slots
  BY <1>1, WindowNamed
<1>3. CASE DispatchInst
  BY <1>3, DispatchWait
<1> SUFFICES ASSUME last_op' = last_op PROVE WaitInv'
  BY <1>3, LastOpStays
<1>4. ASSUME V = W, \A s \in Slots : /\ SameInst(S[s], T[s]) /\ T[s].tag = S[s].tag
                                     /\ T[s].idep_ready = S[s].idep_ready
      PROVE  WaitInv'
  BY <1>1, <1>2, <1>4, WaitStays DEF OPERANDS_READY
<1>5. CASE Idle
  <2>1. V = W /\ T = S
    BY <1>1, <1>5, IdleWindow DEF Idle
  <2> QED
    BY <1>4, <2>1, SameInstSelf
<1>6. CASE RuuCommit /\ ~Panics
  <2>1. V \subseteq W /\ W \ V = RetiredNow
    BY <1>1, <1>6, CommitTakes
  <2>2. \A s \in Slots : /\ SameInst(S[s], T[s])
                         /\ T[s].idep_ready = S[s].idep_ready
                         /\ T[s].tag = IF s \in W \ V THEN S[s].tag + 1 ELSE S[s].tag
    BY <1>1, <1>6, <2>1, RetireIs DEF Retired, TypeInv, Typed
  <2>3. \A s \in V : OPERANDS_READY(S[s]) => OPERANDS_READY(T[s])
    BY <1>2, <2>1, <2>2 DEF OPERANDS_READY
  <2> QED
    BY <1>1, <2>1, <2>2, <2>3, WaitStays
<1>7. CASE (WritebackOp \/ WritebackRecover) /\ ~Panics
  <2>1. PICK R, w, c, links :
           /\ WritebackVia(R, w) /\ c = Completing /\ links = OutputLinks(R[c])
    BY <1>7, WritebackParts
  <2>2. /\ V \subseteq W /\ Completed(R, T, c, links, w)
        /\ \A s \in Slots : /\ SameInst(S[s], R[s]) /\ R[s].idep_ready = S[s].idep_ready
                            /\ R[s].tag = IF s \in W \ V THEN S[s].tag + 1 ELSE S[s].tag
    BY <1>1, <2>1 DEF WritebackVia, WokenBy
  <2>3. \A s \in Slots : /\ SameInst(R[s], T[s]) /\ T[s].tag = R[s].tag
                         /\ T[s].idep_ready =
                               [k \in 1 .. 3 |-> R[s].idep_ready[k] \/ Told(R, links, s, k)]
    BY <2>2, Zenon DEF Completed
  <2>4. \A s \in Slots : SameInst(S[s], T[s])
    <3>1. \A s \in Slots : SameInst(S[s], R[s]) /\ SameInst(R[s], T[s])
      BY <2>2, <2>3, Zenon
    <3> QED
      BY <3>1 DEF SameInst
  <2>5. \A s \in V : OPERANDS_READY(S[s]) => OPERANDS_READY(T[s])
    <3>1. \A s \in Slots, k \in 1 .. 3 :
             T[s].idep_ready[k] <=> R[s].idep_ready[k] \/ Told(R, links, s, k)
      BY <2>3, Zenon
    <3> QED
      BY <1>2, <2>2, <3>1 DEF OPERANDS_READY
  <2>6. \A s \in Slots : T[s].tag = IF s \in W \ V THEN S[s].tag + 1 ELSE S[s].tag
    BY <2>2, <2>3
  <2> QED
    BY <1>1, <2>2, <2>4, <2>5, <2>6, WaitStays
<1>8. CASE LsqRefresh
  <2>1. Marked(S, T, ReadyLoads) /\ V = W
    BY <1>1, <1>8, MarkQueuedIs, IdleWindow DEF LsqRefresh, TypeInv, Typed
  <2>2. \A s \in Slots : /\ SameInst(S[s], T[s]) /\ T[s].idep_ready = S[s].idep_ready
                         /\ T[s].tag = S[s].tag
    BY <2>1, Zenon DEF Marked
  <2> QED
    BY <1>4, <2>1, <2>2
<1>9. ASSUME NEW done, Started(S, T, Issuing, done), V = W PROVE WaitInv'
  <2>1. \A s \in Slots : /\ SameInst(S[s], T[s]) /\ T[s].idep_ready = S[s].idep_ready
                         /\ T[s].tag = S[s].tag
    BY <1>9, Zenon DEF Started
  <2> QED
    BY <1>4, <1>9, <2>1
<1>10. CASE IssueStore
  <2>1. V = W
    BY <1>1, <1>10, IdleWindow DEF IssueStore
  <2>2. Started(S, T, Issuing, TRUE)
    BY <1>1, <1>10, IssueStoreIs DEF TypeInv, Typed
  <2> QED
    BY <1>9, <2>1, <2>2
<1>11. CASE Starting
  <2>1. PICK lat : V = W /\ Start(lat)
    BY <1>1, <1>11, IdleWindow DEF Starting
  <2>2. Started(S, T, Issuing, FALSE)
    BY <1>1, <1>11, <2>1, StartActionIs DEF TypeInv, Typed, Starting
  <2> QED
    BY <1>9, <2>1, <2>2
<1> QED
  BY <1>3, <1>5, <1>6, <1>7, <1>8, <1>10, <1>11, StepKinds DEF StationSteps

\* In every run of every machine that issues in order, at most one operation
\* waits for operands, besides the address computation of a load or store that
\* waits as well: ruu_dispatch goes on only when the last operation has its
\* operands, and neither a recovery nor the reuse of a station makes it forget
\* one that is still waiting.
THEOREM OneOperationWaits == Spec => []OneWaiter
<1>1. Init => AddrInv /\ WaitInv
  BY InitAddrInv, InitWaitInv
<1>2. RegInv /\ RegInv' /\ WakeInv /\ ProgressInv /\ AddrInv /\ WaitInv /\ [Next]_vars
         => AddrInv' /\ WaitInv'
  BY AddrInvStep, WaitInvStep DEF RegInv
<1>3. ASSUME TypeInv, OrderInv, WaitInv PROVE OneWaiter
  <2> SUFFICES ASSUME ruu_inorder_issue, NEW s \in Window, NEW t \in Window,
                      st[s].seq < st[t].seq, ~OPERANDS_READY(st[s])
               PROVE  st[s].ea_comp /\ st[t].seq = st[s].seq + 1
    BY DEF OneWaiter
  <2>1. /\ last_op.rs \in Window /\ st[t].seq <= st[last_op.rs].seq
        /\ s = last_op.rs \/ (st[s].ea_comp /\ st[last_op.rs].seq = st[s].seq + 1)
    BY <1>3 DEF WaitInv, WaitOk
  <2>2. st[s].seq \in Nat /\ st[t].seq \in Nat
    BY <1>3, WindowParts
  <2> QED
    BY <2>1, <2>2
<1>4. RegInv /\ WaitInv => OneWaiter
  BY <1>3 DEF RegInv
<1> QED
  BY <1>1, <1>2, <1>4, ProgressAlways, PTL DEF Spec

-----------------------------------------------------------------------------
(* The sanity checks of the pipeline *)

\* What was fetched goes on where its instruction may be predicted to go.
IfqPredicted ==
    \A i \in DOMAIN ifq :
        \/ ifq[i].pred_PC = SeqPC(ifq[i].regs_PC)
        \/ ifq[i].pred_PC \in Taken(ifq[i].regs_PC)

\* ifq is fetched into at the end, taken from at the head or emptied.
Fetched(pred) ==
    /\ pred = SeqPC(fetch_pred_PC) \/ pred \in Taken(fetch_pred_PC)
    /\ ifq' = Append(ifq, [regs_PC |-> fetch_pred_PC, pred_PC |-> pred])

LEMMA IfqSteps ==
    ASSUME [Next]_vars
    PROVE  \/ ifq' = ifq \/ ifq' = <<>>
           \/ ifq # <<>> /\ ifq' = Tail(ifq)
           \/ \E pred : Fetched(pred)
<1>1. UNCHANGED frontVars => ifq' = ifq
  BY DEF frontVars, fetchVars
<1>2. CASE UNCHANGED vars \/ Exited
  BY <1>2 DEF Exited, vars, frontVars, fetchVars
<1>3. CASE Commit \/ RuuReleaseFu \/ LsqRefresh
  BY <1>1, <1>3 DEF Commit, RuuCommit, RuuCommitDone, RuuReleaseFu, LsqRefresh
<1>4. CASE Writeback
  BY <1>1, <1>4 DEF Writeback, WritebackStale, WritebackOp, WritebackDone,
                    WritebackRecover, TracerRecover
<1>5. CASE Issue
  BY <1>1, <1>5 DEF Issue, IssueStale, IssueStore, IssueToUnit, IssueNoUnit,
                    IssueNoClass, IssueDone, Start
<1>6. CASE Dispatch
  <2>1. CASE DispatchNop \/ DispatchInst
    BY <2>1 DEF DispatchNop, DispatchInst, CanDispatch, DispatchOracle
  <2>2. CASE DispatchExit \/ DispatchDone
    BY <1>1, <2>2 DEF DispatchExit, DispatchDone, fetchVars
  <2> QED
    BY <1>6, <2>1, <2>2 DEF Dispatch
<1>7. CASE Fetch
  BY <1>1, <1>7 DEF Fetch, FetchStalled, FetchMiss, FetchNotTaken, FetchTaken,
                    FetchDone, PushFetch, Fetched, fetchVars
<1>8. CASE EndCycle
  BY <1>8 DEF EndCycle
<1> QED
  BY <1>2, <1>3, <1>4, <1>5, <1>6, <1>7, <1>8 DEF Next, Step

LEMMA IfqPredictedStep ==
    ASSUME FetchInv, IfqPredicted, [Next]_vars PROVE IfqPredicted'
<1>1. ifq \in Seq([regs_PC : PCs, pred_PC : PCs])
  BY DEF FetchInv, FetchType
<1>2. CASE ifq' = ifq \/ ifq' = <<>>
  BY <1>2 DEF IfqPredicted
<1>3. CASE ifq # <<>> /\ ifq' = Tail(ifq)
  <2>1. \A i \in DOMAIN ifq' : i + 1 \in DOMAIN ifq /\ ifq'[i] = ifq[i + 1]
    BY <1>1, <1>3
  <2> QED
    BY <2>1 DEF IfqPredicted
<1>4. ASSUME NEW pred, Fetched(pred) PROVE IfqPredicted'
  <2>1. PICK e : e = [regs_PC |-> fetch_pred_PC, pred_PC |-> pred]
    OBVIOUS
  <2>2. e.pred_PC = SeqPC(e.regs_PC) \/ e.pred_PC \in Taken(e.regs_PC)
    BY <1>4, <2>1 DEF Fetched
  <2>3. ifq' = Append(ifq, e)
    BY <1>4, <2>1 DEF Fetched
  <2>4. \A i \in DOMAIN ifq' : (i \in DOMAIN ifq /\ ifq'[i] = ifq[i]) \/ ifq'[i] = e
    BY <1>1, <2>3
  <2> QED
    BY <2>2, <2>4 DEF IfqPredicted
<1> QED
  BY <1>2, <1>3, <1>4, IfqSteps

\* A trap is dispatched only when no wrong path is open, and a NOP, which takes
\* no station, is never mispredicted.
LEMMA DispatchChecks ==
    ASSUME TypeInv, SpecInv, IfqPredicted PROVE ~DispatchPanics
<1> SUFFICES ASSUME CanDispatch, DispatchPanics PROVE FALSE
  BY DEF DispatchPanics
<1>1. ASSUME Is(DispOp, "F_TRAP"), spec_mode PROVE FALSE
  <2>1. RUU_num = 0
    BY <1>1 DEF CanDispatch, Drained
  <2>2. PICK i \in Indices : InRuu(i)
    BY <1>1 DEF SpecInv, SpecIndex, BeginsAt
  <2>3. RuuAge(i) >= 0
    BY SizeType DEF SpecInv, RuuShape, RuuAge, Indices
  <2>4. RuuAge(i) \in Int
    BY SizeType DEF SpecInv, RuuShape, RuuAge, Indices
  <2> QED
    BY <2>1, <2>2, <2>3, <2>4 DEF InRuu
<1>2. ASSUME DispOp = "NOP", NEW npc \in NextPCs(DispPC) PROVE ~Mispredicted(npc)
  <2>1. npc = SeqPC(DispPC)
    BY <1>2 DEF NextPCs, Jumps, DispOp, DispInst
  <2>2. Taken(DispPC) = {}
    BY <1>2 DEF Taken, Is, MD_OP_FLAGS, DispOp, DispInst
  <2>3. 1 \in DOMAIN ifq /\ Head(ifq) = ifq[1]
    BY DEF TypeInv, FetchInv, FetchType, CanDispatch
  <2>4. Head(ifq).pred_PC = SeqPC(DispPC)
    BY <2>2, <2>3 DEF IfqPredicted, DispPC
  <2> QED
    BY <2>1, <2>4 DEF Mispredicted
<1> QED
  BY <1>1, <1>2 DEF DispatchPanics

\* No entry of the LSQ is without a place in the RUU.
LEMMA LsqNotLonger ==
    ASSUME TypeInv, OrderInv PROVE LSQ_num <= RUU_num
<1> DEFINE mem == {s \in Window : st[s].ea_comp}
           f == [s \in RuuWindow |-> Age(s)]
<1>1. RUU_num \in Nat /\ LSQ_num \in Nat /\ RUU_size \in Nat \ {0}
  BY SizeType DEF TypeInv, RuuShape, LsqShape
<1>2. Cardinality(mem) = LSQ_num
  BY OrderIsSync DEF QueueSync
<1>3. mem \in SUBSET RuuWindow
  BY WindowIs DEF OrderInv, MemOnly, LsqWindow
<1>4. IsFiniteSet(RuuWindow)
  BY SlotsFinite, WindowIs, FS_Subset
<1>5. Cardinality(mem) <= Cardinality(RuuWindow)
  <2> HIDE DEF mem
  <2> QED
    BY <1>3, <1>4, FS_Subset
<1>6. /\ \A s \in RuuWindow : Age(s) \in 0 .. RUU_num - 1
      /\ \A s, t \in RuuWindow : Age(s) = Age(t) => s = t
  BY <1>1, AgeType DEF TypeInv, RuuWindow, RuuSlots, InWindow, RuuSlot, in_LSQ
<1>7. f \in Injection(RuuWindow, 0 .. RUU_num - 1)
  BY <1>6 DEF Injection, IsInjective
<1>8. IsFiniteSet(0 .. RUU_num - 1) /\ Cardinality(0 .. RUU_num - 1) = RUU_num
  BY <1>1, FirstOnes, FS_Interval
<1>9. Cardinality(RuuWindow) <= RUU_num
  <2> HIDE DEF f
  <2> QED
    BY <1>7, <1>8, FS_Injection
<1>10. Cardinality(RuuWindow) \in Nat
  BY <1>4, FS_CardinalityType
<1> QED
  BY <1>1, <1>2, <1>5, <1>9, <1>10

LEMMA HeadInWindow ==
    ASSUME TypeInv, RUU_num > 0 PROVE RuuHead \in RuuWindow
<1> USE SizeType
<1>1. InRuu(RUU_head) /\ RUU_head \in Indices
  BY DEF TypeInv, RuuShape, InRuu, RuuAge, Indices
<1>2. RuuHead \in RuuSlots /\ RuuHead[2] = RUU_head
  BY <1>1, RuuSlotOf DEF RuuHead
<1> QED
  BY <1>1, <1>2, AgeOf DEF RuuWindow

\* The ends of both queues are where ruu_commit expects them, a load or store
\* at the head of the RUU has its other half in the LSQ, and what retires has
\* nobody waiting for it.
LEMMA CommitChecks ==
    ASSUME TypeInv, OrderInv, WakeInv PROVE ~CommitPanics
<1>1. LSQ_num <= RUU_num /\ RUU_num \in Nat /\ LSQ_num \in Nat
  BY LsqNotLonger, SizeType DEF TypeInv, RuuShape, LsqShape
<1>2. (RUU_head + RUU_num) % RUU_size = RUU_tail
  <2>1. RuuShape /\ RUU_size \in Nat \ {0}
    BY SizeType DEF TypeInv
  <2>2. PICK x : x = RUU_head + RUU_num
    OBVIOUS
  <2>3. /\ x \in 0 .. 2 * RUU_size - 1
        /\ RUU_tail = IF x < RUU_size THEN x ELSE x - RUU_size
    BY <2>1, <2>2 DEF RuuShape, Indices
  <2> QED
    BY <2>1, <2>2, <2>3, ModIs
<1>3. (LSQ_head + LSQ_num) % LSQ_size = LSQ_tail
  <2>1. LsqShape /\ LSQ_size \in Nat \ {0}
    BY SizeType DEF TypeInv
  <2>2. PICK x : x = LSQ_head + LSQ_num
    OBVIOUS
  <2>3. /\ x \in 0 .. 2 * LSQ_size - 1
        /\ LSQ_tail = IF x < LSQ_size THEN x ELSE x - LSQ_size
    BY <2>1, <2>2 DEF LsqShape, LIndices
  <2> QED
    BY <2>1, <2>2, <2>3, ModIs
<1>4. ASSUME RUU_num > 0, st[RuuHead].ea_comp PROVE LSQ_num # 0
  <2>1. PICK l \in LsqWindow : TRUE
    BY <1>4, HeadInWindow DEF OrderInv, InPairs
  <2> QED
    BY <1>1, <2>1, LsqAtWindow DEF TypeInv
<1>5. ASSUME CanCommit PROVE OdepLinks(st[RuuHead]) = 0
  <2>1. RuuHead \in Window /\ RuuHead \in Slots /\ st[RuuHead].completed
    BY <1>5, HeadInWindow, WindowIs DEF CanCommit, HeadCompleted
  <2>2. \A o \in 1 .. 2 : st[RuuHead].odep_list[o] = <<>>
    BY <2>1, DoneListsEmpty DEF TypeInv, Typed, WakeInv
  <2>3. st[RuuHead].odep_list[1] = <<>> /\ st[RuuHead].odep_list[2] = <<>>
    BY <2>2
  <2> QED
    BY <2>3 DEF OdepLinks
<1> QED
  BY <1>1, <1>2, <1>3, <1>4, <1>5 DEF CommitPanics

\* An event that is still valid is that of an operation which executes; a branch
\* that recovers is in the RUU and has a wrong path behind it, which holds no
\* more loads and stores than the LSQ; and who is told waits.
LEMMA WritebackChecks ==
    ASSUME TypeInv, OrderInv, SpecInv, WakeInv, ProgressInv, SchedInv
    PROVE  ~WritebackPanics
<1> SUFFICES ASSUME EventDue, EventLive, WritebackPanics PROVE FALSE
  BY DEF WritebackPanics
<1> DEFINE c == Completing
           links == OutputLinks(st[c])
<1>1. c \in Slots /\ Head(event_queue).rs = c /\ Head(event_queue).tag = st[c].tag
  <2>1. Head(event_queue) \in EventType
    BY TailTyped DEF EventDue, TypeInv, QueuesTyped
  <2> QED
    BY <2>1 DEF EventType, EventLive, RSLINK_VALID, Completing
<1>2. Count(event_queue, c, st[c].tag) # 0
  <2>1. IsFor(Head(event_queue), c, st[c].tag) = 1
    BY <1>1 DEF IsFor
  <2>2. /\ Count(event_queue, c, st[c].tag)
              = Count(Tail(event_queue), c, st[c].tag)
                + IsFor(Head(event_queue), c, st[c].tag)
        /\ Count(Tail(event_queue), c, st[c].tag) \in Nat
    BY CountTail DEF EventDue, TypeInv, QueuesTyped
  <2> QED
    BY <2>1, <2>2
<1>3. c \in Window /\ st[c].issued /\ ~st[c].completed
  BY <1>1, <1>2 DEF SchedInv, SchedOk, SlotOk
<1>4. OPERANDS_READY(st[c]) /\ ~st[c].queued
  BY <1>3 DEF ProgressInv, ProgressOk, Progress
<1>5. ASSUME st[c].recover_inst
      PROVE  /\ ~in_LSQ(c) /\ spec_mode /\ InWindow(c)
             /\ ~(SquashedMem(c) > LSQ_num)
  <2>1. c \in RuuWindow
    BY <1>3, <1>5, WindowIs DEF OrderInv, MemOnly, LsqWindow
  <2>2. ~in_LSQ(c) /\ InWindow(c) /\ c \in RuuSlots
    BY <2>1, RuuSlotOf DEF RuuWindow
  <2>3. c[2] \in Indices /\ c = RuuSlot(c[2]) /\ InRuu(c[2])
    BY <2>2, RuuSlotOf, AgeOf
  <2>4. Waiting(c[2])
    BY <1>3, <1>5, <2>3 DEF Waiting
  <2>5. spec_mode
    BY <2>3, <2>4 DEF SpecInv, SpecIndex, NoWrongPath
  <2>6. ~(SquashedMem(c) > LSQ_num)
    <3> DEFINE P == {s \in SquashedRuu(c) : st[s].ea_comp}
               A == PartAges(P)
    <3>1. P \in SUBSET RuuWindow /\ \A s \in P : st[s].ea_comp
      BY DEF SquashedRuu, RuuWindow
    <3>2. SquashedMem(c) = Cardinality(P)
      BY DEF SquashedMem
    <3>3. A \in SUBSET (0 .. LSQ_num - 1)
      BY DEF PartAges
    <3>4. LSQ_num \in Nat
      BY SizeType DEF TypeInv, LsqShape
    <3>5. Cardinality(P) = Cardinality(A)
      <4> HIDE DEF P
      <4> QED
        BY <3>1, PartsCount
    <3>6. Cardinality(A) <= Cardinality(0 .. LSQ_num - 1)
      <4>1. IsFiniteSet(0 .. LSQ_num - 1)
        BY <3>4, FS_Interval
      <4> HIDE DEF A
      <4> QED
        BY <3>3, <4>1, FS_Subset
    <3> QED
      BY <3>2, <3>4, <3>5, <3>6, FirstOnes, SquashedMemType
  <2> QED
    BY <2>2, <2>5, <2>6
<1>6. ASSUME NEW i \in DOMAIN links, RSLINK_VALID(links[i], st)
      PROVE  /\ ~st[links[i].rs].idep_ready[links[i].opnum]
             /\ ~st[links[i].rs].queued
  <2>1. PICK x, k : x = links[i].rs /\ k = links[i].opnum
    OBVIOUS
  <2>2. x \in Slots /\ k \in 1 .. 3
    <3>1. links \in Seq(LinkType)
      BY <1>1, OutputLinksTyped DEF TypeInv, Typed
    <3>2. links[i] \in LinkType
      BY <3>1
    <3> QED
      BY <2>1, <3>2 DEF LinkType
  <2>3. Told(st, links, x, k)
    BY <1>6, <2>1 DEF Told
  <2>4. PICK o \in 1 .. 2 : LinksTo(st, c, o, x, st[x].tag, k) # 0
    BY <1>1, <2>2, <2>3, ToldIs DEF TypeInv, Typed, WakeInv
  <2>5. st[x].tag \in Nat
    BY <2>2 DEF TypeInv, Typed
  <2>6. LinkSound(st, Window, c, o, x, st[x].tag, k)
    BY <1>1, <2>2, <2>4, <2>5 DEF WakeInv, WakeOk
  <2>7. x \in Window /\ ~st[x].idep_ready[k]
    BY <2>6 DEF LinkSound
  <2>8. ~st[x].queued
    BY <2>2, <2>7 DEF ProgressInv, ProgressOk, Progress, OPERANDS_READY
  <2> QED
    BY <2>1, <2>7, <2>8
<1>7. ~\E i \in DOMAIN links :
         /\ RSLINK_VALID(links[i], st)
         /\ \/ st[links[i].rs].idep_ready[links[i].opnum]
            \/ st[links[i].rs].queued
  BY <1>6, Zenon
<1> QED
  BY <1>3, <1>4, <1>5, <1>7, Zenon DEF WritebackPanics

\* A node that is still valid is that of an operation which is queued.
LEMMA IssueChecks ==
    ASSUME TypeInv, OrderInv, InstOk, ProgressInv, SchedInv
    PROVE  ~IssuePanics
<1> SUFFICES ASSUME CanIssue, IssueLive, IssuePanics PROVE FALSE
  BY DEF IssuePanics
<1> DEFINE c == Issuing
<1>1. todo # <<>> /\ Head(todo).rs = c /\ Head(todo).tag = st[c].tag /\ c \in Slots
  BY IssuingIs
<1>2. Count(todo, c, st[c].tag) # 0 /\ Count(todo, c, st[c].tag) \in Nat
  <2>1. IsFor(Head(todo), c, st[c].tag) = 1
    BY <1>1 DEF IsFor
  <2>2. /\ Count(todo, c, st[c].tag)
              = Count(Tail(todo), c, st[c].tag) + IsFor(Head(todo), c, st[c].tag)
        /\ Count(Tail(todo), c, st[c].tag) \in Nat
    BY <1>1, CountTail DEF TypeInv, QueuesTyped
  <2> QED
    BY <2>1, <2>2
<1>3. Count(ready_queue, c, st[c].tag) \in Nat
  BY CountType DEF TypeInv, QueuesTyped
<1>4. c \in Window /\ st[c].queued
  <2>1. Count(ready_queue, c, st[c].tag) + Count(todo, c, st[c].tag)
           = IF c \in Window /\ st[c].queued THEN 1 ELSE 0
    BY <1>1 DEF SchedInv, SchedOk, SlotOk
  <2> QED
    BY <1>2, <1>3, <2>1
<1>5. OPERANDS_READY(st[c]) /\ ~st[c].issued /\ ~st[c].completed
  BY <1>4 DEF ProgressInv, ProgressOk, Progress
<1>6. ASSUME in_LSQ(c), IsStore(st[c])
      PROVE  st[c].onames = <<NA, NA>> /\ ~st[c].recover_inst
  <2>1. c \in LsqSlots
    BY <1>1, <1>6, LsqSlotOf
  <2> QED
    BY <1>6, <2>1 DEF InstOk, OrderInv, MemOnly
<1> QED
  BY <1>4, <1>5, <1>6 DEF IssuePanics

\* lsq_refresh remembers at most as many stores as the LSQ holds.
LEMMA RefreshChecks ==
    ASSUME TypeInv, LSQ_size <= MAX_STD_UNKNOWNS PROVE ~StdUnknownsOverflow
<1>1. LSQ_size \in Nat /\ MAX_STD_UNKNOWNS \in Nat /\ LSQ_num \in 0 .. LSQ_size
  BY SizeType, OutOrderAssumption DEF TypeInv, LsqShape
<1>2. StdUnknown \in SUBSET (0 .. LSQ_num - 1)
  <2>1. ScanLength \in 0 .. LSQ_num
    BY ScanIs DEF TypeInv
  <2>2. StdUnknown \subseteq 0 .. ScanLength - 1
    BY DEF StdUnknown
  <2> QED
    BY <1>1, <2>1, <2>2
<1>3. IsFiniteSet(0 .. LSQ_num - 1) /\ Cardinality(0 .. LSQ_num - 1) = LSQ_num
  BY <1>1, FirstOnes, FS_Interval
<1>4. IsFiniteSet(StdUnknown) /\ Cardinality(StdUnknown) <= LSQ_num
  BY <1>2, <1>3, FS_Subset
<1>5. Cardinality(StdUnknown) \in Nat
  BY <1>4, FS_CardinalityType
<1> QED
  BY <1>1, <1>4, <1>5 DEF StdUnknownsOverflow

\* In no run of any machine does a stage reach one of its panic() and fatal()
\* calls, unless it is out of RS_LINKs: ruu_commit finds the queues in step and
\* nobody who waits for what retires, ruu_writeback and ruu_issue find every
\* operation in the state its event or node says, a recovery finds its branch
\* and its wrong path, and lsq_refresh has room for the stores without data
\* if the LSQ is no larger than that room.  How many links are needed
\* depends on the latencies, because links to what was squashed are given back late.
THEOREM SanityChecksHold ==
    ASSUME LSQ_size <= MAX_STD_UNKNOWNS
    PROVE  Spec => [](NoPanic \/ OutOfLinks)
<1>1. Init => IfqPredicted
  BY DEF Init, IfqPredicted
<1>2. CoreInv /\ IfqPredicted /\ [Next]_vars => IfqPredicted'
  BY IfqPredictedStep DEF CoreInv, RegInv, TypeInv
<1>3. CoreInv /\ IfqPredicted => NoPanic \/ OutOfLinks
  <2> SUFFICES ASSUME CoreInv, IfqPredicted PROVE ~Panics \/ OutOfLinks
    BY DEF NoPanic
  <2>1. TypeInv /\ OrderInv /\ SpecInv /\ InstOk /\ WakeInv /\ ProgressInv /\ SchedInv
    BY DEF CoreInv, RegInv
  <2>2. ~CommitPanics /\ ~DispatchPanics /\ ~StdUnknownsOverflow
    BY <2>1, CommitChecks, DispatchChecks, RefreshChecks
  <2>3. ~WritebackPanics /\ ~IssuePanics
    BY <2>1, WritebackChecks, IssueChecks
  <2> QED
    BY <2>2, <2>3 DEF Panics
<1> QED
  BY <1>1, <1>2, <1>3, CoreInvAlways, PTL DEF Spec
=============================================================================
