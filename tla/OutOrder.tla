----------------------------- MODULE OutOrder ------------------------------
(***************************************************************************)
(* The pipeline of sim-outorder.c.  sim_main traverses the stages of every *)
(* cycle in reverse order, commit first and fetch last; each stage is a    *)
(* loop, and one action of this module is one iteration of that loop, with *)
(* stage saying which loop runs and n how much of the width of the stage   *)
(* is used.  The instruction to dispatch is executed by the oracle at that *)
(* moment, speculatively when the fetch went down a wrong path.            *)
(*                                                                         *)
(* Abstractions: register values (an instruction goes to any successor its *)
(* opcode allows), the predictor (any prediction bpred_lookup may return), *)
(* the caches and TLBs (any latency of a given set), time stamps (event    *)
(* times are kept relative to sim_cycle), statistics and the pipe trace.   *)
(***************************************************************************)
EXTENDS Ruu

CONSTANTS
    ruu_ifq_size, ruu_decode_width, ruu_issue_width, ruu_commit_width,
    fetch_speed, ruu_branch_penalty,
    ruu_inorder_issue,    \* -issue:inorder
    ruu_include_spec,     \* -issue:wrongpath
    pred_perfect,         \* -bpred perfect
    bugcompat_mode,       \* -bugcompat
    max_insts,            \* -max:inst, 0 for no limit
    MAX_RS_LINKS, MAX_STD_UNKNOWNS,
    Addrs,                \* effective addresses of loads and stores
    LoadLats,             \* latencies of a load that goes to the data cache
    ForwardLats,          \* of a load served from the LSQ: 1, or a D-TLB miss
    FetchMissLats         \* latencies of a fetch that misses, beyond a hit

ASSUME OutOrderAssumption ==
    /\ \A c \in {ruu_ifq_size, ruu_decode_width, ruu_issue_width,
                 ruu_commit_width, fetch_speed, ruu_branch_penalty} : c \in Nat \ {0}
    /\ {ruu_inorder_issue, ruu_include_spec, pred_perfect, bugcompat_mode}
          \subseteq BOOLEAN
    /\ {max_insts, MAX_RS_LINKS, MAX_STD_UNKNOWNS} \subseteq Nat
    /\ Addrs \subseteq Nat
    /\ LoadLats \cup ForwardLats \cup FetchMissLats \subseteq Nat \ {0}

VARIABLES
    stage, n, halted,
    \* the front end
    ifq,                        \* the fetch queue: <<[regs_PC, pred_PC]>>
    fetch_pred_PC, ruu_fetch_issue_delay, branch_cnt,
    il1_PC,                     \* the instruction whose miss was last served
    \* the oracle
    spec_mode, recover_PC, sim_num_insn,
    \* the instruction window
    st,                         \* the stations of RUU and LSQ
    RUU_head, RUU_tail, RUU_num, LSQ_head, LSQ_tail, LSQ_num,
    create_vector, spec_create_vector, use_spec_cv,
    \* the scheduler
    ready_queue, event_queue,
    todo,                       \* what ruu_issue has taken off the ready queue
    rslink_free,                \* how many RS_LINKs are on the free list
    last_op, inst_seq,
    fu_busy,
    fu_accepted                 \* history: units given an operation this cycle

fetchVars  == <<ifq, fetch_pred_PC, ruu_fetch_issue_delay, branch_cnt, il1_PC>>
oracleVars == <<spec_mode, recover_PC, sim_num_insn>>
frontVars  == <<fetchVars, oracleVars>>
queueVars  == <<RUU_head, RUU_tail, RUU_num, LSQ_head, LSQ_tail, LSQ_num>>
cvVars     == <<create_vector, spec_create_vector, use_spec_cv>>
fuVars     == <<fu_busy, fu_accepted>>
schedVars  == <<ready_queue, event_queue, todo, rslink_free>>
orderVars  == <<last_op, inst_seq>>
vars == <<stage, n, halted, frontVars, st, queueVars, cvVars, schedVars,
          orderVars, fuVars>>

Init ==
    /\ stage = "commit" /\ n = 0 /\ halted = FALSE
    /\ ifq = <<>> /\ fetch_pred_PC = Entry
    /\ ruu_fetch_issue_delay = 0 /\ branch_cnt = 0 /\ il1_PC = BogusPC
    /\ spec_mode = FALSE /\ recover_PC = BogusPC /\ sim_num_insn = 0
    /\ st = [s \in Slots |-> EmptyStation]
    /\ RUU_head = 0 /\ RUU_tail = 0 /\ RUU_num = 0
    /\ LSQ_head = 0 /\ LSQ_tail = 0 /\ LSQ_num = 0
    /\ create_vector = [r \in RegNames |-> CVLINK_NULL]
    /\ spec_create_vector = [r \in RegNames |-> CVLINK_NULL]
    /\ use_spec_cv = {}
    /\ ready_queue = <<>> /\ event_queue = <<>> /\ todo = <<>>
    /\ rslink_free = MAX_RS_LINKS
    /\ last_op = RSLINK_NULL /\ inst_seq = 0
    /\ fu_busy = [u \in Units |-> 0] /\ fu_accepted = {}

-----------------------------------------------------------------------------
(* The window, as the circular queues hold it. *)

\* How far a station is behind the head of its queue.
RuuAge(i) == IF i >= RUU_head THEN i - RUU_head ELSE i + RUU_size - RUU_head
LsqAge(i) == IF i >= LSQ_head THEN i - LSQ_head ELSE i + LSQ_size - LSQ_head

Age(s)     == IF in_LSQ(s) THEN LsqAge(s[2]) ELSE RuuAge(s[2])
InWindow(s) == Age(s) < IF in_LSQ(s) THEN LSQ_num ELSE RUU_num
Window      == {s \in Slots : InWindow(s)}

LsqAt(k) == LsqSlot((LSQ_head + k) % LSQ_size)

\* Faulty variant: the copy-on-write of the wrong path is ignored.
BaseVectorOnly(r) == create_vector[r]

CREATE_VECTOR(r) ==
    IF r \in use_spec_cv THEN spec_create_vector[r] ELSE create_vector[r]

Enter(s) == stage' = s /\ n' = 0

\* Where sim_main goes from one stage to the next.
AfterWriteback == IF bugcompat_mode THEN "dispatch" ELSE "refresh"
AfterIssue     == IF bugcompat_mode THEN "fetch" ELSE "dispatch"
AfterDispatch  == IF bugcompat_mode THEN "refresh" ELSE "fetch"

Accept(u, lat) ==
    /\ fu_busy' = [fu_busy EXCEPT ![u] = lat]
    /\ fu_accepted' = fu_accepted \cup {u}

-----------------------------------------------------------------------------
(* ruu_commit *)

RuuHead == RuuSlot(RUU_head)
LsqHead == LsqSlot(LSQ_head)
StoreAtHead == st[RuuHead].ea_comp /\ IsStore(st[LsqHead])
StoreClass  == MD_OP_FUCLASS[st[LsqHead].op]

\* Faulty variant: a branch, which has no result, retires once it has issued.
BranchIssued ==
    /\ st[RuuHead].completed \/ (st[RuuHead].issued /\ Is(st[RuuHead].op, "F_CTRL"))
    /\ st[RuuHead].ea_comp => st[LsqHead].completed

HeadCompleted ==
    st[RuuHead].completed /\ (st[RuuHead].ea_comp => st[LsqHead].completed)

CanCommit ==
    /\ RUU_num > 0
    /\ n < ruu_commit_width
    /\ HeadCompleted
    /\ StoreAtHead => FreeUnits(StoreClass, fu_busy) # {}

\* Retire the head of the RUU and, for a load or store, the head of the LSQ;
\* a store takes a port to the data cache.
RuuCommit ==
    /\ stage = "commit" /\ CanCommit
    /\ n' = n + 1
    /\ LET mem     == st[RuuHead].ea_comp
           retired == {RuuHead} \cup (IF mem THEN {LsqHead} ELSE {})
       IN  /\ st' = [s \in Slots |-> IF s \in retired
                                     THEN [st[s] EXCEPT !.tag = @ + 1] ELSE st[s]]
           /\ RUU_head' = (RUU_head + 1) % RUU_size
           /\ RUU_num'  = RUU_num - 1
           /\ LSQ_head' = IF mem THEN (LSQ_head + 1) % LSQ_size ELSE LSQ_head
           /\ LSQ_num'  = IF mem THEN LSQ_num - 1 ELSE LSQ_num
    /\ IF StoreAtHead
       THEN LET port == res_get(StoreClass, fu_busy)
            IN  Accept(port, fu_config[port][StoreClass].issuelat)
       ELSE UNCHANGED fuVars
    /\ UNCHANGED <<stage, halted, frontVars, RUU_tail, LSQ_tail, cvVars,
                   schedVars, orderVars>>

RuuCommitDone ==
    /\ stage = "commit" /\ ~CanCommit
    /\ Enter("release")
    /\ UNCHANGED <<halted, frontVars, st, queueVars, cvVars, schedVars,
                   orderVars, fuVars>>

RuuReleaseFu ==
    /\ stage = "release"
    /\ fu_busy' = ReleaseUnits(fu_busy)
    /\ Enter("writeback")
    /\ UNCHANGED <<halted, frontVars, st, queueVars, cvVars, schedVars,
                   orderVars, fu_accepted>>

-----------------------------------------------------------------------------
(* ruu_recover and ruu_writeback *)

\* ruu_recover walks from the youngest RUU station back to the branch, and
\* squashes all it meets; for every address computation it meets it squashes
\* the youngest entry of the LSQ.
Walked(b) == IF RUU_tail > b[2] THEN RUU_tail - 1 - b[2]
             ELSE RUU_tail + RUU_size - 1 - b[2]
SquashedRuu(b) == {s \in RuuSlots : InWindow(s) /\ Age(s) > Age(b)}
NothingSquashed(b) == 0     \* faulty variant: the LSQ is not recovered
SquashedMem(b) == Cardinality({s \in SquashedRuu(b) : st[s].ea_comp})
SquashedLsq(b) ==
    {s \in LsqSlots : InWindow(s) /\ Age(s) >= LSQ_num - SquashedMem(b)}
Squashed(b) == SquashedRuu(b) \cup SquashedLsq(b)

\* The RS_LINKs that the squashed stations give back.
RuuLinksOnly(b) == Cardinality(OdepPlaces(st, SquashedRuu(b)))
FreedLinks(b) == Cardinality(OdepPlaces(st, Squashed(b)))

\* Faulty variant: the links to the squashed station stay valid.
SquashKeepingTag(rs) == [rs EXCEPT !.odep_list = << <<>>, <<>> >>]

SquashStation(rs) ==
    [rs EXCEPT !.tag = @ + 1, !.odep_list = << <<>>, <<>> >>]

\* The links on the output lists of the results the operation has.
OutputLinks(rs) ==
    (IF rs.onames[1] = NA THEN <<>> ELSE rs.odep_list[1]) \o
    (IF rs.onames[2] = NA THEN <<>> ELSE rs.odep_list[2])

NeverCreated(cv, s) == cv   \* faulty variant

\* The create vector without the results of s, now in a physical register.
Created(cv, s) ==
    [r \in RegNames |->
        IF \E o \in 1 .. 2 : st[s].onames[o] = r /\ cv[r] = CVLINK_INIT(s, o)
        THEN CVLINK_NULL ELSE cv[r]]

\* S after the consumers on links have been told that their operand is ready.
Wake(S, links) ==
    LET told(x, k) == \E i \in DOMAIN links :
            RSLINK_VALID(links[i], S) /\ links[i].rs = x /\ links[i].opnum = k
    IN  [x \in Slots |-> [S[x] EXCEPT !.idep_ready =
                              [k \in 1 .. 3 |-> @[k] \/ told(x, k)]]]

\* Whether a consumer s, now in state rs, goes to the ready queue: lsq_refresh
\* will find the loads.  Faulty variant: it will find the stores as well.
ReadiesRuuOnly(s, rs) == OPERANDS_READY(rs) /\ ~in_LSQ(s)
Readies(s, rs) == OPERANDS_READY(rs) /\ (in_LSQ(s) => IsStore(rs))

\* The consumers that go, in this order: at the last of their links.
Woken(S, links) ==
    LET live(i) == RSLINK_VALID(links[i], S)
        last(i) == \A j \in DOMAIN links :
                       j > i /\ live(j) => links[j].rs # links[i].rs
        woken(i) == /\ live(i) /\ last(i)
                    /\ Readies(links[i].rs, Wake(S, links)[links[i].rs])
        order == InOrder({i \in DOMAIN links : woken(i)})
    IN  [k \in DOMAIN order |-> links[order[k]].rs]

\* The rest of the writeback of s once S has the state after a recovery that
\* freed so many links.
Complete(s, S, freed) ==
    LET links == OutputLinks(S[s])
        woken == Woken(S, links)
        told  == MarkQueued(Wake(S, links), woken)
    IN  /\ st' = [told EXCEPT ![s].completed = TRUE,
                      ![s].odep_list = [o \in 1 .. 2 |->
                          IF st[s].onames[o] = NA THEN @[o] ELSE <<>>]]
        /\ ready_queue' = ReadyqEnqueue(ready_queue, woken, S)
        /\ event_queue' = Tail(event_queue)
        /\ rslink_free' = rslink_free + 1 + freed + Len(links) - Len(woken)
        /\ create_vector' = IF st[s].spec_mode THEN create_vector
                            ELSE Created(create_vector, s)
        /\ spec_create_vector' = IF st[s].spec_mode
                                 THEN Created(spec_create_vector, s)
                                 ELSE spec_create_vector

EventDue == event_queue # <<>> /\ Head(event_queue).when <= 0
EventLive == RSLINK_VALID(Head(event_queue), st)
Completing == Head(event_queue).rs

\* An event whose station was squashed meanwhile.
WritebackStale ==
    /\ stage = "writeback" /\ EventDue /\ ~EventLive
    /\ event_queue' = Tail(event_queue)
    /\ rslink_free' = rslink_free + 1
    /\ UNCHANGED <<stage, n, halted, frontVars, st, queueVars, cvVars,
                   ready_queue, todo, orderVars, fuVars>>

WritebackOp ==
    /\ stage = "writeback" /\ EventDue /\ EventLive
    /\ ~st[Completing].recover_inst
    /\ Complete(Completing, st, 0)
    /\ UNCHANGED <<stage, n, halted, frontVars, queueVars, use_spec_cv, todo,
                   orderVars, fuVars>>

\* Faulty variant: what was fetched is kept.
RecoverKeepingFetched ==
    /\ spec_mode' = FALSE
    /\ fetch_pred_PC' = recover_PC
    /\ ruu_fetch_issue_delay' = ruu_branch_penalty
    /\ UNCHANGED <<ifq, recover_PC, sim_num_insn, branch_cnt, il1_PC>>

\* tracer_recover, and the penalty that ruu_writeback charges.
TracerRecover ==
    /\ spec_mode' = FALSE
    /\ ifq' = <<>>
    /\ fetch_pred_PC' = recover_PC
    /\ ruu_fetch_issue_delay' = ruu_branch_penalty
    /\ UNCHANGED <<recover_PC, sim_num_insn, branch_cnt, il1_PC>>

\* The branch that started the wrong path completes.
WritebackRecover ==
    /\ stage = "writeback" /\ EventDue /\ EventLive
    /\ st[Completing].recover_inst
    /\ LET b == Completing
           S == [s \in Slots |-> IF s \in Squashed(b) THEN SquashStation(st[s])
                                 ELSE st[s]]
       IN  /\ Complete(b, S, FreedLinks(b))
           /\ RUU_num' = RUU_num - Walked(b)
           /\ LSQ_num' = LSQ_num - SquashedMem(b)
           /\ RUU_tail' = IF Walked(b) = 0 THEN RUU_tail
                          ELSE (b[2] + 1) % RUU_size
           /\ LSQ_tail' = (LSQ_tail + LSQ_size - SquashedMem(b)) % LSQ_size
    /\ use_spec_cv' = {}
    /\ TracerRecover
    /\ UNCHANGED <<stage, n, halted, RUU_head, LSQ_head, todo, orderVars, fuVars>>

WritebackDone ==
    /\ stage = "writeback" /\ ~EventDue
    /\ Enter(AfterWriteback)
    /\ UNCHANGED <<halted, frontVars, st, queueVars, cvVars, schedVars,
                   orderVars, fuVars>>

-----------------------------------------------------------------------------
(* lsq_refresh *)

WholeQueue == LSQ_num        \* faulty variant: no store stops the scan

\* How many LSQ entries the scan visits: it stops at the first store whose
\* address is not known.
ScanLength ==
    Min({LSQ_num} \cup {k \in 0 .. LSQ_num - 1 :
             IsStore(st[LsqAt(k)]) /\ ~STORE_ADDR_READY(st[LsqAt(k)])})

\* The scanned stores with a known address that still wait for their data.
StdUnknown == {k \in 0 .. ScanLength - 1 :
                   IsStore(st[LsqAt(k)]) /\ ~OPERANDS_READY(st[LsqAt(k)])}

\* The address recorded for such a store when the scan reaches entry k: 0 once
\* a later store to the same address that has its data was passed.
RecordedAddr(j, k) ==
    IF \E m \in j + 1 .. k - 1 :
        /\ IsStore(st[LsqAt(m)]) /\ OPERANDS_READY(st[LsqAt(m)])
        /\ st[LsqAt(m)].addr = st[LsqAt(j)].addr
    THEN 0 ELSE st[LsqAt(j)].addr

LoadReady(k) ==
    LET rs == st[LsqAt(k)]
    IN  /\ IsLoad(rs) /\ ~rs.queued /\ ~rs.issued /\ ~rs.completed
        /\ OPERANDS_READY(rs)
        /\ \A j \in StdUnknown : j < k => RecordedAddr(j, k) # rs.addr

\* The loads that become ready, oldest first.
ReadyLoads ==
    LET at == InOrder({k \in 0 .. ScanLength - 1 : LoadReady(k)})
    IN  [i \in DOMAIN at |-> LsqAt(at[i])]

\* With it goes the start of ruu_issue, which takes the whole ready queue.
LsqRefresh ==
    /\ stage = "refresh"
    /\ todo' = ReadyqEnqueue(ready_queue, ReadyLoads, st)
    /\ ready_queue' = <<>>
    /\ st' = MarkQueued(st, ReadyLoads)
    /\ rslink_free' = rslink_free - Len(ReadyLoads)
    /\ Enter("issue")
    /\ UNCHANGED <<halted, frontVars, queueVars, cvVars, event_queue, orderVars,
                   fuVars>>

-----------------------------------------------------------------------------
(* ruu_issue *)

Issuing   == Head(todo).rs
IssueOp   == st[Issuing].op
CanIssue  == stage = "issue" /\ todo # <<>> /\ n < ruu_issue_width
IssueLive == RSLINK_VALID(Head(todo), st)
IssueFree == FreeUnits(MD_OP_FUCLASS[IssueOp], fu_busy)

\* ruu_issue forwards from any earlier store in the LSQ to the same address.
StoreForwards ==
    \E s \in LsqSlots : /\ InWindow(s) /\ Age(s) < Age(Issuing)
                        /\ Is(st[s].op, "F_STORE")
                        /\ st[s].addr = st[Issuing].addr

\* The node was invalidated by a squash.
IssueStale ==
    /\ CanIssue /\ ~IssueLive
    /\ todo' = Tail(todo)
    /\ rslink_free' = rslink_free + 1
    /\ UNCHANGED <<stage, n, halted, frontVars, st, queueVars, cvVars,
                   ready_queue, event_queue, orderVars, fuVars>>

\* A store completes at once: its data is in the LSQ.
IssueStore ==
    /\ CanIssue /\ IssueLive
    /\ in_LSQ(Issuing) /\ IsStore(st[Issuing])
    /\ st' = [st EXCEPT ![Issuing].queued = FALSE, ![Issuing].issued = TRUE,
                        ![Issuing].completed = TRUE]
    /\ todo' = Tail(todo)
    /\ rslink_free' = rslink_free + 1
    /\ n' = n + 1
    /\ UNCHANGED <<stage, halted, frontVars, queueVars, cvVars, ready_queue,
                   event_queue, orderVars, fuVars>>

\* An operation starts and schedules its completion lat cycles from now.  The
\* link of the node is freed after the one of the event has been taken.
Start(lat) ==
    /\ st' = [st EXCEPT ![Issuing].queued = FALSE, ![Issuing].issued = TRUE]
    /\ event_queue' = EventqInsert(event_queue, Issuing, st, lat)
    /\ todo' = Tail(todo)
    /\ n' = n + 1
    /\ UNCHANGED <<stage, halted, frontVars, queueVars, cvVars, ready_queue,
                   rslink_free, orderVars>>

IssueToUnit ==
    /\ CanIssue /\ IssueLive
    /\ ~(in_LSQ(Issuing) /\ IsStore(st[Issuing]))
    /\ MD_OP_FUCLASS[IssueOp] # NA
    /\ IssueFree # {}
    /\ LET class == MD_OP_FUCLASS[IssueOp]
           fu    == res_get(class, fu_busy)
           lats  == IF in_LSQ(Issuing)
                    THEN IF StoreForwards THEN ForwardLats ELSE LoadLats
                    ELSE {fu_config[fu][class].oplat}
       IN  /\ Accept(fu, fu_config[fu][class].issuelat)
           /\ \E lat \in lats : Start(lat)

\* No unit is free: back to the ready queue until the next cycle.
IssueNoUnit ==
    /\ CanIssue /\ IssueLive
    /\ ~(in_LSQ(Issuing) /\ IsStore(st[Issuing]))
    /\ MD_OP_FUCLASS[IssueOp] # NA
    /\ IssueFree = {}
    /\ ready_queue' = ReadyqInsert(ready_queue, Issuing, st)
    /\ todo' = Tail(todo)
    /\ UNCHANGED <<stage, n, halted, frontVars, st, queueVars, cvVars,
                   event_queue, rslink_free, orderVars, fuVars>>

\* Jumps and traps need no unit.
IssueNoClass ==
    /\ CanIssue /\ IssueLive
    /\ MD_OP_FUCLASS[IssueOp] = NA
    /\ Start(1)
    /\ UNCHANGED fuVars

\* What was not reached goes back to the ready queue, squashed nodes excepted.
IssueDone ==
    /\ stage = "issue" /\ (todo = <<>> \/ n >= ruu_issue_width)
    /\ LET live == InOrder({i \in DOMAIN todo : RSLINK_VALID(todo[i], st)})
       IN  /\ ready_queue' = ReadyqEnqueue(ready_queue,
                                 [k \in DOMAIN live |-> todo[live[k]].rs], st)
           /\ rslink_free' = rslink_free + Len(todo) - Len(live)
    /\ todo' = <<>>
    /\ Enter(AfterIssue)
    /\ UNCHANGED <<halted, frontVars, st, queueVars, cvVars, event_queue,
                   orderVars, fuVars>>

-----------------------------------------------------------------------------
(* ruu_dispatch *)

DispPC   == Head(ifq).regs_PC
DispInst == Inst(DispPC)
DispOp   == DispInst.op

\* Faulty variant: only an operation of the RUU is waited for.
BlockedByRuuOnly ==
    /\ ruu_inorder_issue
    /\ RSLINK_VALID(last_op, st) /\ ~in_LSQ(last_op.rs)
    /\ ~OPERANDS_READY(st[last_op.rs])

\* -issue:inorder waits until the last operation has its operands.
InorderBlocked ==
    /\ ruu_inorder_issue
    /\ RSLINK_VALID(last_op, st)
    /\ ~OPERANDS_READY(st[last_op.rs])

\* Faulty variant: a trap waits for an empty IFQ, too.
TrapAlone == Is(DispOp, "F_TRAP") => RUU_num = 0 /\ Len(ifq) = 1

\* Traps wait until the RUU is drained.
Drained == Is(DispOp, "F_TRAP") => RUU_num = 0

CanDispatch ==
    /\ n < ruu_decode_width * fetch_speed
    /\ RUU_num < RUU_size /\ LSQ_num < LSQ_size
    /\ ifq # <<>>
    /\ ruu_include_spec \/ ~spec_mode
    /\ ~InorderBlocked
    /\ Drained

\* The fetch is squashed and restarted at npc: under perfect prediction, and
\* when the target of a direct jump, now computed, is not the predicted one.
Redirected(npc) ==
    \/ pred_perfect /\ Head(ifq).pred_PC # npc
    \/ /\ Is(DispOp, "F_CTRL") /\ Is(DispOp, "F_DIRJMP")
       /\ Head(ifq).pred_PC \notin DispInst.targets
       /\ Head(ifq).pred_PC # SeqPC(DispPC)

\* Faulty variant: a wrong path may begin on a wrong path.
MispredictedAgain(npc) == Head(ifq).pred_PC # npc /\ ~Redirected(npc)

\* The oracle leaves the path that the fetch follows.
Mispredicted(npc) ==
    ~spec_mode /\ Head(ifq).pred_PC # npc /\ ~Redirected(npc)

\* The effects of a dispatch on the front end, the instruction going to npc.
DispatchOracle(npc) ==
    /\ sim_num_insn' = IF spec_mode THEN sim_num_insn ELSE sim_num_insn + 1
    /\ spec_mode' = (spec_mode \/ Mispredicted(npc))
    /\ recover_PC' = IF Mispredicted(npc) THEN npc ELSE recover_PC
    /\ ifq' = IF Redirected(npc) THEN <<>> ELSE Tail(ifq)
    /\ fetch_pred_PC' = IF Redirected(npc) THEN npc ELSE fetch_pred_PC
    /\ ruu_fetch_issue_delay' = IF Redirected(npc) /\ ~pred_perfect
                                THEN ruu_branch_penalty ELSE ruu_fetch_issue_delay
    /\ UNCHANGED <<branch_cnt, il1_PC>>

NewRuu == RuuSlot(RUU_tail)
NewLsq == LsqSlot(LSQ_tail)

\* The dependences of an instruction: on whoever creates its inputs, if anyone.
Waits(s, k, r) ==
    IF r = NA \/ CREATE_VECTOR(r) = CVLINK_NULL THEN <<>>
    ELSE <<Depends(s, k, CREATE_VECTOR(r))>>

\* A load or store splits in an address computation, in the RUU, and a memory
\* operation, in the LSQ, that waits for it by way of DTMP.
InstDeps ==
    LET in == DispInst.ins
    IN  IF Is(DispOp, "F_MEM")
        THEN Waits(NewRuu, 2, in[2]) \o Waits(NewRuu, 3, in[3]) \o
             Waits(NewLsq, 1, in[1]) \o
             <<Depends(NewLsq, STORE_ADDR_INDEX, CVLINK_INIT(NewRuu, 1))>>
        ELSE Waits(NewRuu, 1, in[1]) \o Waits(NewRuu, 2, in[2]) \o
             Waits(NewRuu, 3, in[3])

\* The results it installs in the create vector.
InstCreates ==
    IF Is(DispOp, "F_MEM")
    THEN {<<DTMP, CVLINK_INIT(NewRuu, 1)>>} \cup
         {<<DispInst.outs[o], CVLINK_INIT(NewLsq, o)>> : o \in 1 .. 2}
    ELSE {<<DispInst.outs[o], CVLINK_INIT(NewRuu, o)>> : o \in 1 .. 2}

SET_CREATE_VECTOR(cv) ==
    [r \in RegNames |->
        LET new == {c \in InstCreates : c[1] = r}
        IN  IF new = {} THEN cv[r] ELSE (CHOOSE c \in new : TRUE)[2]]

\* A station filled for the instruction; its tag stays what it was.
Fill(s, op, seq, npc, recover, addr, outs, deps) ==
    [st[s] EXCEPT
        !.op = op, !.PC = DispPC, !.next_PC = npc,
        !.ea_comp = Is(DispOp, "F_MEM") /\ ~in_LSQ(s),
        !.recover_inst = recover, !.spec_mode = spec_mode, !.addr = addr,
        !.seq = seq, !.queued = FALSE, !.issued = FALSE, !.completed = FALSE,
        !.onames = outs,
        !.odep_list = [o \in 1 .. 2 |-> IF outs[o] = NA THEN @[o] ELSE <<>>],
        !.idep_ready = [k \in 1 .. 3 |->
            \A i \in DOMAIN deps : ~(deps[i].rs = s /\ deps[i].opnum = k)]]

\* Fill the stations, link the inputs, install the outputs and queue what is
\* ready; a load never is, lsq_refresh finds it.
Install(npc, addr) ==
    LET mem    == Is(DispOp, "F_MEM")
        deps   == InstDeps
        rec    == Mispredicted(npc)
        rs     == IF mem
                  THEN Fill(NewRuu, "ADD", inst_seq + 1, npc, rec, 0, <<DTMP, NA>>, deps)
                  ELSE Fill(NewRuu, DispOp, inst_seq + 1, npc, rec, 0,
                            DispInst.outs, deps)
        filled == IF mem
                  THEN [st EXCEPT ![NewRuu] = rs,
                            ![NewLsq] = Fill(NewLsq, DispOp, inst_seq + 2, npc,
                                             FALSE, addr, DispInst.outs, deps)]
                  ELSE [st EXCEPT ![NewRuu] = rs]
        ready  == IF OPERANDS_READY(rs) THEN <<NewRuu>> ELSE <<>>
        linked == LinkIdeps(filled, deps)
    IN  /\ st' = MarkQueued(linked, ready)
        /\ ready_queue' = ReadyqEnqueue(ready_queue, ready, linked)
        /\ rslink_free' = rslink_free - Len(deps) - Len(ready)
        /\ inst_seq' = inst_seq + (IF mem THEN 2 ELSE 1)
        /\ last_op' = IF mem THEN RSLINK_INIT(NewLsq, st)
                      ELSE IF ready # <<>> THEN RSLINK_NULL
                      ELSE RSLINK_INIT(NewRuu, st)
        /\ RUU_tail' = (RUU_tail + 1) % RUU_size
        /\ RUU_num'  = RUU_num + 1
        /\ LSQ_tail' = IF mem THEN (LSQ_tail + 1) % LSQ_size ELSE LSQ_tail
        /\ LSQ_num'  = IF mem THEN LSQ_num + 1 ELSE LSQ_num
        /\ IF spec_mode
           THEN /\ use_spec_cv' = use_spec_cv \cup
                                  ({c[1] : c \in InstCreates} \ {NA})
                /\ spec_create_vector' = SET_CREATE_VECTOR(spec_create_vector)
                /\ UNCHANGED create_vector
           ELSE /\ create_vector' = SET_CREATE_VECTOR(create_vector)
                /\ UNCHANGED <<use_spec_cv, spec_create_vector>>

\* A NOP, or whatever was fetched at a bogus address, takes no station.
DispatchNop ==
    /\ stage = "dispatch" /\ CanDispatch
    /\ DispOp = "NOP"
    /\ \E npc \in NextPCs(DispPC) : DispatchOracle(npc)
    /\ UNCHANGED <<stage, n, halted, st, queueVars, cvVars, schedVars, orderVars,
                   fuVars>>

DispatchInst ==
    /\ stage = "dispatch" /\ CanDispatch
    /\ DispOp \notin {"NOP", "EXIT"}
    /\ \E npc \in NextPCs(DispPC),
          addr \in IF Is(DispOp, "F_MEM") THEN Addrs ELSE {0} :
           DispatchOracle(npc) /\ Install(npc, addr)
    /\ n' = n + 1
    /\ UNCHANGED <<stage, halted, RUU_head, LSQ_head, todo, event_queue, fuVars>>

\* The exit system call ends the simulation while the oracle executes it; a
\* speculative one would run into the panic of the drain above.
DispatchExit ==
    /\ stage = "dispatch" /\ CanDispatch
    /\ DispOp = "EXIT" /\ ~spec_mode
    /\ sim_num_insn' = sim_num_insn + 1
    /\ halted' = TRUE
    /\ UNCHANGED <<stage, n, fetchVars, spec_mode, recover_PC, st, queueVars,
                   cvVars, schedVars, orderVars, fuVars>>

DispatchDone ==
    /\ stage = "dispatch" /\ ~CanDispatch
    /\ Enter(AfterDispatch)
    /\ UNCHANGED <<halted, frontVars, st, queueVars, cvVars, schedVars,
                   orderVars, fuVars>>

-----------------------------------------------------------------------------
(* ruu_fetch *)

\* Faulty variant: the bound of the IFQ is off by one.
CanFetchBeyond ==
    /\ ruu_fetch_issue_delay = 0
    /\ n < ruu_decode_width * fetch_speed
    /\ Len(ifq) <= ruu_ifq_size
    /\ branch_cnt < fetch_speed

CanFetch ==
    /\ ruu_fetch_issue_delay = 0
    /\ n < ruu_decode_width * fetch_speed
    /\ Len(ifq) < ruu_ifq_size
    /\ branch_cnt < fetch_speed

\* What bpred_lookup may return: for a direct branch no taken target, the
\* direction alone (the address 1, which is no instruction), the next address or
\* the target; for an indirect one whatever the BTB or the return stack holds.
Taken(pc) ==
    IF Is(Inst(pc).op, "F_DIRJMP") THEN {BogusPC, SeqPC(pc)} \cup Inst(pc).targets
    ELSE IF Is(Inst(pc).op, "F_CTRL") THEN PCs
    ELSE {}

PushFetch(pred) ==
    /\ ifq' = Append(ifq, [regs_PC |-> fetch_pred_PC, pred_PC |-> pred])
    /\ fetch_pred_PC' = pred

backVars == <<halted, st, queueVars, cvVars, schedVars, orderVars, fuVars>>

FetchStalled ==
    /\ stage = "fetch" /\ ruu_fetch_issue_delay > 0
    /\ ruu_fetch_issue_delay' = ruu_fetch_issue_delay - 1
    /\ Enter("end")
    /\ UNCHANGED <<backVars, ifq, fetch_pred_PC, branch_cnt, il1_PC, oracleVars>>

\* An I-cache or I-TLB miss ends the fetch; the line is there afterwards.
FetchMiss ==
    /\ stage = "fetch" /\ CanFetch
    /\ fetch_pred_PC \in Text /\ il1_PC # fetch_pred_PC
    /\ \E lat \in FetchMissLats : ruu_fetch_issue_delay' = lat - 1
    /\ il1_PC' = fetch_pred_PC
    /\ Enter("end")
    /\ UNCHANGED <<backVars, ifq, fetch_pred_PC, branch_cnt, oracleVars>>

FetchNotTaken ==
    /\ stage = "fetch" /\ CanFetch
    /\ PushFetch(SeqPC(fetch_pred_PC))
    /\ n' = n + 1
    /\ UNCHANGED <<stage, backVars, ruu_fetch_issue_delay, branch_cnt, il1_PC,
                   oracleVars>>

FetchTaken ==
    /\ stage = "fetch" /\ CanFetch
    /\ \E pred \in Taken(fetch_pred_PC) : PushFetch(pred)
    /\ branch_cnt' = branch_cnt + 1
    /\ n' = n + 1
    /\ UNCHANGED <<stage, backVars, ruu_fetch_issue_delay, il1_PC, oracleVars>>

FetchDone ==
    /\ stage = "fetch" /\ ruu_fetch_issue_delay = 0 /\ ~CanFetch
    /\ Enter("end")
    /\ UNCHANGED <<backVars, fetchVars, oracleVars>>

-----------------------------------------------------------------------------
(* The loop of sim_main *)

\* sim_cycle++, and the early finish.
EndCycle ==
    /\ stage = "end"
    /\ event_queue' = [i \in DOMAIN event_queue |->
                          [event_queue[i] EXCEPT !.when = @ - 1]]
    /\ branch_cnt' = 0
    /\ fu_accepted' = {}
    /\ halted' = (max_insts # 0 /\ sim_num_insn >= max_insts)
    /\ Enter("commit")
    /\ UNCHANGED <<ifq, fetch_pred_PC, ruu_fetch_issue_delay, il1_PC, oracleVars,
                   st, queueVars, cvVars, ready_queue, todo, rslink_free,
                   orderVars, fu_busy>>

(* Where the code calls panic() or fatal(). *)

\* Links a caller may not be able to get: "out of rs links".
LinksWanted ==
    CASE stage = "refresh"                        -> Len(ReadyLoads)
      [] CanIssue /\ IssueLive                    -> 1
      [] stage = "dispatch" /\ CanDispatch        -> Len(InstDeps) + 1
      [] OTHER                                    -> 0

CommitPanics ==
    /\ stage = "commit"
    /\ \/ n = 0 /\ \/ RUU_num < LSQ_num
                   \/ (RUU_head + RUU_num) % RUU_size # RUU_tail
                   \/ (LSQ_head + LSQ_num) % LSQ_size # LSQ_tail
       \/ RUU_num > 0 /\ n < ruu_commit_width /\ st[RuuHead].completed
          /\ st[RuuHead].ea_comp /\ LSQ_num = 0
       \/ CanCommit /\ OdepLinks(st[RuuHead]) # 0

WritebackPanics ==
    /\ stage = "writeback" /\ EventDue /\ EventLive
    /\ LET rs    == st[Completing]
           links == OutputLinks(rs)
       IN  \/ ~OPERANDS_READY(rs) \/ rs.queued \/ ~rs.issued \/ rs.completed
           \/ rs.recover_inst /\ \/ in_LSQ(Completing) \/ ~spec_mode
                                 \/ ~InWindow(Completing)
                                 \/ SquashedMem(Completing) > LSQ_num
           \/ ~rs.recover_inst /\ \E i \in DOMAIN links :
                  /\ RSLINK_VALID(links[i], st)
                  /\ \/ st[links[i].rs].idep_ready[links[i].opnum]
                     \/ st[links[i].rs].queued

IssuePanics ==
    /\ CanIssue /\ IssueLive
    /\ LET rs == st[Issuing]
       IN  \/ ~OPERANDS_READY(rs) \/ ~rs.queued \/ rs.issued \/ rs.completed
           \/ /\ in_LSQ(Issuing) /\ IsStore(rs)
              /\ (rs.onames # <<NA, NA>> \/ rs.recover_inst)

DispatchPanics ==
    /\ stage = "dispatch" /\ CanDispatch
    /\ \/ Is(DispOp, "F_TRAP") /\ spec_mode
       \/ DispOp = "NOP" /\ \E npc \in NextPCs(DispPC) : Mispredicted(npc)

OutOfLinks == LinksWanted > rslink_free

StdUnknownsOverflow ==
    stage = "refresh" /\ Cardinality(StdUnknown) > MAX_STD_UNKNOWNS

Panics ==
    \/ CommitPanics \/ WritebackPanics \/ IssuePanics \/ DispatchPanics
    \/ OutOfLinks \/ StdUnknownsOverflow

-----------------------------------------------------------------------------
Commit    == RuuCommit \/ RuuCommitDone
Writeback == WritebackStale \/ WritebackOp \/ WritebackRecover \/ WritebackDone
Issue     == \/ IssueStale \/ IssueStore \/ IssueToUnit \/ IssueNoUnit
             \/ IssueNoClass \/ IssueDone
Dispatch  == DispatchNop \/ DispatchInst \/ DispatchExit \/ DispatchDone
Fetch     == FetchStalled \/ FetchMiss \/ FetchNotTaken \/ FetchTaken \/ FetchDone

Step == /\ ~halted /\ ~Panics
        /\ \/ Commit \/ RuuReleaseFu \/ Writeback \/ LsqRefresh \/ Issue
           \/ Dispatch \/ Fetch \/ EndCycle

\* The simulator has exited.
Exited == halted /\ UNCHANGED vars

Next == Step \/ Exited

Spec     == Init /\ [][Next]_vars
FairSpec == Spec /\ WF_vars(Step)
=============================================================================
