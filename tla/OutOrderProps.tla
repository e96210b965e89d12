--------------------------- MODULE OutOrderProps ---------------------------
(***************************************************************************)
(* What makes the pipeline of module OutOrder correct.                     *)
(***************************************************************************)
EXTENDS OutOrder

\* The sanity checks scattered over the pipeline never fire: none of the
\* panic() and fatal() calls of the stages is reached, nor the store through
\* the null rs that a mispredicted NOP would be.
NoPanic == ~Panics

-----------------------------------------------------------------------------
StationType ==
    [op : Ops, PC : PCs, next_PC : PCs,
     ea_comp : BOOLEAN, recover_inst : BOOLEAN, spec_mode : BOOLEAN,
     addr : Addrs \cup {0}, tag : Nat, seq : Nat,
     queued : BOOLEAN, issued : BOOLEAN, completed : BOOLEAN,
     onames : Seq(RegNames \cup {NA}),
     odep_list : Seq(Seq([rs : Slots, tag : Nat, opnum : 1 .. 3])),
     idep_ready : Seq(BOOLEAN)]

CvType == [RegNames -> [rs : Slots \cup {NoSlot}, odep_num : 0 .. 2]]

FetchType ==
    /\ ifq \in Seq([regs_PC : PCs, pred_PC : PCs])
    /\ Len(ifq) <= ruu_ifq_size
    /\ fetch_pred_PC \in PCs /\ il1_PC \in PCs /\ recover_PC \in PCs
    /\ ruu_fetch_issue_delay \in Nat /\ branch_cnt \in 0 .. fetch_speed
    /\ spec_mode \in BOOLEAN /\ sim_num_insn \in Nat

QueueType ==
    /\ RUU_head \in 0 .. RUU_size - 1 /\ RUU_tail \in 0 .. RUU_size - 1
    /\ LSQ_head \in 0 .. LSQ_size - 1 /\ LSQ_tail \in 0 .. LSQ_size - 1
    /\ RUU_num \in 0 .. RUU_size /\ LSQ_num \in 0 .. LSQ_size

\* Every variable of the pipeline holds a value of its C type, within the
\* bounds of the queues.
TypeOK ==
    /\ stage \in {"commit", "release", "writeback", "refresh", "issue",
                  "dispatch", "fetch", "end"}
    /\ n \in Nat /\ halted \in BOOLEAN
    /\ FetchType /\ QueueType
    /\ st \in [Slots -> StationType]
    /\ create_vector \in CvType /\ spec_create_vector \in CvType
    /\ use_spec_cv \subseteq RegNames
    /\ ready_queue \in Seq([rs : Slots, tag : Nat, seq : Nat])
    /\ todo \in Seq([rs : Slots, tag : Nat, seq : Nat])
    /\ event_queue \in Seq([rs : Slots, tag : Nat, when : Int])
    /\ rslink_free \in Nat /\ inst_seq \in Nat
    /\ last_op \in [rs : Slots \cup {NoSlot}, tag : Nat]
    /\ fu_busy \in [Units -> Nat] /\ fu_accepted \subseteq Units

-----------------------------------------------------------------------------
(* The window *)

\* The RUU and the LSQ hold the same loads and stores, in the same order,
\* however commits, dispatches and squashes interleaved: the k-th address
\* computation of the RUU belongs to the k-th entry of the LSQ.
QueueSync ==
    LET mem == {s \in Window : st[s].ea_comp}
        rank(s) == Cardinality({m \in mem : Age(m) < Age(s)})
    IN  /\ \A s, t \in Window \cap RuuSlots : Age(s) < Age(t) => st[s].seq < st[t].seq
        /\ Cardinality(mem) = LSQ_num
        /\ \A s \in mem : LET l == LsqAt(rank(s))
                          IN  /\ st[l].seq = st[s].seq + 1
                              /\ st[l].PC = st[s].PC
                              /\ st[l].spec_mode = st[s].spec_mode

\* The mispredicted branches the machine is still waiting for.
Unresolved ==
    {s \in RuuSlots : InWindow(s) /\ st[s].recover_inst /\ ~st[s].completed}

\* The oracle is on a wrong path exactly while one mispredicted branch is
\* unresolved; what is younger was dispatched speculatively, what is older was
\* not, and the PC to recover to is where that branch really goes.
SpecWindow ==
    IF spec_mode
    THEN \E b \in Unresolved :
            /\ Unresolved = {b}
            /\ recover_PC = st[b].next_PC
            /\ \A s \in RuuSlots :
                  InWindow(s) => (st[s].spec_mode <=> Age(s) > Age(b))
    ELSE /\ Unresolved = {}
         /\ \A s \in RuuSlots : InWindow(s) => ~st[s].spec_mode

\* No instruction of a wrong path retires: by the time it is the oldest one the
\* branch before it has completed, and completing squashed it.
RetireOnPath ==
    [][RUU_num' < RUU_num /\ stage = "commit" => ~st[RuuHead].spec_mode]_vars

-----------------------------------------------------------------------------
(* Register dependences *)

\* What the create vector must say of r if exactly the stations in W count.
Creator(r, W) ==
    LET makers == {s \in W : \E o \in 1 .. 2 : st[s].onames[o] = r}
        last   == CHOOSE s \in makers : \A t \in makers : st[t].seq <= st[s].seq
    IN  IF makers = {} \/ st[last].completed THEN CVLINK_NULL
        ELSE CVLINK_INIT(last, CHOOSE o \in 1 .. 2 : st[last].onames[o] = r)

\* The next reader of a register waits for the youngest writer in the window
\* if that has not completed and for nobody otherwise, on a wrong path as well
\* as after the recovery from it; and the part of the create vector that a
\* recovery falls back to always describes the instructions it will leave.
CreateVectorPrecise ==
    LET all    == Window
        onPath == {s \in all : ~st[s].spec_mode}
    IN  \A r \in RegNames : /\ CREATE_VECTOR(r) = Creator(r, all)
                            /\ create_vector[r] = Creator(r, onPath)

\* The valid links on the output lists, by their places.
LinkAt(x) == st[x[1]].odep_list[x[2]][x[3]]
LiveLinks == {x \in OdepPlaces(st, Slots) : RSLINK_VALID(LinkAt(x), st)}

\* No wakeup is lost or given twice: an operand that is not ready is on the
\* output list of exactly one older operation in the window, which has not
\* completed, and a ready one is on none.
NoLostWakeup ==
    LET live == LiveLinks IN
    \A s \in Window, k \in 1 .. 3 :
        LET to == {x \in live : LinkAt(x).rs = s /\ LinkAt(x).opnum = k}
        IN  IF st[s].idep_ready[k] THEN to = {}
            ELSE /\ Cardinality(to) = 1
                 /\ \A x \in to :
                        /\ InWindow(x[1]) /\ ~st[x[1]].completed
                        /\ st[x[1]].onames[x[2]] # NA
                        /\ st[x[1]].seq < st[s].seq

-----------------------------------------------------------------------------
(* The scheduler *)

Live(q, s) == {i \in DOMAIN q : q[i].rs = s /\ RSLINK_VALID(q[i], st)}

\* Tags keep squashed and retired instances apart from what took their
\* station: a valid link is one to an instruction of the window.
LinksLive ==
    /\ \A q \in {ready_queue, todo, event_queue}, s \in Slots :
          Live(q, s) # {} => s \in Window
    /\ \A x \in LiveLinks : LinkAt(x).rs \in Window

\* An operation is scheduled exactly once: one node while it is queued, one
\* event while it executes, and if its operands are ready it is queued,
\* executing or done, or a load that lsq_refresh has still to release.
ScheduledOnce ==
    \A s \in Window :
        LET rs == st[s] IN
        /\ Cardinality(Live(ready_queue, s)) + Cardinality(Live(todo, s))
              = IF rs.queued THEN 1 ELSE 0
        /\ Cardinality(Live(event_queue, s))
              = IF rs.issued /\ ~rs.completed THEN 1 ELSE 0
        /\ rs.queued => ~rs.issued
        /\ rs.issued => OPERANDS_READY(rs)
        /\ OPERANDS_READY(rs) => rs.queued \/ rs.issued \/ (in_LSQ(s) /\ IsLoad(rs))

\* A load is released only when all older stores have their addresses and the
\* youngest of them to its own address has its data, whatever was squashed,
\* retired or refreshed meanwhile.
LoadsOrdered ==
    \A l \in Window :
        in_LSQ(l) /\ IsLoad(st[l]) /\ (st[l].queued \/ st[l].issued) =>
            LET older == {s \in Window : in_LSQ(s) /\ Age(s) < Age(l) /\ IsStore(st[s])}
                same  == {s \in older : st[s].addr = st[l].addr}
            IN  /\ \A s \in older : STORE_ADDR_READY(st[s])
                /\ \A s \in same : (\A t \in same : Age(t) <= Age(s))
                                     => OPERANDS_READY(st[s])

\* With in-order issue an operation enters the window only when all older ones
\* have their operands, also after a recovery squashed the operation the
\* dispatch was waiting for; the two halves of a load or store excepted.
OneWaiter ==
    ruu_inorder_issue =>
        \A s, t \in Window :
            st[s].seq < st[t].seq /\ ~OPERANDS_READY(st[s])
                => st[s].ea_comp /\ st[t].seq = st[s].seq + 1

\* No RS_LINK leaks and none is freed twice, in particular not by a recovery.
LinksConserved ==
    rslink_free + Len(ready_queue) + Len(todo) + Len(event_queue)
        + Cardinality(OdepPlaces(st, Slots)) = MAX_RS_LINKS

-----------------------------------------------------------------------------
(* What the pipeline executes *)

\* The instruction the program is at: where the oracle will go on, now or,
\* on a wrong path, after the recovery.
FrontPC ==
    IF spec_mode THEN recover_PC
    ELSE IF ifq = <<>> THEN fetch_pred_PC
    ELSE Head(ifq).regs_PC

FuncSim == INSTANCE FuncSim WITH regs_PC <- FrontPC

\* The instructions executed outside of wrong paths are those the functional
\* simulator executes, whatever was predicted and squashed in between.
ExecutesProgram == FuncSim!Spec

\* The simulation ends: nobody waits forever for an operand, a functional
\* unit, a store port, a memory dependence or the recovery of a branch.
EventuallyHalts == <>halted

-----------------------------------------------------------------------------
(* What a comment says, and the code does otherwise *)

\* A functional unit takes no second operation before its issue latency is
\* over, in particular not in the cycle in which it took one (resource.h: the
\* "number of cycles before another operation can be issued on this resource").
UnitsNotShared ==
    [][\A u \in Units : fu_busy'[u] > fu_busy[u] => u \notin fu_accepted]_vars
=============================================================================
