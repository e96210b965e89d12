-------------------------------- MODULE Ruu --------------------------------
(***************************************************************************)
(* The data structures of the out-of-order core of sim-outorder.c and the  *)
(* operations on them: stations, RS_LINKs, the ready queue, the event      *)
(* queue, the create vector entries and the functional unit pool.  The     *)
(* operators take the state they work on as parameters; the pipeline that  *)
(* owns the state is module OutOrder.                                      *)
(***************************************************************************)
EXTENDS Isa, Integers, SequencesExt

CONSTANTS
    Regs,                 \* the architected register names, DTMP excepted
    RUU_size, LSQ_size,   \* -ruu:size, -lsq:size
    fu_config             \* unit number -> [class -> [oplat, issuelat]]

ASSUME RuuAssumption ==
    /\ RUU_size \in Nat \ {0}
    /\ LSQ_size \in Nat \ {0}
    /\ NA \notin Regs
    /\ DTMP \notin Regs
    /\ \A pc \in Text :
        /\ Code[pc].ins \in [1 .. 3 -> Regs \cup {NA}]
        /\ Code[pc].outs \in [1 .. 2 -> Regs \cup {NA}]
        /\ Code[pc].outs[1] = Code[pc].outs[2] => Code[pc].outs[1] = NA
        /\ Is(Code[pc].op, "F_STORE") => Code[pc].outs = <<NA, NA>>
    /\ DOMAIN fu_config \subseteq Nat
    /\ \A u \in DOMAIN fu_config : \A class \in DOMAIN fu_config[u] :
          fu_config[u][class].oplat \in Nat /\ fu_config[u][class].issuelat \in Nat

(***************************************************************************)
(* A station is named by the queue that holds it and its index in it.  In  *)
(* the code it is a pointer.                                               *)
(***************************************************************************)
RuuSlot(i) == <<"RUU", i>>
LsqSlot(i) == <<"LSQ", i>>
RuuSlots == {RuuSlot(i) : i \in 0 .. RUU_size - 1}
LsqSlots == {LsqSlot(i) : i \in 0 .. LSQ_size - 1}
Slots    == RuuSlots \cup LsqSlots
NoSlot   == <<"NULL", 0>>

in_LSQ(s) == s[1] = "LSQ"

RegNames == Regs \cup {DTMP}

\* A calloc'd struct RUU_station.  The register operands of an instruction
\* are idep_ready[1..3], its results onames[1..2]; C counts both from 0.
EmptyStation ==
    [op |-> "NOP", PC |-> BogusPC, next_PC |-> BogusPC,
     ea_comp |-> FALSE, recover_inst |-> FALSE, spec_mode |-> FALSE,
     addr |-> 0, tag |-> 0, seq |-> 0,
     queued |-> FALSE, issued |-> FALSE, completed |-> FALSE,
     onames |-> <<NA, NA>>, odep_list |-> << <<>>, <<>> >>,
     idep_ready |-> <<FALSE, FALSE, FALSE>>]

OPERANDS_READY(rs) == \A k \in 1 .. 3 : rs.idep_ready[k]

STORE_ADDR_INDEX == 2                       \* 1 in the C source
STORE_ADDR_READY(rs) == rs.idep_ready[STORE_ADDR_INDEX]

IsStore(rs) == Is(rs.op, "F_MEM") /\ Is(rs.op, "F_STORE")
IsLoad(rs)  == Is(rs.op, "F_MEM") /\ Is(rs.op, "F_LOAD")

(***************************************************************************)
(* RS_LINKs.  A link remembers the tag its station had when it was made,   *)
(* and is valid while the station still has it: a squash or a retirement   *)
(* increments the tag instead of looking for the links.                    *)
(***************************************************************************)
RSLINK_NULL == [rs |-> NoSlot, tag |-> 0]
RSLINK_INIT(s, S) == [rs |-> s, tag |-> S[s].tag]
RSLINK_VALID(link, S) == link.rs \in Slots /\ link.tag = S[link.rs].tag

\* The number of links on the output lists of a station.
OdepLinks(rs) == Len(rs.odep_list[1]) + Len(rs.odep_list[2])

\* The places of the output lists of the stations W that hold a link, as
\* <<creator, output, position>>.
OdepPlaces(S, W) ==
    UNION {{s} \X {o} \X DOMAIN S[s].odep_list[o] : s \in W, o \in 1 .. 2}

\* The numbers in the finite set K, in increasing order.
InOrder(K) ==
    [k \in 1 .. Cardinality(K) |->
        CHOOSE i \in K : Cardinality({j \in K : j < i}) = k - 1]

(***************************************************************************)
(* Insertion in a list kept in order: behind the leading nodes that come   *)
(* Before the new one.                                                     *)
(***************************************************************************)
InsertBehind(q, node, Before(_)) ==
    LET lead == {i \in DOMAIN q : \A j \in 1 .. i : Before(q[j])}
    IN  InsertAt(q, Cardinality(lead) + 1, node)

\* readyq_enqueue: memory operations, long latency operations and control
\* transfers go to the head, everything else in program order.
ReadyqInsert(q, s, S) ==
    LET node == [rs |-> s, tag |-> S[s].tag, seq |-> S[s].seq]
    IN  IF in_LSQ(s) \/ Is(S[s].op, "F_LONGLAT") \/ Is(S[s].op, "F_CTRL")
        THEN <<node>> \o q
        ELSE InsertBehind(q, node, LAMBDA x : x.seq < node.seq)

\* The ready queue q once the stations slots were enqueued, in this order.
ReadyqEnqueue(q, slots, S) ==
    LET enq[i \in 0 .. Len(slots)] ==
            IF i = 0 THEN q ELSE ReadyqInsert(enq[i - 1], slots[i], S)
    IN  enq[Len(slots)]

MarkQueued(S, slots) ==
    [s \in Slots |-> IF \E i \in DOMAIN slots : slots[i] = s
                     THEN [S[s] EXCEPT !.queued = TRUE] ELSE S[s]]

\* eventq_queue_event: sorted by time, before the events due at the same time.
\* A time is the number of cycles from now.
EventqInsert(q, s, S, when) ==
    InsertBehind(q, [rs |-> s, tag |-> S[s].tag, when |-> when],
                 LAMBDA x : x.when < when)

(***************************************************************************)
(* The create vector: which output of which station makes the next value   *)
(* of a register; CVLINK_NULL when the register file has it.               *)
(***************************************************************************)
CVLINK_NULL == [rs |-> NoSlot, odep_num |-> 0]
CVLINK_INIT(s, o) == [rs |-> s, odep_num |-> o]

(***************************************************************************)
(* ruu_link_idep and ruu_install_odep.  A dependence is a consumer, the    *)
(* number of its operand and the creator it waits for.                     *)
(***************************************************************************)
Depends(s, k, creator) == [rs |-> s, opnum |-> k, creator |-> creator]

\* The stations S with the dependence d put at the head of its creator's list.
LinkIdep(S, d) ==
    LET link == [rs |-> d.rs, tag |-> S[d.rs].tag, opnum |-> d.opnum]
    IN  [S EXCEPT ![d.creator.rs].odep_list[d.creator.odep_num] = <<link>> \o @]

LinkIdeps(S, deps) ==
    LET linked[i \in 0 .. Len(deps)] ==
            IF i = 0 THEN S ELSE LinkIdep(linked[i - 1], deps[i])
    IN  linked[Len(deps)]

(***************************************************************************)
(* The functional unit pool (resource.c).                                  *)
(***************************************************************************)
Units == DOMAIN fu_config

\* The units res_get may return for an operation of the class.
FreeUnits(class, busy) ==
    {u \in Units : class \in DOMAIN fu_config[u] /\ busy[u] = 0}

\* It returns the first of them in the order of the pool.
res_get(class, busy) == Min(FreeUnits(class, busy))

ReleaseUnits(busy) ==
    [u \in Units |-> IF busy[u] > 0 THEN busy[u] - 1 ELSE 0]
=============================================================================
