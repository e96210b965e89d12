----------------------------- MODULE Hierarchy ------------------------------
(***************************************************************************)
(* The caches and TLBs of sim-cache and sim-outorder as their options      *)
(* connect them: two levels for data and for instructions, any of which    *)
(* may be absent or shared, and main memory.  One cache is module Cache;   *)
(* here a cache is a record, its way list the order of its ways, and the   *)
(* functions of cache.c are operators on all the caches, because a miss of *)
(* one is an access to another.                                            *)
(*                                                                         *)
(* An address is a byte address and a granule 8 bytes of it.  The          *)
(* simulators create their caches without data; the data here is history:  *)
(* what the counted traffic would carry, by granule.                       *)
(*                                                                         *)
(* Times are relative to the present cycle: ready and bus_free are the     *)
(* cycles still to go, 0 for any time that is past, which is all that      *)
(* cache_access reads of them (BOUND_POS and MAX).                         *)
(***************************************************************************)
EXTENDS Config, SequencesExt

CONSTANTS
    Options,          \* the options of a run to choose from
    Simulated,        \* those the simulation goes on with, of the simulators with caches
    Granules,         \* the granules the program's data is in
    Values,
    PCs,              \* the addresses of instructions
    ld_text_base,
    Rands,            \* the states of the random number generator
    myrand,           \* state -> the number it gives and the state then
    mysrand,          \* the state it is seeded with
    MaxWork,          \* instructions fetched and not yet worked off
    MaxWait           \* the longest wait for a bus with which data is accessed

ASSUME HierarchyAssumption ==
    /\ Simulated \subseteq Options
    /\ \A x \in Simulated : x.sim \in {"sim-outorder", "sim-cache"}
    /\ Granules \subseteq Nat /\ 0 \in Values /\ PCs \subseteq Nat /\ ld_text_base \in PCs
    /\ MaxWork \in Nat \ {0} /\ MaxWait \in Nat

\* The numbers among the options of sim-outorder are C ints (opt_reg_int).
ASSUME OptionAssumption ==
    \A x \in Options :
        /\ x.sim \in {"sim-outorder", "sim-cache", "sim-bpred"}
        /\ x.sim = "sim-outorder" =>
            /\ {x.ruu_branch_penalty, x.fetch_speed, x.ruu_commit_width, x.cache_dl1_lat,
                x.cache_dl2_lat, x.cache_il1_lat, x.cache_il2_lat, x.tlb_miss_lat}
                  \subseteq Int
            /\ x.mem_lat \in Seq(Int)

\* The generator of misc.c is the C library's, and all caches draw from it.  Nothing is
\* said of it but that it gives natural numbers.
ASSUME RandomAssumption ==
    /\ mysrand \in Rands
    /\ myrand \in [Rands -> [number : Nat, next : Rands]]

\* Instructions are fetched from the text, where they are aligned, and no block a
\* simulator accesses is at address 0, which cache_access takes for no block: text and
\* data begin far above it (ld_text_base, ld_data_base, MD_VALID_ADDR).
ASSUME AddressAssumption ==
    /\ \A pc \in PCs : pc % 8 = 0 /\ pc >= ld_text_base
    /\ \A x \in Simulated :
          \A c \in {x.cache_dl1_opt, x.cache_dl2_opt, x.cache_il1_opt, x.cache_il2_opt,
                    x.itlb_opt, x.dtlb_opt} :
              c.kind = "cache" => \A a \in {8 * g : g \in Granules} \cup {ld_text_base} :
                                      a >= c.bsize

VARIABLES
    o,                \* the options of this run
    caches,           \* cache -> its record
    mem,              \* granule -> value
    rand,             \* the state of the random number generator
    status,           \* "run", or how the simulator ended
    owed,             \* history: accesses of a second level less what asks for them
    call, out,        \* history: the last call and what it read
    \* sim-outorder
    stage, fetch_regs_PC, ruu_fetch_issue_delay,
    work,             \* instructions fetched and not yet worked off
    fetched           \* did the last fetch get its instruction?

frontVars == <<stage, fetch_regs_PC, ruu_fetch_issue_delay, work, fetched>>
vars == <<o, caches, mem, rand, status, owed, call, out, frontVars>>

NULL  == "NULL"
Names == {"dl1", "dl2", "il1", "il2", "itlb", "dtlb"}
Tlbs  == {"itlb", "dtlb"}
Timed == o.sim = "sim-outorder"
Ptr   == Pointers(o)

Opt(n) ==
    CASE n = "dl1" -> o.cache_dl1_opt [] n = "dl2" -> o.cache_dl2_opt
      [] n = "il1" -> o.cache_il1_opt [] n = "il2" -> o.cache_il2_opt
      [] n = "itlb" -> o.itlb_opt     [] n = "dtlb" -> o.dtlb_opt
HitLatency(n) ==
    CASE n = "dl1" -> o.cache_dl1_lat [] n = "dl2" -> o.cache_dl2_lat
      [] n = "il1" -> o.cache_il1_lat [] n = "il2" -> o.cache_il2_lat
      [] OTHER -> 1

-----------------------------------------------------------------------------
(* A cache *)

Ways(n) == 1 .. Opt(n).assoc
Sets(n) == 0 .. Opt(n).nsets - 1
Empty   == [tag |-> 0, valid |-> FALSE, dirty |-> FALSE, ready |-> 0,
            data |-> <<>>]

\* cache_create: the last way made is at the head of the list.
cache_create(n) ==
    [blk   |-> [s \in Sets(n) |-> [w \in Ways(n) |-> Empty]],
     order |-> [s \in Sets(n) |-> [i \in Ways(n) |-> Opt(n).assoc + 1 - i]],
     last_tagset |-> 0, last_blk |-> 0, bus_free |-> 0]

Created(opts, ptr) == {n \in Names : ptr[n] = n}

TagSet(n, a)       == a \div Opt(n).bsize
CACHE_SET(n, a)    == TagSet(n, a) % Opt(n).nsets
CACHE_TAG(n, a)    == TagSet(n, a) \div Opt(n).nsets
CACHE_MK_BADDR(n, tag, s) == (tag * Opt(n).nsets + s) * Opt(n).bsize
CACHE_BADDR(n, a)  == TagSet(n, a) * Opt(n).bsize

Found(c, n, a) ==
    LET B == c.blk[CACHE_SET(n, a)]
    IN  {w \in Ways(n) : B[w].valid /\ B[w].tag = CACHE_TAG(n, a)}

\* The ways in the order q, with w moved to the head.
ToHead(q, w) ==
    LET at == CHOOSE i \in DOMAIN q : q[i] = w
    IN  [i \in DOMAIN q |-> IF i = 1 THEN w ELSE IF i <= at THEN q[i - 1] ELSE q[i]]

\* The granules of n bytes at a.
Within(a, n) == {g \in Granules : g >= a \div 8 /\ g <= (a + n - 1) \div 8}
Zeros(a, n)    == [g \in Within(a, n) |-> 0]
Of(data, a, n) == [g \in Within(a, n) |-> data[g]]

\* The data e with d written to it.
Written(d, e) == [g \in DOMAIN d \cup DOMAIN e |-> IF g \in DOMAIN d THEN d[g] ELSE e[g]]

Bound_Pos(n)  == IF n > 0 THEN n ELSE 0
Larger(a, b)  == IF a > b THEN a ELSE b

\* Everything an access changes: the caches, the memory, the random numbers, the
\* traffic, and the message the simulator ends with.  An answer is that, a latency and data.
Answer(h, lat, d) == [h |-> h, lat |-> lat, d |-> d]
Ends(h, why)      == [h EXCEPT !.bad = IF @ = "" THEN why ELSE @]

\* The level behind a first level, and the counting of the traffic between them:
\* an access to a second level, or a miss or a write-back that asks for one.
Behind(n) == IF n = "dl1" THEN Ptr.dl2 ELSE IF n = "il1" THEN Ptr.il2 ELSE NULL
Counted(h, n) ==
    IF n \in {"dl2", "il2"} THEN [h EXCEPT !.owed[n] = @ + 1] ELSE h
Asked(h, n) ==
    IF Behind(n) # NULL THEN [h EXCEPT !.owed[Behind(n)] = @ - 1] ELSE h

\* A hit on way w.  Faulty variant: a block still on its way is there already.
DeliverAtOnce(h, n, cmd, a, nbytes, d, t, w) ==
    LET s  == CACHE_SET(n, a)
        b  == h.c[n].blk[s][w]
        b2 == IF cmd = "Read" THEN b
              ELSE [b EXCEPT !.dirty = TRUE, !.data = Written(d, b.data)]
    IN  Answer([h EXCEPT !.c[n].blk[s][w] = b2, !.c[n].last_tagset = TagSet(n, a),
                         !.c[n].last_blk = w],
               HitLatency(n), Of(b2.data, a, nbytes))
Deliver(h, n, cmd, a, nbytes, d, t, w) ==
    LET s  == CACHE_SET(n, a)
        b  == h.c[n].blk[s][w]
        b2 == IF cmd = "Read" THEN b
              ELSE [b EXCEPT !.dirty = TRUE, !.data = Written(d, b.data)]
    IN  Answer([h EXCEPT !.c[n].blk[s][w] = b2, !.c[n].last_tagset = TagSet(n, a),
                         !.c[n].last_blk = w],
               Larger(HitLatency(n), b.ready - t), Of(b2.data, a, nbytes))

SlowHit(h, n, a, w) ==
    IF Opt(n).repl = "l"
    THEN [h EXCEPT !.c[n].order[CACHE_SET(n, a)] = ToHead(@, w)]
    ELSE h

\* A miss and a flush forget the block that hit last.
ForgetLastHit(h, n) == [h EXCEPT !.c[n].last_tagset = 0, !.c[n].last_blk = 0]

\* The value of Op at the value of e.
With(e, Op(_)) == CHOOSE r \in {Op(x) : x \in {e}} : TRUE

\* The victim waits for its own fill and for the bus, then is written back if
\* it is dirty.  Below is the blk_access_fn of the cache.
Evict(h, n, s, b, t, Below(_, _, _, _, _, _)) ==
    LET lat == Bound_Pos(b.ready - t)
        Bus(lat2) ==
            IF Timed THEN [h EXCEPT !.c[n].bus_free = Larger(@, t + lat2) + 1] ELSE h
        Write(lat2) ==
            With(Below(Asked(Bus(lat2), n), n, "Write", CACHE_MK_BADDR(n, b.tag, s),
                       b.data, t + lat2),
                 LAMBDA r : Answer(r.h, lat2 + r.lat, <<>>))
    IN  IF ~b.valid THEN Answer(h, 0, <<>>)
        ELSE With(lat + Bound_Pos(h.c[n].bus_free - (t + lat)),
                  LAMBDA lat2 : IF b.dirty THEN Write(lat2)
                                ELSE Answer(Bus(lat2), lat2, <<>>))

\* The victim is evicted, then the block is read from below.
Refilled(h, n, cmd, a, nbytes, d, t, repl, lat, new) ==
    LET s    == CACHE_SET(n, a)
        data == IF cmd = "Write" THEN Written(d, new) ELSE new
    IN  Answer([h EXCEPT !.c[n].blk[s][repl] =
                    [tag |-> CACHE_TAG(n, a), valid |-> TRUE,
                     dirty |-> cmd = "Write",
                     ready |-> IF Timed THEN t + lat ELSE 0, data |-> data]],
               lat, Of(data, a, nbytes))

\* The block to replace: the last of the list, which goes to its head, or one drawn
\* at random (assoc is a power of two), and the list stays as it is.
Victim(h, n, s) ==
    IF Opt(n).repl = "r" THEN (myrand[h.rand].number % Opt(n).assoc) + 1
    ELSE Last(h.c[n].order[s])
Selected(h, n, s) ==
    IF Opt(n).repl = "r" THEN [h EXCEPT !.rand = myrand[@].next]
    ELSE [h EXCEPT !.c[n].order[s] = ToHead(@, Victim(h, n, s))]
Miss(h, n, cmd, a, nbytes, d, t, Below(_, _, _, _, _, _)) ==
    LET s    == CACHE_SET(n, a)
        repl == Victim(h, n, s)
        h1   == ForgetLastHit(Selected(Asked(h, n), n, s), n)
        Fill(e) ==
            With(Below(e.h, n, "Read", CACHE_BADDR(n, a), <<>>, t + e.lat),
                 LAMBDA f : Refilled(f.h, n, cmd, a, nbytes, d, t, repl,
                                     e.lat + f.lat, f.d))
    IN  With(h1, LAMBDA g : With(Evict(g, n, s, h.c[n].blk[s][repl], t, Below), Fill))

Spans(n, a, nbytes) == a % nbytes # 0 \/ a + nbytes > CACHE_BADDR(n, a) + Opt(n).bsize

\* cache_access at t cycles from now, in front of Below.
Looked(h, n, cmd, a, nbytes, d, t, Below(_, _, _, _, _, _)) ==
    IF Spans(n, a, nbytes)
    THEN Answer(Ends(h, "access spans block"), 0, Zeros(a, nbytes))
    ELSE IF TagSet(n, a) = h.c[n].last_tagset
    THEN Deliver(h, n, cmd, a, nbytes, d, t, h.c[n].last_blk)
    ELSE IF Found(h.c[n], n, a) = {}
    THEN Miss(h, n, cmd, a, nbytes, d, t, Below)
    ELSE LET w == CHOOSE x \in Found(h.c[n], n, a) : TRUE
         IN  Deliver(SlowHit(h, n, a, w), n, cmd, a, nbytes, d, t, w)
AccessOver(h0, n, cmd, a, nbytes, d, t, Below(_, _, _, _, _, _)) ==
    With(Counted(h0, n),
         LAMBDA h : Looked(h, n, cmd, a, nbytes, d, t, Below))

-----------------------------------------------------------------------------
(* The blk_access_fn of the caches. *)

\* mem_access_latency
mem_access_latency(blk_sz) ==
    LET chunks == (blk_sz + (o.mem_bus_width - 1)) \div o.mem_bus_width
    IN  o.mem_lat[1] + o.mem_lat[2] * (chunks - 1)

\* dl2_access_fn, il2_access_fn and, without a second level, dl1_access_fn and
\* il1_access_fn: main memory, which has an unlimited write buffer.
MainMemory(h, n, cmd, baddr, d, t) ==
    IF cmd = "Read"
    THEN Answer(h, mem_access_latency(Opt(n).bsize), Of(h.mem, baddr, Opt(n).bsize))
    ELSE IF n \in {"il1", "il2"} /\ Timed
    THEN Answer(Ends(h, "writes to instruction memory"), 0, d)
    ELSE Answer([h EXCEPT !.mem = Written(d, @)], 0, d)

\* itlb_access_fn and dtlb_access_fn: no translation, only its time.
tlb_access_fn(h, n, cmd, baddr, d, t) ==
    Answer(h, o.tlb_miss_lat, Zeros(baddr, Opt(n).bsize))

\* Where a first level turns to.  Faulty variant: the second level is passed by
\* for a write-back.
WritesPass(n, cmd) == IF cmd = "Write" THEN NULL ELSE Behind(n)
NextLevel(n, cmd)  == Behind(n)

\* dl1_access_fn and il1_access_fn go to the second level if there is one.
Below1(h, n, cmd, baddr, d, t) ==
    LET Passed(r) ==
            IF cmd = "Read" THEN r
            ELSE IF n = "il1" /\ Timed
            THEN Answer(Ends(r.h, "writes to instruction memory"), 0, d)
            ELSE [r EXCEPT !.lat = 0]
    IN  IF n \in Tlbs THEN tlb_access_fn(h, n, cmd, baddr, d, t)
        ELSE IF NextLevel(n, cmd) = NULL THEN MainMemory(h, n, cmd, baddr, d, t)
        ELSE With(AccessOver(h, NextLevel(n, cmd), cmd, baddr, Opt(n).bsize, d, t,
                             MainMemory), Passed)

\* An access of the simulator.
cache_access(h, n, cmd, a, nbytes, d, t) ==
    AccessOver(h, n, cmd, a, nbytes, d, t, Below1)

\* An access of the simulator to the cache a pointer p names, if it is not NULL:
\* without a cache the access takes lat cycles and goes to memory.
AccessLevel(h, p, cmd, a, nbytes, d, lat) ==
    IF p # NULL THEN cache_access(h, p, cmd, a, nbytes, d, 0)
    ELSE IF cmd = "Read" THEN Answer(h, lat, Of(h.mem, a, nbytes))
    ELSE Answer([h EXCEPT !.mem = Written(d, @)], lat, d)

\* cache_flush, without its latency, which nobody reads.  Faulty variant: the
\* blocks are invalidated and not written back.
FlushDropped(h, p) ==
    IF p = NULL THEN h
    ELSE [ForgetLastHit(h, p) EXCEPT !.c[p].blk =
              [s \in Sets(p) |-> [w \in Ways(p) |-> [@[s][w] EXCEPT !.valid = FALSE]]]]

\* The i-th block that is looked at, of 0 .. nsets * assoc - 1: set after set in the
\* order of their lists.
InListOrder(h, p, i) ==
    LET s == i \div Opt(p).assoc
    IN  <<s, h.c[p].order[s][(i % Opt(p).assoc) + 1]>>
Invalidated(g, p, x) ==
    LET b == g.c[p].blk[x[1]][x[2]]
        i == [g EXCEPT !.c[p].blk[x[1]][x[2]].valid = FALSE]
    IN  IF ~(b.valid /\ b.dirty) THEN i
        ELSE Below1(Asked(i, p), p, "Write", CACHE_MK_BADDR(p, b.tag, x[1]), b.data, 0).h
cache_flush(h, p) ==
    LET all == Opt(p).nsets * Opt(p).assoc
        flushed[i \in 0 .. all] ==
            IF i = 0 THEN ForgetLastHit(h, p)
            ELSE With(flushed[i - 1],
                      LAMBDA g : Invalidated(g, p, InListOrder(h, p, i - 1)))
    IN  IF p = NULL THEN h ELSE flushed[all]

-----------------------------------------------------------------------------
(* The simulators *)

NoTraffic == [n \in {"dl2", "il2"} |-> 0]
Now       == [c |-> caches, mem |-> mem, rand |-> rand, owed |-> owed, bad |-> ""]

\* The simulator with h after a call, or ended with a message.
Become(h) ==
    /\ IF h.bad = ""
       THEN caches' = h.c /\ mem' = h.mem /\ rand' = h.rand /\ owed' = h.owed
       ELSE UNCHANGED <<caches, mem, rand, owed>>
    /\ status' = IF h.bad = "" THEN "run" ELSE h.bad
    /\ UNCHANGED o

\* A data reference: the TLB, then the cache.  sim-outorder never writes to the
\* TLB, and asks for four bytes whatever the size of the datum.
Tlb(h, p, cmd, a, nbytes) ==
    IF p = NULL THEN Answer(h, 0, <<>>)
    ELSE cache_access(h, p, cmd, a, nbytes, <<>>, 0)
DataRef(h, cmd, a, nbytes, v) ==
    With(Tlb(h, Ptr.dtlb, IF Timed THEN "Read" ELSE cmd, a, nbytes),
         LAMBDA x : AccessLevel(x.h, Ptr.dl1, cmd, a, nbytes,
                                [g \in Within(a, nbytes) |-> v], o.cache_dl1_lat))

IACOMPRESS(a) == IF o.compress_icache_addrs
                 THEN ((a - ld_text_base) \div 2) + ld_text_base ELSE a
ISCOMPRESS    == IF o.compress_icache_addrs THEN 4 ELSE 8

\* What reads an instruction: the cache, the TLB, and the longer latency.
Il1(h, pc) ==
    LET asked == IF Ptr.il1 = "dl2" THEN [h EXCEPT !.owed["dl2"] = @ - 1] ELSE h
    IN  IF Ptr.il1 = NULL THEN Answer(h, o.cache_il1_lat, <<>>)
        ELSE cache_access(asked, Ptr.il1, "Read", IACOMPRESS(pc), ISCOMPRESS,
                          <<>>, 0)
\* Faulty variant: one after the other.
OneAfterOther(h, pc) ==
    With(Il1(h, pc), LAMBDA x :
        With(Tlb(x.h, Ptr.itlb, "Read", IACOMPRESS(pc), ISCOMPRESS), LAMBDA y :
            Answer(y.h, x.lat + y.lat, <<>>)))
InstRef(h, pc) ==
    With(Il1(h, pc), LAMBDA x :
        With(Tlb(x.h, Ptr.itlb, "Read", IACOMPRESS(pc), ISCOMPRESS), LAMBDA y :
            Answer(y.h, Larger(x.lat, y.lat), <<>>)))

Init ==
    /\ o \in Options
    /\ status = IF sim_check_options(o) THEN "run" ELSE "fatal"
    /\ caches = IF sim_check_options(o) /\ o \in Simulated
                THEN [n \in Created(o, Pointers(o)) |-> cache_create(n)] ELSE <<>>
    /\ mem = [g \in Granules |-> 0] /\ rand = mysrand
    /\ owed = NoTraffic /\ call = <<"create">> /\ out = 0
    /\ stage = "commit" /\ fetch_regs_PC = ld_text_base
    /\ ruu_fetch_issue_delay = 0 /\ work = 0 /\ fetched = FALSE

Running(sim) == o \in Simulated /\ o.sim = sim /\ status = "run"

Referred(cmd, g, v, a, nbytes) ==
    \E x \in {DataRef(Now, cmd, a, nbytes, v)} :
        /\ Become(x.h)
        /\ call' = <<cmd, g>>
        /\ out' = IF cmd = "Read" /\ x.h.bad = "" THEN x.d[g] ELSE out

\* sim-cache: the references of an instruction, in the order of its loop, at
\* time 0 and with their latencies ignored.
Load(g) ==
    /\ Running("sim-cache") /\ Referred("Read", g, 0, 8 * g, 8)
    /\ UNCHANGED frontVars
Store(g, v) ==
    /\ Running("sim-cache") /\ Referred("Write", g, v, 8 * g, 8)
    /\ UNCHANGED frontVars
FetchInst(pc) ==
    /\ Running("sim-cache")
    /\ \E y \in {Tlb(Now, Ptr.itlb, "Read", IACOMPRESS(pc), ISCOMPRESS)} :
           \E x \in {Il1(y.h, pc)} : Become(x.h)
    /\ call' = <<"fetch">> /\ UNCHANGED <<out, frontVars>>

\* A system call that reads or writes a granule after a flush, in the memory itself
\* (mem_access).  Without the option it goes through the caches (dcache_access_fn),
\* which is Load or Store.
Flushed(h) == cache_flush(cache_flush(cache_flush(h, Ptr.dtlb), Ptr.dl1), Ptr.dl2)
SYSCALL(cmd, g, v) ==
    /\ Running("sim-cache") /\ o.flush_on_syscalls
    /\ \E h \in {Flushed(Now)} :
            /\ Become(IF cmd = "Write" THEN [h EXCEPT !.mem[g] = v] ELSE h)
            /\ call' = <<cmd, g>>
            /\ out' = IF cmd = "Read" THEN h.mem[g] ELSE out
    /\ UNCHANGED frontVars

-----------------------------------------------------------------------------
(* sim-outorder: a cycle commits stores, issues loads and fetches.  A        *)
(* pipeline full of fetched instructions works one off (EventuallyHalts of   *)
(* module OutOrderProps).  The values stored are all the same: what a load   *)
(* returns here was read from memory at dispatch.                            *)

\* The bound of the backlog: nothing in the code limits the write-backs that
\* wait for a bus.
NoBacklog == \A n \in DOMAIN caches : caches[n].bus_free <= MaxWait

CommitStore(g) ==
    /\ Running("sim-outorder") /\ stage = "commit" /\ work > 0 /\ NoBacklog
    /\ Referred("Write", g, 0, 8 * g, 4)
    /\ stage' = "issue" /\ work' = work - 1
    /\ UNCHANGED <<fetch_regs_PC, ruu_fetch_issue_delay, fetched>>

\* Nothing, or an operation that does not access memory.
CommitOther ==
    /\ Running("sim-outorder") /\ stage = "commit"
    /\ work' \in (IF work = MaxWork THEN {} ELSE {work}) \cup {work - 1} /\ work' >= 0
    /\ stage' = "issue" /\ Become(Now) /\ call' = <<"none">>
    /\ UNCHANGED <<out, fetch_regs_PC, ruu_fetch_issue_delay, fetched>>

\* A branch in flight turns out mispredicted: tracer_recover.
Recover(pc) ==
    /\ Running("sim-outorder") /\ stage = "commit" /\ work > 0
    /\ fetch_regs_PC' = pc /\ ruu_fetch_issue_delay' = o.ruu_branch_penalty
    /\ stage' = "issue" /\ work' = work - 1
    /\ Become(Now) /\ call' = <<"none">> /\ UNCHANGED <<out, fetched>>

IssueLoad(g) ==
    /\ Running("sim-outorder") /\ stage = "issue" /\ work > 0 /\ NoBacklog
    /\ Referred("Read", g, 0, 8 * g, 4)
    /\ stage' = "fetch" /\ work' = work - 1
    /\ UNCHANGED <<fetch_regs_PC, ruu_fetch_issue_delay, fetched>>

\* Nothing is issued; dispatch may execute a system call.  The option
\* flush_on_syscalls is registered, and the caches stay as they are.
IssueOther ==
    /\ Running("sim-outorder") /\ stage = "issue"
    /\ stage' = "fetch" /\ Become(Now) /\ call' \in {<<"none">>, <<"syscall">>}
    /\ UNCHANGED <<out, fetch_regs_PC, ruu_fetch_issue_delay, work, fetched>>

\* The end of a cycle: what is under way comes one cycle nearer.
Sooner(n) == IF n > 0 THEN n - 1 ELSE 0
Nearer(b)    == [b EXCEPT !.ready = Sooner(@)]
NextCycle(h) ==
    [h EXCEPT !.c = [n \in DOMAIN h.c |->
        [h.c[n] EXCEPT !.bus_free = Sooner(@),
            !.blk = [s \in Sets(n) |-> [w \in Ways(n) |-> Nearer(h.c[n].blk[s][w])]]]]]

\* ruu_fetch for one instruction.  Anything but the hit latency of the level 1
\* cache is a miss, and the instruction is fetched again after the delay.
FetchResult(x) ==
    IF x.lat # o.cache_il1_lat
    THEN /\ ruu_fetch_issue_delay' = ruu_fetch_issue_delay + x.lat - 1
         /\ fetched' = FALSE /\ UNCHANGED <<fetch_regs_PC, work>>
    ELSE /\ fetched' = TRUE /\ work' = work + 1 /\ fetch_regs_PC' \in PCs
         /\ UNCHANGED ruu_fetch_issue_delay

ruu_fetch ==
    /\ Running("sim-outorder") /\ stage = "fetch" /\ ruu_fetch_issue_delay = 0
    /\ \E x \in {InstRef(Now, fetch_regs_PC)} :
            \E h \in {NextCycle(x.h)} : Become(h) /\ FetchResult(x)
    /\ stage' = "commit" /\ call' = <<"fetch">> /\ UNCHANGED out

FetchDelayed ==
    /\ Running("sim-outorder") /\ stage = "fetch" /\ ruu_fetch_issue_delay > 0
    /\ Become(NextCycle(Now)) /\ stage' = "commit" /\ call' = <<"none">>
    /\ ruu_fetch_issue_delay' = ruu_fetch_issue_delay - 1
    /\ fetched' = FALSE /\ UNCHANGED <<out, fetch_regs_PC, work>>

SimCacheStep ==
    \/ \E g \in Granules : Load(g)
    \/ \E g \in Granules, v \in Values : Store(g, v)
    \/ \E pc \in PCs : FetchInst(pc)
    \/ \E g \in Granules : SYSCALL("Read", g, 0)
    \/ \E g \in Granules, v \in Values : SYSCALL("Write", g, v)

Cycle ==
    \/ \E g \in Granules : CommitStore(g)
    \/ CommitOther
    \/ \E pc \in PCs : Recover(pc)
    \/ \E g \in Granules : IssueLoad(g)
    \/ IssueOther
    \/ ruu_fetch
    \/ FetchDelayed

Next == SimCacheStep \/ Cycle

\* The loop of sim_main goes on.
Spec == Init /\ [][Next]_vars /\ WF_vars(CommitOther) /\ WF_vars(IssueOther)
        /\ WF_vars(ruu_fetch) /\ WF_vars(FetchDelayed)

-----------------------------------------------------------------------------
(* What makes the caches of a simulator correct as a whole. *)


Live == o \in Simulated /\ status = "run"
Dom  == DOMAIN caches

\* Options that are accepted can be simulated: the sizes are those the queues,
\* the tables and the caches are proved and checked for, every level has what
\* it needs below it, and only an access wider than a block of the level below
\* ends the simulation.
Wider(a, b) ==
    a \in Names /\ b \in Names /\ Opt(a).bsize > Opt(b).bsize
AcceptedRuns ==
    /\ status # "fatal" /\ o.sim = "sim-outorder" =>
        /\ {o.ruu_ifq_size, o.ruu_decode_width, o.ruu_issue_width, o.RUU_size,
            o.LSQ_size, o.ruu_commit_width, o.fetch_speed, o.ruu_branch_penalty}
              \subseteq Nat \ {0}
        /\ o.RUU_size % 2 = 0 /\ o.LSQ_size % 2 = 0
    /\ status # "fatal" /\ o.sim # "sim-cache" /\ o.pred_type \notin Static =>
        /\ PowerOf2(o.btb_config[1]) /\ PowerOf2(o.btb_config[2])
        /\ o.pred_type # "2lev" => PowerOf2(BimodArg(o)[1])
        /\ o.pred_type \in {"comb", "opcodecomb"} => PowerOf2(MetaArg(o)[1])
    /\ status # "fatal" /\ o.sim # "sim-bpred" =>
        /\ \A n \in Names : Ptr[n] # NULL => Ptr[n] \in Created(o, Ptr)
        /\ Ptr.il1 # "il1" => Ptr.il2 = NULL
        /\ Ptr.dl1 = NULL => Ptr.dl2 = NULL
    /\ status = "access spans block" =>
        Wider(Ptr.dl1, Ptr.dl2) \/ Wider(Ptr.il1, Ptr.il2)
    /\ status # "writes to instruction memory"

\* No traffic is lost or made up: what is counted at a second level is what the
\* first levels in front of it missed and wrote back, and what the simulator
\* asks of it directly.
TrafficConserved == \A n \in DOMAIN owed : owed[n] = 0

-----------------------------------------------------------------------------
\* The value of a granule for the program: the nearest copy.
Copies(c, n, g) ==
    IF n \notin DOMAIN c THEN {}
    ELSE {c[n].blk[CACHE_SET(n, 8 * g)][w].data[g] : w \in Found(c[n], n, 8 * g)}
Visible ==
    [g \in Granules |->
        LET near == Copies(caches, "dl1", g)
            far  == Copies(caches, "dl2", g)
        IN  IF near # {} THEN CHOOSE v \in near : TRUE
            ELSE IF far # {} THEN CHOOSE v \in far : TRUE ELSE mem[g]]

Flat  == INSTANCE FlatMemory WITH
            Blocks <- Granules, Words <- {0},
            memory <- [g \in Granules |-> [x \in {0} |-> Visible[g]]],
            call <- IF call = <<"create">> THEN call
                    ELSE IF status = "run" /\ Len(call) = 2
                    THEN <<call[1], call[2], 0>> ELSE <<"flush">>

\* Both levels and the memory together are a memory: a load returns what was
\* stored last, whatever was evicted and written back between the levels in the
\* meantime, and a system call after a flush finds it in memory.
ImplementsMemory == Flat!Spec

\* A block that is fetched is not there before the block of the second level
\* it is a part of.
NoEarlyData ==
    [][\A m \in {"dl1", "il1"} \cap Dom :
        LET n == IF m = "dl1" THEN Ptr.dl2 ELSE Ptr.il2
        IN  n # NULL /\ stage # "fetch" =>
              \A s \in Sets(m), w \in Ways(m) :
                LET old == caches[m].blk[s][w]
                    new == caches'[m].blk[s][w]
                    a   == CACHE_MK_BADDR(m, new.tag, s)
                IN  new.valid /\ <<old.tag, old.valid>> # <<new.tag, TRUE>> =>
                      \A x \in Found(caches'[n], n, a) :
                        new.ready >= caches'[n].blk[CACHE_SET(n, a)][x].ready]_vars

\* A fetch gets its instruction in the end, however often the block it waits
\* for is evicted by the data and however a recovery cuts the delay short.
FetchProgress == o \in Simulated /\ o.sim = "sim-outorder" => []<>(fetched \/ ~Live)

\* The option -cache:flush: system calls leave no block in the data caches.
FlushedAtSyscalls ==
    o.flush_on_syscalls /\ call = <<"syscall">> =>
        \A n \in {"dl1", "dl2"} \cap Dom : \A s \in Sets(n), w \in Ways(n) :
            ~caches[n].blk[s][w].valid
=============================================================================
