# A TLA+ model of SimpleScalar 3.0 (simplesim-3.0)

The repository is a computer architecture course project: the SimpleScalar 3.0
simulators with an added opcode-combining branch predictor, scripts that run
them and the outputs of those runs. The program is `src/simplesim-3.0`; the
rest is data. Its core logic is `sim-outorder.c`, an out-of-order superscalar
pipeline with speculative execution, simulated by one sequential loop. It is
concurrent all the same: up to a window full of instructions are in flight,
each moved along by lists, tags and time stamps that other instructions
change, and a recovery may squash any of them at any point.

## 1. Inventory

| component | state | operations | interaction | hard behaviours |
|---|---|---|---|---|
| functional simulator `sim-safe.c` | PC, instruction count | one loop iteration per instruction, `exit` by longjmp, `-max:inst` | memory, registers, system calls | the reference for what every other simulator executes |
| pipeline `sim-outorder.c` | IFQ, RUU, LSQ, create vectors, ready and event queue, free list of RS_LINKs, oracle mode, functional unit counters | `ruu_commit`, `ruu_release_fu`, `ruu_writeback` (+ `ruu_recover`, `tracer_recover`), `lsq_refresh`, `ruu_issue`, `ruu_dispatch`, `ruu_fetch` | calls the predictor, the caches and the pool; all stages share the window | recovery against links to squashed stations, wakeups, store/load order, resource limits, ending |
| RUU/LSQ structures (same file) | stations with tags, lists of links | `readyq_enqueue`, `eventq_queue_event`, `eventq_next_event`, `ruu_link_idep`, `ruu_install_odep` | used by every stage | links outlive what they point to |
| functional unit pool `resource.c` | busy counters | `res_get` | commit and issue take units, `ruu_release_fu` frees them | contention, the order within a cycle |
| speculative state (same file) | copy-on-write registers with bit maps, store hash table | register accessors, `spec_mem_access`, `tracer_recover` | the oracle at dispatch; the page table below | byte-wise forwarding over tables that every lookup reorders, dropping it all |
| branch predictor `bpred.c` | counter tables, histories, chooser, BTB sets, return stack | `bpred_create`, `bpred_lookup`, `bpred_recover`, `bpred_update` | looked up by fetch, recovered by writeback, updated by dispatch, writeback or commit | updates through pointers of older lookups, return stack repair, LRU lists |
| predictor study `sim-bpred.c` | PC, the opcode before | one loop iteration per instruction | looks up and updates at once | the record between lookup and update is a local that nothing clears |
| one cache or TLB `cache.c` | sets of ways, hash chains, last block hit | access, probe, flush, flush one block | the level behind it | the order of the ways, the fast hit path |
| the caches together `sim-cache.c`, `sim-outorder.c` | up to four caches and two TLBs, ready times, bus times | fetch, load, store, system call, the access functions between the levels | fetch, issue and commit of the pipeline | blocks in flight, write-backs through a level that evicts in turn, caches shared by both sides |
| options (`sim_check_options`) | the options and the structures created from them | checking, creating | every component | which combinations leave a pointer without a cache |
| event queue `eventq.c` | sorted list, free list | queue, remove, execute, service | none: nothing in the simulators queues an event | a callback that queues |
| memory `memory.c` | hashed page table | access, translate, new page, copies | all simulators | move to front on lookup |
| system calls `target-*/syscall.c` | registers, memory, signal state | one case per call | host, memory, EIO traces | failed, short and refused calls |
| EIO traces `eio.c`, `sim-eio.c` | trace position, checkpoint options | record, replay, fast-forward, checkpoint, restart | system calls, memory, loader | replay of exactly what happened, restart in the middle |
| debugger `dlite.c`, loop of `sim-safe.c` | breakpoints, stepping mode, line to repeat | commands, `dlite_check_break` after each instruction | simulation loop, evaluator, ranges, statistics | flags, lists and program counters that must agree |
| expressions `eval.c`, ranges `range.c` | the scanner's one token of peek | `eval_expr`, `range_parse_range`, comparisons | debugger, statistics | where an argument ends, types and widths of values |
| driver `main.c` | what the process has started | start, exit, `fatal` | every simulator | exits from anywhere by longjmp |
| pipe trace, statistics and options databases, loader, host support | - | - | - | none that a model checker reaches |

What makes each correct: the pipeline must execute exactly what the functional
simulator executes, keep its queues in step, wake each operand once, order
loads behind the stores they depend on, never retire a wrong path, never leak a
link, and end. The predictor must be a pure hint (whatever it answers, the
program is unchanged) and repair its stack; a cache set must behave as an LRU
list of distinct tags and write back each dirty block once; the caches together
must be one memory, deliver nothing before its time and let fetch go on;
speculative state must read as the committed state overlaid by the wrong path's
writes; a replay must repeat what was recorded; and the debugger must stop
exactly where it was told to.

## 2. The modules

    Isa ------ FuncSim                 (abstract: what is executed)
     |            ^ refinement
    Ruu --- OutOrder --- OutOrderProps --- MCOutOrder      (TLC)
                             |
                             +---- OutOrderProofs --- SchedulerProofs (TLAPS)

    Isa --- Bpred --- BpredProps --- BpredProofs                    (lemmas)
              |           |
              +-- SimBpred --- SimBpredProps --- MCSimBpred         (TLC)
              |                      +--------- SimBpredProofs      (TLAPS)
              +-- BpredPipe --- BpredPipeProps --- MCBpredPipe      (TLC)
                                     +--------- BpredPipeProofs     (TLAPS)

    FlatMemory   ReplacementOrder      (abstract: what a cache promises)
             ^   ^ refinements
    WayList --- Cache --- CacheProps --- MCCache                   (TLC)
                              |
                              +---- CacheProofs                  (TLAPS)

    PreciseState   FlatMemory           Debugger       (abstract)
         ^             ^                   ^ refinements
    SpecState       Hierarchy           SessionProps
         |             |                   |
         |             |                Session
         |             |                 |     |
      Memory        Config             Eval  Range

    SpecStateProofs: SpecState and Memory; HierarchyProofs         (TLAPS)

    Proxy --- SyscallPisa, SyscallAlpha --- Eio        (its properties included)

    MCSpecState, MCHierarchy, MCEio and MCSession instantiate these for TLC.

* `Isa`: the text segment as a function from PCs to instructions, their flags and functional
  unit classes. Register values are abstracted: a branch goes to any successor
  it has. All addresses outside the text are one value, `BogusPC`, where a NOP is
  fetched.
* `FuncSim`: the loop of `sim-safe.c`. `Execute` is one iteration, `Exit` the
  exit system call.
* `Ruu`: the data structures. A station is named `<<"RUU", i>>` or
  `<<"LSQ", i>>` where the code has a pointer. A link is `[rs, tag]`; `tag` is
  the reuse counter of the station, and `RSLINK_VALID` compares the two.
* `OutOrder`: the pipeline. `stage` says which of the loops of `sim_main` runs,
  `n` how much of its width is used; one action is one iteration of the loop of a stage:

| C function | actions |
|---|---|
| `ruu_commit` | `RuuCommit`, `RuuCommitDone` |
| `ruu_release_fu` | `RuuReleaseFu` |
| `ruu_writeback`, `ruu_recover`, `tracer_recover` | `WritebackStale`, `WritebackOp`, `WritebackRecover`, `WritebackDone` |
| `lsq_refresh` | `LsqRefresh` (the whole scan, with the start of `ruu_issue`, which takes the ready queue) |
| `ruu_issue` | `IssueStale`, `IssueStore`, `IssueToUnit`, `IssueNoUnit`, `IssueNoClass`, `IssueDone` |
| `ruu_dispatch` | `DispatchNop`, `DispatchInst`, `DispatchExit`, `DispatchDone` |
| `ruu_fetch` | `FetchStalled`, `FetchMiss`, `FetchNotTaken`, `FetchTaken`, `FetchDone` |
| end of the loop of `sim_main` | `EndCycle` |

  `Panics` collects the conditions of the `panic()` and `fatal()` calls, each at the stage
  where the code evaluates it; a panicking simulator takes no step. Event times are kept
  relative to `sim_cycle`, so that the state space is finite for a terminating
  program; `issuelat`, `oplat` and the order of equal times are as in the code.
  `fu_accepted` is a history variable: the units given an operation in this
  cycle. `ifq` is a sequence; `fetch_head`, `fetch_tail` and `fetch_num` are its
  ends and its length, and the reset on a redirection followed by the consumption of
  the head leaves it empty.

  Left to nondeterminism: the answer of `bpred_lookup` (nothing, a direction
  without a target, the next address, a target of the instruction), the latency
  of a load (constants `LoadLats`, `ForwardLats`), whether a
  fetch misses (once per address in a row), the effective address of a load or store
  (`Addrs`), the outcome of a branch. Left out: register and memory values, statistics, pipe
  trace, debugger hooks, and the predictor updates, which change nothing but
  later answers of the predictor.

  The operators marked "faulty variant" are what plausible mistakes would make of the
  operator below them. They are used by no specification; they document, with
  the mutants of `PROJECT.json`, which mistake each property catches.
* `OutOrderProps`: the properties, with the refinement of `FuncSim`.
* `MCOutOrder`: programs and machines for TLC.
* `OutOrderProofs`: what the operators of `Ruu` do to lists of nodes and links, and the
  types, the front end, the wrong path and the order of the window. `SchedulerProofs`: register
  dependences, wakeups, the scheduler, the links, the loads, and the sanity checks.

### The branch predictor

* `Bpred`: a predictor is a record, and each function of `bpred.c` an operator
  on it, so that two programs can drive the same definitions:

| C function | definitions |
|---|---|
| `bpred_create`, `bpred_dir_create` | `bpred_create` |
| `bpred_dir_lookup` | `BimodEntry`, `TwolevEntry`, `MetaEntry` (a pointer to a counter is a table and an index) |
| `bpred_lookup` | `dir_update` (the record it fills), `bpred_lookup` (its answer), `AfterLookup` (the pop or push), `stack_recover_idx` |
| `bpred_recover` | `bpred_recover` |
| `bpred_update` | `bpred_update`, from `Train`, `MetaTrained`, `NewHistory`, `Victim`, `MadeMru`, `Entered` |

  All seven predictor types are there. An address stands for the number of its
  instruction. Left out: statistics, the opcodes the BTB keeps and nothing
  reads, and the folding of address bits above 19, which small programs do not have.
  `bpred_create` falls through from the bimodal type to the opcode type and creates the
  bimodal table twice; that changes nothing but memory use.
* `SimBpred`: the loop of `sim-bpred.c`, `ExecuteBranch` and `ExecuteOther`
  being one iteration. The history variables `calls`, `fresh` and `last` say what the
  program has done, for the properties. `Settle` lets the branch outcomes, which
  registers would determine, become constant at some moment.
  `prev` starts as anything: the C variable is not initialized. So is `junk`,
  a bit of the record on the stack of `sim_main`.
* `BpredPipe`: the uses `sim-outorder.c` makes of the predictor. `FetchBranch`
  looks up along the path predicted, `Dispatch` resolves the oldest undecoded branch
  (and redirects the fetch after a mis-fetch), `Writeback` completes any issued branch
  and recovers if it was mispredicted, `Commit` retires the oldest; `Updated` is
  made at the one of the last three that `-bpred:spec_update` selects. Only branches
  are kept of the fetch queue and the RUU.
* `BpredProps`, `SimBpredProps`, `BpredPipeProps`: properties. `Bpred` has the faulty variants, as above.

Three things a reader of the code may look for, and which the models have, are
that `bpred_recover` restores the top of the stack to what it was *before* the lookup of the
mispredicted branch, so that the push of a mispredicted call is undone as well;
that the opcode index passes through the shift of `BIMOD_HASH`, so that eight
opcodes in a row share a counter; and that `sim-outorder.c` passes 0 as the target,
so that the static taken predictor predicts not taken there.

### The cache

* `WayList`: the doubly linked list of the ways of a set, pointer by pointer:
  `InitWayList` is what `cache_create` builds, `MovedToHead` and `MovedToTail`
  are `update_way_list`. The four cases of the C function (single, head, tail,
  middle) differ only in which pointers are null; `Unlinked` treats a null
  pointer as "the end of the list" and has the same effect in each.
* `Cache`: a cache or TLB together with the level behind its `blk_access_fn`.

| C function | definitions |
|---|---|
| `cache_create` | `Init` |
| `cache_access` | `FastHit`, `SlowHit`, `Miss` (victim, write-back, refill, hash chains, all in one step) |
| `cache_probe` | `cache_probe`, which reads only, by the same search as `Found` |
| `cache_flush` | `cache_flush` |
| `cache_flush_addr` | `cache_flush_addr` |

  An address is its block number (the access of `cache_access` may not span
  blocks, which it checks) and a word of the block. `CACHE_TAG`, `CACHE_SET` and
  `CACHE_MK_BADDR` are shifts and masks by powers of two in the code, `\div`, `%`
  and their inverse here. The hash chain of a bucket is the set of its ways:
  its order is never observable as long as no tag is valid twice, which
  `CopiesCoherent` says. `hsize` is a constant of its own; the code takes
  `assoc/4` of it beyond four ways. `call` records the arguments of the last call and
  `out` the buffer it filled: they are the interface the abstract specifications speak about.
  The simulators create their caches without data (`balloc` is FALSE);
  the model has it, because it is what makes a lost write-back visible. Not modelled: `ready`, `bus_free` and
  the latencies returned, `user_data`, `repl_addr` and the statistics.
* `FlatMemory`: a read returns what was written last, a flush changes nothing.
* `ReplacementOrder`: per set, a bounded sequence of tags with LRU or FIFO order.
* `CacheProps`, `MCCache`, `CacheProofs`: properties, instances, theorems.

### Speculative registers and memory

* `Memory`: the page table of `memory.c`. A memory is a record, `mem_translate`
  moves the entry found to the front of its bucket, `mem_newpage` adds one, and
  `mem_access`, `mem_bzero`, `mem_bcopy4`, `mem_strcpy` and `mem_dump` are built on them.
* `SpecState`: what an instruction that is executed at dispatch sees of registers and memory.

| C code | definitions |
|---|---|
| `GPR`, `FPR_D`, ... and their `SET_` forms, for PISA and Alpha | `ReadRegs`, `SetRegs` by `Reg`, `TestBit`, `SetBit` |
| `spec_mem_access` | `SpecRead`, `SpecWrite`, `Insert`, `TakeEntry` |
| `READ_*`, `WRITE_*`, `md_fault` on the right path | `Load`, `Store` |
| `spec_mode = TRUE` in `ruu_dispatch` | `Misspeculate` |
| `tracer_recover` | `Recover` |

* `PreciseState`: the program's state, overlaid by what the wrong path wrote.
* `MCSpecState`, `SpecStateProofs`: an instance, and the theorems on the memory and on the copies.

### The caches of a simulator

* `Config`: the options as a record, `sim_check_options` of `sim-outorder.c`, `sim-cache.c` and
  `sim-bpred.c` as predicates on it, and `Pointers`, which cache each of the six pointers is.
* `Hierarchy`: all caches of a run. A miss of one is an access to another, so the functions of
  `cache.c` are operators on the caches together (`cache_access`, `Evict`, `Refilled`, `cache_flush`), and `Below1`,
  `MainMemory` and `tlb_access_fn` are the access functions. `Victim` and `Selected` choose the block to replace: the last of the list,
  or with the policy `r` one that is drawn. The caches draw from one generator, the C library's: `rand` is its state,
  `myrand` says what number a state gives and which state follows, and `mysrand` is the state it is seeded with.

| C code | actions |
|---|---|
| an instruction of `sim-cache`'s loop | `FetchInst`, `Load`, `Store`, `SYSCALL` (a system call after `-flush`; without it its accesses are `Load` and `Store`) |
| `ruu_commit`: a store to the cache | `CommitStore`, `CommitOther` without one |
| `ruu_issue`: a load from the cache | `IssueLoad`, `IssueOther` without one |
| `ruu_fetch` for one instruction, and a cycle it is delayed | `ruu_fetch`, `FetchDelayed` |
| a recovery, which sets the fetch delay anew | `Recover` |

  Times are relative to the present cycle. Data is history: the simulators' caches carry none, so the model
  adds what the traffic they count would carry. In `sim-outorder`
  a prefix of a cycle may be skipped by `CommitOther` and `IssueOther`; what the pipeline
  does with the answers is module `OutOrder`, which takes any latency.

### System calls and traces

* `Proxy`: the machine a handler works on, copies between simulated and host memory, and their recording by
  `my_mem_fn`. `SyscallPisa` and `SyscallAlpha` have one operator per call of the Linux build; the host's answer
  is arbitrary (it does what is asked, half of it, or refuses; `junk` is what an uninitialized structure holds).
* `Eio`: sessions of `sim-eio`. `UntracedCall` and `TracedCall` record, `Instruction` executes, `WriteChkpt` dumps
  (`-dump`, `-perdump`), `FastForward` and `BeginTrace` start, `Replay` begins a session on
  the trace of the last, and `Restart` one on its checkpoint. `past` is history: the states of the recording.

### A session with the debugger

* `Eval`: the evaluator of `eval.c` on sequences of tokens, as a recursive function of the position, with the conversions between types
  at the widths of the constants. `Range`: `range_parse_pos`, `range_parse_range` and the comparisons.
* `Session`: `Main` is `main` up to the loop of `sim-safe`, `Execute` one iteration of that loop with
  `dlite_check_break`, and `Command` one line typed at the prompt: `dlite_exec` with its modifiers and
  arguments, and every command of `cmd_db`. An empty line repeats the last. `status`, `running` and
  `printed` say how the process ended and whether its statistics were due and came.
* `Debugger`: a debugger stops after an instruction if and only if it is stepping or a breakpoint covers
  what was executed.

## 3. Properties and runs

| property | what it says |
|---|---|
| `OutOrderProps!TypeOK` | types, and the bounds of the queues |
| `NoPanic` | no internal check of the pipeline ever fires, nor the dereference of a null `rs` |
| `QueueSync` | the k-th address computation in the RUU belongs to the k-th LSQ entry |
| `SpecWindow` | one unresolved mispredicted branch on a wrong path, none otherwise; what is younger is speculative, what is older is not |
| `RetireOnPath` | no wrong-path instruction retires |
| `CreateVectorPrecise` | the create vector names the youngest incomplete writer, and the part a recovery falls back to already describes the window after it |
| `NoLostWakeup` | each operand that is not ready is on exactly one output list, of an older incomplete station |
| `LinksLive` | a valid link is a link to something in the window |
| `ScheduledOnce` | one node or one event per operation, and no ready operation is forgotten |
| `LoadsOrdered` | a load is released only behind known addresses and the data of the youngest store to its address |
| `LinksConserved` | no RS_LINK leaks |
| `OneWaiter` | in-order dispatch admits nothing behind an operation without its operands |
| `ExecutesProgram` | the pipeline implements `FuncSim` |
| `EventuallyHalts` | the simulation ends |
| `LastHitValid` | the block remembered for the fast path is valid, holds the address remembered and, under LRU, heads its list |
| `CacheProps!ImplementsMemory` | a cache and the level behind it implement `FlatMemory` |
| `KeepsOrder` | what is resident, in the order of the way list, implements `ReplacementOrder` |
| `RasHoldsCalls` | the return stack holds the return addresses of the innermost calls |
| `BtbKeepsRecent` | a taken branch moves to the front of its set and the one not taken for longest makes room |
| `CombFollows` | the chooser moves towards the component that was right when only one was |
| `Learns` | when the outcomes have settled, the directions come to be predicted right for good |
| `PipeBtbWellFormed` | each BTB set is a doubly linked list of all its ways, without a branch entered twice: the assertions of `bpred_update` |
| `DirectPredictions` | the BTB knows a direct branch with its own target only; the pipeline predicts such a branch to go to its target, to the next address or to no address |
| `TosFollowsPath` | the top of the stack is what the branches in flight made of it, whatever was squashed |
| `TrainsOnPath` | updated at dispatch or commit, the predictor sees the program's own branches, each of them, in order |
| `TablesSound` | the store table and the page table hold an address once, in its chain; outside of wrong paths the table is empty and no entry is lost |
| `ImplementsPrecise` | registers and memory with their copies implement `PreciseState` |
| `AcceptedRuns` | options that are accepted name only caches that exist and sizes the other modules are checked for |
| `TrafficConserved` | what a second level counts is what the first levels in front of it missed and wrote back |
| `Hierarchy!ImplementsMemory` | all caches and the memory implement `FlatMemory` |
| `NoEarlyData` | a block is not ready before the block of the next level it is a part of |
| `FetchProgress` | fetch gets an instruction again and again |
| `Reproducible` | a replay, and a restart from any checkpoint, is after every instruction where the recording was |
| `ReplayAccepted` | a replay finds no difference to its trace and uses all of it |
| `OutputReplayed` | what was shown on the standard streams is shown again, in order |
| `Retraced` | a trace made of a replay is that trace |
| `ImplementsDebugger` | the debugger's flags, lists and ranges implement `Debugger` |
| `EvaluatesGrammar` | the evaluator gives a text the value it has in the grammar of the help, or an error |
| `SessionEnds` | a user who goes on gets to the end of the program |

`ListsLinked`, `HashIndexed`, `CopiesCoherent` and `CacheProps!TypeOK`, and `TypeOK`, `BtbWellFormed`,
`BtbTargetsRight` and `PipeTypeOK` of the predictor are proved (section 4) and no longer run.

| run | program and machine | shows |
|---|---|---|
| `core` | a division and a branch that waits for it, a load and a second branch behind it on the path that may be wrong, a store and a load | all structural properties, `ExecutesProgram`, termination |
| `calls` | `-issue:inorder` and `-bugcompat`; a call, a division behind a load, a return that waits for it, a system call, on right and wrong paths | dispatch blocks and is released after squashes, traps drain the RUU, the machine ends |
| `cache_lru` | four blocks compete for a set of three LRU ways | the fast path remembers the right block, and evictions are those of an ideal LRU order, flushes included |
| `cache_hashed` | random replacement, two ways searched through two hash buckets | the chains lose no block, and data survives replacement, write-backs, refills and flushes |
| `study` | `sim-bpred` with each predictor type over a loop with calls three deep, two conditional branches, an indirect call; a stack of two | the properties of the predictor in program order, learning included |
| `bpred_paths` | three branches in flight, bimodal and opcode predictors, the three update stages | what speculation and late updates leave in the tables and the stack |
| `bpred_return` | a call and a return with an ordinary instruction before it | the return does not pop (section 6) |
| `memory` | PISA programs that use integer, double or memory operands; loads and stores of one and two bytes, in and out of the segments | wrong paths see their own writes, and nothing of them is left |
| `caches` | eleven shapes of small caches for `sim-outorder` and `sim-cache`: two levels, shared, unified, one level with TLBs, random replacement, a first level wider than the second; option records around the defaults | one memory, times, traffic, fetch; accepted options can be simulated |
| `traces` | each system call of both targets with arguments that take its branches; three answers of the host; with and without `-fastfwd`; one-shot and periodic checkpoints | recording, replay, restart and retracing agree |
| `debug` | a loop with a load, a store and a branch under a user who types any of 19 lines or an empty one; 24,000 expression texts | breakpoints, arguments, the end of a session |
| `cont` | the same | `cont <addr>` does not continue there (section 6) |

Bounds of the pipeline. The RUU has 4 and the LSQ 2 entries; both must be powers of two in the
code, and the programs of seven instructions, with loads and stores in the
majority, fill both and wrap their indices, so full queues, reused
stations and stale links of either kind occur (`WritebackStale` and
`IssueStale` fire). Widths are 2, so that a loop of a stage runs several times and also stops
for its width. The pool has one ALU, one divider that is busy for
two cycles and one memory port shared by loads and stores, so that units are
contended. Two addresses, of which one is 0 because `lsq_refresh` uses 0 as a mark,
make equal and different addresses possible. A load takes 3 cycles and 1 when it is forwarded, so that a younger load may overtake an older one. `MAX_RS_LINKS` is 16: it is never
exhausted there, which `NoPanic` shows. The programs have no loop, so that a correct
machine ends, while wrong paths run past the text into bogus addresses. Taken
together the runs fire every action.

Bounds of the cache. Every set has one block more than ways, so
evictions, write-backs and refills of an evicted block happen. The three ways of
`cache_lru` are a head, a middle and a tail of the list. Two values per word
distinguish a stale copy from a fresh one; where only the order matters there is
one. In `cache_hashed` tags 0 and 2 share a bucket and 3 has the other, and the
set is number 1 of two, so that an address is not its tag. Nothing is
bounded by a guard: the state spaces are finite and explored completely.
Blocks of several words and sets that interact are left to the theorems, which hold for all of them.

Bounds of the predictor. In `study` two BTB sets of two ways are fewer than the
branches of the program, so entries are evicted; the calls nest one deeper than
the return stack. One history bit and one chooser counter still make the two
components disagree. Four second-level counters are what the
conditional branches of the program need: with two of them branches of opposite directions
share a counter and the two-level type rightly does not learn them. In
`bpred_paths` one BTB set, one bimodal counter and a stack of two are shared by all
branches, so that each disturbs the others, and three branches in flight
(`MaxInFlight`, which stands for the sizes of the fetch queue and the RUU) allow
a mispredicted branch with one older and one younger. The predictor types with
more tables differ in the direction they answer only, and both answers occur.

Bounds of the other modules. `memory`: pages of two bytes in a table of one bucket, so that lists of pages are reordered; two
buckets for the store table, two-byte entries (the code has 8), one integer and a pair of float registers. Accesses
that overlap at different addresses are excluded by `SpecStateAssumption`: the code says of them FIXME
(`sim-outorder.c:3141`). The state spaces are finite without a guard. `caches`: blocks of one or two granules and sets of one or two ways, so
that nearly every access evicts, three granules and two program counters. The random numbers are even, odd, odd, and again, so that of two
ways the one filled last is drawn as well as the other. `MaxWork` bounds the instructions fetched and not yet worked off and
`MaxWait` the wait for a bus with which data is accessed: nothing in the code limits the
write-backs that queue for a bus. `traces`: one call per job between instructions that use its result; a name, a structure and a word take one
byte. `McDumps` has no checkpoint before the first call (section 6). `debug`: 4-bit integers and
addresses, so that widths matter; `MaxBreaks` is 2, so that breakpoints overlap and identifiers have gaps; `max_insts` is 6, one and a half times round the
loop; texts are all of up to four tokens over eleven and of five over six. Read ranges that include address 0 are not typed (section 6).

Fairness. `Hierarchy` has weak fairness of what each stage of a cycle does: the loop of `sim_main` goes on, a stage that has no
access passes, and a delay is counted down. Recoveries and the accesses of the data side
come whenever they like, however often. `FairSpec` of `Session` lets the simulator run while it is not waiting for a
line; `SessionEnds` assumes as well that the user goes on, with `cont` or `step` (`GoesOn`). `FairSpec` of `SimBpred` is weak fairness of `Execute`: the loop goes
on. It does not make the outcomes settle; `Learns` speaks of the
runs in which they do. `FairSpec` of `OutOrder` adds `WF_vars(Step)`: the simulator is a sequential program
that goes on while it has a statement to execute. Nothing is assumed of any
single action, of the predictor or of the latencies, which are finite by choice of the
constants. A machine that panics stops, and would violate `EventuallyHalts`.

## 4. What is proved

The theorems on the pipeline hold for every program, window size, width, pool, latency set and
option, under the named assumptions `IsaAssumption`, `RuuAssumption` and
`OutOrderAssumption`. `RuuAssumption` asks of the program what the instruction definitions of
`pisa.def` give: results that are different registers, and stores without a result.
The lists that the code walks are recursive functions of a position, or listed by `InOrder` in the order of their
places, so that their values can be proved about; `NatSetInduction` is
induction over the natural numbers for a set.

* `FetchQueueIsPath` (`OutOrderProofs`): the entries of the fetch queue are
  linked, each one's prediction being the address of the next and the last one's
  the next fetch address, and `recover_PC`, `fetch_pred_PC` are program
  counters. The proof goes through the actions; only dispatch, fetch and
  recovery touch the queue.
* `PipelineExecutesProgram`: without `-max:inst`, `Spec => ExecutesProgram`.
  The refinement mapping sends the program counter of `FuncSim` to `FrontPC`:
  `recover_PC` on a wrong path, else the head of the fetch queue, else the
  fetch address. A dispatch outside of wrong paths is a step of `FuncSim`
  because the fetch queue is a path: if the prediction of the head was right the
  next head is the successor, if not either the queue was redirected to it or
  `recover_PC` has become it. Every other action leaves the mapping alone. With
  `-max:inst` the statement is false, because the two simulators stop at
  different points (section 6).
* `TypeCorrect`: `Spec => []TypeOK`, from `TypeInv`, which has what `TypeOK` leaves out: that
  the stations stay records with the fields of a station through every partial update (`Stations`), that
  head, tail and number of the RUU and of the LSQ agree (`RuuShape`, `LsqShape`), and `FetchInv`. That
  `rslink_free` stays a natural number is not by luck: a step that would take a link from the empty free
  list panics, and the guard of `Step` excludes it.
* `WrongPathIsSuffix`: `Spec => []SpecWindow`. It is not
  inductive: nothing in it says that the indices of the RUU denote a
  contiguous window, so a commit could uncover a stale station. `SpecInv`
  adds `RuuShape` (`RUU_tail` is `RUU_num` behind `RUU_head`), the shape of the
  stations' fields that it mentions, and `SpecIndex`, which gives the branch by its
  distance from the head of the queue; the lemmas on `RuuAge` and `%` turn one
  form into the other. The recovery step shows that what is walked is exactly
  what is younger.
* `RetiresOnPath`: `Spec => RetireOnPath`, from `SpecWindow`: the head is the
  oldest station, so if it is speculative the branch is not older, a
  contradiction.

* `QueuesInSync`: `Spec => []QueueSync`. Its ranks are cardinalities, which no step keeps one by one.
  `OrderInv` says instead that each queue is in the order of the sequence numbers (`InSeqOrder`), that the
  address computations and the LSQ entries of the window are pairs with consecutive numbers (`InPairs`) and that no LSQ entry is a
  branch (`MemOnly`). The hard step is the recovery, which counts: `PartsCount` and `LastOnes` show that as
  many entries as address computations were squashed, taken off the end of the LSQ, are exactly their
  other halves.

`SchedulerProofs` adds one invariant after the other, each proved from those before it.

* `CreateVectorIsPrecise`: `Spec => []CreateVectorPrecise`. `CreateVectorPrecise` chooses the youngest
  writer; `CvInv` says it without choice, separately for the operations on the path and those of the wrong
  path, because `ruu_recover` falls back from one to the other. `InstOk` has what is needed of the
  instructions: no operation names a register twice among its results, an address computation makes `DTMP`, a store nothing.
* `NoWakeupIsLost`: `Spec => []NoLostWakeup`. `WakeInv` counts the links to an operand by station, tag
  and operand, stale ones included: a link's tag never exceeds that of its station, a valid one is to an
  operand of the window that is not ready, on the list of an older operation that has not completed, and an operand that is not
  ready has exactly one. Stale links need the clause on tags: without it a new operation in
  the station could inherit one.
* `OperationsScheduledOnce` and `ValidLinksAreLive`: `ScheduledOnce` and `LinksLive`. `ProgressInv` orders
  queued, issued and completed, and says who is queued when all operands are there; `SchedInv` counts, for every station
  and every tag from the present one on, nodes and events (`SlotOk`). The counts do not depend
  on the order of the lists, so that `ReadyqInsert`, `EventqInsert` and what `ruu_issue` gives back
  each change them in a line (the first part of `OutOrderProofs`).
* `LinksAreConserved`: `Spec => []LinksConserved`, the sum over the free list, the three queues and the places on the output
  lists. `WritebackPlaces` is its core: the lists a recovery frees and those a writeback
  walks are disjoint.
* `LoadsWaitForStores`: `Spec => []LoadsOrdered`. `LoadInv` says by numbers what `LoadsOrdered` says by
  ages, and of every store before the load instead of the youngest: it has its data, or a later one to the
  address follows (`LoadSafe`). `RefreshSafe` shows that the scan of `lsq_refresh`, which overwrites addresses by 0,
  establishes it. Stores that leave are the oldest or, with the load, the youngest.
* `OneOperationWaits`: `Spec => []OneWaiter`. `WaitInv` ties `last_op` to the youngest
  operation of the window, across recoveries and the reuse of its station; `AddrInv` says that an LSQ entry does not
  have its address before its address computation has completed, so that the other half of the
  operation that is waited for needs no check of its own.
* `SanityChecksHold`: if `LSQ_size <= MAX_STD_UNKNOWNS`, `Spec => [](NoPanic \/ OutOfLinks)`. Every check of the stages follows from the
  invariants above, together with `IfqPredicted` (what was fetched is predicted to go where its instruction
  may). Without the hypothesis the scan of `lsq_refresh` really overflows. `OutOfLinks` cannot
  be excluded for all machines: links to what was squashed are given back when their list is walked
  or their event comes, so how many are in use depends on latencies and widths; that 16 are enough in the instance
  `core` is what its run of `NoPanic` adds.

None of these is assumed of a step: a proof uses that a step does not panic only where the code
would have stopped, and `SanityChecksHold` shows that it never does.

The theorems on the cache (`CacheProofs`) hold for every number of sets and
ways, every hash table size, policy and set of values, under
`AssocAssumption` and `CacheAssumption`. They rest on one invariant, `IInv`: the types,
`ListsLinked`, `HashIndexed`, `CopiesCoherent` and `LastHitValid`. None of the
last three is inductive alone: that a miss finds no second copy needs the hash chains
(`FoundHolds`), that a fast hit delivers the right block needs that nothing
moved it, and that a victim may be dropped needs that clean copies are copies.

* `CacheImplementsMemory`: `Spec => ImplementsMemory`. A hit is `DeliverCorrect`; a miss is
  the composition of `DropKeepsVisible` (giving up blocks that are written back
  changes nothing the program sees) and `FillShows` (a block brought
  into an empty way shows its content and nothing else); both flushes are
  `DropKeepsVisible`. Address arithmetic enters through `BaddrOfTag` only.
* `ListsStayLinked`: `Spec => []ListsLinked`, from the two lemmas on `MovedToHead` and `MovedToTail`.
* `FastPathIsSafe`: `Spec => [](CopiesCoherent /\ LastHitValid)`.
* `CacheKeepsOrder`: `Spec => KeepsOrder` unless the policy is "Random", which promises no order. That the
  links of a list mirror one another is too weak for it: they may do so in a cycle apart from the list.
  `SetsOrdered` says more: the links of a set are those of one sequence of its ways that reaches every
  way (`InOrder`), and the valid ways are a prefix of it (`Packed`), which is why the last way is an
  empty one as long as there is one. `MovedToHeadOrder` and `MovedToTailOrder` say what relinking does to the
  sequence, case by case; `HitOrder`, `EnterOrder`, `LeaveOrder` and `EmptyOrder` what a call does to the
  resident tags of a set; one lemma per action maps it to a step of `ReplacementOrder`.
  The order is defined by following links, a recursive function; that it is the sequence of the witness is
  proved by induction over its positions as a well-founded one (`NatSetInduction`, `Walked`, `Gathered`).

The theorems on the predictor hold for every program, every type, table, BTB and
stack size, under `IsaAssumption`, `BpredAssumption` and
`SimBpredAssumption` or `BpredPipeAssumption`. `BpredProofs` has the lemmas both
drivers use: what `MadeMru` does to a list (`MadeMruLinked`), that a victim is unique
(`VictimType`), that an update keeps the types, the lists and the targets
(`UpdateKeeps`, `UpdateKeepsTargets`).

* `PredictorTypes`, `BtbStaysWellFormed`, `BtbStaysRight`, `StackHoldsCalls`
  (`SimBpredProofs`): the four invariants of `sim-bpred`. They are proved together as
  `SimInv`: that an update keeps the BTB right needs its lists and types, and that a call
  finds the right slot of the ring needs that the stack index is in range.
* `PipeTypes`, `PipeBtbStaysWellFormed`, `DirectBranchesPredicted`, `StackFollowsPath`
  (`BpredPipeProofs`): those of the pipeline's predictor, from `PipeInv`. It adds, for every
  branch in flight, that its record is one a lookup can have made and its
  resolution one its instruction allows (`Good`), and `NothingBehind`: behind a fetched branch that
  is predicted taken without a target nothing has been fetched. This is what makes
  `TosFollowsPath` true although a mis-fetch does not repair the stack: by
  `DirectPredictions` a mis-fetch is such a branch, so nothing that
  pushed or popped is dropped.
* `ChooserFollowsBetter`: `Spec => CombFollows` (`SimBpredProofs`). The update trains three counters one after the
  other; that the first two leave the chooser's table alone (`TrainOther`), and that the pointers the lookup saved are the
  components' own, makes the third the only change. For "opcodecomb" the step that fails is that the
  lookup has assigned `twolev` (section 6).
* `OnlyPathTrains`: `Spec => TrainsOnPath` (`BpredPipeProofs`), with the update at dispatch or at commit. `PathInv`
  says that the branches in flight are the program's path up to the one that diverges from it: from where a branch goes, or before its
  dispatch is predicted to go, there is no other branch before the one behind it or, behind the last one, before the
  fetch address (`PathLinked`); exactly in `spec_mode` one branch diverges (`OneDiverges`), and dispatch is in order. The branch
  that trained last leads to the oldest branch in flight when the update is at commit, and to the first one that is not dispatched when
  it is at dispatch (`Anchored`). A mis-fetch redirects the last branch in flight, so it cuts nothing off.
* `BtbKeepsOrder`: `Spec => BtbKeepsRecent` (`SimBpredProofs`). As in the cache, the mirrored links of
  `BtbWellFormed` allow a cycle apart from the list, so the invariant is strengthened to `BtbOrdered`: the
  links of every set are those of one sequence that reaches every way. `MadeMru` moves a way of it to the
  front, whichever of its cases it takes.

`Learns` (liveness) is only model-checked.

The theorems on the speculative state (`SpecStateProofs`) hold for every page size, number of buckets and
chains, register files and set of accesses, under `MemoryAssumption` and `SpecStateAssumption`. The
latter has what the code relies on: the registers of PISA come in pairs, and two aligned accesses of the program are the
same or disjoint (section 3).

* The lemmas on `memory.c`: a lookup permutes a bucket (`TranslateIs`, by `MovedIs`), so nothing reads differently
  after it (`SamePagesRead`); a new page reads as the zeros that were read before it (`NewPageIs`); a byte
  written is read back and no other changes (`WriteIs`), which needs that an address is its bucket, its tag and
  its offset (`AddressIs`). `ReadOverIs` and `StoredIs` are the induction over the bytes of an access.
* `TablesStaySound`: `Spec => []TablesSound`. `SInv` adds the types of memory and table, that only addresses of
  aligned accesses have entries, and the count of the entries (`Pool`): those of the table and those on
  the free list are all that were allocated, or with `-bugcompat` the table is empty.
* `SpeculationIsPrecise`: `WholeCopies => (Spec => ImplementsPrecise)`. The mapping lays the copied registers over
  the registers, and the bytes of the entries over the memory. A read by the hash table is a read of the
  overlay because entries of different addresses hold disjoint bytes (`StoredOfIs`, `CopiedIs`, `NotCopiedIs`); a store changes the
  bytes of one entry (`StoredPatched`); a read by the bit map is one of the overlay because registers that
  share a bit were copied together (`CopiesWhole`). `WholeCopies` excludes what the code gets
  wrong (section 6): the halves of PISA pairs, the FCC of Alpha, `-bugcompat`. A fault of the program's own access,
  and a lookup that only moves a page or an entry, are stuttering steps.

The theorems on the caches together (`HierarchyProofs`) hold for every set of options, for sizes, latencies and
bus widths as `sim_check_options` accepts them, under `HierarchyAssumption`, `OptionAssumption` (the numbers
among the options are ints), `RandomAssumption` (the generator gives natural numbers; any generator and any seed, so
every sequence of victims of the policy `r`) and `AddressAssumption`: instructions are aligned, and no access is to a block at address 0, which
`cache_access` cannot tell from no block (section 6). No bound of the run is used: not `NoBacklog`, `MaxWork` or `MaxWait`.
A call changes a state `h` (all caches, the memory, the generator, what is owed, the message) into another, so the lemmas
are about states, and only the end of the module is about `Now`, the present one:

* `Sane` is what keeps a cache one cache: every way is in the list of its set, the block that hit last is valid and has the
  tag it is remembered by, a tag is in one way, a valid block has the granules of its address and never belongs to a
  cache whose blocks are larger than those behind it, and instructions are clean. `Kept` adds that a clean block of data
  holds what is behind it. `Good` is both for all caches.
* `DidBelow` says what a miss is owed by what is behind: data it asked for, memory coherent with it, nothing else changed, the counts
  paid back, and no answer before its block. Main memory (`MemoryServes`), a TLB and a second level give it;
  from it follows `Did`, the same for the level in front, through the victim (`Evict`), the refill and the hits. A second
  level is itself an access over main memory, so the argument runs twice, not once per level.
* The difficult state is the one in the middle of a miss: the victim is out, and what is behind may evict in turn before
  the block is read. `Replaced` and `Settles` say what holds there: the value of the victim's granules is behind it,
  of the others where it was.
* Which way the victim is matters nowhere but in `VictimIs`: it is one of the set, last of the list or drawn.
* `cache_flush` is an induction over the blocks in list order (`Flushing`), with a set in place of the predicate
  (`NatSetInduction`): after each block `Good` holds and no block behind it is left valid.
* `IInv`: the options are accepted, the state is `Good`, nothing is owed, and a run that ended was wider than a block
  of a second level. It was checked by TLC on the instance of the run `caches` before it was proved.

From `IInv` follow `HierarchyImplementsMemory` (`VisibleIs`: the nearest copy is the value of `Good` states),
`TrafficIsConserved`, `AcceptedOptionsRun` (with what each check of the options promises) and
`NoDataIsEarly`: for `sim-outorder` from the last conjuncts of `Did`, for `sim-cache` because no block is ever on its way.
`FetchProgress` is liveness and stays with TLC.

The properties of `Eio` and `Session` are only model-checked. That a replay is in the state of the recording
needs of every handler of both targets that its transaction names all it changes, a case per system call, and is
false of a return from a signal handler (section 6), so it would be a theorem on each set of jobs.
`Eval` uses recursive functions and folds over expressions, about whose values nothing can be proved by
induction over data; `ImplementsDebugger` is within reach (section 5).

Of the pipeline, `EventuallyHalts` is only model-checked: it is liveness. `UnitsNotShared` is violated (section 6).

## 5. Plan

Done: the pipeline, the cache and the branch predictor, with theorems; speculative
state, memory, the caches together and their options, with theorems; system calls and traces, the
debugger with its evaluator, model-checked. Next:

1. Proofs: `ImplementsDebugger` for the breakpoints, which needs the types of what `dlite_exec` parses and that no
   breakpoint covers a read of address 0 (section 6); `Reproducible` of the traces.
2. `OutOrder` with the latencies that `Hierarchy` gives instead of any.
3. The profiles of `sim-profile` and the `-pcstat` of statistics, if they come to be relied on.

Each pipeline-side use of a component stays nondeterministic in `OutOrder`; the component's
own module shows that its answers are among those.

## 6. Where the code and its documentation disagree

With a run that shows it:

* `bpred.c:742`: "if this is a return, pop return-address stack". Whether a jump is
  a return is decided in `ruu_fetch` by a macro that reads `inst`, where a block-local `inst`
  with the previous instruction hides the one meant (`sim-outorder.c:4391`), so
  a return pops only if the register field of the instruction before it is 31
  (`bpred_return`).
* `dlite.c:435`: "continue program execution (optionally at <addr>)". `cont <addr>` sets
  `regs_PC`; the loop of `sim-safe.c` then overwrites it with the successor of the
  instruction it had executed (line 351). Before the first instruction, exactly one is
  executed at the address (`cont`).

With a property in the modules that the code violates, and no run in the suite:

* `resource.h:72`: the issue latency is the "number of cycles before another
  operation can be issued on this resource". `ruu_commit` reserves a store port
  before `ruu_release_fu` of the same cycle, so the port is free again when
  `ruu_issue` runs (`UnitsNotShared`).
* `cache.c:532`: the fast path is for an "access to same block" as the last
  hit. The empty memory is `last_tagset = 0` with `last_blk = NULL`, and 0 is also
  the address of the first block: an access to it right after creation, a
  miss or a flush dereferences the null block (`FastPathHasBlock`, with 0 in `Blocks`). The runs use blocks from 1.
* `bpred.c:1045` takes `dir.twolev` for what the two-level component said. The
  lookup of the opcode-combining predictor (`bpred.c:662`) does not assign it, so
  `sim-bpred` trains the chooser with a bit of an uninitialized local and
  `sim-outorder` with 0 (`OpcodeCombFollows`).
* `sim-outorder.c:796` offers `{<config>|dl1|dl2|none}` for `-cache:il1`, and 803 says that "Most
  sensible combinations are supported". With `dl2` and a second level slower than the first,
  every hit has another latency than `cache_il1_lat` and counts as a miss
  (4357), so fetch never gets an instruction: `FetchProgress` fails for `UnifiedOptions` of `MCHierarchy`.
* `-cache:flush` of `sim-outorder`, "flush caches on system calls" (829): nothing reads the
  flag there (`FlushedAtSyscalls` with `FlushOptions`).
* `sim-eio.c:128` says that executions from a trace "are 100% reproducible". A replayed Alpha `sigreturn` changes registers that
  the trace does not hold (`target-alpha/syscall.c:939`): `Reproducible` fails for `SigreturnJobs` with `OnlyReplay` of `MCEio`.

In the models without a property, since none depends on them, or excluded by their bounds:

* `-max:inst`, the "maximum number of inst's to execute" (`sim-outorder.c:595`), is
  looked at once per cycle (4720) and is exceeded by what is left of
  a dispatch group. `-issue:inorder`, "run pipeline with in-order issue"
  (728), holds back dispatch only, so an operation that waits for a unit
  is overtaken; `OneWaiter` is what does hold.
* Speculative state: `SET_FPR_F` and `SET_FPR_L` of PISA mark the bit of a register pair but copy one half of it
  (3508), so the other half reads as whatever the copy held; `Programs` has no such operand. The Alpha FCC is marked
  with bit 1 and tested with bit 2. `-bugcompat` loses store table entries (3194).
* Memory: `mem_dump` masks an address with `~sizeof(word_t)`, which clears one bit.
* Options: an LSQ larger than `MAX_STD_UNKNOWNS` and a first-level block wider than one of the second level are accepted and
  end the simulation later (`AcceptedRuns` names the second); "none" is compared with and without regard to
  case; the default `-cache:il2 dl2` is fatal with `-cache:dl1 none`; `sim-bpred` checks the wrong counter for
  "opcode", and takes the sizes of "opcodecomb" from another option than `sim-outorder`.
* Traces: `sim-eio.c:130` offers checkpoints at "arbitrary points", but one before the first call has no position in the trace
  and cannot be restarted. Fast-forwarding over calls is fatal, `-trace` with a checkpoint as
  input panics, `writev` is not shown again, a short write is shown in full, and an exit by the indirect call is not replayed.
  A failed PISA `read` copies as many bytes as its error number says; several calls copy structures
  the failed host call has not filled.
* Debugger: `display /q` and `print /w 2.5` panic, a line `---` calls a null handler, an invalid character is swallowed by the peek
  (`1 & + 2` is 3), `ERR_EXTRA` is never set, an instruction without a memory access counts as a read of address 0, `dbreak`
  misses the upper bytes of a wide access, the words of `dump` are bytes and a count of 0 panics there, the two signals of
  `main.c` set flags that nothing reads, and the `<file:loc>` of the help does not exist.

## 7. Not modelled

The event queue: the simulators initialise and service it, but queue nothing. The
pipe trace, the databases of options and statistics and their
printers, the loader's object formats, host support and `libexo`: formats and I/O
without a state machine of interest. `sim-fast.c` and `sim-profile.c` repeat the loop of
`sim-safe.c`. What an instruction computes: the models keep where its operands come from and which path it takes.
Of the system calls, the tables that translate flags, signals, sockets and `ioctl` requests, and system calls of hosts other than
Linux. Characters: `eval.c`'s scanner and the formats DLite prints in. `xbenchmarks`, `inputs`,
`results` and the scripts are data.
