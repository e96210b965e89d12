------------------------------- MODULE Config -------------------------------
(***************************************************************************)
(* The options of the simulators and what sim_check_options makes of them. *)
(* The options of a run are a record whose fields have the names of the    *)
(* variables of the source, and a check that ends in fatal() is a conjunct *)
(* that is false.  The text of an option is parsed already: the option of  *)
(* a cache is a record with a kind, "none", "None" for another spelling of *)
(* it, "dl1", "dl2", "bad" for what sscanf rejects, and "cache".           *)
(***************************************************************************)
EXTENDS Integers, FiniteSets, Sequences, TLC

PowerOf2(n) == \E k \in 0 .. 30 : n = 2 ^ k

CacheOpt(nsets, bsize, assoc, repl) ==
    [kind |-> "cache", nsets |-> nsets, bsize |-> bsize, assoc |-> assoc,
     repl |-> repl]
Word(kind) == [kind |-> kind]

-----------------------------------------------------------------------------
(* The defaults of sim_reg_options. *)

TraceDefaults == [max_insts |-> 0, fastfwd_count |-> 0]

FetchDefaults ==
    [ruu_ifq_size |-> 4, ruu_branch_penalty |-> 3, fetch_speed |-> 1]

BpredDefaults ==
    [pred_type |-> "bimod", bimod_config |-> <<2048>>,
     twolev_config |-> <<1, 1024, 8, 0>>, comb_config |-> <<1024>>,
     opcode_config |-> <<2048>>, opcodecomb_config |-> <<1024>>,
     ras_size |-> 8, btb_config |-> <<512, 4>>]

\* The default of -bpred:spec_update is no string: the update is at commit.
PipeDefaults ==
    [bpred_spec_opt |-> "", ruu_decode_width |-> 4, ruu_issue_width |-> 4,
     ruu_inorder_issue |-> FALSE, ruu_include_spec |-> TRUE,
     ruu_commit_width |-> 4, RUU_size |-> 16, LSQ_size |-> 8]

CacheDefaults ==
    [cache_dl1_opt |-> CacheOpt(128, 32, 4, "l"), cache_dl1_lat |-> 1,
     cache_dl2_opt |-> CacheOpt(1024, 64, 4, "l"), cache_dl2_lat |-> 6,
     cache_il1_opt |-> CacheOpt(512, 32, 1, "l"), cache_il1_lat |-> 1,
     cache_il2_opt |-> Word("dl2"), cache_il2_lat |-> 6,
     flush_on_syscalls |-> FALSE, compress_icache_addrs |-> FALSE]

MemDefaults ==
    [mem_lat |-> <<18, 2>>, mem_bus_width |-> 8,
     itlb_opt |-> CacheOpt(16, 4096, 4, "l"),
     dtlb_opt |-> CacheOpt(32, 4096, 4, "l"), tlb_miss_lat |-> 30]

ResDefaults ==
    [res_ialu |-> 4, res_imult |-> 1, res_memport |-> 2, res_fpalu |-> 4,
     res_fpmult |-> 1, bugcompat_mode |-> FALSE]

Outorder ==
    [sim |-> "sim-outorder"] @@ TraceDefaults @@ FetchDefaults @@ BpredDefaults
    @@ PipeDefaults @@ CacheDefaults @@ MemDefaults @@ ResDefaults

\* sim-cache has defaults, and hit latencies, of its own.
SimCache ==
    [sim |-> "sim-cache", max_insts |-> 0,
     cache_dl1_opt |-> CacheOpt(256, 32, 1, "l"), cache_dl1_lat |-> 1,
     cache_dl2_opt |-> CacheOpt(1024, 64, 4, "l"), cache_dl2_lat |-> 1,
     cache_il1_opt |-> CacheOpt(256, 32, 1, "l"), cache_il1_lat |-> 1,
     cache_il2_opt |-> Word("dl2"), cache_il2_lat |-> 1,
     itlb_opt |-> CacheOpt(16, 4096, 4, "l"),
     dtlb_opt |-> CacheOpt(32, 4096, 4, "l"), tlb_miss_lat |-> 1,
     mem_lat |-> <<1, 0>>, mem_bus_width |-> 8,
     flush_on_syscalls |-> FALSE, compress_icache_addrs |-> FALSE]

SimBpredDefaults == [sim |-> "sim-bpred", max_insts |-> 0] @@ BpredDefaults

-----------------------------------------------------------------------------
(* The branch predictor: the checks of bpred_create and of its callers. *)

\* bpred_dir_create
CountersOk(size) == PowerOf2(size)
TwoLevelOk(t)    == PowerOf2(t[1]) /\ PowerOf2(t[2]) /\ t[3] \in 1 .. 30

\* The BTB and the return stack, which every dynamic predictor has.
TargetsOk(btb, ras) ==
    PowerOf2(btb[1]) /\ PowerOf2(btb[2]) /\ (ras = 0 \/ PowerOf2(ras))

\* The arguments of bpred_create: the table sizes a class uses.
bpred_create_ok(class, bimod, twolev, meta, btb, ras) ==
    CASE class \in {"Comb", "OpcodeComb"} ->
            CountersOk(bimod) /\ TwoLevelOk(twolev) /\ CountersOk(meta)
            /\ TargetsOk(btb, ras)
      [] class = "2Level" -> TwoLevelOk(twolev) /\ TargetsOk(btb, ras)
      [] class \in {"2bit", "Opcode"} -> CountersOk(bimod) /\ TargetsOk(btb, ras)
      [] OTHER -> TRUE

Static       == {"perfect", "taken", "nottaken"}
DynamicTypes == {"bimod", "opcode", "2lev", "comb", "opcodecomb"}
ClassOf ==
    [t \in DynamicTypes |->
        CASE t = "bimod" -> "2bit" [] t = "opcode" -> "Opcode" [] t = "2lev" -> "2Level"
          [] t = "comb" -> "Comb"  [] t = "opcodecomb" -> "OpcodeComb"]

\* The table that gives the first component its size, and the list options
\* whose number of elements is checked.  The study and the pipeline differ:
\* the study checks the elements of -bpred:bimod for type opcode, and takes
\* -bpred:opcode for opcodecomb where the pipeline takes -bpred:bimod.
BimodArg(o) ==
    IF o.pred_type = "opcode" THEN o.opcode_config
    ELSE IF o.pred_type = "opcodecomb" /\ o.sim = "sim-bpred"
         THEN o.opcode_config
    ELSE o.bimod_config
MetaArg(o) ==
    IF o.pred_type = "comb" THEN o.comb_config ELSE o.opcodecomb_config

ListsOk(o) ==
    /\ Len(o.btb_config) = 2
    /\ o.pred_type \in {"2lev", "comb", "opcodecomb"} => Len(o.twolev_config) = 4
    /\ o.pred_type \in {"bimod", "comb"} => Len(o.bimod_config) = 1
    /\ o.pred_type \in {"comb", "opcodecomb"} => Len(MetaArg(o)) = 1
    /\ o.pred_type = "opcode" =>
        Len(IF o.sim = "sim-bpred" THEN o.bimod_config ELSE o.opcode_config) = 1
    /\ o.pred_type = "opcodecomb" => Len(BimodArg(o)) = 1

PredictorOk(o) ==
    \/ o.pred_type \in Static /\ (o.pred_type = "perfect" => o.sim = "sim-outorder")
    \/ /\ o.pred_type \in DynamicTypes /\ ListsOk(o)
       /\ bpred_create_ok(ClassOf[o.pred_type], BimodArg(o)[1], o.twolev_config,
                          MetaArg(o)[1], o.btb_config, o.ras_size)

-----------------------------------------------------------------------------
(* The pipeline of sim-outorder. *)

MAX_INSTS_PER_CLASS == 8

FrontEndOk(o) ==
    /\ o.fastfwd_count >= 0 /\ o.fastfwd_count < 2147483647
    /\ PowerOf2(o.ruu_ifq_size)
    /\ o.ruu_branch_penalty >= 1 /\ o.fetch_speed >= 1

SpecUpdateOk(o) == o.bpred_spec_opt \in {"", "ID", "WB"}

WidthsOk(o) ==
    /\ PowerOf2(o.ruu_decode_width) /\ PowerOf2(o.ruu_issue_width)
    /\ o.ruu_commit_width >= 1

QueuesOk(o) == \A size \in {o.RUU_size, o.LSQ_size} : PowerOf2(size) /\ size > 1

LatenciesOk(o) ==
    /\ o.cache_dl1_lat >= 1 /\ o.cache_dl2_lat >= 1
    /\ o.cache_il1_lat >= 1 /\ o.cache_il2_lat >= 1
    /\ Len(o.mem_lat) = 2 /\ o.mem_lat[1] >= 1 /\ o.mem_lat[2] >= 1
    /\ PowerOf2(o.mem_bus_width) /\ o.tlb_miss_lat >= 1

UnitsOk(o) ==
    \A n \in {o.res_ialu, o.res_imult, o.res_memport, o.res_fpalu, o.res_fpmult} :
        n \in 1 .. MAX_INSTS_PER_CLASS

-----------------------------------------------------------------------------
(* The caches and TLBs: which are created, and which pointer goes where. *)

\* cache_create and cache_char2policy
cache_create_ok(c) ==
    /\ c.kind = "cache"
    /\ PowerOf2(c.nsets) /\ PowerOf2(c.bsize) /\ c.bsize >= 8
    /\ PowerOf2(c.assoc) /\ c.repl \in {"l", "r", "f"}

None(c) == c.kind \in {"none", "None"}
\* strcmp tells the spellings of "none" apart, mystricmp does not.
NoneExactly(c) == c.kind = "none"

DataCachesOk(o) ==
    IF None(o.cache_dl1_opt) THEN NoneExactly(o.cache_dl2_opt)
    ELSE /\ cache_create_ok(o.cache_dl1_opt)
         /\ None(o.cache_dl2_opt) \/ cache_create_ok(o.cache_dl2_opt)

HasDl1(o) == ~None(o.cache_dl1_opt)
HasDl2(o) == HasDl1(o) /\ ~None(o.cache_dl2_opt)

InstCachesOk(o) ==
    CASE None(o.cache_il1_opt)        -> NoneExactly(o.cache_il2_opt)
      [] o.cache_il1_opt.kind = "dl1" -> HasDl1(o) /\ NoneExactly(o.cache_il2_opt)
      [] o.cache_il1_opt.kind = "dl2" -> HasDl2(o) /\ NoneExactly(o.cache_il2_opt)
      [] OTHER ->
            /\ cache_create_ok(o.cache_il1_opt)
            /\ \/ None(o.cache_il2_opt)
               \/ o.cache_il2_opt.kind = "dl2" /\ HasDl2(o)
               \/ cache_create_ok(o.cache_il2_opt)

TlbsOk(o) ==
    \A c \in {o.itlb_opt, o.dtlb_opt} : None(c) \/ cache_create_ok(c)

CachesOk(o) == DataCachesOk(o) /\ InstCachesOk(o) /\ TlbsOk(o)

\* What the pointers of the levels end up at: the name of a cache or NULL.
\* Faulty variant: a first level shared with the data keeps the default second.
PointersKeepIl2(o) ==
    LET at(c, own) == IF None(c) THEN "NULL"
                      ELSE IF c.kind \in {"dl1", "dl2"} THEN c.kind ELSE own
    IN  [dl1 |-> at(o.cache_dl1_opt, "dl1"), dl2 |-> at(o.cache_dl2_opt, "dl2"),
         il1 |-> at(o.cache_il1_opt, "il1"), il2 |-> "dl2",
         itlb |-> at(o.itlb_opt, "itlb"), dtlb |-> at(o.dtlb_opt, "dtlb")]
Pointers(o) ==
    LET at(c, own) == IF None(c) THEN "NULL"
                      ELSE IF c.kind \in {"dl1", "dl2"} THEN c.kind ELSE own
    IN  [dl1 |-> at(o.cache_dl1_opt, "dl1"), dl2 |-> at(o.cache_dl2_opt, "dl2"),
         il1 |-> at(o.cache_il1_opt, "il1"), il2 |-> at(o.cache_il2_opt, "il2"),
         itlb |-> at(o.itlb_opt, "itlb"), dtlb |-> at(o.dtlb_opt, "dtlb")]

-----------------------------------------------------------------------------
(* sim_check_options *)

sim_check_options(o) ==
    CASE o.sim = "sim-outorder" ->
            /\ FrontEndOk(o) /\ PredictorOk(o) /\ SpecUpdateOk(o) /\ WidthsOk(o)
            /\ QueuesOk(o) /\ CachesOk(o) /\ LatenciesOk(o) /\ UnitsOk(o)
      [] o.sim = "sim-cache" -> CachesOk(o)
      [] o.sim = "sim-bpred" -> PredictorOk(o)
=============================================================================
