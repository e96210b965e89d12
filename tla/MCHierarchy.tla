----------------------------- MODULE MCHierarchy ----------------------------
(***************************************************************************)
(* Small caches in the shapes the options allow, and options around the    *)
(* defaults that the checks tell apart.                                    *)
(***************************************************************************)
EXTENDS Hierarchy

One(bsize) == CacheOpt(1, bsize, 1, "l")
Small(base) ==
    [base EXCEPT !.cache_dl1_opt = One(8), !.cache_dl2_opt = One(16),
                 !.cache_il1_opt = One(8), !.cache_il2_opt = Word("dl2"),
                 !.itlb_opt = Word("none"), !.dtlb_opt = Word("none"),
                 !.mem_lat = <<2, 1>>, !.tlb_miss_lat = 2]
Core  == [Small(Outorder) EXCEPT !.cache_dl2_lat = 2, !.cache_il2_lat = 2,
                                 !.ruu_branch_penalty = 1]
Cache == Small(SimCache)
OneLevel(r) == [r EXCEPT !.cache_dl2_opt = Word("none"), !.cache_il2_opt = Word("none")]

\* Two levels, second level shared; everything shared; instructions straight at
\* the second level; one level and TLBs; random replacement; a first level wider than the second.
Shapes(r) ==
    {r,
     [OneLevel(r) EXCEPT !.cache_il1_opt = Word("dl1"),
                         !.cache_dl1_opt = CacheOpt(2, 8, 1, "f")],
     [OneLevel(r) EXCEPT !.dtlb_opt = One(16), !.itlb_opt = One(16)],
     [OneLevel(r) EXCEPT !.cache_dl1_opt = CacheOpt(1, 8, 2, "r"),
                         !.cache_il1_opt = Word("none")]}
CacheShapes ==
    {[Cache EXCEPT !.flush_on_syscalls = TRUE, !.cache_il1_opt = Word("none"),
                   !.cache_il2_opt = Word("none")],
     [Cache EXCEPT !.cache_il1_opt = Word("dl2"), !.cache_il2_opt = Word("none")],
     [Cache EXCEPT !.cache_dl2_opt = One(16), !.cache_il2_opt = One(16),
                   !.compress_icache_addrs = TRUE],
     [Cache EXCEPT !.cache_dl1_opt = One(16), !.cache_dl2_opt = One(8)]}

MCSimulated == Shapes(Core) \cup (Shapes(Cache) \ {Cache}) \cup CacheShapes

\* The numbers drawn are even, odd, odd, and again.
MCRands  == 0 .. 2
MCRandom == [r \in MCRands |-> [number |-> IF r = 0 THEN 4 ELSE 7, next |-> (r + 1) % 3]]

\* Options next to the defaults: each field at the edge of what is accepted.
Around(r, fields, vals) ==
    {[x \in DOMAIN r |-> IF x = f THEN v ELSE r[x]] : f \in fields, v \in vals}
Sizes == {"ruu_ifq_size", "ruu_branch_penalty", "fetch_speed", "ras_size",
          "ruu_decode_width", "ruu_issue_width", "ruu_commit_width", "RUU_size",
          "LSQ_size", "cache_dl1_lat", "mem_bus_width", "tlb_miss_lat",
          "res_ialu", "res_memport", "fastfwd_count"}
Lists == {"bimod_config", "comb_config", "opcode_config", "opcodecomb_config"}
Typed(r) == {[r EXCEPT !.pred_type = t] : t \in DynamicTypes \cup Static}
MCOptions ==
    MCSimulated \cup {Outorder, SimCache, SimBpredDefaults}
    \cup Around(Outorder, Sizes, {-1, 0, 1, 2, 3, 8, 9})
    \cup UNION {Around(r, Lists, {<<0>>, <<3>>, <<4>>}) :
                    r \in Typed(Outorder) \cup Typed(SimBpredDefaults)}
    \cup UNION {Around(r, {"btb_config"}, {<<0, 1>>, <<2, 3>>, <<4>>}) :
                    r \in Typed(Outorder)}
    \cup {[r EXCEPT !.cache_dl1_opt = a, !.cache_dl2_opt = b,
                    !.cache_il1_opt = c, !.cache_il2_opt = d] :
            r \in {Outorder, SimCache},
            a, b \in {Word("none"), One(8), One(12)},
            c \in {Word("none"), Word("dl1"), Word("dl2"), One(8), Word("bad")},
            d \in {Word("none"), Word("None"), Word("dl2"), One(4), One(8)}}

\* Not run: a unified cache with the latencies of the defaults, for which fetch makes
\* no progress, and the option to flush, which sim-outorder does not look at.
UnifiedOptions ==
    {[OneLevel(Core) EXCEPT !.cache_il1_opt = Word("dl2"),
                            !.cache_dl2_opt = One(16), !.cache_il2_opt = Word("none")]}
FlushOptions == {[Core EXCEPT !.flush_on_syscalls = TRUE]}
=============================================================================
