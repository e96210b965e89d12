--------------------------- MODULE HierarchyProofs ---------------------------
(***************************************************************************)
(* Theorems about module Hierarchy, for all options that sim_check_options *)
(* accepts: that the accesses a miss makes are counted, stay inside their  *)
(* blocks and never write instructions, that the caches of both levels and *)
(* the memory together are a memory, and that no block is there before the *)
(* block it is a part of.                                                  *)
(*                                                                         *)
(* A call of cache.c changes a state h into another; the lemmas about it   *)
(* say what the new state is when h is sound (Sane, Kept, Good): Did for   *)
(* an access, DidBelow for what it asks of the level below, Referenced for *)
(* a reference of the program, FlushedIs for a flush.  IInv says that the  *)
(* present state, Now, is sound.                                           *)
(***************************************************************************)
EXTENDS Hierarchy, SequenceTheorems, WellFoundedInduction, TLAPS

-----------------------------------------------------------------------------
(* Numbers *)

\* Induction over the natural numbers, for a set instead of a predicate.
LEMMA NatSetInduction ==
    ASSUME NEW S, 0 \in S, \A k \in Nat : k \in S => k + 1 \in S
    PROVE  Nat \subseteq S
<1> SUFFICES ASSUME Nat \ S # {} PROVE FALSE
  OBVIOUS
<1>1. PICK x \in Nat \ S : \A y \in Nat \ S : ~(<<y, x>> \in OpToRel(<, Nat))
  BY NatLessThanWellFounded, WFMin
<1>2. \A y \in Nat \ S : ~(y < x)
  BY <1>1 DEF OpToRel
<1>3. x # 0
  OBVIOUS
<1>4. x - 1 \in Nat /\ x - 1 < x
  BY <1>3
<1>5. x - 1 \in S
  BY <1>2, <1>4
<1> QED
  BY <1>4, <1>5

\* The powers of two that fit an int.
Powers == {1, 2, 4, 8, 16, 32, 64, 128, 256, 512, 1024, 2048, 4096, 8192, 16384, 32768,
           65536, 131072, 262144, 524288, 1048576, 2097152, 4194304, 8388608, 16777216,
           33554432, 67108864, 134217728, 268435456, 536870912, 1073741824}

LEMMA PowersAre == \A n : PowerOf2(n) => n \in Powers
<1> SUFFICES ASSUME NEW k \in 0 .. 30 PROVE 2 ^ k \in Powers
  BY DEF PowerOf2
<1> DEFINE P(j) == 2 ^ j \in Powers
<1>1. /\ P(0) /\ P(1) /\ P(2) /\ P(3) /\ P(4) /\ P(5) /\ P(6) /\ P(7) /\ P(8) /\ P(9)
      /\ P(10) /\ P(11) /\ P(12) /\ P(13) /\ P(14) /\ P(15)
  BY DEF Powers
<1>2. /\ P(16) /\ P(17) /\ P(18) /\ P(19) /\ P(20) /\ P(21) /\ P(22) /\ P(23) /\ P(24)
      /\ P(25) /\ P(26) /\ P(27) /\ P(28) /\ P(29) /\ P(30)
  BY DEF Powers
<1> HIDE DEF P
<1>3. P(k)
  <2>1. \/ k = 0 \/ k = 1 \/ k = 2 \/ k = 3 \/ k = 4 \/ k = 5 \/ k = 6 \/ k = 7
        \/ k = 8 \/ k = 9 \/ k = 10 \/ k = 11 \/ k = 12 \/ k = 13 \/ k = 14 \/ k = 15
        \/ k = 16 \/ k = 17 \/ k = 18 \/ k = 19 \/ k = 20 \/ k = 21 \/ k = 22 \/ k = 23
        \/ k = 24 \/ k = 25 \/ k = 26 \/ k = 27 \/ k = 28 \/ k = 29 \/ k = 30
    OBVIOUS
  <2> QED
    BY <1>1, <1>2, <2>1
<1> QED
  BY <1>3 DEF P

LEMMA PowersNat == Powers \subseteq Nat \ {0}
  BY DEF Powers

\* Above 1 a power of two is twice another.
LEMMA PowersHalf == \A n \in Powers : n # 1 => \E m \in Powers : n = 2 * m
<1> SUFFICES ASSUME NEW n \in Powers, n # 1 PROVE n \div 2 \in Powers /\ n = 2 * (n \div 2)
  OBVIOUS
<1> QED
  BY DEF Powers

\* Of two different powers of two one is at least twice the other.
LEMMA PowersApart == \A n, m \in Powers : n < m => 2 * n <= m
  BY DEF Powers

\* The quotient is the only number whose multiples enclose the dividend.
LEMMA DivIs ==
    ASSUME NEW a \in Nat, NEW b \in Nat \ {0}
    PROVE  /\ a \div b \in Nat /\ a % b \in Nat /\ a % b < b
           /\ a = (a \div b) * b + (a % b)
           /\ (a \div b) * b <= a /\ a < (a \div b) * b + b
  OBVIOUS

LEMMA TimesNat ==
    ASSUME NEW a \in Nat, NEW b \in Nat
    PROVE  a * b \in Nat
  OBVIOUS

LEMMA TimesUp ==
    ASSUME NEW a \in Nat, NEW b \in Nat, NEW c \in Nat, a <= b
    PROVE  a * c <= b * c
  OBVIOUS

LEMMA TimesStep ==
    ASSUME NEW a \in Int, NEW b \in Int
    PROVE  (a + 1) * b = a * b + b
  OBVIOUS

LEMMA DivUnique ==
    ASSUME NEW a \in Nat, NEW b \in Nat \ {0}, NEW q \in Nat, q * b <= a, a < q * b + b
    PROVE  a \div b = q
<1> DEFINE p == a \div b
<1>1. p \in Nat /\ p * b <= a /\ a < p * b + b
  BY DivIs
<1> HIDE DEF p
<1>2. ~(p < q)
  <2> SUFFICES ASSUME p + 1 <= q PROVE FALSE
    BY <1>1
  <2>1. (p + 1) * b <= q * b
    BY <1>1, TimesUp
  <2> QED
    BY <2>1, <1>1, TimesStep
<1>3. ~(q < p)
  <2> SUFFICES ASSUME q + 1 <= p PROVE FALSE
    BY <1>1
  <2>1. (q + 1) * b <= p * b
    BY <1>1, TimesUp
  <2> QED
    BY <2>1, <1>1, TimesStep
<1> QED
  BY <1>1, <1>2, <1>3 DEF p

LEMMA DivTimes ==
    ASSUME NEW q \in Nat, NEW b \in Nat \ {0}, NEW r \in Nat, r < b
    PROVE  (q * b + r) \div b = q /\ (q * b + r) % b = r
<1>1. q * b \in Nat
  BY TimesNat
<1>2. (q * b + r) \div b = q
  BY <1>1, DivUnique
<1> QED
  BY <1>1, <1>2, DivIs

\* Rounding down to a multiple of k * b after rounding down to one of b.
LEMMA DivNested ==
    ASSUME NEW a \in Nat, NEW b \in Nat \ {0}, NEW k \in Nat \ {0}
    PROVE  /\ k * b \in Nat \ {0}
           /\ ((a \div b) * b) \div (k * b) = a \div (k * b)
           /\ (a \div (k * b)) * (k * b) <= (a \div b) * b
           /\ (a \div b) * b + b <= (a \div (k * b)) * (k * b) + k * b
<1> DEFINE p == a \div b
           B == k * b
           q == a \div B
<1>0. B \in Nat \ {0}
  OBVIOUS
<1>1. p \in Nat /\ p * b <= a /\ a < p * b + b
  BY DivIs
<1> HIDE DEF B, p
<1>2. q \in Nat /\ q * B <= a /\ a < q * B + B
  BY DivIs, <1>0
<1> HIDE DEF q
<1>3. q * B = (q * k) * b /\ q * k \in Nat /\ q * B + B = (q * k + k) * b
  BY <1>2 DEF B
<1>4. q * k <= p
  <2> SUFFICES ASSUME p + 1 <= q * k PROVE FALSE
    BY <1>1, <1>3
  <2>1. (p + 1) * b <= (q * k) * b
    BY <1>1, <1>3, TimesUp
  <2> QED
    BY <2>1, <1>1, <1>2, <1>3, TimesStep
<1>5. p + 1 <= q * k + k
  <2> SUFFICES ASSUME q * k + k <= p PROVE FALSE
    BY <1>1, <1>3
  <2>1. (q * k + k) * b <= p * b
    BY <1>1, <1>3, TimesUp
  <2> QED
    BY <2>1, <1>0, <1>1, <1>2, <1>3
<1>6. q * B <= p * b /\ p * b + b <= q * B + B
  <2>1. (q * k) * b <= p * b
    BY <1>1, <1>3, <1>4, TimesUp
  <2>2. (p + 1) * b <= (q * k + k) * b
    BY <1>1, <1>3, <1>5, TimesUp
  <2> QED
    BY <2>1, <2>2, <1>1, <1>3, TimesStep
<1>7. (p * b) \div B = q
  <2>1. p * b \in Nat /\ p * b < q * B + B
    BY <1>0, <1>1, <1>2, <1>6, TimesNat
  <2> QED
    BY <1>0, <1>2, <1>6, <2>1, DivUnique
<1> QED
  BY <1>0, <1>6, <1>7 DEF p, B, q

\* Of two powers of two the greater is a multiple of the other.
LEMMA PowersDivide == \A a, b \in Powers : a <= b => \E q \in Nat \ {0} : b = q * a
<1> DEFINE S == {k \in Nat : \A a, b \in Powers :
                     a <= b /\ b <= k => \E q \in Nat \ {0} : b = q * a}
<1>1. 0 \in S
  BY PowersNat
<1>2. \A k \in Nat : k \in S => k + 1 \in S
  <2> SUFFICES ASSUME NEW k \in S, NEW a \in Powers, NEW b \in Powers, a <= b, b <= k + 1
               PROVE  \E q \in Nat \ {0} : b = q * a
    OBVIOUS
  <2>0. a \in Nat \ {0} /\ b \in Nat \ {0}
    BY PowersNat
  <2>1. CASE a = b
    <3>1. b = 1 * a
      BY <2>0, <2>1
    <3> QED
      BY <3>1
  <2>2. CASE a < b
    <3>1. PICK c \in Powers : b = 2 * c
      BY <2>0, <2>2, PowersHalf
    <3>2. a <= c /\ c <= k /\ c \in Nat
      BY <2>0, <2>2, <3>1, PowersApart, PowersNat
    <3>3. PICK q \in Nat \ {0} : c = q * a
      BY <3>2
    <3>4. b = (2 * q) * a /\ 2 * q \in Nat \ {0}
      BY <2>0, <3>1, <3>3
    <3> QED
      BY <3>4
  <2> QED
    BY <2>0, <2>1, <2>2
<1>3. Nat \subseteq S
  <2> HIDE DEF S
  <2> QED
    BY <1>1, <1>2, NatSetInduction
<1> QED
  BY <1>3, PowersNat

-----------------------------------------------------------------------------
(* The options that are accepted *)

\* A simulator with caches, whose options passed the checks, and one that goes on.
Checked == o.sim \in {"sim-outorder", "sim-cache"} /\ sim_check_options(o)
Valid   == o \in Simulated /\ Checked

Made == Created(o, Ptr)

LEMMA ValidChecked == ASSUME Valid PROVE Checked
  BY DEF Valid

LEMMA CachesAreOk == ASSUME Checked PROVE CachesOk(o)
  BY DEF Checked, sim_check_options

\* Every cache that is created is one cache_create accepts.
LEMMA Geometry ==
    ASSUME Valid, NEW n \in Made
    PROVE  /\ n \in Names /\ Opt(n).kind = "cache"
           /\ Opt(n).nsets \in Powers /\ Opt(n).bsize \in Powers /\ Opt(n).assoc \in Powers
           /\ Opt(n).bsize >= 8
<1>1. n \in Names /\ Ptr[n] = n
  BY DEF Made, Created
<1>2. cache_create_ok(Opt(n))
  <2>1. CASE n \in {"dl1", "dl2"}
    BY <1>1, <2>1, CachesAreOk, ValidChecked
       DEF CachesOk, DataCachesOk, Ptr, Pointers, Opt, None, NoneExactly, cache_create_ok
  <2>2. CASE n \in {"il1", "il2"}
    BY <1>1, <2>2, CachesAreOk, ValidChecked
       DEF CachesOk, InstCachesOk, Ptr, Pointers, Opt, None, NoneExactly, cache_create_ok
  <2>3. CASE n \in {"itlb", "dtlb"}
    BY <1>1, <2>3, CachesAreOk, ValidChecked
       DEF CachesOk, TlbsOk, Ptr, Pointers, Opt, None, NoneExactly, cache_create_ok
  <2> QED
    BY <1>1, <2>1, <2>2, <2>3 DEF Names
<1> QED
  BY <1>1, <1>2, PowersAre DEF cache_create_ok

\* What the pointers of the levels can be.
LEMMA Chained ==
    ASSUME Checked
    PROVE  /\ Ptr.dl1 \in {NULL, "dl1"} /\ Ptr.dl2 \in {NULL, "dl2"}
           /\ Ptr.il1 \in {NULL, "dl1", "dl2", "il1"} /\ Ptr.il2 \in {NULL, "dl2", "il2"}
           /\ Ptr.itlb \in {NULL, "itlb"} /\ Ptr.dtlb \in {NULL, "dtlb"}
           /\ Ptr.dl1 = NULL => Ptr.dl2 = NULL
           /\ Ptr.il1 # "il1" => Ptr.il2 = NULL
           /\ Ptr.il1 = "dl1" => Ptr.dl1 = "dl1"
           /\ Ptr.il1 = "dl2" \/ Ptr.il2 = "dl2" => Ptr.dl2 = "dl2"
<1>1. /\ Ptr.dl1 \in {NULL, "dl1"} /\ Ptr.dl2 \in {NULL, "dl2"}
      /\ Ptr.dl1 = NULL => Ptr.dl2 = NULL
  BY CachesAreOk
     DEF CachesOk, DataCachesOk, Ptr, Pointers, None, NoneExactly, cache_create_ok, NULL
<1>2. /\ HasDl1(o) => Ptr.dl1 # NULL
      /\ HasDl2(o) => Ptr.dl2 # NULL
  BY CachesAreOk
     DEF CachesOk, DataCachesOk, HasDl1, HasDl2, Ptr, Pointers, None, cache_create_ok, NULL
<1>3. /\ Ptr.il1 \in {NULL, "dl1", "dl2", "il1"} /\ Ptr.il2 \in {NULL, "dl2", "il2"}
      /\ Ptr.il1 # "il1" => Ptr.il2 = NULL
      /\ Ptr.il1 = "dl1" => HasDl1(o)
      /\ Ptr.il1 = "dl2" \/ Ptr.il2 = "dl2" => HasDl2(o)
  BY CachesAreOk
     DEF CachesOk, InstCachesOk, Ptr, Pointers, None, NoneExactly, cache_create_ok, NULL
<1>4. Ptr.itlb \in {NULL, "itlb"} /\ Ptr.dtlb \in {NULL, "dtlb"}
  BY CachesAreOk
     DEF CachesOk, TlbsOk, Ptr, Pointers, None, NoneExactly, cache_create_ok, NULL
<1> QED
  BY <1>1, <1>2, <1>3, <1>4

\* A pointer is NULL or names a cache that is created.
LEMMA PointsAtMade ==
    ASSUME Checked, NEW n \in Names, Ptr[n] # NULL
    PROVE  Ptr[n] \in Made /\ Ptr[n] \in Names
<1>1. CASE n \in {"dl1", "dl2", "itlb", "dtlb"}
  BY <1>1, Chained DEF Made, Created, Names
<1>2. CASE n \in {"il1", "il2"}
  BY <1>2, Chained DEF Made, Created, Names
<1> QED
  BY <1>1, <1>2 DEF Names

\* A second level has none behind it, and no TLB has one.
LEMMA SecondLevel ==
    ASSUME Valid, NEW n
    PROVE  /\ Behind(n) # NULL => /\ n \in {"dl1", "il1"} /\ Behind(n) \in {"dl2", "il2"}
                                  /\ Behind(n) \in Made /\ Behind(Behind(n)) = NULL
                                  /\ n = "dl1" => Behind(n) = "dl2"
           /\ Ptr.dl1 = "dl1" <=> "dl1" \in Made
           /\ Behind(n) = "il2" => n = "il1"
<1>1. Behind(n) # NULL => n \in {"dl1", "il1"} /\ Behind(n) \in {"dl2", "il2"}
                          /\ (n = "dl1" => Behind(n) = "dl2")
                          /\ (Behind(n) = "il2" => n = "il1")
  BY Chained, ValidChecked DEF Behind
<1>2. Behind(n) # NULL => Behind(n) \in Made
  BY PointsAtMade, ValidChecked DEF Behind, Names
<1>3. Behind("dl2") = NULL /\ Behind("il2") = NULL
  BY DEF Behind
<1> QED
  BY <1>1, <1>2, <1>3 DEF Made, Created, Names, NULL

LEMMA PowerNat == \A n : PowerOf2(n) => n \in Nat \ {0} /\ (n > 1 => n % 2 = 0)
<1> SUFFICES ASSUME NEW n, PowerOf2(n) PROVE n \in Nat \ {0} /\ (n > 1 => n % 2 = 0)
  OBVIOUS
<1>1. n \in Powers /\ n \in Nat \ {0}
  BY PowersAre, PowersNat
<1>2. ASSUME n > 1 PROVE n % 2 = 0
  <2>1. PICK m \in Powers : n = 2 * m
    BY <1>1, <1>2, PowersHalf
  <2> QED
    BY <2>1, PowersNat
<1> QED
  BY <1>1, <1>2

\* What acceptance of the options alone promises of them.
LEMMA SizesAccepted ==
    ASSUME o \in Options, sim_check_options(o)
    PROVE  /\ o.sim = "sim-outorder" =>
                /\ {o.ruu_ifq_size, o.ruu_decode_width, o.ruu_issue_width, o.RUU_size,
                    o.LSQ_size, o.ruu_commit_width, o.fetch_speed, o.ruu_branch_penalty}
                      \subseteq Nat \ {0}
                /\ o.RUU_size % 2 = 0 /\ o.LSQ_size % 2 = 0
           /\ o.sim # "sim-cache" /\ o.pred_type \notin Static =>
                /\ PowerOf2(o.btb_config[1]) /\ PowerOf2(o.btb_config[2])
                /\ o.pred_type # "2lev" => PowerOf2(BimodArg(o)[1])
                /\ o.pred_type \in {"comb", "opcodecomb"} => PowerOf2(MetaArg(o)[1])
<1>1. ASSUME o.sim = "sim-outorder"
      PROVE  /\ {o.ruu_ifq_size, o.ruu_decode_width, o.ruu_issue_width, o.RUU_size,
                 o.LSQ_size, o.ruu_commit_width, o.fetch_speed, o.ruu_branch_penalty}
                   \subseteq Nat \ {0}
             /\ o.RUU_size % 2 = 0 /\ o.LSQ_size % 2 = 0
  <2>1. {o.ruu_commit_width, o.fetch_speed, o.ruu_branch_penalty} \subseteq Int
    BY <1>1, OptionAssumption
  <2>2. FrontEndOk(o) /\ WidthsOk(o) /\ QueuesOk(o)
    BY <1>1 DEF sim_check_options
  <2>3. {o.ruu_commit_width, o.fetch_speed, o.ruu_branch_penalty} \subseteq Nat \ {0}
    BY <2>1, <2>2 DEF FrontEndOk, WidthsOk
  <2>4. {o.ruu_ifq_size, o.ruu_decode_width, o.ruu_issue_width} \subseteq Nat \ {0}
    BY <2>2, PowerNat DEF FrontEndOk, WidthsOk
  <2>5. \A s \in {o.RUU_size, o.LSQ_size} : s \in Nat \ {0} /\ s % 2 = 0
    BY <2>2, PowerNat DEF QueuesOk
  <2> QED
    BY <2>3, <2>4, <2>5
<1>2. ASSUME o.sim # "sim-cache", o.pred_type \notin Static
      PROVE  /\ PowerOf2(o.btb_config[1]) /\ PowerOf2(o.btb_config[2])
             /\ o.pred_type # "2lev" => PowerOf2(BimodArg(o)[1])
             /\ o.pred_type \in {"comb", "opcodecomb"} => PowerOf2(MetaArg(o)[1])
  <2>1. o.sim \in {"sim-outorder", "sim-bpred"}
    BY <1>2, OptionAssumption
  <2>2. PredictorOk(o)
    BY <2>1 DEF sim_check_options
  <2>3. /\ o.pred_type \in DynamicTypes
        /\ bpred_create_ok(ClassOf[o.pred_type], BimodArg(o)[1], o.twolev_config,
                           MetaArg(o)[1], o.btb_config, o.ras_size)
    BY <1>2, <2>2 DEF PredictorOk
  <2>4. /\ ClassOf["bimod"] = "2bit" /\ ClassOf["opcode"] = "Opcode"
        /\ ClassOf["comb"] = "Comb" /\ ClassOf["opcodecomb"] = "OpcodeComb"
        /\ ClassOf["2lev"] = "2Level"
    BY DEF ClassOf, DynamicTypes
  <2>5. CASE o.pred_type = "2lev"
    BY <2>3, <2>4, <2>5 DEF bpred_create_ok, TargetsOk
  <2>6. CASE o.pred_type \in {"bimod", "opcode"}
    BY <2>3, <2>4, <2>6 DEF bpred_create_ok, TargetsOk, CountersOk
  <2>7. CASE o.pred_type \in {"comb", "opcodecomb"}
    BY <2>3, <2>4, <2>7 DEF bpred_create_ok, TargetsOk, CountersOk
  <2> QED
    BY <2>3, <2>5, <2>6, <2>7 DEF DynamicTypes
<1> QED
  BY <1>1, <1>2

-----------------------------------------------------------------------------
(* Addresses *)

\* The granules of a block, by its tag and set in one number.
Mine(n, ts) == {g \in Granules : TagSet(n, 8 * g) = ts}

LEMMA Sizes ==
    ASSUME Valid, NEW n \in Made
    PROVE  /\ Opt(n).nsets \in Nat \ {0} /\ Opt(n).assoc \in Nat \ {0}
           /\ Opt(n).bsize \in Nat \ {0}
           /\ \E k \in Nat \ {0} : Opt(n).bsize = 8 * k
<1>1. Opt(n).nsets \in Nat \ {0} /\ Opt(n).assoc \in Nat \ {0} /\ Opt(n).bsize \in Nat \ {0}
  BY Geometry, PowersNat
<1>2. Opt(n).bsize \in Powers /\ 8 <= Opt(n).bsize
  BY Geometry, <1>1
<1>3. 8 \in Powers
  BY DEF Powers
<1>4. PICK k \in Nat \ {0} : Opt(n).bsize = k * 8
  BY <1>2, <1>3, PowersDivide
<1> QED
  BY <1>1, <1>4

LEMMA Split ==
    ASSUME Valid, NEW n \in Made, NEW a \in Nat
    PROVE  /\ TagSet(n, a) \in Nat /\ CACHE_SET(n, a) \in Sets(n)
           /\ CACHE_TAG(n, a) \in Nat /\ CACHE_BADDR(n, a) \in Nat
           /\ CACHE_BADDR(n, a) <= a /\ a < CACHE_BADDR(n, a) + Opt(n).bsize
           /\ CACHE_TAG(n, a) * Opt(n).nsets + CACHE_SET(n, a) = TagSet(n, a)
           /\ CACHE_MK_BADDR(n, CACHE_TAG(n, a), CACHE_SET(n, a)) = CACHE_BADDR(n, a)
           /\ a >= Opt(n).bsize => TagSet(n, a) # 0
<1> DEFINE b == Opt(n).bsize
           k == Opt(n).nsets
           t == TagSet(n, a)
<1>0. b \in Nat \ {0} /\ k \in Nat \ {0}
  BY Sizes
<1>1. t = a \div b /\ CACHE_SET(n, a) = t % k /\ CACHE_TAG(n, a) = t \div k
      /\ CACHE_BADDR(n, a) = t * b
      /\ CACHE_MK_BADDR(n, CACHE_TAG(n, a), CACHE_SET(n, a))
            = (CACHE_TAG(n, a) * k + CACHE_SET(n, a)) * b
      /\ Sets(n) = 0 .. k - 1
  BY DEF TagSet, CACHE_SET, CACHE_TAG, CACHE_BADDR, CACHE_MK_BADDR, Sets
<1> HIDE DEF b, k, t
<1>2. t \in Nat /\ t * b <= a /\ a < t * b + b /\ (a \div b) * b = t * b
  BY <1>0, <1>1, DivIs
<1>3. t \div k \in Nat /\ t % k \in 0 .. k - 1 /\ t = (t \div k) * k + (t % k)
  BY <1>0, <1>2, DivIs
<1>4. a >= b => t # 0
  BY <1>0, <1>2
<1> QED
  BY <1>0, <1>1, <1>2, <1>3, <1>4, TimesNat DEF b, k, t

\* The tag and the set of the address made of them.
LEMMA AddressMade ==
    ASSUME Valid, NEW n \in Made, NEW tag \in Nat, NEW s \in Sets(n)
    PROVE  /\ CACHE_MK_BADDR(n, tag, s) \in Nat
           /\ TagSet(n, CACHE_MK_BADDR(n, tag, s)) = tag * Opt(n).nsets + s
           /\ tag * Opt(n).nsets + s \in Nat
           /\ (tag * Opt(n).nsets + s) \div Opt(n).nsets = tag
           /\ (tag * Opt(n).nsets + s) % Opt(n).nsets = s
           /\ CACHE_SET(n, CACHE_MK_BADDR(n, tag, s)) = s
           /\ CACHE_TAG(n, CACHE_MK_BADDR(n, tag, s)) = tag
           /\ CACHE_BADDR(n, CACHE_MK_BADDR(n, tag, s)) = CACHE_MK_BADDR(n, tag, s)
<1> DEFINE b == Opt(n).bsize
           k == Opt(n).nsets
           t == tag * k + s
<1>0. b \in Nat \ {0} /\ k \in Nat \ {0} /\ s \in Nat /\ s < k
  BY Sizes DEF Sets
<1>1. t \div k = tag /\ t % k = s /\ t \in Nat
  <2>1. tag * k \in Nat
    BY <1>0, TimesNat
  <2>2. (tag * k + s) \div k = tag /\ (tag * k + s) % k = s
    BY <1>0, DivTimes, Zenon
  <2>3. tag * k + s \in Nat
    BY <1>0, <2>1
  <2> QED
    BY <2>2, <2>3
<1>2. CACHE_MK_BADDR(n, tag, s) = t * b
  BY DEF CACHE_MK_BADDR
<1> HIDE DEF t
<1>3. t * b \in Nat /\ (t * b) \div b = t
  <2>1. t * b \in Nat
    BY <1>0, <1>1, TimesNat
  <2>2. (t * b + 0) \div b = t
    BY <1>0, <1>1, DivTimes
  <2> QED
    BY <2>1, <2>2
<1> QED
  BY <1>1, <1>2, <1>3 DEF t, b, k, TagSet, CACHE_SET, CACHE_TAG, CACHE_BADDR

\* A block is made of whole granules.
LEMMA WithinBlock ==
    ASSUME Valid, NEW n \in Made, NEW ts \in Nat
    PROVE  Within(ts * Opt(n).bsize, Opt(n).bsize) = Mine(n, ts)
<1>1. PICK k \in Nat \ {0} : Opt(n).bsize = 8 * k
  BY Sizes
<1> DEFINE p == ts * k
<1>2. p \in Nat /\ ts * (8 * k) = 8 * p
  BY <1>1, TimesNat
<1>3. SUFFICES ASSUME NEW g \in Granules
               PROVE  (g >= (8 * p) \div 8 /\ g <= (8 * p + 8 * k - 1) \div 8)
                       <=> (8 * g) \div (8 * k) = ts
  BY <1>1, <1>2, <1>3 DEF Within, Mine, TagSet
<1>4. g \in Nat
  BY HierarchyAssumption
<1> HIDE DEF p
<1>5. (8 * p) \div 8 = p /\ (8 * p + 8 * k - 1) \div 8 = p + k - 1
  BY <1>1, <1>2
<1>6. (p <= g /\ g <= p + k - 1) => (8 * g) \div (8 * k) = ts
  <2>1. 8 * k \in Nat \ {0} /\ 8 * g \in Nat
    BY <1>1, <1>4
  <2>2. SUFFICES ASSUME p <= g, g <= p + k - 1
                 PROVE  ts * (8 * k) <= 8 * g /\ 8 * g < ts * (8 * k) + 8 * k
    BY <2>1, DivUnique
  <2> QED
    BY <1>1, <1>2, <1>4, <2>2
<1>7. (8 * g) \div (8 * k) = ts => (p <= g /\ g <= p + k - 1)
  <2>1. 8 * k \in Nat \ {0} /\ 8 * g \in Nat
    BY <1>1, <1>4
  <2>2. SUFFICES ASSUME (8 * g) \div (8 * k) = ts PROVE p <= g /\ g <= p + k - 1
    OBVIOUS
  <2>3. ts * (8 * k) <= 8 * g /\ 8 * g < ts * (8 * k) + 8 * k
    BY <2>1, <2>2, DivIs
  <2> QED
    BY <1>1, <1>2, <1>4, <2>3
<1> QED
  BY <1>1, <1>2, <1>4, <1>5, <1>6, <1>7

\* An access inside a block is to granules of it.
LEMMA WithinOne ==
    ASSUME Valid, NEW n \in Made, NEW a \in Nat, NEW z \in Nat \ {0},
           ~Spans(n, a, z)
    PROVE  Within(a, z) \subseteq Mine(n, TagSet(n, a))
<1> DEFINE t == TagSet(n, a)
           b == Opt(n).bsize
<1>1. PICK k \in Nat \ {0} : b = 8 * k
  BY Sizes
<1>2. t \in Nat /\ t * b <= a /\ a + z <= t * b + b
  <2>1. CACHE_BADDR(n, a) \in Nat /\ b \in Nat /\ CACHE_BADDR(n, a) <= a
    BY Split, Sizes
  <2>2. a + z <= CACHE_BADDR(n, a) + b
    BY <2>1 DEF Spans
  <2> QED
    BY <2>1, <2>2, Split DEF CACHE_BADDR
<1> SUFFICES ASSUME NEW g \in Granules, g >= a \div 8, g <= (a + z - 1) \div 8
             PROVE  (8 * g) \div b = t
  BY DEF Within, Mine, TagSet
<1>3. g \in Nat
  BY HierarchyAssumption
<1> HIDE DEF t
<1>4. t * b = 8 * (t * k) /\ t * k \in Nat
  BY <1>1, <1>2, TimesNat
<1>5. t * b <= 8 * g /\ 8 * g < t * b + b
  <2> DEFINE p == t * k
  <2> HIDE DEF p
  <2>1. 8 * p <= a /\ a + z <= 8 * p + 8 * k /\ p \in Nat
    BY <1>1, <1>2, <1>4 DEF p
  <2>2. p <= g /\ g <= p + k - 1
    BY <2>1, <1>1, <1>3
  <2> QED
    BY <2>1, <2>2, <1>1, <1>3, <1>4 DEF p
<1> QED
  <2>1. b \in Nat \ {0} /\ 8 * g \in Nat
    BY <1>1, <1>3
  <2> QED
    BY <1>2, <1>5, <2>1, DivUnique

\* The accesses of the simulators: four or eight bytes, aligned.
LEMMA NoSpan ==
    ASSUME Valid, NEW n \in Made, NEW a \in Nat, NEW z \in {4, 8},
           a % z = 0
    PROVE  ~Spans(n, a, z)
<1> DEFINE t == TagSet(n, a)
           b == Opt(n).bsize
<1>1. PICK k \in Nat \ {0} : b = 8 * k
  BY Sizes
<1>2. t \in Nat /\ t * b <= a /\ a < t * b + b
  BY Split DEF CACHE_BADDR
<1> HIDE DEF t
<1>4. t * b = 8 * (t * k) /\ t * k \in Nat
  BY <1>1, <1>2, TimesNat
<1>5. a + z <= t * b + b
  <2> DEFINE p == t * k
  <2> HIDE DEF p
  <2>1. 8 * p <= a /\ a < 8 * p + 8 * k /\ p \in Nat
    BY <1>1, <1>2, <1>4 DEF p
  <2>2. a + z <= 8 * p + 8 * k
    BY <2>1, <1>1
  <2> QED
    BY <2>1, <2>2, <1>1, <1>4 DEF p
<1> QED
  <2>1. Opt(n).bsize = b /\ CACHE_BADDR(n, a) = t * b
    BY DEF t, CACHE_BADDR
  <2>2. t * b \in Nat
    BY <1>4
  <2> QED
    BY <1>1, <1>5, <2>1, <2>2 DEF Spans

LEMMA OneGranule ==
    ASSUME NEW g \in Granules, NEW z \in {4, 8}
    PROVE  Within(8 * g, z) = {g} /\ 8 * g \in Nat /\ (8 * g) % z = 0
<1>1. g \in Nat /\ Granules \subseteq Nat
  BY HierarchyAssumption
<1>2. (8 * g) \div 8 = g /\ (8 * g + z - 1) \div 8 = g /\ (8 * g) % z = 0
  BY <1>1
<1>3. \A h \in Granules : h >= g /\ h <= g <=> h = g
  BY <1>1
<1>4. Within(8 * g, z) = {h \in Granules : h >= g /\ h <= g}
  BY <1>2 DEF Within
<1>5. Within(8 * g, z) = {g}
  BY <1>3, <1>4
<1> QED
  BY <1>1, <1>2, <1>5

LEMMA Compressed ==
    ASSUME NEW pc \in PCs
    PROVE  /\ IACOMPRESS(pc) \in Nat /\ IACOMPRESS(pc) >= ld_text_base
           /\ ISCOMPRESS \in {4, 8} /\ IACOMPRESS(pc) % ISCOMPRESS = 0
<1>1. pc \in Nat /\ ld_text_base \in Nat /\ pc % 8 = 0 /\ ld_text_base % 8 = 0
      /\ pc >= ld_text_base
  BY HierarchyAssumption, AddressAssumption
<1> QED
  BY <1>1 DEF IACOMPRESS, ISCOMPRESS

-----------------------------------------------------------------------------
(* Two levels *)

\* The blocks of the cache are larger than those behind it: no access gets through.
Blocked(n) == Behind(n) # NULL /\ Opt(n).bsize > Opt(Behind(n)).bsize

\* The address is not in the first block of the cache, nor of the one behind.
Far(n, a) == /\ a >= Opt(n).bsize
             /\ Behind(n) # NULL => a >= Opt(Behind(n)).bsize

LEMMA AllFar ==
    ASSUME Valid, NEW n \in Made,
           NEW a \in Nat, a \in {8 * g : g \in Granules} \/ a >= ld_text_base
    PROVE  Far(n, a)
<1>1. ASSUME NEW m \in Made PROVE a >= Opt(m).bsize
  <2>1. Opt(m) \in {o.cache_dl1_opt, o.cache_dl2_opt, o.cache_il1_opt, o.cache_il2_opt,
                    o.itlb_opt, o.dtlb_opt}
    BY Geometry, <1>1 DEF Opt, Names
  <2>2. Opt(m).kind = "cache" /\ Opt(m).bsize \in Nat
    BY Geometry, Sizes, <1>1
  <2>3. \A x \in {8 * g : g \in Granules} \cup {ld_text_base} : x >= Opt(m).bsize
    BY <2>1, <2>2, AddressAssumption DEF Valid, Checked
  <2>4. ld_text_base \in Nat
    BY HierarchyAssumption
  <2> QED
    BY <2>2, <2>3, <2>4
<1> QED
  BY <1>1, SecondLevel DEF Far

\* A block is inside one block of the level behind.
LEMMA LevelBelow ==
    ASSUME Valid, NEW n \in Made, Behind(n) # NULL, ~Blocked(n),
           NEW a \in Nat
    PROVE  /\ ~Spans(Behind(n), CACHE_BADDR(n, a), Opt(n).bsize)
           /\ a >= Opt(Behind(n)).bsize => CACHE_BADDR(n, a) >= Opt(Behind(n)).bsize
           /\ \A g \in Mine(n, TagSet(n, a)) :
                  TagSet(Behind(n), 8 * g) = TagSet(Behind(n), CACHE_BADDR(n, a))
<1> DEFINE m == Behind(n)
           b == Opt(n).bsize
           B == Opt(m).bsize
           d == CACHE_BADDR(n, a)
<1>1. m \in Made
  BY SecondLevel
<1>2. b \in Nat \ {0} /\ B \in Nat \ {0} /\ b <= B /\ d \in Nat
  BY <1>1, Sizes, Split DEF Blocked
<1>3. PICK k \in Nat \ {0} : B = k * b
  BY <1>1, <1>2, Geometry, PowersDivide
<1>4. d = (a \div b) * b /\ CACHE_BADDR(m, d) = (d \div B) * B
  BY DEF CACHE_BADDR, TagSet
<1>5. /\ d \div B = a \div B /\ (a \div B) * B <= d
      /\ d + b <= (a \div B) * B + B
  <2>1. /\ ((a \div b) * b) \div (k * b) = a \div (k * b)
        /\ (a \div (k * b)) * (k * b) <= (a \div b) * b
        /\ (a \div b) * b + b <= (a \div (k * b)) * (k * b) + k * b
    BY <1>2, DivNested, Zenon
  <2> HIDE DEF b, B, d
  <2> QED
    BY <1>3, <1>4, <2>1
<1>6. d % b = 0
  <2>1. a \div b \in Nat /\ 0 \in Nat /\ 0 < b
    BY <1>2, DivIs
  <2>2. ((a \div b) * b + 0) % b = 0
    BY <1>2, <2>1, DivTimes
  <2>3. (a \div b) * b + 0 = (a \div b) * b
    BY <1>2, <1>4
  <2> QED
    BY <1>4, <2>2, <2>3
<1>7. ~Spans(m, d, b)
  <2>1. (a \div B) * B \in Nat
    BY <1>2, DivIs, TimesNat
  <2>2. d + b <= CACHE_BADDR(m, d) + Opt(m).bsize
    BY <1>4, <1>5
  <2>3. CACHE_BADDR(m, d) \in Nat
    BY <1>4, <1>5, <2>1
  <2> HIDE DEF d, m, b
  <2> QED
    BY <1>2, <1>6, <2>2, <2>3 DEF Spans, m
<1>8. a >= B => d >= B
  <2> SUFFICES ASSUME a >= B PROVE d >= B
    OBVIOUS
  <2>1. a \div B \in Nat /\ a < (a \div B) * B + B
    BY <1>2, DivIs
  <2>2. a \div B # 0
    BY <1>2, <2>1
  <2>3. 1 * B <= (a \div B) * B
    BY <1>2, <2>1, <2>2, TimesUp
  <2> HIDE DEF d
  <2> QED
    BY <1>2, <1>5, <2>1, <2>3, TimesNat
<1>9. ASSUME NEW g \in Mine(n, TagSet(n, a)) PROVE TagSet(m, 8 * g) = TagSet(m, d)
  <2>1. g \in Within(d, b)
    BY <1>9, WithinBlock, Split DEF CACHE_BADDR
  <2>2. Within(d, b) \subseteq Mine(m, TagSet(m, d))
    BY <1>1, <1>2, <1>7, WithinOne
  <2> QED
    BY <2>1, <2>2 DEF Mine
<1> QED
  BY <1>7, <1>8, <1>9

LEMMA LevelBlocked ==
    ASSUME Valid, NEW n \in Made, Blocked(n), NEW a \in Nat
    PROVE  Spans(Behind(n), CACHE_BADDR(n, a), Opt(n).bsize)
<1> DEFINE m == Behind(n)
           d == CACHE_BADDR(n, a)
<1>1. m \in Made
  BY SecondLevel DEF Blocked
<1>2. d \in Nat
  BY Split
<1>3. CACHE_BADDR(m, d) \in Nat /\ CACHE_BADDR(m, d) <= d
  BY <1>1, <1>2, Split
<1>4. Opt(n).bsize \in Nat /\ Opt(m).bsize \in Nat
  BY <1>1, Sizes
<1> QED
  BY <1>2, <1>3, <1>4 DEF Spans, Blocked

LEMMA FarBaddr ==
    ASSUME Valid, NEW n \in Made, ~Blocked(n), NEW a \in Nat, Far(n, a)
    PROVE  Far(n, CACHE_BADDR(n, a))
<1> DEFINE b == Opt(n).bsize
           t == TagSet(n, a)
<1>1. t \in Nat /\ t # 0 /\ b \in Nat \ {0} /\ CACHE_BADDR(n, a) = t * b
  BY Split, Sizes DEF Far, CACHE_BADDR
<1>2. 1 * b <= t * b
  <2> HIDE DEF t, b
  <2> QED
    BY <1>1, TimesUp
<1>3. CACHE_BADDR(n, a) >= b
  <2> HIDE DEF t, b
  <2> QED
    BY <1>1, <1>2
<1>4. Behind(n) # NULL => CACHE_BADDR(n, a) >= Opt(Behind(n)).bsize
  BY LevelBelow DEF Far
<1> QED
  BY <1>3, <1>4 DEF Far

-----------------------------------------------------------------------------
(* States *)

Partial == UNION {[S -> Values] : S \in SUBSET Granules}
BlockT  == [tag : Nat, valid : BOOLEAN, dirty : BOOLEAN, ready : Nat, data : Partial]
CacheT(n) ==
    [blk : [Sets(n) -> [Ways(n) -> BlockT]], order : [Sets(n) -> [Ways(n) -> Ways(n)]],
     last_tagset : Nat, last_blk : Nat, bus_free : Nat]
Messages == {"", "access spans block", "writes to instruction memory"}
Typed(h) ==
    /\ h \in [c : [Made -> UNION {CacheT(n) : n \in Made}], mem : [Granules -> Values],
              rand : Rands, owed : [{"dl2", "il2"} -> Int], bad : Messages]
    /\ \A n \in Made : h.c[n] \in CacheT(n)

\* The block of a way, its granules and their data, the block that hit last, and the
\* ways in which an address is found.
Blk(h, n, s, w) == h.c[n].blk[s][w]
Has(b)        == DOMAIN b.data
Datum(b, g)   == b.data[g]
Ord(h, n, s)  == h.c[n].order[s]
LastTag(h, n) == h.c[n].last_tagset
LastBlk(h, n) == h.c[n].last_blk
In(h, n, a)   == Found(h.c[n], n, a)

LEMMA InIs ==
    ASSUME NEW h, NEW n, NEW a
    PROVE  /\ In(h, n, a) \subseteq Ways(n)
           /\ \A w \in Ways(n) : w \in In(h, n, a) <=>
                 /\ Blk(h, n, CACHE_SET(n, a), w).valid
                 /\ Blk(h, n, CACHE_SET(n, a), w).tag = CACHE_TAG(n, a)
  BY DEF In, Found, Blk

\* h and h2 differ in the cache n alone.
OnlyIn(n, h, h2) ==
    /\ h2.mem = h.mem /\ h2.owed = h.owed /\ h2.bad = h.bad
    /\ \A m \in Made \ {n} : h2.c[m] = h.c[m]

Put(h, n, c) == [h EXCEPT !.c[n] = c]
PutBlk(h, n, s, w, b) == [h EXCEPT !.c[n].blk[s][w] = b]

LEMMA PutCache ==
    ASSUME NEW h, Typed(h), NEW n \in Made, NEW c \in CacheT(n),
           NEW h2, h2 = Put(h, n, c)
    PROVE  Typed(h2) /\ OnlyIn(n, h, h2) /\ h2.c[n] = c
  BY DEF Typed, OnlyIn, Put

LEMMA PutBlock ==
    ASSUME NEW h, Typed(h), NEW n \in Made, NEW s \in Sets(n), NEW w \in Ways(n),
           NEW b \in BlockT, NEW h2, h2 = PutBlk(h, n, s, w, b)
    PROVE  /\ Typed(h2) /\ OnlyIn(n, h, h2)
           /\ LastTag(h2, n) = LastTag(h, n) /\ LastBlk(h2, n) = LastBlk(h, n)
           /\ \A q \in Sets(n) : Ord(h2, n, q) = Ord(h, n, q)
           /\ \A q \in Sets(n), x \in Ways(n) :
                 Blk(h2, n, q, x) = IF q = s /\ x = w THEN b ELSE Blk(h, n, q, x)
<1> DEFINE c == h.c[n]
           c2 == [c EXCEPT !.blk[s][w] = b]
<1>1. c \in CacheT(n)
  BY DEF Typed
<1>2. PutBlk(h, n, s, w, b) = Put(h, n, c2)
  BY DEF PutBlk, Put
<1> HIDE DEF c
<1>3. c2 \in CacheT(n)
  BY <1>1 DEF CacheT
<1>4. /\ c2.order = c.order /\ c2.bus_free = c.bus_free
      /\ c2.last_tagset = c.last_tagset /\ c2.last_blk = c.last_blk
      /\ \A s2 \in Sets(n), w2 \in Ways(n) :
            c2.blk[s2][w2] = IF s2 = s /\ w2 = w THEN b ELSE c.blk[s2][w2]
  BY <1>1 DEF CacheT
<1> HIDE DEF c2
<1>5. Typed(h2) /\ OnlyIn(n, h, h2) /\ h2.c[n] = c2
  <2>1. h2 = Put(h, n, c2)
    BY <1>2
  <2> QED
    BY <1>3, <2>1, PutCache
<1> QED
  BY <1>4, <1>5 DEF c, Blk, LastTag, LastBlk, Ord

-----------------------------------------------------------------------------
(* Sound states *)

Datas == {"dl1", "dl2"}

\* One cache: every way is in the list of its set, the block that hit last is there, a
\* tag is in one way, and a valid block holds the granules of its address.  Instructions
\* are never dirty.
ListsWays(h, n) ==
    \A s \in Sets(n), w \in Ways(n) : \E i \in Ways(n) : Ord(h, n, s)[i] = w
LastIsThere(h, n) ==
    LastTag(h, n) # 0 =>
        LET b == Blk(h, n, LastTag(h, n) % Opt(n).nsets, LastBlk(h, n))
        IN  LastBlk(h, n) \in Ways(n) /\ b.valid /\ b.tag = LastTag(h, n) \div Opt(n).nsets
OneWay(h, n) ==
    \A s \in Sets(n), w, x \in Ways(n) :
        /\ Blk(h, n, s, w).valid /\ Blk(h, n, s, x).valid
        /\ Blk(h, n, s, w).tag = Blk(h, n, s, x).tag
        => w = x
BlockOk(n, s, b) ==
    /\ b.valid => /\ Has(b) = Mine(n, b.tag * Opt(n).nsets + s)
                  /\ Far(n, CACHE_MK_BADDR(n, b.tag, s)) /\ ~Blocked(n)
                  /\ n \in {"il1", "il2"} => ~b.dirty
    /\ ~Timed => b.ready = 0
BlocksOk(h, n) == \A s \in Sets(n), w \in Ways(n) : BlockOk(n, s, Blk(h, n, s, w))
Shaped(h, n) == ListsWays(h, n) /\ LastIsThere(h, n) /\ OneWay(h, n) /\ BlocksOk(h, n)

Sane(h) == Typed(h) /\ \A n \in Made : Shaped(h, n)

\* The value of a granule in a cache that has it, in the cache or what is behind it, and
\* behind it.
Value(h, n, g) ==
    LET w == CHOOSE x \in In(h, n, 8 * g) : TRUE
    IN  Datum(Blk(h, n, CACHE_SET(n, 8 * g), w), g)
Second(h, n, g) == IF In(h, n, 8 * g) # {} THEN Value(h, n, g) ELSE h.mem[g]
Under(h, n, g) == IF Behind(n) = NULL THEN h.mem[g] ELSE Second(h, Behind(n), g)
Top(h, n, g) ==
    IF In(h, n, 8 * g) # {} THEN Value(h, n, g) ELSE Under(h, n, g)

\* A clean block holds what is behind it.
Kept(h, n) ==
    n \in Datas => \A s \in Sets(n), w \in Ways(n) :
        LET b == Blk(h, n, s, w)
        IN  b.valid /\ ~b.dirty => \A g \in Has(b) : Datum(b, g) = Under(h, n, g)

Good(h) == Sane(h) /\ \A n \in Made : Kept(h, n)

LEMMA TypedBlock ==
    ASSUME NEW h, Typed(h), NEW n \in Made, NEW s \in Sets(n), NEW w \in Ways(n)
    PROVE  h.c[n] \in CacheT(n) /\ Blk(h, n, s, w) \in BlockT
  BY DEF Typed, CacheT, Blk

LEMMA PartialFun ==
    ASSUME NEW f \in Partial
    PROVE  DOMAIN f \subseteq Granules /\ f \in [DOMAIN f -> Values]
  BY DEF Partial

LEMMA Fields ==
    ASSUME NEW b \in BlockT
    PROVE  /\ b.tag \in Nat /\ b.valid \in BOOLEAN /\ b.dirty \in BOOLEAN /\ b.ready \in Nat
           /\ b.data \in Partial /\ Has(b) \subseteq Granules
           /\ \A g \in Has(b) : Datum(b, g) \in Values
<1>1. /\ b.tag \in Nat /\ b.valid \in BOOLEAN /\ b.dirty \in BOOLEAN /\ b.ready \in Nat
      /\ b.data \in Partial
  BY DEF BlockT
<1>2. DOMAIN b.data \subseteq Granules /\ b.data \in [DOMAIN b.data -> Values]
  BY <1>1, PartialFun
<1> QED
  BY <1>1, <1>2 DEF Has, Datum

LEMMA SaneBlock ==
    ASSUME NEW h, Sane(h), NEW n \in Made, NEW s \in Sets(n), NEW w \in Ways(n)
    PROVE  Blk(h, n, s, w) \in BlockT /\ BlockOk(n, s, Blk(h, n, s, w))
  BY TypedBlock DEF Sane, Shaped, BlocksOk

LEMMA EightNat ==
    ASSUME NEW g \in Granules
    PROVE  g \in Nat /\ 8 * g \in Nat
<1>1. g \in Nat
  BY HierarchyAssumption
<1> QED
  BY <1>1

\* A valid block has a granule if and only if its set and tag are those of the granule.
LEMMA HasGranule ==
    ASSUME Valid, NEW n \in Made, NEW s \in Sets(n), NEW b \in BlockT,
           BlockOk(n, s, b), b.valid, NEW g \in Granules
    PROVE  g \in Has(b) <=> CACHE_SET(n, 8 * g) = s /\ CACHE_TAG(n, 8 * g) = b.tag
<1>1. b.tag \in Nat /\ 8 * g \in Nat
  BY EightNat DEF BlockT
<1>2. g \in Has(b) <=> TagSet(n, 8 * g) = b.tag * Opt(n).nsets + s
  BY DEF BlockOk, Mine
<1>3. /\ (b.tag * Opt(n).nsets + s) \div Opt(n).nsets = b.tag
      /\ (b.tag * Opt(n).nsets + s) % Opt(n).nsets = s
  BY <1>1, AddressMade
<1>4. CACHE_TAG(n, 8 * g) * Opt(n).nsets + CACHE_SET(n, 8 * g) = TagSet(n, 8 * g)
  BY <1>1, Split
<1> QED
  BY <1>2, <1>3, <1>4 DEF CACHE_SET, CACHE_TAG

\* The ways in which a block is found are at most one, and it has the granule.
LEMMA FoundOne ==
    ASSUME Valid, NEW h, Sane(h), NEW n \in Made, NEW a \in Nat,
           NEW w \in In(h, n, a)
    PROVE  /\ w \in Ways(n) /\ CACHE_SET(n, a) \in Sets(n)
           /\ In(h, n, a) = {w}
           /\ Blk(h, n, CACHE_SET(n, a), w).valid
           /\ Blk(h, n, CACHE_SET(n, a), w).tag = CACHE_TAG(n, a)
           /\ Has(Blk(h, n, CACHE_SET(n, a), w)) = Mine(n, TagSet(n, a))
           /\ ~Blocked(n)
<1>1. CACHE_SET(n, a) \in Sets(n)
  BY Split
<1>2. /\ w \in Ways(n) /\ Blk(h, n, CACHE_SET(n, a), w).valid
      /\ Blk(h, n, CACHE_SET(n, a), w).tag = CACHE_TAG(n, a)
  BY InIs
<1>3. \A x \in In(h, n, a) : x = w
  BY <1>1, <1>2, InIs DEF Sane, Shaped, OneWay
<1>4. CACHE_TAG(n, a) * Opt(n).nsets + CACHE_SET(n, a) = TagSet(n, a)
  BY Split
<1> QED
  BY <1>1, <1>2, <1>3, <1>4, SaneBlock DEF BlockOk

LEMMA ValueIs ==
    ASSUME Valid, NEW h, Sane(h), NEW n \in Made, NEW g \in Granules,
           NEW w \in In(h, n, 8 * g)
    PROVE  /\ Value(h, n, g) = Datum(Blk(h, n, CACHE_SET(n, 8 * g), w), g)
           /\ g \in Has(Blk(h, n, CACHE_SET(n, 8 * g), w))
<1>1. 8 * g \in Nat
  BY EightNat
<1>2. In(h, n, 8 * g) = {w}
      /\ Has(Blk(h, n, CACHE_SET(n, 8 * g), w)) = Mine(n, TagSet(n, 8 * g))
  BY <1>1, FoundOne
<1>3. (CHOOSE x \in In(h, n, 8 * g) : TRUE) = w
  BY <1>2
<1> QED
  BY <1>2, <1>3 DEF Value, Mine

\* A valid block is found by each of its granules.
LEMMA FoundByGranule ==
    ASSUME Valid, NEW h, Sane(h), NEW n \in Made,
           NEW s \in Sets(n), NEW w \in Ways(n), Blk(h, n, s, w).valid,
           NEW g \in Has(Blk(h, n, s, w))
    PROVE  /\ g \in Granules /\ CACHE_SET(n, 8 * g) = s
           /\ In(h, n, 8 * g) = {w}
           /\ Value(h, n, g) = Datum(Blk(h, n, s, w), g)
           /\ Top(h, n, g) = Datum(Blk(h, n, s, w), g)
<1> DEFINE b == Blk(h, n, s, w)
<1>1. b \in BlockT /\ BlockOk(n, s, b)
  BY SaneBlock
<1>2. g \in Granules /\ 8 * g \in Nat
  BY <1>1, Fields, EightNat
<1>3. CACHE_SET(n, 8 * g) = s /\ CACHE_TAG(n, 8 * g) = b.tag
  BY <1>1, <1>2, HasGranule
<1>4. w \in In(h, n, 8 * g)
  BY <1>3, InIs
<1>5. In(h, n, 8 * g) = {w}
  BY <1>2, <1>4, FoundOne
<1>6. Value(h, n, g) = Datum(b, g)
  BY <1>2, <1>3, <1>4, ValueIs
<1> QED
  BY <1>2, <1>3, <1>5, <1>6 DEF Top

\* The values depend on the blocks and the memory alone.
LEMMA SameValues ==
    ASSUME NEW h, NEW h2, h2.mem = h.mem, Valid,
           \A m \in Made : h2.c[m].blk = h.c[m].blk, NEW n \in Made
    PROVE  /\ \A g : Under(h2, n, g) = Under(h, n, g) /\ Top(h2, n, g) = Top(h, n, g)
           /\ \A a : In(h2, n, a) = In(h, n, a)
           /\ Kept(h, n) => Kept(h2, n)
<1>1. \A m \in Made : \A a : In(h2, m, a) = In(h, m, a)
  BY DEF Found, In
<1>0. \A m, s, w : m \in Made => Blk(h2, m, s, w) = Blk(h, m, s, w)
  BY DEF Blk
<1>2. \A m \in Made : \A g : Value(h2, m, g) = Value(h, m, g)
  BY <1>0, <1>1 DEF Value
<1>3. \A m \in Made : \A g : Second(h2, m, g) = Second(h, m, g)
  BY <1>1, <1>2 DEF Second
<1>4. \A g : Under(h2, n, g) = Under(h, n, g)
  BY <1>3, SecondLevel DEF Under
<1>5. \A g : Top(h2, n, g) = Top(h, n, g)
  BY <1>1, <1>2, <1>4 DEF Top
<1> QED
  BY <1>0, <1>1, <1>4, <1>5 DEF Kept

-----------------------------------------------------------------------------
(* What an access does *)

\* An access a cache is asked for: inside one block, and instructions are only read.
Asks(n, cmd, a, z, d, t) ==
    /\ cmd \in {"Read", "Write"} /\ a \in Nat /\ z \in Nat \ {0}
    /\ ~Spans(n, a, z) /\ Far(n, a) /\ ~Blocked(n)
    /\ Timed => t \in Nat
    /\ cmd = "Write" => /\ n \notin {"il1", "il2"} /\ d \in Partial
                        /\ DOMAIN d \subseteq Within(a, z)
                        /\ n \in Datas => DOMAIN d = Within(a, z)

\* The cache and what is behind it are one memory, the data that is read is in it, and
\* instructions change none of it.
Coherent(h, h2, e, n, cmd, a, z, d) ==
    /\ n \in Datas =>
        /\ \A g \in Granules : Top(h2, n, g) =
                IF cmd = "Write" /\ g \in Within(a, z) THEN d[g] ELSE Top(h, n, g)
        /\ \A g \in Within(a, z) : e[g] = Top(h2, n, g)
    /\ n \notin Datas =>
        /\ Behind(n) \notin Datas => h2.mem = h.mem
        /\ Behind(n) \in Datas => \A g \in Granules : Under(h2, n, g) = Under(h, n, g)

\* A block that is new in the cache is not there before the block it is a part of.
NotBefore(n, h, a, b) ==
    \A x \in In(h, n, a) : b.ready >= Blk(h, n, CACHE_SET(n, a), x).ready
Fresh(h, h2, n) ==
    Behind(n) # NULL => \A s \in Sets(n), w \in Ways(n) :
        LET old == Blk(h, n, s, w)
            new == Blk(h2, n, s, w)
        IN  new.valid /\ <<old.tag, old.valid>> # <<new.tag, TRUE>> =>
                NotBefore(Behind(n), h2, CACHE_MK_BADDR(n, new.tag, s), new)

Did(h, h2, lat, e, n, cmd, a, z, d, t) ==
    /\ Sane(h2) /\ h2.bad = h.bad /\ h2.owed = h.owed
    /\ \A m \in Made \ {n, Behind(n)} : h2.c[m] = h.c[m]
    /\ Kept(h2, n) /\ (Behind(n) # NULL => Kept(h2, Behind(n)))
    /\ e \in [Within(a, z) -> Values]
    /\ Coherent(h, h2, e, n, cmd, a, z, d)
    /\ Fresh(h, h2, n)
    /\ Timed => /\ lat \in Nat
                /\ \A x \in In(h2, n, a) :
                      t + lat >= Blk(h2, n, CACHE_SET(n, a), x).ready

\* The state an access begins in.
Ready(h, n) == Sane(h) /\ Kept(h, n) /\ (Behind(n) # NULL => Kept(h, Behind(n)))

LEMMA SameCache ==
    ASSUME NEW h, NEW h2, NEW n, h2.c[n] = h.c[n]
    PROVE  /\ \A s, w : Blk(h2, n, s, w) = Blk(h, n, s, w)
           /\ \A a : In(h2, n, a) = In(h, n, a)
           /\ \A g : Value(h2, n, g) = Value(h, n, g)
           /\ Shaped(h2, n) <=> Shaped(h, n)
<1>1. \A s, w : Blk(h2, n, s, w) = Blk(h, n, s, w)
  BY DEF Blk
<1>2. \A a : In(h2, n, a) = In(h, n, a)
  BY DEF In
<1>3. \A g : Value(h2, n, g) = Value(h, n, g)
  <2> SUFFICES ASSUME NEW g PROVE Value(h2, n, g) = Value(h, n, g)
    OBVIOUS
  <2>1. In(h2, n, 8 * g) = In(h, n, 8 * g)
    BY <1>2
  <2> QED
    BY <1>1, <2>1, Zenon DEF Value
<1>4. LastTag(h2, n) = LastTag(h, n) /\ LastBlk(h2, n) = LastBlk(h, n)
      /\ \A s : Ord(h2, n, s) = Ord(h, n, s)
  BY DEF LastTag, LastBlk, Ord
<1>5. Shaped(h2, n) <=> Shaped(h, n)
  <2>1. ListsWays(h2, n) <=> ListsWays(h, n)
    BY <1>4 DEF ListsWays
  <2>2. LastIsThere(h2, n) <=> LastIsThere(h, n)
    BY <1>1, <1>4 DEF LastIsThere
  <2>3. OneWay(h2, n) <=> OneWay(h, n)
    BY <1>1 DEF OneWay
  <2>4. BlocksOk(h2, n) <=> BlocksOk(h, n)
    BY <1>1 DEF BlocksOk
  <2> QED
    BY <2>1, <2>2, <2>3, <2>4 DEF Shaped
<1> QED
  BY <1>1, <1>2, <1>3, <1>5

LEMMA Latencies ==
    ASSUME Valid, Timed, NEW n \in Made
    PROVE  /\ HitLatency(n) \in Nat /\ mem_access_latency(Opt(n).bsize) \in Nat
           /\ o.tlb_miss_lat \in Nat /\ o.ruu_branch_penalty \in Nat
           /\ o.cache_il1_lat \in Nat \ {0} /\ o.cache_dl1_lat \in Nat
<1>1. o \in Options
  BY HierarchyAssumption DEF Valid
<1>2. /\ {o.ruu_branch_penalty, o.cache_dl1_lat, o.cache_dl2_lat, o.cache_il1_lat,
          o.cache_il2_lat, o.tlb_miss_lat} \subseteq Int
      /\ o.mem_lat \in Seq(Int)
  BY <1>1, OptionAssumption DEF Timed
<1>3. LatenciesOk(o) /\ FrontEndOk(o)
  BY DEF Valid, Checked, Timed, sim_check_options
<1>4. o.mem_lat[1] \in Nat /\ o.mem_lat[2] \in Nat
  BY <1>2, <1>3 DEF LatenciesOk
<1>5. o.mem_bus_width \in Nat \ {0}
  BY <1>3, PowerNat DEF LatenciesOk
<1>6. mem_access_latency(Opt(n).bsize) \in Nat
  <2> DEFINE q == (Opt(n).bsize + (o.mem_bus_width - 1)) \div o.mem_bus_width
  <2>1. Opt(n).bsize \in Nat \ {0}
    BY Sizes
  <2>2. q \in Nat /\ q # 0
    <3> DEFINE p == Opt(n).bsize + (o.mem_bus_width - 1)
    <3>1. p \in Nat /\ p >= o.mem_bus_width
      BY <1>5, <2>1
    <3> HIDE DEF p
    <3>2. /\ p \div o.mem_bus_width \in Nat
          /\ p < (p \div o.mem_bus_width) * o.mem_bus_width + o.mem_bus_width
      BY <1>5, <3>1, DivIs
    <3> QED
      BY <1>5, <3>1, <3>2 DEF p
  <2> HIDE DEF q
  <2>3. o.mem_lat[2] * (q - 1) \in Nat
    <3> DEFINE l == o.mem_lat[2]
    <3>1. l \in Nat /\ q - 1 \in Nat
      BY <1>4, <2>2
    <3> HIDE DEF l
    <3>2. l * (q - 1) \in Nat
      BY <3>1, TimesNat
    <3> QED
      BY <3>2 DEF l
  <2> QED
    BY <1>4, <2>3 DEF mem_access_latency, q
<1>7. {o.cache_dl1_lat, o.cache_dl2_lat, o.cache_il1_lat, o.cache_il2_lat,
       o.tlb_miss_lat} \subseteq Nat \ {0}
  <2>1. /\ o.cache_dl1_lat >= 1 /\ o.cache_dl2_lat >= 1 /\ o.cache_il1_lat >= 1
        /\ o.cache_il2_lat >= 1 /\ o.tlb_miss_lat >= 1
    BY <1>3, Zenon DEF LatenciesOk
  <2>2. \A x \in Int : x >= 1 => x \in Nat \ {0}
    OBVIOUS
  <2> QED
    BY <1>2, <2>1, <2>2
<1>9. o.ruu_branch_penalty \in Nat
  <2>1. o.ruu_branch_penalty >= 1
    BY <1>3, SMT DEF FrontEndOk
  <2> QED
    BY <1>2, <2>1
<1>8. HitLatency(n) \in Nat
  <2>1. HitLatency(n) \in {o.cache_dl1_lat, o.cache_dl2_lat, o.cache_il1_lat,
                           o.cache_il2_lat, 1}
    BY DEF HitLatency
  <2> QED
    BY <1>7, <2>1
<1> QED
  BY <1>6, <1>7, <1>8, <1>9

\* The data of a block and what is written to it.
LEMMA WrittenIs ==
    ASSUME NEW d \in Partial, NEW e \in Partial
    PROVE  /\ Written(d, e) \in Partial /\ DOMAIN Written(d, e) = DOMAIN d \cup DOMAIN e
           /\ \A g \in DOMAIN d \cup DOMAIN e :
                 Written(d, e)[g] = IF g \in DOMAIN d THEN d[g] ELSE e[g]
<1> DEFINE S == DOMAIN d \cup DOMAIN e
<1>1. DOMAIN d \subseteq Granules /\ d \in [DOMAIN d -> Values]
      /\ DOMAIN e \subseteq Granules /\ e \in [DOMAIN e -> Values]
  BY PartialFun
<1>2. Written(d, e) \in [S -> Values] /\ S \in SUBSET Granules
  BY <1>1 DEF Written
<1>3. Written(d, e) \in Partial
  BY <1>2 DEF Partial
<1> QED
  BY <1>1, <1>3 DEF Written

LEMMA OfIs ==
    ASSUME NEW e \in Partial, NEW a, NEW z, Within(a, z) \subseteq DOMAIN e
    PROVE  /\ Of(e, a, z) \in [Within(a, z) -> Values]
           /\ \A g \in Within(a, z) : Of(e, a, z)[g] = e[g]
  BY PartialFun DEF Of

\* What is behind a cache does not change when only the cache does.
LEMMA OnlyUnder ==
    ASSUME Valid, NEW n \in Made, NEW h, NEW h2, OnlyIn(n, h, h2)
    PROVE  /\ \A g : Under(h2, n, g) = Under(h, n, g)
           /\ Behind(n) # NULL /\ Kept(h, Behind(n)) => Kept(h2, Behind(n))
<1>1. Behind(n) # NULL => Behind(n) \in Made \ {n} /\ Behind(Behind(n)) = NULL
  BY SecondLevel, Geometry DEF Names
<1>2. Behind(n) # NULL => h2.c[Behind(n)] = h.c[Behind(n)] /\ h2.mem = h.mem
  BY <1>1 DEF OnlyIn
<1>3. \A g : Under(h2, n, g) = Under(h, n, g)
  <2>1. CASE Behind(n) = NULL
    BY <2>1 DEF Under, OnlyIn
  <2>2. CASE Behind(n) # NULL
    <3>1. \A g : Second(h2, Behind(n), g) = Second(h, Behind(n), g)
      BY <1>2, <2>2, SameCache DEF Second
    <3> QED
      BY <2>2, <3>1 DEF Under
  <2> QED
    BY <2>1, <2>2
<1>4. Behind(n) # NULL => \A g : Under(h2, Behind(n), g) = Under(h, Behind(n), g)
  BY <1>1, <1>2 DEF Under, OnlyIn
<1>5. Behind(n) # NULL /\ Kept(h, Behind(n)) => Kept(h2, Behind(n))
  BY <1>2, <1>4, SameCache DEF Kept
<1> QED
  BY <1>3, <1>5

\* The latest block, the lists and one tag a way are about one cache.
LEMMA OnlyShaped ==
    ASSUME NEW n \in Made, NEW h, NEW h2, Sane(h), Typed(h2), OnlyIn(n, h, h2),
           Shaped(h2, n)
    PROVE  Sane(h2)
  BY SameCache DEF Sane, OnlyIn

-----------------------------------------------------------------------------
(* A hit *)

\* The block in the way w after a hit.
HitBlock(cmd, d, b) ==
    IF cmd = "Read" THEN b ELSE [b EXCEPT !.dirty = TRUE, !.data = Written(d, b.data)]

LEMMA HitBlockIs ==
    ASSUME NEW b \in BlockT, NEW cmd \in {"Read", "Write"}, NEW d,
           cmd = "Write" => d \in Partial /\ DOMAIN d \subseteq Has(b),
           NEW b2, b2 = HitBlock(cmd, d, b)
    PROVE  /\ b2 \in BlockT /\ b2.tag = b.tag /\ b2.valid = b.valid /\ b2.ready = b.ready
           /\ Has(b2) = Has(b)
           /\ b2.dirty = (cmd = "Write" \/ b.dirty)
           /\ \A g \in Has(b) :
                 Datum(b2, g) = IF cmd = "Write" /\ g \in DOMAIN d THEN d[g] ELSE Datum(b, g)
<1>1. CASE cmd = "Read"
  <2>1. b2 = b
    BY <1>1 DEF HitBlock
  <2> QED
    BY <1>1, <2>1, Fields
<1>2. CASE cmd = "Write"
  <2> DEFINE e == Written(d, b.data)
  <2>1. b2 = [b EXCEPT !.dirty = TRUE, !.data = e]
    BY <1>2 DEF HitBlock
  <2>2. b.data \in Partial
    BY Fields
  <2>3. /\ e \in Partial /\ DOMAIN e = Has(b)
        /\ \A g \in Has(b) : e[g] = IF g \in DOMAIN d THEN d[g] ELSE Datum(b, g)
    <3>1. d \in Partial /\ DOMAIN d \subseteq DOMAIN b.data
      BY <1>2 DEF Has
    <3>2. DOMAIN d \cup DOMAIN b.data = DOMAIN b.data
      BY <3>1
    <3>3. /\ Written(d, b.data) \in Partial
          /\ DOMAIN Written(d, b.data) = DOMAIN d \cup DOMAIN b.data
          /\ \A g \in DOMAIN d \cup DOMAIN b.data :
                Written(d, b.data)[g] = IF g \in DOMAIN d THEN d[g] ELSE b.data[g]
      <4> DEFINE y == b.data
      <4>1. y \in Partial /\ d \in Partial
        BY <2>2, <3>1
      <4> HIDE DEF y
      <4>2. /\ Written(d, y) \in Partial /\ DOMAIN Written(d, y) = DOMAIN d \cup DOMAIN y
            /\ \A g \in DOMAIN d \cup DOMAIN y :
                  Written(d, y)[g] = IF g \in DOMAIN d THEN d[g] ELSE y[g]
        BY <4>1, WrittenIs
      <4> QED
        BY <4>2, Zenon DEF y
    <3> QED
      BY <3>2, <3>3 DEF Has, Datum
  <2> HIDE DEF e
  <2>4. /\ b2 \in BlockT /\ b2.tag = b.tag /\ b2.valid = b.valid /\ b2.ready = b.ready
        /\ b2.dirty = TRUE /\ b2.data = e
    BY <2>1, <2>3 DEF BlockT
  <2> QED
    BY <1>2, <2>3, <2>4 DEF Has, Datum
<1> QED
  BY <1>1, <1>2

\* h2 is h after a hit on way w.
Hits(h, h2, n, cmd, a, d, w) ==
    /\ Typed(h2) /\ OnlyIn(n, h, h2) /\ ListsWays(h2, n)
    /\ LastTag(h2, n) = TagSet(n, a) /\ LastBlk(h2, n) = w
    /\ \A s \in Sets(n), x \in Ways(n) :
          Blk(h2, n, s, x) = IF s = CACHE_SET(n, a) /\ x = w
                             THEN HitBlock(cmd, d, Blk(h, n, s, x)) ELSE Blk(h, n, s, x)

LEMMA HitDid ==
    ASSUME Valid, NEW h, NEW n \in Made, Ready(h, n),
           NEW cmd, NEW a, NEW z, NEW d, NEW t, Asks(n, cmd, a, z, d, t),
           NEW w \in In(h, n, a), NEW h2, Hits(h, h2, n, cmd, a, d, w),
           NEW e, e = Of(Blk(h2, n, CACHE_SET(n, a), w).data, a, z),
           NEW lat, lat = Larger(HitLatency(n), Blk(h, n, CACHE_SET(n, a), w).ready - t)
    PROVE  Did(h, h2, lat, e, n, cmd, a, z, d, t)
<1> DEFINE s == CACHE_SET(n, a)
           b == Blk(h, n, s, w)
           b2 == Blk(h2, n, s, w)
           ts == TagSet(n, a)
<1>0. a \in Nat /\ cmd \in {"Read", "Write"} /\ Sane(h)
  BY DEF Asks, Ready
<1>1. /\ w \in Ways(n) /\ s \in Sets(n) /\ In(h, n, a) = {w}
      /\ b.valid /\ b.tag = CACHE_TAG(n, a) /\ Has(b) = Mine(n, ts)
  BY <1>0, FoundOne
<1>2. /\ b \in BlockT /\ b.tag \in Nat /\ b.valid \in BOOLEAN /\ b.dirty \in BOOLEAN
      /\ b.ready \in Nat
  BY <1>0, <1>1, SaneBlock, Fields
<1>3. Within(a, z) \subseteq Mine(n, ts)
  BY WithinOne DEF Asks
<1>4. /\ b2 \in BlockT /\ b2.tag = b.tag /\ b2.valid = b.valid /\ b2.ready = b.ready
      /\ Has(b2) = Has(b) /\ b2.dirty = (cmd = "Write" \/ b.dirty)
      /\ \A g \in Has(b) :
            Datum(b2, g) = IF cmd = "Write" /\ g \in DOMAIN d THEN d[g] ELSE Datum(b, g)
  <2>1. b2 = HitBlock(cmd, d, b)
    BY <1>1 DEF Hits
  <2>2. cmd = "Write" => d \in Partial /\ DOMAIN d \subseteq Has(b)
    BY <1>1, <1>3 DEF Asks
  <2> HIDE DEF b, b2
  <2> QED
    BY <1>0, <1>2, <2>1, <2>2, HitBlockIs
<1>5. \A q \in Sets(n), x \in Ways(n) :
         q # s \/ x # w => Blk(h2, n, q, x) = Blk(h, n, q, x)
  BY DEF Hits
<1>6. n \in {"il1", "il2"} => b2.dirty = b.dirty
  BY <1>0, <1>2, <1>4 DEF Asks
<1> HIDE DEF s, b, b2
<1>7. \A q \in Sets(n), x \in Ways(n) :
        /\ Blk(h2, n, q, x).tag = Blk(h, n, q, x).tag
        /\ Blk(h2, n, q, x).valid = Blk(h, n, q, x).valid
        /\ Blk(h2, n, q, x).ready = Blk(h, n, q, x).ready
        /\ Has(Blk(h2, n, q, x)) = Has(Blk(h, n, q, x))
        /\ n \in {"il1", "il2"} => Blk(h2, n, q, x).dirty = Blk(h, n, q, x).dirty
  <2> SUFFICES ASSUME NEW q \in Sets(n), NEW x \in Ways(n)
               PROVE  /\ Blk(h2, n, q, x).tag = Blk(h, n, q, x).tag
                      /\ Blk(h2, n, q, x).valid = Blk(h, n, q, x).valid
                      /\ Blk(h2, n, q, x).ready = Blk(h, n, q, x).ready
                      /\ Has(Blk(h2, n, q, x)) = Has(Blk(h, n, q, x))
                      /\ n \in {"il1", "il2"} =>
                            Blk(h2, n, q, x).dirty = Blk(h, n, q, x).dirty
    OBVIOUS
  <2>1. CASE q = s /\ x = w
    BY <1>4, <1>6, <2>1 DEF b, b2
  <2>2. CASE q # s \/ x # w
    BY <1>5, <2>2
  <2> QED
    BY <2>1, <2>2
<1>8. Typed(h2) /\ OnlyIn(n, h, h2) /\ ListsWays(h2, n)
      /\ LastTag(h2, n) = ts /\ LastBlk(h2, n) = w
  BY DEF Hits
<1>9. Shaped(h2, n)
  <2>1. LastIsThere(h2, n)
    BY <1>1, <1>4, <1>8 DEF LastIsThere, CACHE_SET, CACHE_TAG, s, b2
  <2>2. OneWay(h2, n)
    <3>1. OneWay(h, n)
      BY <1>0 DEF Sane, Shaped
    <3> SUFFICES ASSUME NEW q \in Sets(n), NEW x \in Ways(n), NEW y \in Ways(n),
                        Blk(h2, n, q, x).valid, Blk(h2, n, q, y).valid,
                        Blk(h2, n, q, x).tag = Blk(h2, n, q, y).tag
                 PROVE  x = y
      BY DEF OneWay
    <3>2. /\ Blk(h, n, q, x).valid /\ Blk(h, n, q, y).valid
          /\ Blk(h, n, q, x).tag = Blk(h, n, q, y).tag
      BY <1>7
    <3> QED
      BY <3>1, <3>2 DEF OneWay
  <2>3. BlocksOk(h2, n)
    <3> SUFFICES ASSUME NEW q \in Sets(n), NEW x \in Ways(n)
                 PROVE  BlockOk(n, q, Blk(h2, n, q, x))
      BY DEF BlocksOk
    <3>1. BlockOk(n, q, Blk(h, n, q, x))
      BY <1>0, SaneBlock
    <3>2. /\ Blk(h2, n, q, x).tag = Blk(h, n, q, x).tag
          /\ Blk(h2, n, q, x).valid = Blk(h, n, q, x).valid
          /\ Blk(h2, n, q, x).ready = Blk(h, n, q, x).ready
          /\ Has(Blk(h2, n, q, x)) = Has(Blk(h, n, q, x))
          /\ n \in {"il1", "il2"} => Blk(h2, n, q, x).dirty = Blk(h, n, q, x).dirty
      BY <1>7
    <3> QED
      BY <3>1, <3>2 DEF BlockOk
  <2> QED
    BY <1>8, <2>1, <2>2, <2>3 DEF Shaped
<1>10. Sane(h2)
  BY <1>0, <1>8, <1>9, OnlyShaped
<1>11. /\ \A g : Under(h2, n, g) = Under(h, n, g)
       /\ Behind(n) # NULL => Kept(h2, Behind(n))
  BY <1>8, OnlyUnder DEF Ready
<1>12. \A y \in Nat : In(h2, n, y) = In(h, n, y)
  <2> SUFFICES ASSUME NEW y \in Nat PROVE In(h2, n, y) = In(h, n, y)
    OBVIOUS
  <2>1. CACHE_SET(n, y) \in Sets(n)
    BY Split
  <2>2. \A x \in Ways(n) :
           /\ Blk(h2, n, CACHE_SET(n, y), x).tag = Blk(h, n, CACHE_SET(n, y), x).tag
           /\ Blk(h2, n, CACHE_SET(n, y), x).valid = Blk(h, n, CACHE_SET(n, y), x).valid
    BY <1>7, <2>1
  <2>3. \A x : x \in In(h2, n, y) <=> x \in In(h, n, y)
    BY <2>2, InIs
  <2> QED
    BY <2>3
<1>13. \A g \in Has(b) : /\ g \in Granules /\ CACHE_SET(n, 8 * g) = s
                         /\ Top(h2, n, g) = Datum(b2, g) /\ Top(h, n, g) = Datum(b, g)
  <2> SUFFICES ASSUME NEW g \in Has(b)
               PROVE  /\ g \in Granules /\ CACHE_SET(n, 8 * g) = s
                      /\ Top(h2, n, g) = Datum(b2, g) /\ Top(h, n, g) = Datum(b, g)
    OBVIOUS
  <2>1. g \in Granules /\ CACHE_SET(n, 8 * g) = s /\ Top(h, n, g) = Datum(b, g)
    BY <1>0, <1>1, FoundByGranule DEF b
  <2>2. g \in Has(b2) /\ b2.valid
    BY <1>1, <1>4
  <2>3. Top(h2, n, g) = Datum(b2, g)
    BY <1>1, <1>10, <2>2, FoundByGranule DEF b2
  <2> QED
    BY <2>1, <2>3
<1>14. e \in [Within(a, z) -> Values] /\ \A g \in Within(a, z) : e[g] = Top(h2, n, g)
  <2>1. b2.data \in Partial /\ Within(a, z) \subseteq DOMAIN b2.data
    BY <1>1, <1>3, <1>4, Fields DEF Has
  <2>2. e = Of(b2.data, a, z)
    BY DEF b2, s
  <2>3. e \in [Within(a, z) -> Values] /\ \A g \in Within(a, z) : e[g] = b2.data[g]
    BY <2>1, <2>2, OfIs
  <2>4. \A g \in Within(a, z) : b2.data[g] = Top(h2, n, g)
    BY <1>1, <1>3, <1>13 DEF Datum
  <2> QED
    BY <2>3, <2>4
<1>15. ASSUME n \in Datas, NEW g \in Granules
       PROVE  Top(h2, n, g) = IF cmd = "Write" /\ g \in Within(a, z) THEN d[g] ELSE Top(h, n, g)
  <2>0. 8 * g \in Nat
    BY EightNat
  <2>1. cmd = "Write" => DOMAIN d = Within(a, z)
    BY <1>15 DEF Asks
  <2>2. CASE g \in Has(b)
    BY <1>4, <1>13, <2>1, <2>2
  <2>3. CASE g \notin Has(b) /\ In(h, n, 8 * g) = {}
    <3>1. In(h2, n, 8 * g) = {} /\ g \notin Within(a, z)
      BY <1>1, <1>3, <1>12, <2>0, <2>3
    <3> QED
      BY <1>11, <2>3, <3>1 DEF Top
  <2>4. CASE g \notin Has(b) /\ In(h, n, 8 * g) # {}
    <3>1. PICK x \in In(h, n, 8 * g) : TRUE
      BY <2>4
    <3>2. x \in In(h2, n, 8 * g) /\ g \notin Within(a, z)
      BY <1>1, <1>3, <1>12, <2>0, <2>4
    <3> DEFINE q == CACHE_SET(n, 8 * g)
    <3>3. /\ Value(h, n, g) = Datum(Blk(h, n, q, x), g) /\ g \in Has(Blk(h, n, q, x))
          /\ Value(h2, n, g) = Datum(Blk(h2, n, q, x), g)
      BY <1>0, <1>10, <3>2, ValueIs
    <3>4. q \in Sets(n) /\ x \in Ways(n)
      BY <1>0, <2>0, FoundOne
    <3>5. q # s \/ x # w
      BY <2>4, <3>3 DEF b
    <3>6. Blk(h2, n, q, x) = Blk(h, n, q, x)
      BY <1>5, <3>4, <3>5
    <3> QED
      BY <3>1, <3>2, <3>3, <3>6 DEF Top
  <2> QED
    BY <2>2, <2>3, <2>4
<1>16. Kept(h2, n)
  <2> SUFFICES ASSUME n \in Datas, NEW q \in Sets(n), NEW x \in Ways(n),
                      Blk(h2, n, q, x).valid, ~Blk(h2, n, q, x).dirty,
                      NEW g \in Has(Blk(h2, n, q, x))
               PROVE  Datum(Blk(h2, n, q, x), g) = Under(h2, n, g)
    BY DEF Kept
  <2>1. /\ Blk(h, n, q, x).valid /\ g \in Has(Blk(h, n, q, x))
        /\ ~Blk(h, n, q, x).dirty
        /\ Datum(Blk(h2, n, q, x), g) = Datum(Blk(h, n, q, x), g)
    <3>1. CASE q = s /\ x = w
      <4>1. ~b2.dirty /\ g \in Has(b2)
        BY <3>1 DEF b2
      <4>2. ~b.dirty /\ cmd # "Write" /\ g \in Has(b)
        BY <1>2, <1>4, <4>1
      <4>3. Datum(b2, g) = Datum(b, g)
        BY <1>4, <4>2
      <4> QED
        BY <1>1, <3>1, <4>2, <4>3 DEF b, b2
    <3>2. CASE q # s \/ x # w
      BY <1>5, <3>2
    <3> QED
      BY <3>1, <3>2
  <2>2. Datum(Blk(h, n, q, x), g) = Under(h, n, g)
    BY <2>1 DEF Kept, Ready
  <2> QED
    BY <1>11, <2>1, <2>2
<1>17. Coherent(h, h2, e, n, cmd, a, z, d)
  BY <1>8, <1>11, <1>14, <1>15 DEF Coherent, OnlyIn
<1>18. Fresh(h, h2, n)
  BY <1>7 DEF Fresh
<1>19. ASSUME Timed
       PROVE  /\ lat \in Nat
              /\ \A x \in In(h2, n, a) : t + lat >= Blk(h2, n, CACHE_SET(n, a), x).ready
  <2>1. HitLatency(n) \in Nat /\ t \in Nat /\ b.ready \in Nat
    BY <1>2, <1>19, Latencies DEF Asks
  <2>2. lat = IF HitLatency(n) > b.ready - t THEN HitLatency(n) ELSE b.ready - t
    BY DEF b, s, Larger
  <2>3. \A x, y, u \in Nat :
          LET k == IF x > y - u THEN x ELSE y - u IN k \in Nat /\ u + k >= y
    OBVIOUS
  <2>4. lat \in Nat /\ t + lat >= b.ready
    BY <2>1, <2>2, <2>3
  <2>5. In(h2, n, a) = {w}
    BY <1>0, <1>1, <1>12
  <2> QED
    BY <1>4, <2>4, <2>5 DEF b2, s
<1>20. \A m \in Made \ {n, Behind(n)} : h2.c[m] = h.c[m]
  BY <1>8 DEF OnlyIn
<1>21. h2.bad = h.bad /\ h2.owed = h.owed
  BY <1>8 DEF OnlyIn
<1> QED
  BY <1>10, <1>11, <1>14, <1>16, <1>17, <1>18, <1>19, <1>20, <1>21 DEF Did

-----------------------------------------------------------------------------
(* A miss *)

\* h2 is h after an access of n to what is behind it, which wrote d to the granules W.
Beneath(h, h2, n, W, d) ==
    /\ Sane(h2) /\ h2.bad = h.bad
    /\ \A m \in Made \ {n, Behind(n)} : h2.c[m] = h.c[m]
    /\ \A s \in Sets(n), w \in Ways(n) : Blk(h2, n, s, w) = Blk(h, n, s, w)
    /\ Behind(n) # NULL => Kept(h2, Behind(n))
    /\ n \in Datas => \A g \in Granules :
          Under(h2, n, g) = IF g \in W THEN d[g] ELSE Under(h, n, g)
    /\ n \notin Datas =>
        /\ Behind(n) \notin Datas => h2.mem = h.mem
        /\ Behind(n) \in Datas => \A g \in Granules : Under(h2, n, g) = Under(h, n, g)

\* A block n asks for or writes back.
AsksBelow(n, cmd, B, d, t) ==
    /\ cmd \in {"Read", "Write"} /\ B \in Nat /\ CACHE_BADDR(n, B) = B
    /\ Far(n, B) /\ ~Blocked(n)
    /\ Timed => t \in Nat
    /\ cmd = "Write" => /\ n \notin {"il1", "il2"} /\ d \in Partial
                        /\ DOMAIN d = Within(B, Opt(n).bsize)

One(n, k) == IF k = n THEN 1 ELSE 0

DidBelow(h, h2, lat, e, n, cmd, B, d, t) ==
    /\ Beneath(h, h2, n, IF cmd = "Write" THEN DOMAIN d ELSE {}, d)
    /\ h2.c[n] = h.c[n]
    /\ \A k \in {"dl2", "il2"} : h2.owed[k] = h.owed[k] + One(Behind(n), k)
    /\ cmd = "Read" =>
        /\ e \in [Within(B, Opt(n).bsize) -> Values]
        /\ n \in Datas => \A g \in Within(B, Opt(n).bsize) : e[g] = Under(h2, n, g)
    /\ Timed =>
        /\ lat \in Nat
        /\ cmd = "Read" /\ Behind(n) # NULL =>
              \A x \in In(h2, Behind(n), B) :
                t + lat >= Blk(h2, Behind(n), CACHE_SET(Behind(n), B), x).ready

\* The granules that are written back when the block b is replaced.
WrittenBack(b) == IF b.valid /\ b.dirty THEN Has(b) ELSE {}

\* The block a miss brings in.
NewBlock(n, cmd, a, d, t, lat, new) ==
    [tag |-> CACHE_TAG(n, a), valid |-> TRUE, dirty |-> cmd = "Write",
     ready |-> IF Timed THEN t + lat ELSE 0,
     data |-> IF cmd = "Write" THEN Written(d, new) ELSE new]

IsNew(b, n, cmd, a, d, t, lat, new) ==
    /\ b \in BlockT /\ BlockOk(n, CACHE_SET(n, a), b) /\ b.valid
    /\ b.tag = CACHE_TAG(n, a) /\ b.dirty = (cmd = "Write")
    /\ b.ready = IF Timed THEN t + lat ELSE 0
    /\ Has(b) = Mine(n, TagSet(n, a))
    /\ \A g \in Mine(n, TagSet(n, a)) :
          Datum(b, g) = IF cmd = "Write" /\ g \in DOMAIN d THEN d[g] ELSE new[g]

LEMMA NewBlockIs ==
    ASSUME Valid, NEW n \in Made, NEW cmd, NEW a, NEW z, NEW d, NEW t,
           Asks(n, cmd, a, z, d, t), NEW lat, Timed => lat \in Nat,
           NEW new \in [Within(CACHE_BADDR(n, a), Opt(n).bsize) -> Values],
           NEW b, b = NewBlock(n, cmd, a, d, t, lat, new)
    PROVE  IsNew(b, n, cmd, a, d, t, lat, new)
<1> DEFINE S == Mine(n, TagSet(n, a))
<1>1. /\ TagSet(n, a) \in Nat /\ CACHE_TAG(n, a) \in Nat
      /\ CACHE_TAG(n, a) * Opt(n).nsets + CACHE_SET(n, a) = TagSet(n, a)
      /\ CACHE_MK_BADDR(n, CACHE_TAG(n, a), CACHE_SET(n, a)) = CACHE_BADDR(n, a)
  BY Split DEF Asks
<1>2. Within(CACHE_BADDR(n, a), Opt(n).bsize) = S
  BY <1>1, WithinBlock DEF CACHE_BADDR
<1>3. S \in SUBSET Granules
  BY DEF Mine
<1>4. new \in Partial /\ DOMAIN new = S
  BY <1>2, <1>3 DEF Partial
<1>5. cmd = "Write" => d \in Partial /\ DOMAIN d \subseteq S
  BY WithinOne DEF Asks
<1>6. Far(n, CACHE_BADDR(n, a)) /\ ~Blocked(n)
  BY FarBaddr DEF Asks
<1> HIDE DEF S
<1>7. /\ b.data \in Partial /\ Has(b) = S
      /\ \A g \in S : Datum(b, g) = IF cmd = "Write" /\ g \in DOMAIN d THEN d[g] ELSE new[g]
  <2>1. CASE cmd = "Write"
    <3>1. b.data = Written(d, new)
      BY <2>1 DEF NewBlock
    <3> QED
      <4>1. d \in Partial /\ DOMAIN d \subseteq S
        BY <1>5, <2>1
      <4>2. DOMAIN d \cup DOMAIN new = S
        BY <1>4, <4>1
      <4>3. /\ Written(d, new) \in Partial
            /\ DOMAIN Written(d, new) = DOMAIN d \cup DOMAIN new
            /\ \A g \in DOMAIN d \cup DOMAIN new :
                  Written(d, new)[g] = IF g \in DOMAIN d THEN d[g] ELSE new[g]
        <5> DEFINE y == new
        <5>1. y \in Partial
          BY <1>4
        <5> HIDE DEF y
        <5>2. /\ Written(d, y) \in Partial /\ DOMAIN Written(d, y) = DOMAIN d \cup DOMAIN y
              /\ \A g \in DOMAIN d \cup DOMAIN y :
                    Written(d, y)[g] = IF g \in DOMAIN d THEN d[g] ELSE y[g]
          BY <4>1, <5>1, WrittenIs
        <5> QED
          BY <5>2, Zenon DEF y
      <4> QED
        BY <2>1, <3>1, <4>2, <4>3 DEF Has, Datum
  <2>2. CASE cmd # "Write"
    <3>1. b.data = new
      BY <2>2 DEF NewBlock
    <3> QED
      BY <1>4, <2>2, <3>1 DEF Has, Datum
  <2> QED
    BY <2>1, <2>2
<1>8. /\ b.valid = TRUE /\ b.tag = CACHE_TAG(n, a) /\ b.dirty = (cmd = "Write")
      /\ b.ready = IF Timed THEN t + lat ELSE 0
      /\ b = [tag |-> b.tag, valid |-> b.valid, dirty |-> b.dirty, ready |-> b.ready,
              data |-> b.data]
  BY DEF NewBlock
<1>9. b.ready \in Nat
  BY <1>8 DEF Asks
<1>10. b \in BlockT
  <2>1. b.tag \in Nat /\ b.valid \in BOOLEAN /\ b.dirty \in BOOLEAN
    BY <1>1, <1>8
  <2> QED
    BY <1>7, <1>8, <1>9, <2>1 DEF BlockT
<1>11. BlockOk(n, CACHE_SET(n, a), b)
  <2>1. n \in {"il1", "il2"} => ~b.dirty
    BY <1>8 DEF Asks
  <2>2. Has(b) = Mine(n, b.tag * Opt(n).nsets + CACHE_SET(n, a))
    BY <1>1, <1>7, <1>8 DEF S
  <2>3. Far(n, CACHE_MK_BADDR(n, b.tag, CACHE_SET(n, a)))
    BY <1>1, <1>6, <1>8
  <2>4. ~Timed => b.ready = 0
    BY <1>8
  <2> QED
    BY <1>6, <2>1, <2>2, <2>3, <2>4 DEF BlockOk
<1> QED
  BY <1>7, <1>8, <1>10, <1>11 DEF S, IsNew

\* A block of another way has no granule of this one.
LEMMA Apart ==
    ASSUME Valid, NEW h, Sane(h), NEW n \in Made,
           NEW s \in Sets(n), NEW w \in Ways(n), NEW q \in Sets(n), NEW x \in Ways(n),
           Blk(h, n, s, w).valid, Blk(h, n, q, x).valid,
           NEW g \in Has(Blk(h, n, s, w)), g \in Has(Blk(h, n, q, x))
    PROVE  q = s /\ x = w
<1>1. CACHE_SET(n, 8 * g) = s /\ In(h, n, 8 * g) = {w}
  BY FoundByGranule
<1>2. CACHE_SET(n, 8 * g) = q /\ In(h, n, 8 * g) = {x}
  BY FoundByGranule
<1> QED
  BY <1>1, <1>2

\* A miss: the block of the way w was replaced in g0, the state the new block was read
\* in, which ended in fh.
LEMMA MissDid ==
    ASSUME Valid, NEW h, NEW n \in Made, Ready(h, n),
           NEW cmd, NEW a, NEW z, NEW d, NEW t, Asks(n, cmd, a, z, d, t),
           In(h, n, a) = {}, NEW w \in Ways(n),
           NEW g0, NEW l0, Timed => l0 \in Nat,
           NEW v, v = Blk(h, n, CACHE_SET(n, a), w),
           Beneath(h, g0, n, WrittenBack(v), v.data),
           LastTag(g0, n) = 0,
           \A k \in {"dl2", "il2"} : g0.owed[k] = h.owed[k] - One(Behind(n), k),
           NEW fh, NEW fl, NEW fd,
           DidBelow(g0, fh, fl, fd, n, "Read", CACHE_BADDR(n, a), <<>>, t + l0),
           NEW lat, lat = l0 + fl,
           NEW nb, IsNew(nb, n, cmd, a, d, t, lat, fd),
           NEW h2, h2 = PutBlk(fh, n, CACHE_SET(n, a), w, nb),
           NEW e, e = Of(nb.data, a, z)
    PROVE  Did(h, h2, lat, e, n, cmd, a, z, d, t)
<1> DEFINE s == CACHE_SET(n, a)
           ts == TagSet(n, a)
           W == WrittenBack(v)
           B == CACHE_BADDR(n, a)
           m == Behind(n)
<1>0. /\ a \in Nat /\ s \in Sets(n) /\ Sane(h) /\ Sane(fh) /\ ~Blocked(n)
      /\ B \in Nat /\ cmd \in {"Read", "Write"}
  BY Split DEF Asks, Ready, DidBelow, Beneath
<1>r. m # NULL => m \in Made \ {n}
  BY SecondLevel, Geometry DEF Names
<1>1. \A q \in Sets(n), x \in Ways(n) : Blk(fh, n, q, x) = Blk(h, n, q, x)
  BY DEF DidBelow, Beneath
<1>t. LastTag(fh, n) = 0
  BY DEF DidBelow, LastTag
<1>2. /\ nb \in BlockT /\ BlockOk(n, s, nb) /\ nb.valid
      /\ nb.tag = CACHE_TAG(n, a) /\ nb.dirty = (cmd = "Write")
      /\ nb.ready = IF Timed THEN t + lat ELSE 0
      /\ Has(nb) = Mine(n, ts)
      /\ \A g \in Mine(n, ts) :
            Datum(nb, g) = IF cmd = "Write" /\ g \in DOMAIN d THEN d[g] ELSE fd[g]
  BY DEF IsNew
<1>3. /\ Typed(h2) /\ OnlyIn(n, fh, h2)
      /\ \A q \in Sets(n) : Ord(h2, n, q) = Ord(fh, n, q)
      /\ LastTag(h2, n) = 0
      /\ \A q \in Sets(n), x \in Ways(n) :
            Blk(h2, n, q, x) = IF q = s /\ x = w THEN nb ELSE Blk(h, n, q, x)
  <2>1. Typed(fh)
    BY <1>0 DEF Sane
  <2>2. h2 = PutBlk(fh, n, s, w, nb)
    OBVIOUS
  <2> HIDE DEF s
  <2> QED
    BY <1>0, <1>1, <1>t, <1>2, <2>1, <2>2, PutBlock
<1>4. Blk(h2, n, s, w) = nb
  BY <1>0, <1>3
<1>5. \A q \in Sets(n), x \in Ways(n) :
         q # s \/ x # w => Blk(h2, n, q, x) = Blk(h, n, q, x)
  BY <1>3

\* The blocks of the set that are valid have other tags.
<1>6. \A x \in Ways(n) : Blk(h, n, s, x).valid => Blk(h, n, s, x).tag # CACHE_TAG(n, a)
  BY InIs
<1> HIDE DEF s, ts, W, B, m
<1>7. Shaped(h2, n)
  <2>1. ListsWays(h2, n)
    <3>1. ListsWays(fh, n)
      BY <1>0 DEF Sane, Shaped
    <3> QED
      BY <1>3, <3>1 DEF ListsWays
  <2>2. LastIsThere(h2, n)
    BY <1>3 DEF LastIsThere
  <2>3. OneWay(h2, n)
    <3>0. OneWay(h, n)
      BY <1>0 DEF Sane, Shaped
    <3> SUFFICES ASSUME NEW q \in Sets(n), NEW x \in Ways(n), NEW y \in Ways(n),
                        Blk(h2, n, q, x).valid, Blk(h2, n, q, y).valid,
                        Blk(h2, n, q, x).tag = Blk(h2, n, q, y).tag
                 PROVE  x = y
      BY DEF OneWay
    <3>1. CASE q # s \/ (x # w /\ y # w)
      <4>1. Blk(h2, n, q, x) = Blk(h, n, q, x) /\ Blk(h2, n, q, y) = Blk(h, n, q, y)
        BY <1>5, <3>1
      <4> QED
        BY <3>0, <4>1 DEF OneWay
    <3>2. CASE q = s /\ x = w /\ y # w
      BY <1>0, <1>2, <1>4, <1>5, <1>6, <3>2
    <3>3. CASE q = s /\ y = w /\ x # w
      BY <1>0, <1>2, <1>4, <1>5, <1>6, <3>3
    <3> QED
      BY <3>1, <3>2, <3>3
  <2>4. BlocksOk(h2, n)
    <3> SUFFICES ASSUME NEW q \in Sets(n), NEW x \in Ways(n)
                 PROVE  BlockOk(n, q, Blk(h2, n, q, x))
      BY DEF BlocksOk
    <3>1. BlockOk(n, q, Blk(h, n, q, x))
      BY <1>0, SaneBlock
    <3> QED
      BY <1>2, <1>4, <1>5, <3>1
  <2> QED
    BY <2>1, <2>2, <2>3, <2>4 DEF Shaped
<1>8. Sane(h2)
  BY <1>0, <1>3, <1>7, OnlyShaped

\* What is behind the cache.
<1>9. /\ \A g : Under(h2, n, g) = Under(fh, n, g)
      /\ m # NULL => Kept(h2, m)
  BY <1>3, OnlyUnder DEF DidBelow, Beneath, m
<1>10. n \in Datas => \A g \in Granules :
          Under(h2, n, g) = IF g \in W THEN Datum(v, g) ELSE Under(h, n, g)
  BY <1>9 DEF DidBelow, Beneath, W, Datum
<1>v. v = Blk(h, n, s, w) /\ v \in BlockT
  BY <1>0, SaneBlock DEF s
<1>w. \A g \in W : g \in Has(v) /\ v.valid /\ v.dirty
  BY DEF W, WrittenBack

\* The victim has no granule of the new block.
<1>11. \A g \in Mine(n, ts) :
         g \in Granules /\ In(h, n, 8 * g) = {} /\ g \notin W
  <2> SUFFICES ASSUME NEW g \in Mine(n, ts)
               PROVE  g \in Granules /\ In(h, n, 8 * g) = {} /\ g \notin W
    OBVIOUS
  <2>1. g \in Granules /\ TagSet(n, 8 * g) = ts
    BY DEF Mine
  <2>2. In(h, n, 8 * g) = In(h, n, a)
    BY <2>1 DEF In, Found, CACHE_SET, CACHE_TAG, ts
  <2>3. g \in W => w \in In(h, n, 8 * g)
    BY <1>0, <1>v, <1>w, FoundByGranule
  <2> QED
    BY <2>1, <2>2, <2>3
<1>12. Within(a, z) \subseteq Mine(n, ts) /\ Within(B, Opt(n).bsize) = Mine(n, ts)
  <2>1. ts \in Nat
    BY <1>0, Split DEF ts
  <2> QED
    BY <1>0, <2>1, WithinOne, WithinBlock DEF Asks, CACHE_BADDR, ts, B
<1>13. \A g \in Mine(n, ts) : Top(h2, n, g) = Datum(nb, g)
  BY <1>0, <1>2, <1>8, <1>4, FoundByGranule
<1>14. e \in [Within(a, z) -> Values] /\ \A g \in Within(a, z) : e[g] = Top(h2, n, g)
  <2>1. nb.data \in Partial /\ Within(a, z) \subseteq DOMAIN nb.data
    BY <1>2, <1>12, Fields DEF Has
  <2>2. e \in [Within(a, z) -> Values] /\ \A g \in Within(a, z) : e[g] = nb.data[g]
    BY <2>1, OfIs
  <2> QED
    BY <1>12, <1>13, <2>2 DEF Datum
<1>15. ASSUME n \in Datas, NEW g \in Granules
       PROVE  Top(h2, n, g) = IF cmd = "Write" /\ g \in Within(a, z) THEN d[g] ELSE Top(h, n, g)
  <2>0. 8 * g \in Nat
    BY EightNat
  <2>1. CASE g \in Mine(n, ts)
    <3>1. Top(h2, n, g) = IF cmd = "Write" /\ g \in DOMAIN d THEN d[g] ELSE fd[g]
      BY <1>2, <1>13, <2>1
    <3>2. fd[g] = Under(h2, n, g)
      BY <1>9, <1>12, <1>15, <2>1 DEF DidBelow, B
    <3>3. Under(h2, n, g) = Top(h, n, g)
      BY <1>10, <1>11, <1>15, <2>1 DEF Top
    <3>4. cmd = "Write" => DOMAIN d = Within(a, z)
      BY <1>15 DEF Asks
    <3> QED
      BY <3>1, <3>2, <3>3, <3>4
  <2>2. CASE g \notin Mine(n, ts) /\ In(h2, n, 8 * g) # {}
    <3>1. PICK x \in In(h2, n, 8 * g) : TRUE
      BY <2>2
    <3> DEFINE q == CACHE_SET(n, 8 * g)
    <3>2. /\ Value(h2, n, g) = Datum(Blk(h2, n, q, x), g) /\ g \in Has(Blk(h2, n, q, x))
          /\ q \in Sets(n) /\ x \in Ways(n) /\ Blk(h2, n, q, x).valid
      BY <1>8, <2>0, ValueIs, FoundOne
    <3>3. Top(h2, n, g) = Datum(Blk(h2, n, q, x), g)
      BY <3>1, <3>2 DEF Top
    <3> HIDE DEF q
    <3>4. q # s \/ x # w
      BY <1>2, <1>4, <2>2, <3>2
    <3>5. Blk(h2, n, q, x) = Blk(h, n, q, x)
      BY <1>5, <3>2, <3>4
    <3>6. Top(h, n, g) = Datum(Blk(h, n, q, x), g)
      BY <1>0, <3>2, <3>5, FoundByGranule
    <3> QED
      BY <1>12, <2>2, <3>3, <3>5, <3>6
  <2>3. CASE g \notin Mine(n, ts) /\ In(h2, n, 8 * g) = {}
    <3>1. Top(h2, n, g) = IF g \in W THEN Datum(v, g) ELSE Under(h, n, g)
      BY <1>10, <1>15, <2>3 DEF Top
    <3>2. CASE In(h, n, 8 * g) = {}
      <4>1. g \notin W
        <5> SUFFICES ASSUME g \in W PROVE FALSE
          OBVIOUS
        <5>1. g \in Has(Blk(h, n, s, w)) /\ Blk(h, n, s, w).valid
          BY <1>v, <1>w
        <5>2. In(h, n, 8 * g) = {w}
          BY <1>0, <5>1, FoundByGranule
        <5> QED
          BY <3>2, <5>2
      <4> QED
        BY <1>12, <2>3, <3>1, <3>2, <4>1 DEF Top
    <3>3. CASE In(h, n, 8 * g) # {}
      <4>1. PICK x \in In(h, n, 8 * g) : TRUE
        BY <3>3
      <4> DEFINE q == CACHE_SET(n, 8 * g)
      <4>2. /\ Value(h, n, g) = Datum(Blk(h, n, q, x), g) /\ g \in Has(Blk(h, n, q, x))
            /\ q \in Sets(n) /\ x \in Ways(n) /\ Blk(h, n, q, x).valid
        BY <1>0, <2>0, ValueIs, FoundOne
      <4>t. Top(h, n, g) = Datum(Blk(h, n, q, x), g)
        BY <4>1, <4>2 DEF Top
      <4> HIDE DEF q
      <4>3. q = s /\ x = w
        <5> SUFFICES ASSUME q # s \/ x # w PROVE FALSE
          OBVIOUS
        <5>1. Blk(h2, n, q, x) = Blk(h, n, q, x)
          BY <1>5, <4>2
        <5>2. In(h2, n, 8 * g) = {x}
          BY <1>8, <4>2, <5>1, FoundByGranule
        <5> QED
          BY <2>3, <5>2
      <4>v. g \in Has(v) /\ v.valid /\ Top(h, n, g) = Datum(v, g)
        BY <1>v, <4>2, <4>t, <4>3
      <4>4. CASE v.dirty
        <5>1. g \in W
          BY <4>v, <4>4 DEF W, WrittenBack
        <5> QED
          BY <1>12, <2>3, <3>1, <4>v, <5>1
      <4>5. CASE ~v.dirty
        <5>1. g \notin W
          BY <1>w, <4>5
        <5>2. Datum(v, g) = Under(h, n, g)
          BY <1>v, <1>15, <1>0, <4>v, <4>5 DEF Kept, Ready
        <5> QED
          BY <1>12, <2>3, <3>1, <4>v, <5>1, <5>2
      <4> QED
        BY <4>4, <4>5
    <3> QED
      BY <3>2, <3>3
  <2> QED
    BY <2>1, <2>2, <2>3
<1>16. Kept(h2, n)
  <2> SUFFICES ASSUME n \in Datas, NEW q \in Sets(n), NEW x \in Ways(n),
                      Blk(h2, n, q, x).valid, ~Blk(h2, n, q, x).dirty,
                      NEW g \in Has(Blk(h2, n, q, x))
               PROVE  Datum(Blk(h2, n, q, x), g) = Under(h2, n, g)
    BY DEF Kept
  <2>1. CASE q = s /\ x = w
    <3>1. Blk(h2, n, q, x) = nb /\ g \in Mine(n, ts) /\ cmd # "Write"
      BY <1>2, <1>4, <2>1
    <3>2. Datum(nb, g) = fd[g]
      BY <1>2, <3>1
    <3>3. fd[g] = Under(h2, n, g)
      BY <1>9, <1>12, <3>1 DEF DidBelow, B
    <3> QED
      BY <3>1, <3>2, <3>3
  <2>2. CASE q # s \/ x # w
    <3>1. Blk(h2, n, q, x) = Blk(h, n, q, x)
      BY <1>5, <2>2
    <3>2. Datum(Blk(h, n, q, x), g) = Under(h, n, g)
      BY <3>1 DEF Kept, Ready
    <3>3. g \in Granules
      BY <1>0, <3>1, FoundByGranule
    <3>4. g \notin W
      <4> SUFFICES ASSUME g \in W PROVE FALSE
        OBVIOUS
      <4>1. g \in Has(Blk(h, n, s, w)) /\ Blk(h, n, s, w).valid
        BY <1>v, <1>w
      <4>2. q = s /\ x = w
        BY <1>0, <3>1, <4>1, Apart
      <4> QED
        BY <2>2, <4>2
    <3> QED
      BY <1>10, <3>1, <3>2, <3>3, <3>4
  <2> QED
    BY <2>1, <2>2
<1>17. Coherent(h, h2, e, n, cmd, a, z, d)
  <2>1. n \notin Datas /\ m \notin Datas => h2.mem = h.mem
    BY <1>3 DEF DidBelow, Beneath, OnlyIn, m
  <2>2. n \notin Datas /\ m \in Datas => \A g \in Granules : Under(h2, n, g) = Under(h, n, g)
    BY <1>9 DEF DidBelow, Beneath, m
  <2> QED
    BY <1>14, <1>15, <2>1, <2>2 DEF Coherent, m
<1>18. Fresh(h, h2, n)
  <2> SUFFICES ASSUME m # NULL, NEW q \in Sets(n), NEW x \in Ways(n),
                      Blk(h2, n, q, x) # Blk(h, n, q, x)
               PROVE  NotBefore(m, h2, CACHE_MK_BADDR(n, Blk(h2, n, q, x).tag, q),
                                Blk(h2, n, q, x))
    <3> SUFFICES ASSUME m # NULL, NEW q \in Sets(n), NEW x \in Ways(n),
                        Blk(h2, n, q, x).valid,
                        <<Blk(h, n, q, x).tag, Blk(h, n, q, x).valid>>
                            # <<Blk(h2, n, q, x).tag, TRUE>>
                 PROVE  Blk(h2, n, q, x) # Blk(h, n, q, x)
      BY DEF Fresh, m
    <3>1. Blk(h, n, q, x).valid \in BOOLEAN
      BY <1>0, SaneBlock, Fields
    <3> QED
      BY <3>1
  <2>1. q = s /\ x = w
    BY <1>5
  <2>b. Blk(h2, n, q, x) = nb
    BY <1>4, <2>1
  <2>2. CACHE_MK_BADDR(n, nb.tag, s) = B
    <3>1. CACHE_MK_BADDR(n, CACHE_TAG(n, a), CACHE_SET(n, a)) = CACHE_BADDR(n, a)
      BY <1>0, Split
    <3> QED
      BY <1>2, <3>1 DEF s, B
  <2>i. h2.c[m] = fh.c[m]
    BY <1>r, <1>3 DEF OnlyIn
  <2>j. In(h2, m, B) = In(fh, m, B) /\ \A k, y : Blk(h2, m, k, y) = Blk(fh, m, k, y)
    BY <2>i DEF In, Blk
  <2>3. ASSUME NEW y \in In(h2, m, B)
        PROVE  nb.ready >= Blk(h2, m, CACHE_SET(m, B), y).ready
    <3> DEFINE rd == Blk(fh, m, CACHE_SET(m, B), y).ready
    <3>0. rd \in Nat
      <4>1. m \in Made /\ y \in Ways(m) /\ CACHE_SET(m, B) \in Sets(m)
        BY <1>r, <1>0, <2>3, InIs, Split
      <4> QED
        BY <1>0, <4>1, SaneBlock, Fields
    <3>1. CASE Timed
      <4>1. t + l0 + fl >= rd
        BY <2>3, <2>j, <3>1 DEF DidBelow, m, B
      <4>2. t \in Nat /\ l0 \in Nat /\ fl \in Nat
        BY <3>1 DEF Asks, DidBelow
      <4>3. nb.ready = t + (l0 + fl)
        BY <1>2, <3>1
      <4> HIDE DEF rd
      <4>4. nb.ready >= rd
        BY <3>0, <4>1, <4>2, <4>3
      <4> QED
        BY <2>j, <4>4 DEF rd
    <3>2. CASE ~Timed
      <4>1. m \in Made /\ y \in Ways(m) /\ CACHE_SET(m, B) \in Sets(m)
        BY <1>r, <1>0, <2>3, InIs, Split
      <4>2. Blk(h2, m, CACHE_SET(m, B), y).ready = 0
        BY <1>8, <3>2, <4>1, SaneBlock DEF BlockOk
      <4>3. nb.ready = 0
        BY <1>2, <3>2
      <4> QED
        BY <4>2, <4>3
    <3> QED
      BY <3>1, <3>2
  <2> QED
    BY <2>1, <2>b, <2>2, <2>3 DEF NotBefore
<1>19. ASSUME Timed
       PROVE  /\ lat \in Nat
              /\ \A x \in In(h2, n, a) : t + lat >= Blk(h2, n, CACHE_SET(n, a), x).ready
  <2>1. l0 \in Nat /\ fl \in Nat /\ t \in Nat
    BY <1>19 DEF DidBelow, Asks
  <2>3. w \in In(h2, n, a)
    BY <1>2, <1>4, InIs DEF s
  <2>4. In(h2, n, a) = {w}
    BY <1>0, <1>8, <2>3, FoundOne
  <2>5. nb.ready = t + lat /\ lat \in Nat
    BY <1>2, <1>19, <2>1
  <2> QED
    BY <1>4, <2>1, <2>4, <2>5 DEF s
<1>20. h2.owed = h.owed
  <2>1. h2.owed \in [{"dl2", "il2"} -> Int] /\ h.owed \in [{"dl2", "il2"} -> Int]
    BY <1>0, <1>8 DEF Sane, Typed
  <2>t. h2.owed = fh.owed
    BY <1>3 DEF OnlyIn
  <2>2. \A k \in {"dl2", "il2"} : fh.owed[k] = g0.owed[k] + One(m, k)
    BY DEF DidBelow, m
  <2>3. \A k \in {"dl2", "il2"} : One(m, k) \in Int
    BY DEF One
  <2>4. ASSUME NEW k \in {"dl2", "il2"} PROVE h2.owed[k] = h.owed[k]
    <3> DEFINE x == h.owed[k]
               y == One(m, k)
    <3>1. x \in Int /\ y \in Int
      BY <2>1, <2>3
    <3>2. g0.owed[k] = x - y
      BY DEF m
    <3>3. fh.owed[k] = g0.owed[k] + y
      BY <2>2
    <3> HIDE DEF x, y
    <3>4. fh.owed[k] = x
      BY <3>1, <3>2, <3>3
    <3> QED
      BY <2>t, <3>4 DEF x
  <2> QED
    BY <2>1, <2>4
<1>21. h2.bad = h.bad /\ \A k \in Made \ {n, m} : h2.c[k] = h.c[k]
  BY <1>3 DEF OnlyIn, DidBelow, Beneath, m
<1> QED
  BY <1>8, <1>9, <1>14, <1>16, <1>17, <1>18, <1>19, <1>20, <1>21 DEF Did, m

-----------------------------------------------------------------------------
(* What changes besides the blocks *)

LEMMA LengthIs ==
    ASSUME NEW k \in Nat, NEW S, NEW q \in [1 .. k -> S]
    PROVE  q \in Seq(S) /\ Len(q) = k
<1>1. q \in Seq(S)
  OBVIOUS
<1> QED
  BY <1>1, LenProperties

\* The list with a way moved to its head lists the same ways.
LEMMA ToHeadIs ==
    ASSUME NEW k \in Nat \ {0}, NEW q \in [1 .. k -> 1 .. k], NEW w \in 1 .. k,
           \A x \in 1 .. k : \E i \in 1 .. k : q[i] = x
    PROVE  /\ ToHead(q, w) \in [1 .. k -> 1 .. k]
           /\ \A x \in 1 .. k : \E i \in 1 .. k : ToHead(q, w)[i] = x
<1> DEFINE at == CHOOSE i \in 1 .. k : q[i] = w
           p == ToHead(q, w)
<1>1. at \in 1 .. k /\ q[at] = w
  OBVIOUS
<1>2. p = [i \in 1 .. k |-> IF i = 1 THEN w ELSE IF i <= at THEN q[i - 1] ELSE q[i]]
  BY DEF ToHead
<1> HIDE DEF at, p
<1>3. p \in [1 .. k -> 1 .. k]
  <2>1. ASSUME NEW i \in 1 .. k, i # 1 PROVE i - 1 \in 1 .. k
    BY <2>1
  <2> QED
    BY <1>2, <2>1
<1>4. ASSUME NEW x \in 1 .. k PROVE \E i \in 1 .. k : p[i] = x
  <2>1. PICK i \in 1 .. k : q[i] = x
    OBVIOUS
  <2>2. CASE i = at
    <3>1. 1 \in 1 .. k /\ p[1] = w
      BY <1>2
    <3> QED
      BY <1>1, <2>1, <2>2, <3>1
  <2>3. CASE i < at
    <3>1. i + 1 \in 1 .. k /\ i + 1 # 1 /\ i + 1 <= at /\ (i + 1) - 1 = i
      BY <1>1, <2>3
    <3>2. p[i + 1] = q[i]
      BY <1>2, <3>1
    <3> QED
      BY <2>1, <3>1, <3>2
  <2>4. CASE i > at
    <3>1. i # 1 /\ ~(i <= at)
      BY <1>1, <2>4
    <3> QED
      BY <1>2, <2>1, <3>1
  <2> QED
    BY <1>1, <2>2, <2>3, <2>4
<1> QED
  BY <1>3, <1>4 DEF p

\* The list of a set with a way moved to its head.
Moved(h, n, s, w) == ToHead(Ord(h, n, s), w)

LEMMA OrdIs ==
    ASSUME Valid, NEW h, Sane(h), NEW n \in Made, NEW s \in Sets(n), NEW w \in Ways(n)
    PROVE  /\ Ord(h, n, s) \in [Ways(n) -> Ways(n)] /\ Last(Ord(h, n, s)) \in Ways(n)
           /\ Moved(h, n, s, w) \in [Ways(n) -> Ways(n)]
           /\ \A x \in Ways(n) : \E i \in Ways(n) : Moved(h, n, s, w)[i] = x
<1> DEFINE k == Opt(n).assoc
           q == Ord(h, n, s)
<1>1. k \in Nat \ {0} /\ Ways(n) = 1 .. k
  BY Sizes DEF Ways
<1>2. q \in [Ways(n) -> Ways(n)]
  BY DEF Sane, Typed, CacheT, Ord
<1>3. \A x \in Ways(n) : \E i \in Ways(n) : q[i] = x
  BY DEF Sane, Shaped, ListsWays
<1> HIDE DEF k, q
<1>4. Last(q) \in Ways(n)
  <2>1. Len(q) = k
    BY <1>1, <1>2, LengthIs
  <2> QED
    BY <1>1, <1>2, <2>1 DEF Last
<1>5. /\ ToHead(q, w) \in [Ways(n) -> Ways(n)]
      /\ \A x \in Ways(n) : \E i \in Ways(n) : ToHead(q, w)[i] = x
  <2>1. q \in [1 .. k -> 1 .. k] /\ \A x \in 1 .. k : \E i \in 1 .. k : q[i] = x
    BY <1>1, <1>2, <1>3
  <2>2. /\ ToHead(q, w) \in [1 .. k -> 1 .. k]
        /\ \A x \in 1 .. k : \E i \in 1 .. k : ToHead(q, w)[i] = x
    BY <1>1, <2>1, ToHeadIs
  <2> QED
    BY <1>1, <2>2
<1> QED
  BY <1>2, <1>4, <1>5 DEF q, Moved

\* h and h2 differ in the cache n, but not in its blocks.
Steady(n, h, h2) ==
    /\ Sane(h2) /\ OnlyIn(n, h, h2)
    /\ \A s \in Sets(n), w \in Ways(n) : Blk(h2, n, s, w) = Blk(h, n, s, w)

LEMMA SteadyPut ==
    ASSUME Valid, NEW h, Sane(h), NEW n \in Made, NEW c \in CacheT(n), c.blk = h.c[n].blk,
           \A s \in Sets(n), w \in Ways(n) : \E i \in Ways(n) : c.order[s][i] = w,
           c.last_tagset = 0 \/ (c.last_tagset = LastTag(h, n) /\ c.last_blk = LastBlk(h, n)),
           NEW h2, h2 = Put(h, n, c)
    PROVE  Steady(n, h, h2) /\ h2.c[n] = c
<1>1. Typed(h2) /\ OnlyIn(n, h, h2) /\ h2.c[n] = c
  BY PutCache DEF Sane
<1>2. \A s \in Sets(n), w \in Ways(n) : Blk(h2, n, s, w) = Blk(h, n, s, w)
  BY <1>1 DEF Blk
<1>3. LastTag(h2, n) = c.last_tagset /\ LastBlk(h2, n) = c.last_blk
      /\ \A s : Ord(h2, n, s) = c.order[s]
  BY <1>1 DEF LastTag, LastBlk, Ord
<1>4. Shaped(h, n)
  BY DEF Sane
<1>5. LastIsThere(h2, n)
  <2> SUFFICES ASSUME LastTag(h2, n) # 0
               PROVE  LET b == Blk(h2, n, LastTag(h2, n) % Opt(n).nsets, LastBlk(h2, n))
                      IN  /\ LastBlk(h2, n) \in Ways(n) /\ b.valid
                          /\ b.tag = LastTag(h2, n) \div Opt(n).nsets
    BY DEF LastIsThere
  <2>1. LastTag(h2, n) = LastTag(h, n) /\ LastBlk(h2, n) = LastBlk(h, n)
    BY <1>3
  <2>2. LastTag(h, n) \in Nat
    BY DEF Sane, Typed, CacheT, LastTag
  <2>3. LastTag(h, n) % Opt(n).nsets \in Sets(n)
    <3>1. Opt(n).nsets \in Nat \ {0}
      BY Sizes
    <3> DEFINE k == Opt(n).nsets
    <3> HIDE DEF k
    <3>2. LastTag(h, n) % k \in 0 .. k - 1
      BY <2>2, <3>1, DivIs DEF k
    <3> QED
      BY <3>2 DEF k, Sets
  <2>4. LET b == Blk(h, n, LastTag(h, n) % Opt(n).nsets, LastBlk(h, n))
        IN  /\ LastBlk(h, n) \in Ways(n) /\ b.valid
            /\ b.tag = LastTag(h, n) \div Opt(n).nsets
    BY <1>4, <2>1 DEF Shaped, LastIsThere
  <2>5. Blk(h2, n, LastTag(h, n) % Opt(n).nsets, LastBlk(h, n))
           = Blk(h, n, LastTag(h, n) % Opt(n).nsets, LastBlk(h, n))
    BY <1>2, <2>3, <2>4
  <2> QED
    BY <2>1, <2>4, <2>5
<1>6. ListsWays(h2, n)
  BY <1>3 DEF ListsWays
<1>7. OneWay(h2, n) /\ BlocksOk(h2, n)
  BY <1>2, <1>4 DEF Shaped, OneWay, BlocksOk
<1>8. Sane(h2)
  BY <1>1, <1>5, <1>6, <1>7, OnlyShaped DEF Shaped
<1> QED
  BY <1>1, <1>2, <1>8 DEF Steady

LEMMA SteadyRefl == ASSUME NEW h, Sane(h), NEW n PROVE Steady(n, h, h)
  BY DEF Steady, OnlyIn

LEMMA SteadyTrans ==
    ASSUME NEW n, NEW h, NEW h1, NEW h2, Steady(n, h, h1), Steady(n, h1, h2)
    PROVE  Steady(n, h, h2)
  BY DEF Steady, OnlyIn

\* The list of a set put in another order, and the last hit forgotten or not.
Listed(h, n, s, w) == [h EXCEPT !.c[n].order[s] = ToHead(@, w)]

LEMMA ListedIs ==
    ASSUME Valid, NEW h, Sane(h), NEW n \in Made, NEW s \in Sets(n), NEW w \in Ways(n),
           NEW h2, h2 = Listed(h, n, s, w)
    PROVE  Steady(n, h, h2) /\ LastTag(h2, n) = LastTag(h, n)
<1>0. /\ Moved(h, n, s, w) \in [Ways(n) -> Ways(n)]
      /\ \A x \in Ways(n) : \E i \in Ways(n) : Moved(h, n, s, w)[i] = x
  BY OrdIs
<1> DEFINE c == h.c[n]
           p == Moved(h, n, s, w)
           c2 == [c EXCEPT !.order[s] = p]
<1>1. c \in CacheT(n)
  BY DEF Sane, Typed
<1>2. p \in [Ways(n) -> Ways(n)] /\ \A x \in Ways(n) : \E i \in Ways(n) : p[i] = x
  BY <1>0
<1>3. Listed(h, n, s, w) = Put(h, n, c2)
  BY DEF Listed, Put, Ord, Moved
<1>e. \A q \in Sets(n), x \in Ways(n) : \E i \in Ways(n) : Ord(h, n, q)[i] = x
  BY DEF Sane, Shaped, ListsWays
<1>f. \A q : Ord(h, n, q) = c.order[q]
  BY DEF Ord
<1>g. LastTag(h, n) = c.last_tagset /\ LastBlk(h, n) = c.last_blk
  BY DEF LastTag, LastBlk
<1> HIDE DEF p
<1>h. c = h.c[n]
  OBVIOUS
<1> HIDE DEF c
<1>4. /\ c2 \in CacheT(n) /\ c2.blk = c.blk
      /\ c2.last_tagset = c.last_tagset /\ c2.last_blk = c.last_blk
      /\ \A q \in Sets(n) : c2.order[q] = IF q = s THEN p ELSE c.order[q]
  BY <1>1, <1>2 DEF CacheT
<1> HIDE DEF c2
<1>5. \A q \in Sets(n), x \in Ways(n) : \E i \in Ways(n) : c2.order[q][i] = x
  <2> SUFFICES ASSUME NEW q \in Sets(n), NEW x \in Ways(n)
               PROVE  \E i \in Ways(n) : c2.order[q][i] = x
    OBVIOUS
  <2>1. CASE q = s
    <3>1. c2.order[q] = p
      BY <1>4, <2>1
    <3> QED
      BY <1>2, <3>1
  <2>2. CASE q # s
    <3>1. c2.order[q] = Ord(h, n, q)
      BY <1>4, <1>f, <2>2
    <3> QED
      BY <1>e, <3>1
  <2> QED
    BY <2>1, <2>2
<1>6. h2 = Put(h, n, c2)
  BY <1>3
<1>7. Steady(n, h, h2) /\ h2.c[n] = c2
  BY <1>4, <1>5, <1>6, <1>g, <1>h, SteadyPut
<1> QED
  BY <1>4, <1>7, <1>g DEF LastTag

LEMMA VictimIs ==
    ASSUME Valid, NEW h, Sane(h), NEW n \in Made, NEW s \in Sets(n)
    PROVE  Victim(h, n, s) \in Ways(n)
<1> DEFINE k == Opt(n).assoc
           x == myrand[h.rand].number
<1>1. k \in Nat \ {0} /\ Ways(n) = 1 .. k
  BY Sizes DEF Ways
<1>2. x \in Nat
  BY RandomAssumption DEF Sane, Typed
<1>3. Victim(h, n, s) = (x % k) + 1 \/ Victim(h, n, s) = Last(Ord(h, n, s))
  BY DEF Victim, Ord
<1> HIDE DEF k, x
<1>4. (x % k) + 1 \in Ways(n)
  BY <1>1, <1>2
<1>5. Last(Ord(h, n, s)) \in Ways(n)
  <2>1. PICK w \in Ways(n) : TRUE
    BY <1>1
  <2> QED
    BY <2>1, OrdIs
<1> QED
  BY <1>3, <1>4, <1>5

\* The selection of a victim draws a number or moves the victim to the head of its list.
Drawn(h) == [h EXCEPT !.rand = myrand[@].next]

LEMMA DrawnIs ==
    ASSUME NEW h, Sane(h), NEW n \in Made, NEW h2, h2 = Drawn(h)
    PROVE  Steady(n, h, h2)
<1>1. h.rand \in Rands /\ myrand[h.rand].next \in Rands
  BY RandomAssumption DEF Sane, Typed
<1>2. /\ h2.c = h.c /\ h2.mem = h.mem /\ h2.owed = h.owed /\ h2.bad = h.bad
      /\ Typed(h2)
  BY <1>1 DEF Drawn, Sane, Typed
<1>3. OnlyIn(n, h, h2)
  BY <1>2 DEF OnlyIn
<1>4. Shaped(h2, n)
  BY <1>2, SameCache DEF Sane
<1>5. Sane(h2)
  BY <1>2, <1>3, <1>4, OnlyShaped
<1> QED
  BY <1>2, <1>3, <1>5 DEF Steady, Blk

LEMMA SelectedIs ==
    ASSUME Valid, NEW h, Sane(h), NEW n \in Made, NEW s \in Sets(n),
           NEW h2, h2 = Selected(h, n, s)
    PROVE  Steady(n, h, h2)
<1>1. h2 = Drawn(h) \/ h2 = Listed(h, n, s, Victim(h, n, s))
  BY DEF Selected, Drawn, Listed
<1> QED
  BY <1>1, VictimIs, DrawnIs, ListedIs

LEMMA ForgetLastHitIs ==
    ASSUME Valid, NEW h, Sane(h), NEW n \in Made, NEW h2, h2 = ForgetLastHit(h, n)
    PROVE  Steady(n, h, h2) /\ LastTag(h2, n) = 0
<1> DEFINE c == h.c[n]
           c2 == [c EXCEPT !.last_tagset = 0, !.last_blk = 0]
<1>1. c \in CacheT(n)
  BY DEF Sane, Typed
<1>2. ForgetLastHit(h, n) = Put(h, n, c2)
  BY DEF ForgetLastHit, Put
<1>e. \A q \in Sets(n), x \in Ways(n) : \E i \in Ways(n) : Ord(h, n, q)[i] = x
  BY DEF Sane, Shaped, ListsWays
<1>f. \A q : Ord(h, n, q) = c.order[q]
  BY DEF Ord
<1>h. c = h.c[n]
  OBVIOUS
<1> HIDE DEF c
<1>4. /\ c2 \in CacheT(n) /\ c2.blk = c.blk /\ c2.last_tagset = 0
      /\ c2.order = c.order
  BY <1>1 DEF CacheT
<1> HIDE DEF c2
<1>k. c2.last_tagset = 0 \/ (c2.last_tagset = LastTag(h, n) /\ c2.last_blk = LastBlk(h, n))
  BY <1>4
<1>5. \A q \in Sets(n), x \in Ways(n) : \E i \in Ways(n) : c2.order[q][i] = x
  BY <1>4, <1>e, <1>f
<1>6. h2 = Put(h, n, c2)
  BY <1>2
<1>7. Steady(n, h, h2) /\ h2.c[n] = c2
  BY <1>4, <1>5, <1>6, <1>h, <1>k, SteadyPut
<1> QED
  BY <1>4, <1>7 DEF LastTag

\* The bus of a cache taken until t.
OnBus(h, n, t) == IF Timed THEN [h EXCEPT !.c[n].bus_free = Larger(@, t) + 1] ELSE h

LEMMA OnBusIs ==
    ASSUME Valid, NEW h, Sane(h), NEW n \in Made, NEW t, Timed => t \in Nat,
           NEW h2, h2 = OnBus(h, n, t)
    PROVE  Steady(n, h, h2) /\ LastTag(h2, n) = LastTag(h, n)
<1>1. CASE ~Timed
  BY <1>1, SteadyRefl DEF OnBus
<1>2. CASE Timed
  <2> DEFINE c == h.c[n]
             u == Larger(c.bus_free, t) + 1
             c2 == [c EXCEPT !.bus_free = u]
  <2>1. c \in CacheT(n)
    BY DEF Sane, Typed
  <2>2. OnBus(h, n, t) = Put(h, n, c2)
    BY <1>2 DEF OnBus, Put
  <2>e. \A q \in Sets(n), x \in Ways(n) : \E i \in Ways(n) : Ord(h, n, q)[i] = x
    BY DEF Sane, Shaped, ListsWays
  <2>f. \A q : Ord(h, n, q) = c.order[q]
    BY DEF Ord
  <2>g. LastTag(h, n) = c.last_tagset /\ LastBlk(h, n) = c.last_blk
    BY DEF LastTag, LastBlk
  <2>h. c = h.c[n]
    OBVIOUS
  <2> HIDE DEF c
  <2>3. u \in Nat
    <3>1. c.bus_free \in Nat /\ t \in Nat
      BY <1>2, <2>1 DEF CacheT
    <3> QED
      BY <3>1 DEF Larger
  <2> HIDE DEF u
  <2>4. /\ c2 \in CacheT(n) /\ c2.blk = c.blk /\ c2.order = c.order
        /\ c2.last_tagset = c.last_tagset /\ c2.last_blk = c.last_blk
    BY <2>1, <2>3 DEF CacheT
  <2> HIDE DEF c2
  <2>5. \A q \in Sets(n), x \in Ways(n) : \E i \in Ways(n) : c2.order[q][i] = x
    BY <2>4, <2>e, <2>f
  <2>6. h2 = Put(h, n, c2)
    BY <2>2
  <2>7. Steady(n, h, h2) /\ h2.c[n] = c2
    BY <2>4, <2>5, <2>6, <2>g, <2>h, SteadyPut
  <2> QED
    BY <2>4, <2>7, <2>g DEF LastTag
<1> QED
  BY <1>1, <1>2

\* h and h2 differ in the counted traffic alone.
Same(h, h2) == h2.c = h.c /\ h2.mem = h.mem /\ h2.bad = h.bad

LEMMA SameIs ==
    ASSUME Valid, NEW h, NEW h2, Same(h, h2), NEW n \in Made
    PROVE  /\ \A g : Under(h2, n, g) = Under(h, n, g) /\ Top(h2, n, g) = Top(h, n, g)
           /\ \A a : In(h2, n, a) = In(h, n, a)
           /\ \A s, w : Blk(h2, n, s, w) = Blk(h, n, s, w)
           /\ LastTag(h2, n) = LastTag(h, n) /\ (Kept(h, n) => Kept(h2, n))
<1>1. h2.mem = h.mem /\ \A m \in Made : h2.c[m].blk = h.c[m].blk
  BY DEF Same
<1>2. \A s, w : Blk(h2, n, s, w) = Blk(h, n, s, w)
  BY DEF Same, Blk
<1>3. LastTag(h2, n) = LastTag(h, n)
  BY DEF Same, LastTag
<1> QED
  BY <1>1, <1>2, <1>3, SameValues

Owe(h, k, i) == [h EXCEPT !.owed[k] = h.owed[k] + i]

LEMMA SameSane ==
    ASSUME NEW h, NEW h2, Sane(h), Same(h, h2),
           NEW k \in {"dl2", "il2"}, NEW i \in Int,
           h2 = Owe(h, k, i)
    PROVE  Sane(h2) /\ \A j \in {"dl2", "il2"} :
                          h2.owed[j] = h.owed[j] + (IF j = k THEN i ELSE 0)
<1>1. h.owed \in [{"dl2", "il2"} -> Int]
  BY DEF Sane, Typed
<1> DEFINE e == [h.owed EXCEPT ![k] = h.owed[k] + i]
<1>2. e \in [{"dl2", "il2"} -> Int]
      /\ \A j \in {"dl2", "il2"} : e[j] = h.owed[j] + (IF j = k THEN i ELSE 0)
  BY <1>1
<1>3. h2 = [h EXCEPT !.owed = e]
  BY DEF Owe
<1> HIDE DEF e
<1>4. Typed(h2) /\ h2.owed = e
  BY <1>2, <1>3 DEF Sane, Typed
<1>5. \A n \in Made : Shaped(h2, n)
  <2> SUFFICES ASSUME NEW n \in Made PROVE Shaped(h2, n)
    OBVIOUS
  <2>1. h2.c[n] = h.c[n]
    BY DEF Same
  <2> QED
    BY <2>1, SameCache DEF Sane
<1> QED
  BY <1>2, <1>4, <1>5 DEF Sane

LEMMA AskedIs ==
    ASSUME Valid, NEW h, Sane(h), NEW n \in Made, NEW h2, h2 = Asked(h, n)
    PROVE  /\ Sane(h2) /\ Same(h, h2)
           /\ \A k \in {"dl2", "il2"} : h2.owed[k] = h.owed[k] - One(Behind(n), k)
<1>0. h.owed \in [{"dl2", "il2"} -> Int]
  BY DEF Sane, Typed
<1>1. CASE Behind(n) = NULL
  <2>1. h2 = h /\ \A k \in {"dl2", "il2"} : One(Behind(n), k) = 0
    BY <1>1 DEF Asked, One, NULL
  <2> QED
    BY <1>0, <2>1 DEF Same
<1>2. CASE Behind(n) # NULL
  <2> DEFINE m == Behind(n)
  <2>1. m \in {"dl2", "il2"}
    BY <1>2, SecondLevel
  <2>2. h2 = [h EXCEPT !.owed[m] = h.owed[m] - 1]
    BY <1>2 DEF Asked
  <2> HIDE DEF m
  <2>3. h.owed[m] - 1 = h.owed[m] + (-1)
    BY <1>0, <2>1
  <2>4. h2 = Owe(h, m, -1)
    BY <2>2, <2>3 DEF Owe
  <2>5. Same(h, h2)
    BY <2>4 DEF Same, Sane, Typed, Owe
  <2>6. Sane(h2) /\ \A j \in {"dl2", "il2"} :
                       h2.owed[j] = h.owed[j] + (IF j = m THEN -1 ELSE 0)
    <3>1. -1 \in Int
      OBVIOUS
    <3> QED
      BY <2>1, <2>4, <2>5, <3>1, SameSane
  <2> QED
    BY <1>0, <2>1, <2>5, <2>6 DEF One, m
<1> QED
  BY <1>1, <1>2

LEMMA CountedIs ==
    ASSUME Valid, NEW h, Sane(h), NEW n \in Made, NEW h2, h2 = Counted(h, n)
    PROVE  /\ Sane(h2) /\ Same(h, h2)
           /\ \A k \in {"dl2", "il2"} : h2.owed[k] = h.owed[k] + One(n, k)
<1>0. h.owed \in [{"dl2", "il2"} -> Int]
  BY DEF Sane, Typed
<1>1. CASE n \notin {"dl2", "il2"}
  <2>1. h2 = h /\ \A k \in {"dl2", "il2"} : One(n, k) = 0
    BY <1>1 DEF Counted, One
  <2> QED
    BY <1>0, <2>1 DEF Same
<1>2. CASE n \in {"dl2", "il2"}
  <2>4. h2 = Owe(h, n, 1)
    BY <1>2 DEF Counted, Owe
  <2>5. Same(h, h2)
    BY <2>4 DEF Same, Sane, Typed, Owe
  <2>6. Sane(h2) /\ \A j \in {"dl2", "il2"} :
                       h2.owed[j] = h.owed[j] + (IF j = n THEN 1 ELSE 0)
    BY <1>2, <2>4, <2>5, SameSane
  <2> QED
    BY <1>0, <2>5, <2>6 DEF One
<1> QED
  BY <1>1, <1>2

-----------------------------------------------------------------------------
(* The block that is replaced *)

LEMMA BeneathSteady ==
    ASSUME Valid, NEW n \in Made, NEW h, NEW h2, Steady(n, h, h2),
           Behind(n) # NULL => Kept(h, Behind(n)), NEW d
    PROVE  Beneath(h, h2, n, {}, d)
<1>1. OnlyIn(n, h, h2) /\ Sane(h2)
      /\ \A s \in Sets(n), w \in Ways(n) : Blk(h2, n, s, w) = Blk(h, n, s, w)
  BY DEF Steady
<1>2. /\ \A g : Under(h2, n, g) = Under(h, n, g)
      /\ Behind(n) # NULL => Kept(h2, Behind(n))
  BY <1>1, OnlyUnder
<1> QED
  BY <1>1, <1>2 DEF Beneath, OnlyIn

LEMMA BeneathSame ==
    ASSUME Valid, NEW n \in Made, NEW h, NEW h2, Same(h, h2), Sane(h2),
           Behind(n) # NULL => Kept(h, Behind(n)), NEW d
    PROVE  Beneath(h, h2, n, {}, d)
<1>1. /\ \A g : Under(h2, n, g) = Under(h, n, g)
      /\ \A s, w : Blk(h2, n, s, w) = Blk(h, n, s, w)
  BY SameIs
<1>2. Behind(n) # NULL => Kept(h2, Behind(n))
  BY SecondLevel, SameIs
<1>3. h2.c = h.c /\ h2.mem = h.mem /\ h2.bad = h.bad
  BY DEF Same
<1> QED
  BY <1>1, <1>2, <1>3 DEF Beneath

LEMMA BeneathThen ==
    ASSUME NEW n, NEW h, NEW h1, NEW h2, NEW d0, NEW d, NEW W,
           Beneath(h, h1, n, {}, d0), Beneath(h1, h2, n, W, d)
    PROVE  Beneath(h, h2, n, W, d)
<1>1. /\ h2.bad = h.bad /\ Sane(h2)
      /\ \A m \in Made \ {n, Behind(n)} : h2.c[m] = h.c[m]
      /\ \A s \in Sets(n), w \in Ways(n) : Blk(h2, n, s, w) = Blk(h, n, s, w)
      /\ Behind(n) # NULL => Kept(h2, Behind(n))
  BY DEF Beneath
<1>2. n \in Datas => \A g \in Granules :
          Under(h2, n, g) = IF g \in W THEN d[g] ELSE Under(h, n, g)
  BY DEF Beneath
<1>3. n \notin Datas =>
        /\ Behind(n) \notin Datas => h2.mem = h.mem
        /\ Behind(n) \in Datas => \A g \in Granules : Under(h2, n, g) = Under(h, n, g)
  BY DEF Beneath
<1> QED
  BY <1>1, <1>2, <1>3 DEF Beneath

\* The victim is selected, and the access to what is behind is expected.
Chosen(h, n, s) == ForgetLastHit(Selected(Asked(h, n), n, s), n)

\* g is h with a block chosen.
Begun(h, g, n) ==
    /\ Beneath(h, g, n, {}, <<>>) /\ LastTag(g, n) = 0
    /\ \A k \in {"dl2", "il2"} : g.owed[k] = h.owed[k] - One(Behind(n), k)

LEMMA BegunChosen ==
    ASSUME Valid, NEW n \in Made, NEW h, Ready(h, n), NEW s \in Sets(n),
           NEW g, g = Chosen(h, n, s)
    PROVE  Begun(h, g, n)
<1> DEFINE h1 == Asked(h, n)
           h2 == Selected(h1, n, s)
<1>0. Sane(h) /\ (Behind(n) # NULL => Kept(h, Behind(n)))
  BY DEF Ready
<1>1. /\ Sane(h1) /\ Same(h, h1)
      /\ \A k \in {"dl2", "il2"} : h1.owed[k] = h.owed[k] - One(Behind(n), k)
  BY <1>0, AskedIs
<1>2. g = ForgetLastHit(h2, n)
  BY DEF Chosen
<1> HIDE DEF h1
<1>3. Steady(n, h1, h2)
  BY <1>1, SelectedIs
<1> HIDE DEF h2
<1>4. Steady(n, h2, g) /\ LastTag(g, n) = 0
  BY <1>2, <1>3, ForgetLastHitIs DEF Steady
<1>5. Steady(n, h1, g)
  BY <1>3, <1>4, SteadyTrans
<1>6. Beneath(h, h1, n, {}, <<>>)
  BY <1>0, <1>1, BeneathSame
<1>7. Beneath(h1, g, n, {}, <<>>)
  BY <1>5, <1>6, BeneathSteady DEF Beneath
<1>8. Beneath(h, g, n, {}, <<>>)
  BY <1>6, <1>7, BeneathThen
<1>9. g.owed = h1.owed
  BY <1>5 DEF Steady, OnlyIn
<1> QED
  BY <1>1, <1>4, <1>8, <1>9 DEF Begun

LEMMA BegunOnBus ==
    ASSUME Valid, NEW n \in Made, NEW h, NEW g, Begun(h, g, n), NEW t, Timed => t \in Nat,
           NEW g2, g2 = OnBus(g, n, t)
    PROVE  Begun(h, g2, n)
<1>1. Sane(g) /\ Beneath(h, g, n, {}, <<>>) /\ (Behind(n) # NULL => Kept(g, Behind(n)))
  BY DEF Begun, Beneath
<1>2. Steady(n, g, g2) /\ LastTag(g2, n) = LastTag(g, n)
  BY <1>1, OnBusIs
<1>3. Beneath(g, g2, n, {}, <<>>)
  BY <1>1, <1>2, BeneathSteady
<1>4. Beneath(h, g2, n, {}, <<>>)
  BY <1>1, <1>3, BeneathThen
<1>5. g2.owed = g.owed
  BY <1>2 DEF Steady, OnlyIn
<1> QED
  BY <1>2, <1>4, <1>5 DEF Begun

\* How long the victim waits for its fill and for the bus.
Waits(h, n, v, t) ==
    LET lat == Bound_Pos(v.ready - t)
    IN  lat + Bound_Pos(h.c[n].bus_free - (t + lat))

LEMMA WaitsIs ==
    ASSUME Valid, NEW n \in Made, NEW h, Sane(h), NEW v \in BlockT, NEW t \in Nat
    PROVE  Waits(h, n, v, t) \in Nat
<1> DEFINE r == v.ready
           f == h.c[n].bus_free
<1>1. r \in Nat /\ f \in Nat
  BY Fields DEF Sane, Typed, CacheT
<1>2. Waits(h, n, v, t) = Bound_Pos(r - t) + Bound_Pos(f - (t + Bound_Pos(r - t)))
  BY DEF Waits
<1> HIDE DEF r, f
<1>3. Bound_Pos(r - t) \in Nat
  BY <1>1 DEF Bound_Pos
<1>4. ASSUME NEW x \in Nat PROVE Bound_Pos(f - (t + x)) \in Nat
  BY <1>1 DEF Bound_Pos
<1> QED
  BY <1>2, <1>3, <1>4

\* What an access to the level behind begins with.
ReadyBelow(h, n) == Sane(h) /\ (Behind(n) # NULL => Kept(h, Behind(n)))

\* What is asked for when a dirty block is written back.
LEMMA DirtyAsks ==
    ASSUME Valid, NEW n \in Made, NEW h, Sane(h),
           NEW s \in Sets(n), NEW w \in Ways(n), NEW v, v = Blk(h, n, s, w),
           v.valid, v.dirty, NEW t, Timed => t \in Nat
    PROVE  AsksBelow(n, "Write", CACHE_MK_BADDR(n, v.tag, s), v.data, t)
<1>1. v \in BlockT /\ BlockOk(n, s, v)
  BY SaneBlock
<1>2. v.tag \in Nat /\ v.data \in Partial
  BY <1>1, Fields
<1> DEFINE B == CACHE_MK_BADDR(n, v.tag, s)
<1>3. B \in Nat /\ CACHE_BADDR(n, B) = B
  BY <1>2, AddressMade
<1>4. DOMAIN v.data = Within(B, Opt(n).bsize)
  <2> DEFINE ts == v.tag * Opt(n).nsets + s
  <2>1. ts \in Nat /\ B = ts * Opt(n).bsize
    BY <1>2, AddressMade DEF CACHE_MK_BADDR
  <2>2. Has(v) = Mine(n, ts)
    BY <1>1 DEF BlockOk
  <2> HIDE DEF ts, B
  <2> QED
    BY <2>1, <2>2, WithinBlock DEF Has
<1>5. Far(n, B) /\ ~Blocked(n) /\ n \notin {"il1", "il2"}
  BY <1>1 DEF BlockOk
<1> HIDE DEF B
<1>6. AsksBelow(n, "Write", B, v.data, t)
  BY <1>2, <1>3, <1>4, <1>5 DEF AsksBelow
<1> QED
  BY <1>6 DEF B

\* The write-back of a dirty block that is asked for.
LEMMA WritesBack ==
    ASSUME Valid, NEW n \in Made, NEW h, Ready(h, n), NEW g, Begun(h, g, n),
           NEW s \in Sets(n), NEW w \in Ways(n), NEW v, v = Blk(h, n, s, w),
           v.valid, v.dirty, NEW t, Timed => t \in Nat,
           NEW g2, g2 = Asked(g, n)
    PROVE  /\ ReadyBelow(g2, n) /\ Beneath(h, g2, n, {}, <<>>) /\ LastTag(g2, n) = 0
           /\ \A k \in {"dl2", "il2"} : g2.owed[k] = g.owed[k] - One(Behind(n), k)
           /\ AsksBelow(n, "Write", CACHE_MK_BADDR(n, v.tag, s), v.data, t)
<1>1. AsksBelow(n, "Write", CACHE_MK_BADDR(n, v.tag, s), v.data, t)
  BY DirtyAsks DEF Ready
<1>2. Sane(g) /\ (Behind(n) # NULL => Kept(g, Behind(n))) /\ LastTag(g, n) = 0
      /\ Beneath(h, g, n, {}, <<>>)
  BY DEF Begun, Beneath
<1>3. /\ Sane(g2) /\ Same(g, g2)
      /\ \A k \in {"dl2", "il2"} : g2.owed[k] = g.owed[k] - One(Behind(n), k)
  BY <1>2, AskedIs
<1>4. Beneath(g, g2, n, {}, <<>>)
  BY <1>2, <1>3, BeneathSame
<1>5. Beneath(h, g2, n, {}, <<>>)
  BY <1>2, <1>4, BeneathThen
<1>6. LastTag(g2, n) = 0
  BY <1>2, <1>3, SameIs
<1>7. ReadyBelow(g2, n)
  BY <1>4 DEF ReadyBelow, Beneath
<1> QED
  BY <1>1, <1>3, <1>5, <1>6, <1>7

\* What MissDid asks of the state in which the new block is read: g0, after l0 cycles.
Replaced(h, g0, l0, n, v) ==
    /\ Beneath(h, g0, n, WrittenBack(v), v.data) /\ LastTag(g0, n) = 0
    /\ \A k \in {"dl2", "il2"} : g0.owed[k] = h.owed[k] - One(Behind(n), k)
    /\ Timed => l0 \in Nat

LEMMA ReplacedClean ==
    ASSUME Valid, NEW n \in Made, NEW h, NEW g, Begun(h, g, n),
           NEW v, ~(v.valid /\ v.dirty), NEW l0, Timed => l0 \in Nat
    PROVE  Replaced(h, g, l0, n, v)
<1>1. WrittenBack(v) = {}
  BY DEF WrittenBack
<1>2. Beneath(h, g, n, {}, v.data)
  BY DEF Begun, Beneath
<1> QED
  BY <1>1, <1>2 DEF Replaced, Begun

LEMMA ReplacedDirty ==
    ASSUME Valid, NEW n \in Made, NEW h, Sane(h), NEW g, Begun(h, g, n),
           NEW v, v.valid, v.dirty, NEW t, NEW B,
           NEW g2, Beneath(h, g2, n, {}, <<>>), LastTag(g2, n) = 0,
           \A k \in {"dl2", "il2"} : g2.owed[k] = g.owed[k] - One(Behind(n), k),
           NEW h2, NEW lat, NEW e, DidBelow(g2, h2, lat, e, n, "Write", B, v.data, t),
           NEW l2, Timed => l2 \in Nat, NEW l0, l0 = l2 + lat
    PROVE  Replaced(h, h2, l0, n, v)
<1>1. WrittenBack(v) = DOMAIN v.data
  BY DEF WrittenBack, Has
<1>2. Beneath(g2, h2, n, DOMAIN v.data, v.data)
  BY DEF DidBelow
<1>3. Beneath(h, h2, n, WrittenBack(v), v.data)
  BY <1>1, <1>2, BeneathThen
<1>4. LastTag(h2, n) = 0
  BY DEF DidBelow, LastTag
<1>5. ASSUME NEW k \in {"dl2", "il2"} PROVE h2.owed[k] = h.owed[k] - One(Behind(n), k)
  <2> DEFINE x == h.owed[k]
             y == One(Behind(n), k)
  <2>1. x \in Int /\ y \in Int
    BY DEF Sane, Typed, One
  <2>2. g.owed[k] = x - y
    BY DEF Begun
  <2>3. g2.owed[k] = g.owed[k] - y
    OBVIOUS
  <2>4. h2.owed[k] = g2.owed[k] + y
    BY DEF DidBelow
  <2> HIDE DEF x, y
  <2>5. h2.owed[k] = x - y
    BY <2>1, <2>2, <2>3, <2>4
  <2> QED
    BY <2>5 DEF x, y
<1>6. Timed => l0 \in Nat
  BY DEF DidBelow
<1> QED
  BY <1>3, <1>4, <1>5, <1>6 DEF Replaced

-----------------------------------------------------------------------------
(* A miss, step by step *)

LEMMA MissEnds ==
    ASSUME Valid, NEW h, NEW n \in Made, Ready(h, n),
           NEW cmd, NEW a, NEW z, NEW d, NEW t, Asks(n, cmd, a, z, d, t),
           In(h, n, a) = {}, NEW w \in Ways(n),
           NEW v, v = Blk(h, n, CACHE_SET(n, a), w),
           NEW g0, NEW l0, Replaced(h, g0, l0, n, v),
           NEW fh, NEW fl, NEW fd,
           DidBelow(g0, fh, fl, fd, n, "Read", CACHE_BADDR(n, a), <<>>, t + l0),
           NEW r, r = Refilled(fh, n, cmd, a, z, d, t, w, l0 + fl, fd)
    PROVE  Did(h, r.h, r.lat, r.d, n, cmd, a, z, d, t)
<1> DEFINE lat == l0 + fl
           nb == NewBlock(n, cmd, a, d, t, lat, fd)
           h2 == PutBlk(fh, n, CACHE_SET(n, a), w, nb)
           e == Of(nb.data, a, z)
<1>1. r.h = h2 /\ r.lat = lat /\ r.d = e
  BY DEF Refilled, Answer, PutBlk, NewBlock
<1>2. Timed => l0 \in Nat /\ fl \in Nat
  BY DEF Replaced, DidBelow
<1>3. Timed => lat \in Nat
  BY <1>2
<1>4. fd \in [Within(CACHE_BADDR(n, a), Opt(n).bsize) -> Values]
  BY DEF DidBelow
<1>5. lat = l0 + fl
  OBVIOUS
<1> HIDE DEF lat
<1>6. nb = NewBlock(n, cmd, a, d, t, lat, fd)
  OBVIOUS
<1>7. h2 = PutBlk(fh, n, CACHE_SET(n, a), w, nb) /\ e = Of(nb.data, a, z)
  OBVIOUS
<1> HIDE DEF nb, h2, e
<1>8. IsNew(nb, n, cmd, a, d, t, lat, fd)
  BY <1>3, <1>4, <1>6, NewBlockIs
<1>9. /\ Beneath(h, g0, n, WrittenBack(v), v.data) /\ LastTag(g0, n) = 0
      /\ \A k \in {"dl2", "il2"} : g0.owed[k] = h.owed[k] - One(Behind(n), k)
      /\ Timed => l0 \in Nat
  BY DEF Replaced
<1>10. Did(h, h2, lat, e, n, cmd, a, z, d, t)
  BY <1>5, <1>7, <1>8, <1>9, MissDid
<1> QED
  BY <1>1, <1>10

\* The block a miss asks for.
LEMMA Refills ==
    ASSUME Valid, NEW n \in Made, NEW cmd, NEW a, NEW z, NEW d, NEW t,
           Asks(n, cmd, a, z, d, t), NEW l0, Timed => l0 \in Nat
    PROVE  AsksBelow(n, "Read", CACHE_BADDR(n, a), <<>>, t + l0)
<1>1. a \in Nat /\ Far(n, a) /\ ~Blocked(n) /\ (Timed => t \in Nat)
  BY DEF Asks
<1>2. CACHE_BADDR(n, a) \in Nat /\ Far(n, CACHE_BADDR(n, a))
  BY <1>1, Split, FarBaddr
<1>3. CACHE_BADDR(n, CACHE_BADDR(n, a)) = CACHE_BADDR(n, a)
  <2>1. CACHE_TAG(n, a) \in Nat /\ CACHE_SET(n, a) \in Sets(n)
        /\ CACHE_MK_BADDR(n, CACHE_TAG(n, a), CACHE_SET(n, a)) = CACHE_BADDR(n, a)
    BY <1>1, Split
  <2>2. CACHE_BADDR(n, CACHE_MK_BADDR(n, CACHE_TAG(n, a), CACHE_SET(n, a)))
           = CACHE_MK_BADDR(n, CACHE_TAG(n, a), CACHE_SET(n, a))
    BY <2>1, AddressMade
  <2> QED
    BY <2>1, <2>2
<1>4. Timed => t + l0 \in Nat
  BY <1>1
<1> QED
  BY <1>1, <1>2, <1>3, <1>4 DEF AsksBelow

\* What the function behind the cache n does, whenever it is called.
Serves(n, Below(_, _, _, _, _, _)) ==
    \A h, cmd, B, d, t :
        ReadyBelow(h, n) /\ AsksBelow(n, cmd, B, d, t) =>
            DidBelow(h, Below(h, n, cmd, B, d, t).h, Below(h, n, cmd, B, d, t).lat,
                     Below(h, n, cmd, B, d, t).d, n, cmd, B, d, t)


LEMMA EvictsMemory ==
    ASSUME Valid, NEW n \in Made, Serves(n, MainMemory), NEW h, Ready(h, n), NEW g, Begun(h, g, n),
           NEW s \in Sets(n), NEW w \in Ways(n), NEW v, v = Blk(h, n, s, w),
           NEW t, Timed => t \in Nat, NEW e, e = Evict(g, n, s, v, t, MainMemory)
    PROVE  Replaced(h, e.h, e.lat, n, v)
<1> DEFINE l2 == Waits(g, n, v, t)
           x == OnBus(g, n, t + l2)
           g2 == Asked(x, n)
           B == CACHE_MK_BADDR(n, v.tag, s)
           r == MainMemory(g2, n, "Write", B, v.data, t + l2)
<1>1. CASE ~v.valid
  <2>1. e = Answer(g, 0, <<>>)
    BY <1>1 DEF Evict
  <2>2. e.h = g /\ e.lat = 0
    BY <2>1 DEF Answer
  <2> QED
    BY <1>1, <2>2, ReplacedClean
<1>2. CASE v.valid
  <2>v. v \in BlockT /\ Sane(g) /\ Sane(h)
    BY SaneBlock DEF Ready, Begun, Beneath
  <2>0. Timed => l2 \in Nat
    BY <2>v, WaitsIs
  <2>1. /\ ~v.dirty => e = Answer(x, l2, <<>>)
        /\ v.dirty => e = Answer(r.h, l2 + r.lat, <<>>)
    BY <1>2 DEF Evict, With, Waits, OnBus
  <2>b. x = OnBus(g, n, t + l2) /\ g2 = Asked(x, n)
    OBVIOUS
  <2>r. r = MainMemory(g2, n, "Write", B, v.data, t + l2)
    OBVIOUS
  <2> HIDE DEF l2
  <2>t. Timed => t + l2 \in Nat
    BY <2>0
  <2> HIDE DEF x, g2, r
  <2>2. Begun(h, x, n)
    BY <2>b, <2>t, BegunOnBus
  <2>3. CASE ~v.dirty
    <3>1. e.h = x /\ e.lat = l2
      BY <2>1, <2>3 DEF Answer
    <3> QED
      BY <2>0, <2>2, <2>3, <3>1, ReplacedClean
  <2>4. CASE v.dirty
    <3>1. e.h = r.h /\ e.lat = l2 + r.lat
      BY <2>1, <2>4 DEF Answer
    <3>2. /\ ReadyBelow(g2, n) /\ Beneath(h, g2, n, {}, <<>>) /\ LastTag(g2, n) = 0
          /\ \A k \in {"dl2", "il2"} : g2.owed[k] = x.owed[k] - One(Behind(n), k)
          /\ AsksBelow(n, "Write", B, v.data, t + l2)
      <4> DEFINE u == t + l2
      <4>1. Timed => u \in Nat
        BY <2>t
      <4> HIDE DEF u
      <4>2. /\ ReadyBelow(g2, n) /\ Beneath(h, g2, n, {}, <<>>) /\ LastTag(g2, n) = 0
            /\ \A k \in {"dl2", "il2"} : g2.owed[k] = x.owed[k] - One(Behind(n), k)
            /\ AsksBelow(n, "Write", B, v.data, u)
        <5>1. Ready(h, n) /\ Begun(h, x, n) /\ v = Blk(h, n, s, w) /\ v.valid /\ v.dirty
              /\ g2 = Asked(x, n)
          BY <1>2, <2>2, <2>4, <2>b
        <5> HIDE DEF B
        <5>2. /\ ReadyBelow(g2, n) /\ Beneath(h, g2, n, {}, <<>>) /\ LastTag(g2, n) = 0
              /\ \A k \in {"dl2", "il2"} : g2.owed[k] = x.owed[k] - One(Behind(n), k)
          BY <4>1, <5>1, WritesBack
        <5>3. AsksBelow(n, "Write", CACHE_MK_BADDR(n, v.tag, s), v.data, u)
          BY <4>1, <5>1, WritesBack
        <5> QED
          BY <5>2, <5>3 DEF B
      <4> QED
        BY <4>2 DEF u
    <3> HIDE DEF B
    <3>3. DidBelow(g2, r.h, r.lat, r.d, n, "Write", B, v.data, t + l2)
      BY <2>r, <3>2 DEF Serves
    <3> QED
      BY <1>2, <2>0, <2>2, <2>4, <2>v, <3>1, <3>2, <3>3, ReplacedDirty
  <2> QED
    BY <2>3, <2>4
<1> QED
  BY <1>1, <1>2

LEMMA MissesMemory ==
    ASSUME Valid, NEW n \in Made, Serves(n, MainMemory), NEW h, Ready(h, n),
           NEW cmd, NEW a, NEW z, NEW d, NEW t, Asks(n, cmd, a, z, d, t),
           In(h, n, a) = {}, NEW r, r = Miss(h, n, cmd, a, z, d, t, MainMemory)
    PROVE  Did(h, r.h, r.lat, r.d, n, cmd, a, z, d, t)
<1> DEFINE s == CACHE_SET(n, a)
           w == Victim(h, n, s)
           v == Blk(h, n, s, w)
           g == Chosen(h, n, s)
           e == Evict(g, n, s, v, t, MainMemory)
           f == MainMemory(e.h, n, "Read", CACHE_BADDR(n, a), <<>>, t + e.lat)
<1>1. r = Refilled(f.h, n, cmd, a, z, d, t, w, e.lat + f.lat, f.d)
  BY DEF Miss, With, Chosen, Blk
<1>2. s \in Sets(n) /\ w \in Ways(n)
  <2>1. s \in Sets(n)
    BY Split DEF Asks
  <2> QED
    BY <2>1, VictimIs DEF Ready
<1>v. v = Blk(h, n, CACHE_SET(n, a), w) /\ v = Blk(h, n, s, w)
  OBVIOUS
<1>g. g = Chosen(h, n, s)
  OBVIOUS
<1>e. e = Evict(g, n, s, v, t, MainMemory)
  OBVIOUS
<1>f. f = MainMemory(e.h, n, "Read", CACHE_BADDR(n, a), <<>>, t + e.lat)
  OBVIOUS
<1> HIDE DEF s, w, v, g, e, f
<1>3. Begun(h, g, n)
  BY <1>2, <1>g, BegunChosen
<1>4. Replaced(h, e.h, e.lat, n, v)
  BY <1>2, <1>3, <1>v, <1>e, EvictsMemory DEF Asks
<1>5. ReadyBelow(e.h, n) /\ (Timed => e.lat \in Nat)
  BY <1>4 DEF Replaced, Beneath, ReadyBelow
<1>6. AsksBelow(n, "Read", CACHE_BADDR(n, a), <<>>, t + e.lat)
  BY <1>5, Refills
<1>7. DidBelow(e.h, f.h, f.lat, f.d, n, "Read", CACHE_BADDR(n, a), <<>>, t + e.lat)
  BY <1>5, <1>6, <1>f DEF Serves
<1> QED
  BY <1>1, <1>2, <1>4, <1>7, <1>v, MissEnds

LEMMA EvictsLevel ==
    ASSUME Valid, NEW n \in Made, Serves(n, Below1), NEW h, Ready(h, n), NEW g, Begun(h, g, n),
           NEW s \in Sets(n), NEW w \in Ways(n), NEW v, v = Blk(h, n, s, w),
           NEW t, Timed => t \in Nat, NEW e, e = Evict(g, n, s, v, t, Below1)
    PROVE  Replaced(h, e.h, e.lat, n, v)
<1> DEFINE l2 == Waits(g, n, v, t)
           x == OnBus(g, n, t + l2)
           g2 == Asked(x, n)
           B == CACHE_MK_BADDR(n, v.tag, s)
           r == Below1(g2, n, "Write", B, v.data, t + l2)
<1>1. CASE ~v.valid
  <2>1. e = Answer(g, 0, <<>>)
    BY <1>1 DEF Evict
  <2>2. e.h = g /\ e.lat = 0
    BY <2>1 DEF Answer
  <2> QED
    BY <1>1, <2>2, ReplacedClean
<1>2. CASE v.valid
  <2>v. v \in BlockT /\ Sane(g) /\ Sane(h)
    BY SaneBlock DEF Ready, Begun, Beneath
  <2>0. Timed => l2 \in Nat
    BY <2>v, WaitsIs
  <2>1. /\ ~v.dirty => e = Answer(x, l2, <<>>)
        /\ v.dirty => e = Answer(r.h, l2 + r.lat, <<>>)
    BY <1>2 DEF Evict, With, Waits, OnBus
  <2>b. x = OnBus(g, n, t + l2) /\ g2 = Asked(x, n)
    OBVIOUS
  <2>r. r = Below1(g2, n, "Write", B, v.data, t + l2)
    OBVIOUS
  <2> HIDE DEF l2
  <2>t. Timed => t + l2 \in Nat
    BY <2>0
  <2> HIDE DEF x, g2, r
  <2>2. Begun(h, x, n)
    BY <2>b, <2>t, BegunOnBus
  <2>3. CASE ~v.dirty
    <3>1. e.h = x /\ e.lat = l2
      BY <2>1, <2>3 DEF Answer
    <3> QED
      BY <2>0, <2>2, <2>3, <3>1, ReplacedClean
  <2>4. CASE v.dirty
    <3>1. e.h = r.h /\ e.lat = l2 + r.lat
      BY <2>1, <2>4 DEF Answer
    <3>2. /\ ReadyBelow(g2, n) /\ Beneath(h, g2, n, {}, <<>>) /\ LastTag(g2, n) = 0
          /\ \A k \in {"dl2", "il2"} : g2.owed[k] = x.owed[k] - One(Behind(n), k)
          /\ AsksBelow(n, "Write", B, v.data, t + l2)
      <4> DEFINE u == t + l2
      <4>1. Timed => u \in Nat
        BY <2>t
      <4> HIDE DEF u
      <4>2. /\ ReadyBelow(g2, n) /\ Beneath(h, g2, n, {}, <<>>) /\ LastTag(g2, n) = 0
            /\ \A k \in {"dl2", "il2"} : g2.owed[k] = x.owed[k] - One(Behind(n), k)
            /\ AsksBelow(n, "Write", B, v.data, u)
        <5>1. Ready(h, n) /\ Begun(h, x, n) /\ v = Blk(h, n, s, w) /\ v.valid /\ v.dirty
              /\ g2 = Asked(x, n)
          BY <1>2, <2>2, <2>4, <2>b
        <5> HIDE DEF B
        <5>2. /\ ReadyBelow(g2, n) /\ Beneath(h, g2, n, {}, <<>>) /\ LastTag(g2, n) = 0
              /\ \A k \in {"dl2", "il2"} : g2.owed[k] = x.owed[k] - One(Behind(n), k)
          BY <4>1, <5>1, WritesBack
        <5>3. AsksBelow(n, "Write", CACHE_MK_BADDR(n, v.tag, s), v.data, u)
          BY <4>1, <5>1, WritesBack
        <5> QED
          BY <5>2, <5>3 DEF B
      <4> QED
        BY <4>2 DEF u
    <3> HIDE DEF B
    <3>3. DidBelow(g2, r.h, r.lat, r.d, n, "Write", B, v.data, t + l2)
      BY <2>r, <3>2 DEF Serves
    <3> QED
      BY <1>2, <2>0, <2>2, <2>4, <2>v, <3>1, <3>2, <3>3, ReplacedDirty
  <2> QED
    BY <2>3, <2>4
<1> QED
  BY <1>1, <1>2

LEMMA MissesLevel ==
    ASSUME Valid, NEW n \in Made, Serves(n, Below1), NEW h, Ready(h, n),
           NEW cmd, NEW a, NEW z, NEW d, NEW t, Asks(n, cmd, a, z, d, t),
           In(h, n, a) = {}, NEW r, r = Miss(h, n, cmd, a, z, d, t, Below1)
    PROVE  Did(h, r.h, r.lat, r.d, n, cmd, a, z, d, t)
<1> DEFINE s == CACHE_SET(n, a)
           w == Victim(h, n, s)
           v == Blk(h, n, s, w)
           g == Chosen(h, n, s)
           e == Evict(g, n, s, v, t, Below1)
           f == Below1(e.h, n, "Read", CACHE_BADDR(n, a), <<>>, t + e.lat)
<1>1. r = Refilled(f.h, n, cmd, a, z, d, t, w, e.lat + f.lat, f.d)
  BY DEF Miss, With, Chosen, Blk
<1>2. s \in Sets(n) /\ w \in Ways(n)
  <2>1. s \in Sets(n)
    BY Split DEF Asks
  <2> QED
    BY <2>1, VictimIs DEF Ready
<1>v. v = Blk(h, n, CACHE_SET(n, a), w) /\ v = Blk(h, n, s, w)
  OBVIOUS
<1>g. g = Chosen(h, n, s)
  OBVIOUS
<1>e. e = Evict(g, n, s, v, t, Below1)
  OBVIOUS
<1>f. f = Below1(e.h, n, "Read", CACHE_BADDR(n, a), <<>>, t + e.lat)
  OBVIOUS
<1> HIDE DEF s, w, v, g, e, f
<1>3. Begun(h, g, n)
  BY <1>2, <1>g, BegunChosen
<1>4. Replaced(h, e.h, e.lat, n, v)
  BY <1>2, <1>3, <1>v, <1>e, EvictsLevel DEF Asks
<1>5. ReadyBelow(e.h, n) /\ (Timed => e.lat \in Nat)
  BY <1>4 DEF Replaced, Beneath, ReadyBelow
<1>6. AsksBelow(n, "Read", CACHE_BADDR(n, a), <<>>, t + e.lat)
  BY <1>5, Refills
<1>7. DidBelow(e.h, f.h, f.lat, f.d, n, "Read", CACHE_BADDR(n, a), <<>>, t + e.lat)
  BY <1>5, <1>6, <1>f DEF Serves
<1> QED
  BY <1>1, <1>2, <1>4, <1>7, <1>v, MissEnds

-----------------------------------------------------------------------------
(* An access *)

LEMMA DeliverHits ==
    ASSUME Valid, NEW n \in Made, NEW h, Sane(h), NEW h1, Steady(n, h, h1),
           NEW cmd, NEW a, NEW z, NEW d, NEW t, Asks(n, cmd, a, z, d, t),
           NEW w \in In(h, n, a), NEW r, r = Deliver(h1, n, cmd, a, z, d, t, w)
    PROVE  /\ Hits(h, r.h, n, cmd, a, d, w)
           /\ r.d = Of(Blk(r.h, n, CACHE_SET(n, a), w).data, a, z)
           /\ r.lat = Larger(HitLatency(n), Blk(h, n, CACHE_SET(n, a), w).ready - t)
<1> DEFINE s == CACHE_SET(n, a)
           b == Blk(h, n, s, w)
           b2 == HitBlock(cmd, d, b)
           c == h1.c[n]
           c2 == [c EXCEPT !.blk[s][w] = b2, !.last_tagset = TagSet(n, a), !.last_blk = w]
<1>1. /\ w \in Ways(n) /\ s \in Sets(n) /\ Has(b) = Mine(n, TagSet(n, a))
      /\ a \in Nat /\ TagSet(n, a) \in Nat
  BY FoundOne, Split DEF Asks
<1>2. Blk(h1, n, s, w) = b /\ Sane(h1) /\ OnlyIn(n, h, h1)
      /\ \A q \in Sets(n), x \in Ways(n) : Blk(h1, n, q, x) = Blk(h, n, q, x)
  BY <1>1 DEF Steady
<1>3. b \in BlockT
  BY <1>1, SaneBlock
<1>4. cmd \in {"Read", "Write"} /\ (cmd = "Write" => d \in Partial /\ DOMAIN d \subseteq Has(b))
  BY <1>1, WithinOne DEF Asks
<1>b. b2 = HitBlock(cmd, d, b)
  OBVIOUS
<1>5. r = Answer(Put(h1, n, c2), Larger(HitLatency(n), b.ready - t), Of(b2.data, a, z))
  <2>1. h1.c[n].blk[s][w] = b
    BY <1>2 DEF Blk
  <2> HIDE DEF b
  <2>2. r = Answer([h1 EXCEPT !.c[n].blk[s][w] = b2, !.c[n].last_tagset = TagSet(n, a),
                             !.c[n].last_blk = w],
                   Larger(HitLatency(n), b.ready - t), Of(b2.data, a, z))
    BY <2>1 DEF Deliver, HitBlock
  <2> HIDE DEF b2, s
  <2>3. [h1 EXCEPT !.c[n].blk[s][w] = b2, !.c[n].last_tagset = TagSet(n, a),
                   !.c[n].last_blk = w] = Put(h1, n, c2)
    BY DEF Put
  <2> QED
    BY <2>2, <2>3
<1>c. c = h1.c[n]
  OBVIOUS
<1> HIDE DEF b, b2, c
<1>6. b2 \in BlockT
  BY <1>3, <1>4, <1>b, HitBlockIs
<1>7. c \in CacheT(n)
  BY <1>2, <1>c DEF Sane, Typed
<1> HIDE DEF s
<1>8. /\ c2 \in CacheT(n) /\ c2.order = c.order
      /\ c2.last_tagset = TagSet(n, a) /\ c2.last_blk = w
      /\ \A q \in Sets(n), x \in Ways(n) :
            c2.blk[q][x] = IF q = s /\ x = w THEN b2 ELSE c.blk[q][x]
  <2> DEFINE B == [c.blk EXCEPT ![s][w] = b2]
  <2>1. c.blk \in [Sets(n) -> [Ways(n) -> BlockT]]
    BY <1>7 DEF CacheT
  <2>2. B \in [Sets(n) -> [Ways(n) -> BlockT]]
    BY <1>1, <1>6, <2>1
  <2>3. \A q \in Sets(n), x \in Ways(n) :
           B[q][x] = IF q = s /\ x = w THEN b2 ELSE c.blk[q][x]
    BY <1>1, <2>1
  <2>4. c2 = [c EXCEPT !.blk = B, !.last_tagset = TagSet(n, a), !.last_blk = w]
    OBVIOUS
  <2> HIDE DEF B, c2
  <2>5. /\ c2 \in CacheT(n) /\ c2.order = c.order /\ c2.blk = B
        /\ c2.last_tagset = TagSet(n, a) /\ c2.last_blk = w
    <3>1. w \in Nat
      BY <1>1, Sizes DEF Ways
    <3> QED
      BY <1>1, <1>7, <2>2, <2>4, <3>1 DEF CacheT
  <2> QED
    BY <2>3, <2>5
<1> HIDE DEF c2
<1>9. r.h = Put(h1, n, c2) /\ r.d = Of(b2.data, a, z)
      /\ r.lat = Larger(HitLatency(n), b.ready - t)
  BY <1>5 DEF Answer
<1> DEFINE h2 == r.h
<1>h. h2 = r.h
  OBVIOUS
<1> HIDE DEF h2
<1>10. Typed(h2) /\ OnlyIn(n, h1, h2) /\ h2.c[n] = c2
  BY <1>2, <1>8, <1>9, <1>h, PutCache DEF Sane
<1>11. OnlyIn(n, h, h2)
  BY <1>2, <1>10 DEF OnlyIn
<1>12. ListsWays(h2, n)
  <2>1. \A q \in Sets(n) : Ord(h2, n, q) = Ord(h1, n, q)
    BY <1>8, <1>10, <1>c DEF Ord
  <2> QED
    BY <1>2, <2>1 DEF Sane, Shaped, ListsWays
<1>13. LastTag(h2, n) = TagSet(n, a) /\ LastBlk(h2, n) = w
  BY <1>8, <1>10 DEF LastTag, LastBlk
<1>14. \A q \in Sets(n), x \in Ways(n) :
          Blk(h2, n, q, x) = IF q = s /\ x = w THEN b2 ELSE Blk(h, n, q, x)
  <2>1. \A q \in Sets(n), x \in Ways(n) : Blk(h1, n, q, x) = c.blk[q][x]
    BY <1>c DEF Blk
  <2>2. \A q \in Sets(n), x \in Ways(n) : Blk(h2, n, q, x) = c2.blk[q][x]
    BY <1>10 DEF Blk
  <2> QED
    BY <1>2, <1>8, <2>1, <2>2
<1>15. Blk(h2, n, s, w) = b2
  BY <1>1, <1>14
<1>16. Hits(h, h2, n, cmd, a, d, w)
  <2>1. \A q \in Sets(n), x \in Ways(n) :
           Blk(h2, n, q, x) = IF q = s /\ x = w THEN HitBlock(cmd, d, Blk(h, n, q, x))
                              ELSE Blk(h, n, q, x)
    BY <1>14, <1>b DEF b
  <2> QED
    BY <1>10, <1>11, <1>12, <1>13, <2>1 DEF Hits, s
<1> QED
  BY <1>9, <1>15, <1>16, <1>h DEF b, s

LEMMA SlowHitIs ==
    ASSUME Valid, NEW n \in Made, NEW h, Sane(h), NEW a \in Nat, NEW w \in Ways(n)
    PROVE  Steady(n, h, SlowHit(h, n, a, w))
<1>1. CACHE_SET(n, a) \in Sets(n)
  BY Split
<1>2. CASE Opt(n).repl = "l"
  <2>1. SlowHit(h, n, a, w) = Listed(h, n, CACHE_SET(n, a), w)
    BY <1>2 DEF SlowHit, Listed
  <2> QED
    BY <1>1, <2>1, ListedIs
<1>3. CASE Opt(n).repl # "l"
  <2>1. SlowHit(h, n, a, w) = h
    BY <1>3 DEF SlowHit
  <2> QED
    BY <2>1, SteadyRefl
<1> QED
  BY <1>2, <1>3

\* The block that hit last has the address, if their numbers are the same.
LEMMA LastHas ==
    ASSUME Valid, NEW n \in Made, NEW h, Sane(h), NEW a \in Nat, Far(n, a),
           TagSet(n, a) = LastTag(h, n)
    PROVE  LastBlk(h, n) \in In(h, n, a)
<1>1. LastTag(h, n) # 0
  BY Split DEF Far
<1>2. /\ CACHE_SET(n, a) = LastTag(h, n) % Opt(n).nsets
      /\ CACHE_TAG(n, a) = LastTag(h, n) \div Opt(n).nsets
  BY DEF CACHE_SET, CACHE_TAG
<1>3. LastIsThere(h, n)
  BY DEF Sane, Shaped
<1> QED
  BY <1>1, <1>2, <1>3, InIs DEF LastIsThere

LEMMA HitAnswers ==
    ASSUME Valid, NEW h, NEW n \in Made, Ready(h, n), NEW h1, Steady(n, h, h1),
           NEW cmd, NEW a, NEW z, NEW d, NEW t, Asks(n, cmd, a, z, d, t),
           NEW w \in In(h, n, a), NEW r, r = Deliver(h1, n, cmd, a, z, d, t, w)
    PROVE  Did(h, r.h, r.lat, r.d, n, cmd, a, z, d, t)
<1>0. Sane(h)
  BY DEF Ready
<1>1. /\ Hits(h, r.h, n, cmd, a, d, w)
      /\ r.d = Of(Blk(r.h, n, CACHE_SET(n, a), w).data, a, z)
      /\ r.lat = Larger(HitLatency(n), Blk(h, n, CACHE_SET(n, a), w).ready - t)
  BY <1>0, DeliverHits
<1> DEFINE h2 == r.h
           lat == r.lat
           e == r.d
<1>2. /\ Hits(h, h2, n, cmd, a, d, w)
      /\ e = Of(Blk(h2, n, CACHE_SET(n, a), w).data, a, z)
      /\ lat = Larger(HitLatency(n), Blk(h, n, CACHE_SET(n, a), w).ready - t)
  BY <1>1
<1> HIDE DEF h2, lat, e
<1>3. Did(h, h2, lat, e, n, cmd, a, z, d, t)
  BY <1>2, HitDid
<1> QED
  BY <1>3 DEF h2, lat, e

LEMMA CountedReady ==
    ASSUME Valid, NEW n \in Made, NEW h, Ready(h, n)
    PROVE  Ready(Counted(h, n), n) /\ Same(h, Counted(h, n))
<1>1. Sane(Counted(h, n)) /\ Same(h, Counted(h, n))
  BY CountedIs DEF Ready
<1>2. Kept(Counted(h, n), n) /\ (Behind(n) # NULL => Kept(Counted(h, n), Behind(n)))
  BY <1>1, SameIs, SecondLevel DEF Ready
<1> QED
  BY <1>1, <1>2 DEF Ready

LEMMA AccessesMemory ==
    ASSUME Valid, NEW n \in Made, Serves(n, MainMemory), NEW h0, Ready(h0, n),
           NEW cmd, NEW a, NEW z, NEW d, NEW t, Asks(n, cmd, a, z, d, t),
           NEW r, r = AccessOver(h0, n, cmd, a, z, d, t, MainMemory)
    PROVE  Did(Counted(h0, n), r.h, r.lat, r.d, n, cmd, a, z, d, t)
<1> DEFINE h == Counted(h0, n)
<1>1. Ready(h, n)
  BY CountedReady
<1>2. ~Spans(n, a, z) /\ a \in Nat /\ Far(n, a)
  BY DEF Asks
<1>3. r = IF TagSet(n, a) = LastTag(h, n)
          THEN Deliver(h, n, cmd, a, z, d, t, LastBlk(h, n))
          ELSE IF In(h, n, a) = {} THEN Miss(h, n, cmd, a, z, d, t, MainMemory)
          ELSE LET w == CHOOSE x \in In(h, n, a) : TRUE
               IN  Deliver(SlowHit(h, n, a, w), n, cmd, a, z, d, t, w)
  BY <1>2 DEF AccessOver, With, Looked, LastTag, LastBlk, In
<1> HIDE DEF h
<1>4. Sane(h)
  BY <1>1 DEF Ready
<1>5. CASE TagSet(n, a) = LastTag(h, n)
  <2>1. LastBlk(h, n) \in In(h, n, a)
    BY <1>2, <1>4, <1>5, LastHas
  <2>2. r = Deliver(h, n, cmd, a, z, d, t, LastBlk(h, n))
    BY <1>3, <1>5
  <2>3. Did(h, r.h, r.lat, r.d, n, cmd, a, z, d, t)
    BY <1>1, <1>4, <2>1, <2>2, SteadyRefl, HitAnswers
  <2> QED
    BY <2>3 DEF h
<1>6. CASE TagSet(n, a) # LastTag(h, n) /\ In(h, n, a) = {}
  <2>1. r = Miss(h, n, cmd, a, z, d, t, MainMemory)
    BY <1>3, <1>6
  <2>2. Did(h, r.h, r.lat, r.d, n, cmd, a, z, d, t)
    BY <1>1, <1>6, <2>1, MissesMemory
  <2> QED
    BY <2>2 DEF h
<1>7. CASE TagSet(n, a) # LastTag(h, n) /\ In(h, n, a) # {}
  <2> DEFINE w == CHOOSE x \in In(h, n, a) : TRUE
             h1 == SlowHit(h, n, a, w)
  <2>1. w \in In(h, n, a)
    BY <1>7
  <2>2. r = Deliver(h1, n, cmd, a, z, d, t, w)
    BY <1>3, <1>7
  <2> HIDE DEF w
  <2>3. w \in Ways(n)
    BY <2>1, InIs
  <2>4. Steady(n, h, h1)
    BY <1>2, <1>4, <2>3, SlowHitIs
  <2> HIDE DEF h1
  <2>5. Did(h, r.h, r.lat, r.d, n, cmd, a, z, d, t)
    BY <1>1, <2>1, <2>2, <2>4, HitAnswers
  <2> QED
    BY <2>5 DEF h
<1> QED
  BY <1>5, <1>6, <1>7

LEMMA AccessesLevel ==
    ASSUME Valid, NEW n \in Made, Serves(n, Below1), NEW h0, Ready(h0, n),
           NEW cmd, NEW a, NEW z, NEW d, NEW t, Asks(n, cmd, a, z, d, t),
           NEW r, r = AccessOver(h0, n, cmd, a, z, d, t, Below1)
    PROVE  Did(Counted(h0, n), r.h, r.lat, r.d, n, cmd, a, z, d, t)
<1> DEFINE h == Counted(h0, n)
<1>1. Ready(h, n)
  BY CountedReady
<1>2. ~Spans(n, a, z) /\ a \in Nat /\ Far(n, a)
  BY DEF Asks
<1>3. r = IF TagSet(n, a) = LastTag(h, n)
          THEN Deliver(h, n, cmd, a, z, d, t, LastBlk(h, n))
          ELSE IF In(h, n, a) = {} THEN Miss(h, n, cmd, a, z, d, t, Below1)
          ELSE LET w == CHOOSE x \in In(h, n, a) : TRUE
               IN  Deliver(SlowHit(h, n, a, w), n, cmd, a, z, d, t, w)
  BY <1>2 DEF AccessOver, With, Looked, LastTag, LastBlk, In
<1> HIDE DEF h
<1>4. Sane(h)
  BY <1>1 DEF Ready
<1>5. CASE TagSet(n, a) = LastTag(h, n)
  <2>1. LastBlk(h, n) \in In(h, n, a)
    BY <1>2, <1>4, <1>5, LastHas
  <2>2. r = Deliver(h, n, cmd, a, z, d, t, LastBlk(h, n))
    BY <1>3, <1>5
  <2>3. Did(h, r.h, r.lat, r.d, n, cmd, a, z, d, t)
    BY <1>1, <1>4, <2>1, <2>2, SteadyRefl, HitAnswers
  <2> QED
    BY <2>3 DEF h
<1>6. CASE TagSet(n, a) # LastTag(h, n) /\ In(h, n, a) = {}
  <2>1. r = Miss(h, n, cmd, a, z, d, t, Below1)
    BY <1>3, <1>6
  <2>2. Did(h, r.h, r.lat, r.d, n, cmd, a, z, d, t)
    BY <1>1, <1>6, <2>1, MissesLevel
  <2> QED
    BY <2>2 DEF h
<1>7. CASE TagSet(n, a) # LastTag(h, n) /\ In(h, n, a) # {}
  <2> DEFINE w == CHOOSE x \in In(h, n, a) : TRUE
             h1 == SlowHit(h, n, a, w)
  <2>1. w \in In(h, n, a)
    BY <1>7
  <2>2. r = Deliver(h1, n, cmd, a, z, d, t, w)
    BY <1>3, <1>7
  <2> HIDE DEF w
  <2>3. w \in Ways(n)
    BY <2>1, InIs
  <2>4. Steady(n, h, h1)
    BY <1>2, <1>4, <2>3, SlowHitIs
  <2> HIDE DEF h1
  <2>5. Did(h, r.h, r.lat, r.d, n, cmd, a, z, d, t)
    BY <1>1, <2>1, <2>2, <2>4, HitAnswers
  <2> QED
    BY <2>5 DEF h
<1> QED
  BY <1>5, <1>6, <1>7

-----------------------------------------------------------------------------
(* What is behind a cache *)

LEMMA MemIsPartial ==
    ASSUME NEW h, Sane(h)
    PROVE  h.mem \in Partial /\ DOMAIN h.mem = Granules
  BY DEF Sane, Typed, Partial

\* The memory replaced.
Remember(h, x) == [h EXCEPT !.mem = x]

LEMMA RememberIs ==
    ASSUME NEW h, Sane(h), NEW x \in [Granules -> Values], NEW h2, h2 = Remember(h, x)
    PROVE  /\ Sane(h2) /\ h2.mem = x /\ h2.c = h.c /\ h2.owed = h.owed /\ h2.bad = h.bad
<1>1. Typed(h2) /\ h2.mem = x /\ h2.c = h.c /\ h2.owed = h.owed /\ h2.bad = h.bad
  BY DEF Sane, Typed, Remember
<1>2. \A n \in Made : Shaped(h2, n)
  <2> SUFFICES ASSUME NEW n \in Made PROVE Shaped(h2, n)
    OBVIOUS
  <2>1. h2.c[n] = h.c[n]
    BY <1>1
  <2> QED
    BY <2>1, SameCache DEF Sane
<1> QED
  BY <1>1, <1>2 DEF Sane

\* What is written to the memory.
LEMMA MemWritten ==
    ASSUME NEW h, Sane(h), NEW d \in Partial,
           NEW h2, h2 = Remember(h, Written(d, h.mem))
    PROVE  /\ Sane(h2) /\ h2.c = h.c /\ h2.owed = h.owed /\ h2.bad = h.bad
           /\ \A g \in Granules : h2.mem[g] = IF g \in DOMAIN d THEN d[g] ELSE h.mem[g]
<1> DEFINE y == h.mem
           x == Written(d, y)
<1>1. h2 = Remember(h, x)
  OBVIOUS
<1>2. y \in Partial /\ DOMAIN y = Granules
  BY MemIsPartial
<1>3. DOMAIN d \subseteq Granules
  BY PartialFun
<1>y. y = h.mem
  OBVIOUS
<1> HIDE DEF y
<1>4. /\ x \in Partial /\ DOMAIN x = Granules
      /\ \A g \in Granules : x[g] = IF g \in DOMAIN d THEN d[g] ELSE y[g]
  <2>1. /\ x \in Partial /\ DOMAIN x = DOMAIN d \cup DOMAIN y
        /\ \A g \in DOMAIN d \cup DOMAIN y : x[g] = IF g \in DOMAIN d THEN d[g] ELSE y[g]
    BY <1>2, WrittenIs
  <2>2. DOMAIN d \cup DOMAIN y = Granules
    BY <1>2, <1>3
  <2> QED
    BY <2>1, <2>2
<1> HIDE DEF x
<1>5. x \in [Granules -> Values]
  BY <1>4, PartialFun
<1>6. /\ Sane(h2) /\ h2.mem = x /\ h2.c = h.c /\ h2.owed = h.owed /\ h2.bad = h.bad
  BY <1>1, <1>5, RememberIs
<1> QED
  BY <1>4, <1>6, <1>y

LEMMA BeneathRefl ==
    ASSUME NEW n, NEW h, ReadyBelow(h, n), NEW d
    PROVE  Beneath(h, h, n, {}, d)
  BY DEF Beneath, ReadyBelow

LEMMA MemoryServes ==
    ASSUME Valid, NEW n \in Made, Behind(n) = NULL, n \notin Tlbs
    PROVE  Serves(n, MainMemory)
<1> SUFFICES ASSUME NEW h, NEW cmd, NEW B, NEW d, NEW t,
                    ReadyBelow(h, n), AsksBelow(n, cmd, B, d, t),
                    NEW r, r = MainMemory(h, n, cmd, B, d, t)
             PROVE  DidBelow(h, r.h, r.lat, r.d, n, cmd, B, d, t)
  BY DEF Serves
<1>0. Sane(h) /\ h.owed \in [{"dl2", "il2"} -> Int]
  BY DEF ReadyBelow, Sane, Typed
<1>o. \A k \in {"dl2", "il2"} : One(Behind(n), k) = 0
  BY DEF One, NULL
<1>1. CASE cmd = "Read"
  <2>1. r.h = h /\ r.lat = mem_access_latency(Opt(n).bsize)
        /\ r.d = Of(h.mem, B, Opt(n).bsize)
    BY <1>1 DEF MainMemory, Answer
  <2>2. Within(B, Opt(n).bsize) \subseteq Granules
    BY DEF Within
  <2>3. /\ r.d \in [Within(B, Opt(n).bsize) -> Values]
        /\ \A g \in Within(B, Opt(n).bsize) : r.d[g] = h.mem[g]
    BY <1>0, <2>1, <2>2, MemIsPartial, OfIs
  <2>4. Beneath(h, h, n, {}, d)
    BY BeneathRefl
  <2>5. Timed => r.lat \in Nat
    BY <2>1, Latencies
  <2> DEFINE lat == r.lat
             e == r.d
  <2>6. /\ e \in [Within(B, Opt(n).bsize) -> Values]
        /\ \A g \in Within(B, Opt(n).bsize) : e[g] = h.mem[g]
        /\ Timed => lat \in Nat
    BY <2>3, <2>5
  <2> HIDE DEF lat, e
  <2>7. DidBelow(h, h, lat, e, n, cmd, B, d, t)
    BY <1>0, <1>o, <1>1, <2>4, <2>6 DEF DidBelow, Under
  <2> QED
    BY <2>1, <2>7 DEF lat, e
<1>2. CASE cmd # "Read"
  <2>0. cmd = "Write" /\ n \notin {"il1", "il2"} /\ d \in Partial
    BY <1>2 DEF AsksBelow
  <2>1. r.h = Remember(h, Written(d, h.mem)) /\ r.lat = 0 /\ r.d = d
    BY <1>2, <2>0 DEF MainMemory, Answer, Remember
  <2> DEFINE h2 == r.h
  <2>2. h2 = Remember(h, Written(d, h.mem))
    BY <2>1
  <2> HIDE DEF h2
  <2>3. /\ Sane(h2) /\ h2.c = h.c /\ h2.owed = h.owed /\ h2.bad = h.bad
        /\ \A g \in Granules : h2.mem[g] = IF g \in DOMAIN d THEN d[g] ELSE h.mem[g]
    BY <1>0, <2>0, <2>2, MemWritten
  <2>4. n \in Datas
    BY <2>0, Geometry DEF Names, Tlbs, Datas
  <2>5. \A s \in Sets(n), w \in Ways(n) : Blk(h2, n, s, w) = Blk(h, n, s, w)
    BY <2>3 DEF Blk
  <2>6. Beneath(h, h2, n, DOMAIN d, d)
    BY <2>3, <2>4, <2>5 DEF Beneath, Under
  <2>7. DidBelow(h, h2, 0, d, n, cmd, B, d, t)
    BY <1>0, <1>o, <2>0, <2>3, <2>6 DEF DidBelow
  <2> QED
    BY <2>1, <2>7 DEF h2
<1> QED
  BY <1>1, <1>2

LEMMA TlbServes ==
    ASSUME Valid, NEW n \in Made, n \in Tlbs
    PROVE  Serves(n, Below1)
<1> SUFFICES ASSUME NEW h, NEW cmd, NEW B, NEW d, NEW t,
                    ReadyBelow(h, n), AsksBelow(n, cmd, B, d, t),
                    NEW r, r = Below1(h, n, cmd, B, d, t)
             PROVE  DidBelow(h, r.h, r.lat, r.d, n, cmd, B, d, t)
  BY DEF Serves
<1>0. Sane(h) /\ h.owed \in [{"dl2", "il2"} -> Int]
  BY DEF ReadyBelow, Sane, Typed
<1>b. Behind(n) = NULL /\ n \notin Datas
  BY DEF Behind, Tlbs, Datas
<1>o. \A k \in {"dl2", "il2"} : One(Behind(n), k) = 0
  BY <1>b DEF One, NULL
<1>1. r.h = h /\ r.lat = o.tlb_miss_lat /\ r.d = Zeros(B, Opt(n).bsize)
  BY DEF Below1, tlb_access_fn, Answer
<1> DEFINE lat == r.lat
           e == r.d
<1>2. e \in [Within(B, Opt(n).bsize) -> Values]
  BY <1>1, HierarchyAssumption DEF Zeros
<1>3. Timed => lat \in Nat
  BY <1>1, Latencies
<1>4. \A W : Beneath(h, h, n, W, d)
  BY <1>b DEF Beneath, ReadyBelow
<1> HIDE DEF lat, e
<1>5. DidBelow(h, h, lat, e, n, cmd, B, d, t)
  BY <1>0, <1>b, <1>o, <1>2, <1>3, <1>4 DEF DidBelow
<1> QED
  BY <1>1, <1>5 DEF lat, e

\* An answer is a record of three fields.
IsAnswer(r) == r = Answer(r.h, r.lat, r.d)

LEMMA AnswerIs == ASSUME NEW x, NEW y, NEW z PROVE IsAnswer(Answer(x, y, z))
  BY DEF IsAnswer, Answer

LEMMA AccessAnswers ==
    ASSUME NEW n, NEW h0, NEW cmd, NEW a, NEW z, NEW d, NEW t
    PROVE  IsAnswer(AccessOver(h0, n, cmd, a, z, d, t, MainMemory))
<1> DEFINE h == Counted(h0, n)
           r == Looked(h, n, cmd, a, z, d, t, MainMemory)
<1>1. AccessOver(h0, n, cmd, a, z, d, t, MainMemory) = r
  BY DEF AccessOver, With
<1>2. \A h1, w : IsAnswer(Deliver(h1, n, cmd, a, z, d, t, w))
  BY AnswerIs DEF Deliver
<1>3. IsAnswer(Miss(h, n, cmd, a, z, d, t, MainMemory))
  <2> DEFINE s == CACHE_SET(n, a)
             w == Victim(h, n, s)
             e == Evict(Chosen(h, n, s), n, s, Blk(h, n, s, w), t, MainMemory)
             f == MainMemory(e.h, n, "Read", CACHE_BADDR(n, a), <<>>, t + e.lat)
  <2>1. Miss(h, n, cmd, a, z, d, t, MainMemory)
           = Refilled(f.h, n, cmd, a, z, d, t, w, e.lat + f.lat, f.d)
    BY DEF Miss, With, Chosen, Blk
  <2> HIDE DEF s, w, e, f
  <2> QED
    BY <2>1, AnswerIs DEF Refilled
<1>4. IsAnswer(r)
  <2> HIDE DEF h
  <2> QED
    BY <1>2, <1>3, AnswerIs DEF Looked
<1> QED
  BY <1>1, <1>4

-----------------------------------------------------------------------------
(* The second level *)

\* What a first level asks for is inside a block of the second.
LEMMA AsksSecond ==
    ASSUME Valid, NEW n \in Made, Behind(n) # NULL, NEW cmd, NEW B, NEW d, NEW t,
           AsksBelow(n, cmd, B, d, t)
    PROVE  Asks(Behind(n), cmd, B, Opt(n).bsize, d, t)
<1> DEFINE m == Behind(n)
           b == Opt(n).bsize
<1>1. m \in Made /\ Behind(m) = NULL /\ m \in {"dl2", "il2"} /\ (m = "il2" => n = "il1")
  BY SecondLevel
<1>2. /\ cmd \in {"Read", "Write"} /\ B \in Nat /\ CACHE_BADDR(n, B) = B
      /\ Far(n, B) /\ ~Blocked(n) /\ (Timed => t \in Nat)
      /\ cmd = "Write" => /\ n \notin {"il1", "il2"} /\ d \in Partial
                          /\ DOMAIN d = Within(B, b)
  BY DEF AsksBelow
<1>3. ~Spans(m, B, b)
  BY <1>2, LevelBelow
<1>4. b \in Nat \ {0}
  BY Sizes
<1>5. Far(m, B) /\ ~Blocked(m)
  BY <1>1, <1>2 DEF Far, Blocked
<1> HIDE DEF m, b
<1>6. m = "il2" => cmd # "Write"
  BY <1>1, <1>2
<1>7. Asks(m, cmd, B, b, d, t)
  BY <1>1, <1>2, <1>3, <1>4, <1>5, <1>6 DEF Asks
<1> QED
  BY <1>7 DEF m, b

\* In a second level the nearest copy is the second one.
LEMMA SecondIsTop ==
    ASSUME NEW h, NEW m, Behind(m) = NULL, NEW g
    PROVE  Second(h, m, g) = Top(h, m, g)
  BY DEF Second, Top, Under

LEMMA SecondDid ==
    ASSUME Valid, NEW n \in Made, NEW m, m = Behind(n), m # NULL,
           NEW h, ReadyBelow(h, n), NEW cmd, NEW B, NEW d, NEW t,
           AsksBelow(n, cmd, B, d, t),
           NEW h0, h0 = Counted(h, m), NEW h2, NEW lat, NEW e,
           Did(h0, h2, lat, e, m, cmd, B, Opt(n).bsize, d, t),
           NEW l2, l2 = lat \/ (cmd # "Read" /\ l2 = 0)
    PROVE  DidBelow(h, h2, l2, e, n, cmd, B, d, t)
<1>0. Sane(h)
  BY DEF ReadyBelow
<1>1. /\ m \in Made /\ Behind(m) = NULL /\ m \in {"dl2", "il2"} /\ n \in {"dl1", "il1"}
      /\ (n = "dl1" => m = "dl2")
  BY SecondLevel
<1>2. m # n
  BY <1>1
<1>3. /\ Same(h, h0) /\ \A k \in {"dl2", "il2"} : h0.owed[k] = h.owed[k] + One(m, k)
  BY <1>0, <1>1, CountedIs
<1>4. /\ \A g : Top(h0, m, g) = Top(h, m, g)
  BY <1>1, <1>3, SameIs
<1>5. /\ Sane(h2) /\ h2.bad = h.bad /\ h2.owed = h0.owed
      /\ \A k \in Made \ {m} : h2.c[k] = h.c[k]
      /\ Kept(h2, m)
  BY <1>1, <1>3 DEF Did, Same, Made, Created, Names, NULL
<1>6. h2.c[n] = h.c[n] /\ \A k \in Made \ {n, m} : h2.c[k] = h.c[k]
  BY <1>2, <1>5
<1>7. \A s \in Sets(n), w \in Ways(n) : Blk(h2, n, s, w) = Blk(h, n, s, w)
  BY <1>6 DEF Blk
<1>8. \A g : Under(h2, n, g) = Top(h2, m, g) /\ Under(h, n, g) = Top(h, m, g)
  BY <1>1, SecondIsTop DEF Under
<1>9. cmd \in {"Read", "Write"}
      /\ (cmd = "Write" => n \notin {"il1", "il2"} /\ DOMAIN d = Within(B, Opt(n).bsize))
  BY DEF AsksBelow
<1>10. /\ m \in Datas => \A g \in Granules : Top(h2, m, g) =
             IF cmd = "Write" /\ g \in Within(B, Opt(n).bsize) THEN d[g] ELSE Top(h, m, g)
       /\ m \in Datas => \A g \in Within(B, Opt(n).bsize) : e[g] = Top(h2, m, g)
       /\ m \notin Datas => h2.mem = h.mem
  <2>1. Coherent(h0, h2, e, m, cmd, B, Opt(n).bsize, d)
    BY DEF Did
  <2>2. NULL \notin Datas
    BY DEF NULL, Datas
  <2>3. h0.mem = h.mem
    BY <1>3 DEF Same
  <2> QED
    BY <1>1, <1>4, <2>1, <2>2, <2>3 DEF Coherent
<1>11. n \in Datas => m \in Datas
  BY <1>1 DEF Datas
<1>12. Beneath(h, h2, n, IF cmd = "Write" THEN DOMAIN d ELSE {}, d)
  <2> DEFINE W == IF cmd = "Write" THEN DOMAIN d ELSE {}
  <2>1. n \in Datas => \A g \in Granules :
           Under(h2, n, g) = IF g \in W THEN d[g] ELSE Under(h, n, g)
    BY <1>8, <1>9, <1>10, <1>11
  <2>2. n \notin Datas => cmd # "Write"
    BY <1>1, <1>9 DEF Datas
  <2>3. n \notin Datas =>
          /\ m \notin Datas => h2.mem = h.mem
          /\ m \in Datas => \A g \in Granules : Under(h2, n, g) = Under(h, n, g)
    BY <1>8, <1>10, <2>2
  <2> HIDE DEF W
  <2>4. Beneath(h, h2, n, W, d)
    BY <1>5, <1>6, <1>7, <2>1, <2>3 DEF Beneath
  <2> QED
    BY <2>4 DEF W
<1>13. ASSUME cmd = "Read"
       PROVE  /\ e \in [Within(B, Opt(n).bsize) -> Values]
              /\ n \in Datas => \A g \in Within(B, Opt(n).bsize) : e[g] = Under(h2, n, g)
  <2>1. e \in [Within(B, Opt(n).bsize) -> Values]
    BY DEF Did
  <2> QED
    BY <1>8, <1>10, <1>11, <2>1
<1>14. ASSUME Timed
       PROVE  /\ l2 \in Nat
              /\ cmd = "Read" => \A x \in In(h2, m, B) :
                    t + l2 >= Blk(h2, m, CACHE_SET(m, B), x).ready
  <2>1. lat \in Nat /\ \A x \in In(h2, m, B) :
                          t + lat >= Blk(h2, m, CACHE_SET(m, B), x).ready
    BY <1>14 DEF Did
  <2> QED
    BY <2>1
<1>15. \A k \in {"dl2", "il2"} : h2.owed[k] = h.owed[k] + One(m, k)
  BY <1>3, <1>5
<1> QED
  BY <1>6, <1>12, <1>13, <1>14, <1>15 DEF DidBelow

LEMMA SecondServes ==
    ASSUME Valid, NEW n \in Made, Behind(n) # NULL
    PROVE  Serves(n, Below1)
<1> SUFFICES ASSUME NEW h, NEW cmd, NEW B, NEW d, NEW t,
                    ReadyBelow(h, n), AsksBelow(n, cmd, B, d, t),
                    NEW r, r = Below1(h, n, cmd, B, d, t)
             PROVE  DidBelow(h, r.h, r.lat, r.d, n, cmd, B, d, t)
  BY DEF Serves
<1> DEFINE m == Behind(n)
           q == AccessOver(h, m, cmd, B, Opt(n).bsize, d, t, MainMemory)
<1>1. /\ m \in Made /\ Behind(m) = NULL /\ m \in {"dl2", "il2"} /\ n \in {"dl1", "il1"}
  BY SecondLevel
<1>2. n \notin Tlbs /\ m \notin Tlbs
  BY <1>1 DEF Tlbs
<1>3. Asks(m, cmd, B, Opt(n).bsize, d, t)
  BY AsksSecond
<1>4. cmd \in {"Read", "Write"} /\ (cmd = "Write" => n # "il1")
  BY DEF AsksBelow
<1>5. r = IF cmd = "Read" THEN q ELSE [q EXCEPT !.lat = 0]
  BY <1>2, <1>4 DEF Below1, With, NextLevel
<1>6. Serves(m, MainMemory)
  BY <1>1, <1>2, MemoryServes
<1>7. Ready(h, m)
  BY <1>1 DEF ReadyBelow, Ready
<1>q. q = AccessOver(h, m, cmd, B, Opt(n).bsize, d, t, MainMemory)
  OBVIOUS
<1>m. m = Behind(n) /\ m # NULL
  OBVIOUS
<1> HIDE DEF q, m
<1>8. Did(Counted(h, m), q.h, q.lat, q.d, m, cmd, B, Opt(n).bsize, d, t)
  BY <1>1, <1>3, <1>6, <1>7, <1>q, AccessesMemory
<1>9. r.h = q.h /\ r.d = q.d /\ (r.lat = q.lat \/ (cmd # "Read" /\ r.lat = 0))
  <2>1. q = Answer(q.h, q.lat, q.d)
    BY <1>q, AccessAnswers DEF IsAnswer
  <2> DEFINE qh == q.h
             ql == q.lat
             qd == q.d
  <2> HIDE DEF qh, ql, qd
  <2>2. q = [h |-> qh, lat |-> ql, d |-> qd]
    BY <2>1 DEF qh, ql, qd, Answer
  <2>3. [q EXCEPT !.lat = 0] = [h |-> qh, lat |-> 0, d |-> qd]
    BY <2>2
  <2>4. r = [h |-> qh, lat |-> IF cmd = "Read" THEN ql ELSE 0, d |-> qd]
    BY <1>5, <2>2, <2>3
  <2> QED
    BY <2>2, <2>4
<1> DEFINE h0 == Counted(h, m)
           h2 == q.h
           lat == q.lat
           e == q.d
           l2 == r.lat
<1>10. /\ Did(h0, h2, lat, e, m, cmd, B, Opt(n).bsize, d, t)
       /\ l2 = lat \/ (cmd # "Read" /\ l2 = 0)
       /\ h0 = Counted(h, m)
  BY <1>8, <1>9
<1> HIDE DEF h0, h2, lat, e, l2
<1>11. DidBelow(h, h2, l2, e, n, cmd, B, d, t)
  BY <1>10, <1>m, SecondDid
<1> QED
  BY <1>9, <1>11 DEF h2, l2, e

LEMMA LevelServes ==
    ASSUME Valid, NEW n \in Made
    PROVE  Serves(n, Below1)
<1>1. CASE n \in Tlbs
  BY <1>1, TlbServes
<1>2. CASE Behind(n) # NULL
  BY <1>2, SecondServes
<1>3. CASE n \notin Tlbs /\ Behind(n) = NULL
  <2>1. Serves(n, MainMemory)
    BY <1>3, MemoryServes
  <2>2. \A h, cmd, B, d, t : Below1(h, n, cmd, B, d, t) = MainMemory(h, n, cmd, B, d, t)
    BY <1>3 DEF Below1, NextLevel
  <2> QED
    BY <2>1, <2>2 DEF Serves
<1> QED
  BY <1>1, <1>2, <1>3

\* An access of the simulator.
LEMMA AccessDid ==
    ASSUME Valid, NEW n \in Made, NEW h, Ready(h, n),
           NEW cmd, NEW a, NEW z, NEW d, NEW t, Asks(n, cmd, a, z, d, t),
           NEW r, r = cache_access(h, n, cmd, a, z, d, t)
    PROVE  Did(Counted(h, n), r.h, r.lat, r.d, n, cmd, a, z, d, t)
  BY LevelServes, AccessesLevel DEF cache_access

-----------------------------------------------------------------------------
(* All the caches *)

\* The value of a granule for the program.
Program(h, g) == IF "dl1" \in Made THEN Top(h, "dl1", g) ELSE h.mem[g]

\* What is behind the first data cache is the second and the memory.
LEMMA UnderData ==
    ASSUME Valid, NEW h, NEW g
    PROVE  Under(h, "dl1", g) = IF "dl2" \in Made THEN Second(h, "dl2", g) ELSE h.mem[g]
<1>1. Ptr.dl2 = NULL <=> "dl2" \notin Made
  BY Chained, ValidChecked DEF Made, Created, Names, NULL
<1>2. Ptr.dl2 \in {NULL, "dl2"}
  BY Chained, ValidChecked
<1> QED
  BY <1>1, <1>2 DEF Under, Behind

\* Without a first data cache there is no second.
LEMMA FirstMade ==
    ASSUME Valid, "dl2" \in Made
    PROVE  "dl1" \in Made
<1>1. Ptr.dl2 = "dl2"
  BY DEF Made, Created
<1>2. Ptr.dl1 = "dl1"
  BY <1>1, Chained, ValidChecked DEF NULL
<1> QED
  BY <1>2 DEF Made, Created, Names

\* The data is the same for the program if it is in the caches of data.
LEMMA SameData ==
    ASSUME Valid, NEW h, NEW h2,
           "dl1" \in Made => h2.c["dl1"] = h.c["dl1"],
           \A g \in Granules : IF "dl2" \in Made THEN Second(h2, "dl2", g) = Second(h, "dl2", g)
                               ELSE h2.mem[g] = h.mem[g],
           Sane(h)
    PROVE  /\ \A g \in Granules : Program(h2, g) = Program(h, g)
           /\ "dl1" \in Made /\ Kept(h, "dl1") => Kept(h2, "dl1")
<1>1. \A g \in Granules : Under(h2, "dl1", g) = Under(h, "dl1", g)
  BY UnderData
<1>2. "dl1" \in Made => \A g \in Granules : Top(h2, "dl1", g) = Top(h, "dl1", g)
  BY <1>1, SameCache DEF Top
<1>3. "dl1" \notin Made => "dl2" \notin Made
  BY FirstMade
<1>4. \A g \in Granules : Program(h2, g) = Program(h, g)
  BY <1>2, <1>3 DEF Program
<1>5. ASSUME "dl1" \in Made, Kept(h, "dl1") PROVE Kept(h2, "dl1")
  <2> SUFFICES ASSUME NEW s \in Sets("dl1"), NEW w \in Ways("dl1"),
                      Blk(h2, "dl1", s, w).valid, ~Blk(h2, "dl1", s, w).dirty,
                      NEW g \in Has(Blk(h2, "dl1", s, w))
               PROVE  Datum(Blk(h2, "dl1", s, w), g) = Under(h2, "dl1", g)
    BY DEF Kept
  <2>1. Blk(h2, "dl1", s, w) = Blk(h, "dl1", s, w)
    BY <1>5, SameCache
  <2>2. g \in Granules
    BY <1>5, <2>1, SaneBlock, Fields
  <2>3. "dl1" \in Datas
    BY DEF Datas
  <2> QED
    BY <1>1, <1>5, <2>1, <2>2, <2>3 DEF Kept
<1> QED
  BY <1>4, <1>5

\* h2 is h after the cache n took or gave up blocks, with d written to the granules W.
Settles(h, h2, n, W, d) ==
    /\ Sane(h2) /\ h2.bad = h.bad
    /\ \A m \in Made \ {n, Behind(n)} : h2.c[m] = h.c[m]
    /\ Kept(h2, n) /\ (Behind(n) # NULL => Kept(h2, Behind(n)))
    /\ n \in Datas => \A g \in Granules :
          Top(h2, n, g) = IF g \in W THEN d[g] ELSE Top(h, n, g)
    /\ n \notin Datas =>
        /\ Behind(n) \notin Datas => h2.mem = h.mem
        /\ Behind(n) \in Datas => \A g \in Granules : Under(h2, n, g) = Under(h, n, g)

LEMMA SettlesGood ==
    ASSUME Valid, NEW n \in Made, NEW h, Good(h), NEW W, n = "dl2" => W = {}, NEW d,
           NEW h2, Settles(h, h2, n, W, d)
    PROVE  /\ Good(h2) /\ h2.bad = h.bad
           /\ \A g \in Granules :
                 Program(h2, g) = IF n = "dl1" /\ g \in W THEN d[g] ELSE Program(h, g)
<1>0. Sane(h) /\ \A m \in Made : Kept(h, m)
  BY DEF Good
<1>2. /\ Sane(h2) /\ h2.bad = h.bad
      /\ \A m \in Made \ {n, Behind(n)} : h2.c[m] = h.c[m]
      /\ Kept(h2, n) /\ (Behind(n) # NULL => Kept(h2, Behind(n)))
  BY DEF Settles
<1>3. /\ n \in Datas => \A g \in Granules :
            Top(h2, n, g) = IF g \in W THEN d[g] ELSE Top(h, n, g)
      /\ n \notin Datas =>
          /\ Behind(n) \notin Datas => h2.mem = h.mem
          /\ Behind(n) \in Datas => \A g \in Granules : Under(h2, n, g) = Under(h, n, g)
  BY DEF Settles

\* The caches of data.
<1>8. n # "dl1" => /\ \A g \in Granules : Program(h2, g) = Program(h, g)
                   /\ "dl1" \in Made => Kept(h2, "dl1")
  <2> SUFFICES ASSUME n # "dl1"
               PROVE  /\ \A g \in Granules : Program(h2, g) = Program(h, g)
                      /\ "dl1" \in Made => Kept(h2, "dl1")
    OBVIOUS
  <2>1. "dl1" # Behind(n)
    BY SecondLevel DEF NULL
  <2>2. "dl1" \in Made => h2.c["dl1"] = h.c["dl1"]
    BY <1>2, <2>1
  <2>3. \A g \in Granules :
           IF "dl2" \in Made THEN Second(h2, "dl2", g) = Second(h, "dl2", g)
           ELSE h2.mem[g] = h.mem[g]
    <3>b. Behind("dl2") = NULL
      BY DEF Behind
    <3>1. CASE n = "dl2"
      <4>1. W = {}
        BY <3>1
      <4>2. \A g \in Granules : Top(h2, "dl2", g) = Top(h, "dl2", g)
        BY <1>3, <3>1, <4>1 DEF Datas
      <4> QED
        BY <3>1, <3>b, <4>2, SecondIsTop
    <3>2. CASE n # "dl2" /\ Behind(n) = "dl2"
      <4>1. n \notin Datas /\ "dl2" \in Datas
        BY <3>2 DEF Datas
      <4>2. \A g \in Granules : Under(h2, n, g) = Under(h, n, g)
        BY <1>3, <3>2, <4>1
      <4>3. "dl2" \in Made
        BY <3>2, SecondLevel DEF NULL
      <4> QED
        BY <3>2, <4>2, <4>3 DEF Under, NULL
    <3>3. CASE n # "dl2" /\ Behind(n) # "dl2"
      <4>1. n \notin Datas /\ Behind(n) \notin Datas
        BY <3>3, <2>1 DEF Datas
      <4>2. h2.mem = h.mem
        BY <1>3, <4>1
      <4>3. ASSUME "dl2" \in Made, NEW g \in Granules
            PROVE  Second(h2, "dl2", g) = Second(h, "dl2", g)
        <5>1. h2.c["dl2"] = h.c["dl2"]
          BY <1>2, <3>3, <4>3
        <5> QED
          BY <4>2, <5>1, SameCache DEF Second
      <4> QED
        BY <4>2, <4>3
    <3> QED
      BY <3>1, <3>2, <3>3
  <2> QED
    BY <1>0, <2>2, <2>3, SameData
<1>9. \A m \in Made : Kept(h2, m)
  <2> SUFFICES ASSUME NEW m \in Made, m \in Datas PROVE Kept(h2, m)
    BY DEF Kept
  <2>1. CASE m = n \/ m = Behind(n)
    <3>1. m = Behind(n) => Behind(n) # NULL
      BY DEF NULL, Datas
    <3> QED
      BY <1>2, <2>1, <3>1
  <2>2. CASE m = "dl1" /\ m # n
    BY <1>8, <2>2
  <2>3. CASE m = "dl2" /\ m # n /\ m # Behind(n)
    <3>1. n # "dl1"
      <4>1. Ptr.dl2 = "dl2"
        BY <2>3 DEF Made, Created
      <4> QED
        BY <2>3, <4>1 DEF Behind
    <3>2. n \notin Datas
      BY <2>3, <3>1 DEF Datas
    <3>3. h2.mem = h.mem
      <4>1. Behind(n) # "dl1"
        BY SecondLevel DEF NULL
      <4> QED
        BY <1>3, <2>3, <3>2, <4>1 DEF Datas
    <3>4. h2.c["dl2"] = h.c["dl2"]
      BY <1>2, <2>3
    <3>5. \A s, w : Blk(h2, "dl2", s, w) = Blk(h, "dl2", s, w)
      BY <3>4, <2>3, SameCache
    <3>6. \A g : Under(h2, "dl2", g) = Under(h, "dl2", g)
      BY <3>3 DEF Under, Behind
    <3>7. Kept(h, "dl2")
      BY <1>0, <2>3
    <3>8. Kept(h2, "dl2")
      BY <3>5, <3>6, <3>7 DEF Kept
    <3> QED
      BY <2>3, <3>8
  <2> QED
    BY <2>1, <2>2, <2>3 DEF Datas
<1>10. \A g \in Granules :
         Program(h2, g) = IF n = "dl1" /\ g \in W THEN d[g] ELSE Program(h, g)
  BY <1>3, <1>8 DEF Program, Datas
<1> QED
  BY <1>2, <1>9, <1>10 DEF Good

\* The simulators write to the first data cache, and to no cache of instructions.
Top1(n, cmd) == cmd = "Write" => n \notin {"dl2", "il1", "il2"}

\* What the simulator is left with after an access of it.
Left(h, h2, lat, e, n, cmd, a, z, d) ==
    /\ Good(h2) /\ h2.bad = h.bad
    /\ \A m \in Made \ {n, Behind(n)} : h2.c[m] = h.c[m]
    /\ \A k \in {"dl2", "il2"} : h2.owed[k] = h.owed[k] + One(n, k)
    /\ \A g \in Granules : Program(h2, g) =
            IF n = "dl1" /\ cmd = "Write" /\ g \in Within(a, z) THEN d[g] ELSE Program(h, g)
    /\ n = "dl1" => \A g \in Within(a, z) : e[g] = Program(h2, g)
    /\ e \in [Within(a, z) -> Values]
    /\ Fresh(h, h2, n)
    /\ Timed => lat \in Nat

LEMMA DidLeft ==
    ASSUME Valid, NEW n \in Made, NEW h, Good(h), NEW cmd, Top1(n, cmd),
           NEW a, NEW z, NEW d, NEW t, NEW h0, h0 = Counted(h, n),
           NEW h2, NEW lat, NEW e, Did(h0, h2, lat, e, n, cmd, a, z, d, t)
    PROVE  Left(h, h2, lat, e, n, cmd, a, z, d)
<1>0. Sane(h) /\ \A m \in Made : Kept(h, m)
  BY DEF Good
<1>1. Same(h, h0) /\ \A k \in {"dl2", "il2"} : h0.owed[k] = h.owed[k] + One(n, k)
  BY <1>0, CountedIs
<1>s. \A m \in Made : \A g : Under(h0, m, g) = Under(h, m, g) /\ Top(h0, m, g) = Top(h, m, g)
  BY <1>1, SameIs
<1>2. /\ Sane(h2) /\ h2.bad = h.bad /\ h2.owed = h0.owed
      /\ \A m \in Made \ {n, Behind(n)} : h2.c[m] = h.c[m]
      /\ Kept(h2, n) /\ (Behind(n) # NULL => Kept(h2, Behind(n)))
  BY <1>1 DEF Did, Same
<1>3. /\ n \in Datas =>
          /\ \A g \in Granules : Top(h2, n, g) =
                IF cmd = "Write" /\ g \in Within(a, z) THEN d[g] ELSE Top(h, n, g)
          /\ \A g \in Within(a, z) : e[g] = Top(h2, n, g)
      /\ n \notin Datas =>
          /\ Behind(n) \notin Datas => h2.mem = h.mem
          /\ Behind(n) \in Datas => \A g \in Granules : Under(h2, n, g) = Under(h, n, g)
  <2>1. Coherent(h0, h2, e, n, cmd, a, z, d)
    BY DEF Did
  <2>2. h0.mem = h.mem
    BY <1>1 DEF Same
  <2> QED
    BY <1>s, <2>1, <2>2 DEF Coherent
<1>4. Fresh(h, h2, n)
  <2>1. \A s, w : Blk(h0, n, s, w) = Blk(h, n, s, w)
    BY <1>1, SameIs
  <2>2. Fresh(h0, h2, n)
    BY DEF Did
  <2> QED
    BY <2>1, <2>2 DEF Fresh
<1>5. e \in [Within(a, z) -> Values] /\ (Timed => lat \in Nat)
  BY DEF Did
<1>6. Within(a, z) \subseteq Granules
  BY DEF Within
<1>7. \A k \in {"dl2", "il2"} : h2.owed[k] = h.owed[k] + One(n, k)
  BY <1>1, <1>2
<1> DEFINE W == IF cmd = "Write" THEN Within(a, z) ELSE {}
<1>8. Settles(h, h2, n, W, d)
  BY <1>2, <1>3 DEF Settles
<1>9. n = "dl2" => W = {}
  BY DEF Top1
<1> HIDE DEF W
<1>10. /\ Good(h2)
       /\ \A g \in Granules :
             Program(h2, g) = IF n = "dl1" /\ g \in W THEN d[g] ELSE Program(h, g)
  BY <1>8, <1>9, SettlesGood
<1>11. n = "dl1" => \A g \in Within(a, z) : e[g] = Program(h2, g)
  BY <1>3 DEF Program, Datas
<1>12. \A g \in Granules : Program(h2, g) =
         IF n = "dl1" /\ cmd = "Write" /\ g \in Within(a, z) THEN d[g] ELSE Program(h, g)
  BY <1>10 DEF W
<1> QED
  BY <1>2, <1>4, <1>5, <1>7, <1>10, <1>11, <1>12 DEF Left

LEMMA GoodReady ==
    ASSUME Valid, NEW n \in Made, NEW h, Good(h)
    PROVE  Ready(h, n)
  BY SecondLevel DEF Good, Ready

LEMMA AccessLeaves ==
    ASSUME Valid, NEW n \in Made, NEW h, Good(h),
           NEW cmd, Top1(n, cmd), NEW a, NEW z, NEW d, NEW t, Asks(n, cmd, a, z, d, t),
           NEW r, r = cache_access(h, n, cmd, a, z, d, t)
    PROVE  Left(h, r.h, r.lat, r.d, n, cmd, a, z, d)
<1>1. Did(Counted(h, n), r.h, r.lat, r.d, n, cmd, a, z, d, t)
  BY GoodReady, AccessDid
<1> DEFINE h0 == Counted(h, n)
           h2 == r.h
           lat == r.lat
           e == r.d
<1>2. h0 = Counted(h, n) /\ Did(h0, h2, lat, e, n, cmd, a, z, d, t)
  BY <1>1
<1> HIDE DEF h0, h2, lat, e
<1>3. Left(h, h2, lat, e, n, cmd, a, z, d)
  BY <1>2, DidLeft
<1> QED
  BY <1>3 DEF h2, lat, e

-----------------------------------------------------------------------------
(* An access that ends the simulation *)

LEMMA FirstWay ==
    ASSUME Valid, NEW n \in Made
    PROVE  1 \in Ways(n)
<1>1. Opt(n).assoc \in Nat \ {0}
  BY Sizes
<1> QED
  BY <1>1 DEF Ways

\* A state is a record of five fields.
IsState(h) ==
    h = [c |-> h.c, mem |-> h.mem, rand |-> h.rand, owed |-> h.owed, bad |-> h.bad]

\* h2 is a state that ends as h does.
Ended(h, h2) == IsState(h2) /\ h2.bad = h.bad

LEMMA EndedFields ==
    ASSUME NEW h, IsState(h), NEW x
    PROVE  /\ Ended(h, [h EXCEPT !.c = x]) /\ Ended(h, [h EXCEPT !.owed = x])
           /\ Ended(h, [h EXCEPT !.rand = x]) /\ Ended(h, h)
<1> DEFINE c == h.c
           m == h.mem
           q == h.rand
           w == h.owed
           b == h.bad
<1>1. h = [c |-> c, mem |-> m, rand |-> q, owed |-> w, bad |-> b]
  BY DEF IsState
<1>b. h.bad = b
  OBVIOUS
<1> HIDE DEF c, m, q, w, b
<1>2. [h EXCEPT !.c = x] = [c |-> x, mem |-> m, rand |-> q, owed |-> w, bad |-> b]
  BY <1>1
<1>3. [h EXCEPT !.owed = x] = [c |-> c, mem |-> m, rand |-> q, owed |-> x, bad |-> b]
  BY <1>1
<1>4. [h EXCEPT !.rand = x] = [c |-> c, mem |-> m, rand |-> x, owed |-> w, bad |-> b]
  BY <1>1
<1> QED
  BY <1>1, <1>2, <1>3, <1>4, <1>b DEF Ended, IsState

LEMMA EndedTrans ==
    ASSUME NEW h, NEW h1, NEW h2, Ended(h, h1), Ended(h1, h2)
    PROVE  Ended(h, h2)
  BY DEF Ended

LEMMA TypedState ==
    ASSUME NEW h, Typed(h)
    PROVE  IsState(h)
  BY DEF Typed, IsState

LEMMA EndedSteps ==
    ASSUME NEW h, IsState(h), NEW n, NEW s, NEW w
    PROVE  /\ \A x : Ended(h, Put(h, n, x))
           /\ Ended(h, Asked(h, n)) /\ Ended(h, Counted(h, n))
           /\ Ended(h, Selected(h, n, s)) /\ Ended(h, ForgetLastHit(h, n))
           /\ \A t : Ended(h, OnBus(h, n, t))
           /\ \A b : Ended(h, PutBlk(h, n, s, w, b))
           /\ \A a : Ended(h, SlowHit(h, n, a, w))
<1>1. \A x : Ended(h, Put(h, n, x))
  <2> SUFFICES ASSUME NEW x PROVE Ended(h, Put(h, n, x))
    OBVIOUS
  <2>1. Put(h, n, x) = [h EXCEPT !.c = [h.c EXCEPT ![n] = x]]
    BY DEF Put
  <2>2. Ended(h, [h EXCEPT !.c = [h.c EXCEPT ![n] = x]])
    BY EndedFields
  <2> QED
    BY <2>1, <2>2
<1>2. Ended(h, h)
  BY EndedFields
<1>3. Ended(h, Asked(h, n))
  <2>1. \A m : [h EXCEPT !.owed[m] = h.owed[m] - 1]
                  = [h EXCEPT !.owed = [h.owed EXCEPT ![m] = h.owed[m] - 1]]
    OBVIOUS
  <2>2. \A m : Ended(h, [h EXCEPT !.owed[m] = h.owed[m] - 1])
    BY <2>1, EndedFields
  <2> QED
    BY <1>2, <2>2 DEF Asked
<1>4. Ended(h, Counted(h, n))
  <2>1. [h EXCEPT !.owed[n] = h.owed[n] + 1]
           = [h EXCEPT !.owed = [h.owed EXCEPT ![n] = h.owed[n] + 1]]
    OBVIOUS
  <2>2. Ended(h, [h EXCEPT !.owed[n] = h.owed[n] + 1])
    BY <2>1, EndedFields
  <2> QED
    BY <1>2, <2>2 DEF Counted
<1>5. \A q, x : Ended(h, Listed(h, n, q, x))
  <2> SUFFICES ASSUME NEW q, NEW x PROVE Ended(h, Listed(h, n, q, x))
    OBVIOUS
  <2>1. Listed(h, n, q, x) = Put(h, n, [h.c[n] EXCEPT !.order[q] = ToHead(@, x)])
    BY DEF Listed, Put
  <2> QED
    BY <1>1, <2>1
<1>6. Ended(h, ForgetLastHit(h, n))
  <2>1. ForgetLastHit(h, n)
           = Put(h, n, [h.c[n] EXCEPT !.last_tagset = 0, !.last_blk = 0])
    BY DEF ForgetLastHit, Put
  <2> QED
    BY <1>1, <2>1
<1>7. \A t : Ended(h, OnBus(h, n, t))
  <2> SUFFICES ASSUME NEW t PROVE Ended(h, OnBus(h, n, t))
    OBVIOUS
  <2>1. OnBus(h, n, t) = h
        \/ OnBus(h, n, t) = Put(h, n, [h.c[n] EXCEPT !.bus_free = Larger(@, t) + 1])
    BY DEF OnBus, Put
  <2> QED
    BY <1>1, <1>2, <2>1
<1>8. \A b : Ended(h, PutBlk(h, n, s, w, b))
  <2> SUFFICES ASSUME NEW b PROVE Ended(h, PutBlk(h, n, s, w, b))
    OBVIOUS
  <2>1. PutBlk(h, n, s, w, b) = Put(h, n, [h.c[n] EXCEPT !.blk[s][w] = b])
    BY DEF PutBlk, Put
  <2> QED
    BY <1>1, <2>1
<1>9. \A a : Ended(h, SlowHit(h, n, a, w))
  <2> SUFFICES ASSUME NEW a PROVE Ended(h, SlowHit(h, n, a, w))
    OBVIOUS
  <2>1. SlowHit(h, n, a, w) = h \/ SlowHit(h, n, a, w) = Listed(h, n, CACHE_SET(n, a), w)
    BY DEF SlowHit, Listed
  <2> QED
    BY <1>2, <1>5, <2>1
<1>10. Ended(h, Selected(h, n, s))
  <2>1. \A x : Ended(h, [h EXCEPT !.rand = x])
    BY EndedFields
  <2>2. Ended(h, Drawn(h))
    BY <2>1 DEF Drawn
  <2>3. Selected(h, n, s) = Drawn(h) \/ Selected(h, n, s) = Listed(h, n, s, Victim(h, n, s))
    BY DEF Selected, Drawn, Listed
  <2> QED
    BY <1>5, <2>2, <2>3
<1> QED
  BY <1>1, <1>3, <1>4, <1>6, <1>7, <1>8, <1>9, <1>10

\* A block is chosen.
LEMMA EndedChosen ==
    ASSUME NEW h, IsState(h), NEW n, NEW s
    PROVE  Ended(h, Chosen(h, n, s))
<1> DEFINE h1 == Asked(h, n)
           h2 == Selected(h1, n, s)
<1>1. Ended(h, h1)
  BY EndedSteps
<1>2. Ended(h1, h2)
  BY <1>1, EndedSteps DEF Ended
<1>3. Ended(h2, Chosen(h, n, s))
  BY <1>2, EndedSteps DEF Ended, Chosen
<1> HIDE DEF h1, h2
<1> QED
  BY <1>1, <1>2, <1>3, EndedTrans

LEMMA EndedDeliver ==
    ASSUME NEW h, IsState(h), NEW n, NEW cmd, NEW a, NEW z, NEW d, NEW t, NEW w
    PROVE  Ended(h, Deliver(h, n, cmd, a, z, d, t, w).h)
<1> DEFINE s == CACHE_SET(n, a)
           b == IF cmd = "Read" THEN h.c[n].blk[s][w]
                ELSE [h.c[n].blk[s][w] EXCEPT !.dirty = TRUE,
                                              !.data = Written(d, h.c[n].blk[s][w].data)]
<1>1. Deliver(h, n, cmd, a, z, d, t, w).h
        = [h EXCEPT !.c[n].blk[s][w] = b, !.c[n].last_tagset = TagSet(n, a),
                    !.c[n].last_blk = w]
  BY DEF Deliver, Answer
<1> HIDE DEF b, s
<1> DEFINE p == TagSet(n, a)
           h1 == PutBlk(h, n, s, w, b)
           h2 == Put(h1, n, [h1.c[n] EXCEPT !.last_tagset = p])
           h3 == Put(h2, n, [h2.c[n] EXCEPT !.last_blk = w])
<1> HIDE DEF p
<1>2. Deliver(h, n, cmd, a, z, d, t, w).h = h3
  BY <1>1 DEF Put, PutBlk, p
<1>3. Ended(h, h1)
  BY EndedSteps
<1> HIDE DEF h1
<1>p. \A k, x : IsState(k) => Ended(k, Put(k, n, x))
  BY EndedSteps
<1>4. Ended(h1, h2)
  BY <1>3, <1>p DEF Ended
<1> HIDE DEF h2
<1>5. Ended(h2, h3)
  BY <1>4, <1>p DEF Ended
<1> HIDE DEF h3
<1> QED
  BY <1>2, <1>3, <1>4, <1>5, EndedTrans

LEMMA EndedRefilled ==
    ASSUME NEW h, IsState(h), NEW n, NEW cmd, NEW a, NEW z, NEW d, NEW t, NEW w, NEW lat,
           NEW new
    PROVE  Ended(h, Refilled(h, n, cmd, a, z, d, t, w, lat, new).h)
<1>1. Refilled(h, n, cmd, a, z, d, t, w, lat, new).h
        = PutBlk(h, n, CACHE_SET(n, a), w, NewBlock(n, cmd, a, d, t, lat, new))
  BY DEF Refilled, Answer, PutBlk, NewBlock
<1> QED
  BY <1>1, EndedSteps

\* A TLB ends nothing, whatever the state.
LEMMA TlbEnds ==
    ASSUME NEW h, IsState(h), NEW n \in Tlbs, NEW cmd, NEW a, NEW z, NEW d, NEW t,
           ~Spans(n, a, z)
    PROVE  Ended(h, cache_access(h, n, cmd, a, z, d, t).h)
<1>0. Counted(h, n) = h
  BY DEF Counted, Tlbs
<1> DEFINE s == CACHE_SET(n, a)
           w == Victim(h, n, s)
           g == Chosen(h, n, s)
           v == Blk(h, n, s, w)
           e == Evict(g, n, s, v, t, Below1)
           f == Below1(e.h, n, "Read", CACHE_BADDR(n, a), <<>>, t + e.lat)
           y == CHOOSE x \in In(h, n, a) : TRUE
           r == cache_access(h, n, cmd, a, z, d, t)
<1>1. \/ r = Deliver(h, n, cmd, a, z, d, t, LastBlk(h, n))
      \/ r = Deliver(SlowHit(h, n, a, y), n, cmd, a, z, d, t, y)
      \/ r = Miss(h, n, cmd, a, z, d, t, Below1)
  BY <1>0 DEF cache_access, AccessOver, With, Looked, LastBlk, In
<1>2. Miss(h, n, cmd, a, z, d, t, Below1)
        = Refilled(f.h, n, cmd, a, z, d, t, w, e.lat + f.lat, f.d)
  BY DEF Miss, With, Chosen, Blk
<1>3. f.h = e.h
  BY DEF Below1, tlb_access_fn, Answer
<1>4. Ended(h, g)
  BY EndedChosen
<1>5. Ended(g, e.h)
  <2> DEFINE l2 == Waits(g, n, v, t)
             x == OnBus(g, n, t + l2)
             q == Below1(Asked(x, n), n, "Write", CACHE_MK_BADDR(n, v.tag, s), v.data, t + l2)
  <2>1. e = Answer(g, 0, <<>>) \/ e = Answer(x, l2, <<>>) \/ e = Answer(q.h, l2 + q.lat, <<>>)
    <3> HIDE DEF g, v, s
    <3> QED
      BY DEF Evict, With, Waits, OnBus
  <2>2. q.h = Asked(x, n)
    BY DEF Below1, tlb_access_fn, Answer
  <2> HIDE DEF g
  <2>g. IsState(g)
    BY <1>4 DEF Ended
  <2>3. Ended(g, g) /\ Ended(g, x)
    <3> DEFINE u == t + l2
    <3> HIDE DEF u
    <3>1. Ended(g, OnBus(g, n, u))
      BY <2>g, EndedSteps
    <3> QED
      BY <2>g, <3>1, EndedFields DEF u
  <2>4. Ended(x, Asked(x, n))
    BY <2>3, EndedSteps DEF Ended
  <2> HIDE DEF x, q, e
  <2>5. e.h = g \/ e.h = x \/ e.h = q.h
    BY <2>1 DEF Answer
  <2> QED
    BY <2>2, <2>3, <2>4, <2>5, EndedTrans
<1> HIDE DEF g, v, s, e, f, w, y
<1>6. Ended(h, f.h)
  BY <1>3, <1>4, <1>5, EndedTrans
<1>7. Ended(h, Miss(h, n, cmd, a, z, d, t, Below1).h)
  <2>1. Ended(f.h, Refilled(f.h, n, cmd, a, z, d, t, w, e.lat + f.lat, f.d).h)
    BY <1>6, EndedRefilled DEF Ended
  <2> QED
    BY <1>2, <1>6, <2>1, EndedTrans
<1>8. Ended(h, Deliver(h, n, cmd, a, z, d, t, LastBlk(h, n)).h)
  BY EndedDeliver
<1>9. Ended(h, Deliver(SlowHit(h, n, a, y), n, cmd, a, z, d, t, y).h)
  <2>1. Ended(h, SlowHit(h, n, a, y))
    BY EndedSteps
  <2>2. Ended(SlowHit(h, n, a, y), Deliver(SlowHit(h, n, a, y), n, cmd, a, z, d, t, y).h)
    BY <2>1, EndedDeliver DEF Ended
  <2> QED
    BY <2>1, <2>2, EndedTrans
<1> QED
  BY <1>1, <1>7, <1>8, <1>9

\* The bytes are inside one block, and far enough.
Reaches(n, a, z) == a \in Nat /\ ~Spans(n, a, z) /\ Far(n, a)

\* The simulation goes on, or ends with the message about the block.
Fine(h)    == h.bad = ""
Spanned(h) == IsState(h) /\ h.bad = "access spans block"

\* A cache whose blocks are larger than those behind it holds none, and the first access
\* to it ends the simulation.
LEMMA BlockedEnds ==
    ASSUME Valid, NEW n \in Made, Blocked(n), NEW h, Good(h), Fine(h),
           NEW cmd, NEW a, NEW z, NEW d, NEW t, Reaches(n, a, z),
           NEW r, r = cache_access(h, n, cmd, a, z, d, t)
    PROVE  Spanned(r.h)
<1> DEFINE m == Behind(n)
           s == CACHE_SET(n, a)
           w == Victim(h, n, s)
           g == Chosen(h, n, s)
           v == Blk(h, n, s, w)
           B == CACHE_BADDR(n, a)
           f == Below1(g, n, "Read", B, <<>>, t + 0)
<1>1. /\ m \in Made /\ Behind(m) = NULL /\ m \in {"dl2", "il2"} /\ n \in {"dl1", "il1"}
  BY SecondLevel DEF Blocked
<1>2. Counted(h, n) = h
  BY <1>1 DEF Counted
<1>3. Sane(h) /\ a \in Nat /\ ~Spans(n, a, z) /\ Far(n, a)
  BY DEF Good, Reaches
<1>4. \A q \in Sets(n), x \in Ways(n) : ~Blk(h, n, q, x).valid
  BY <1>3, SaneBlock DEF BlockOk
<1>5. s \in Sets(n) /\ TagSet(n, a) # 0
  BY <1>3, Split DEF Far
<1>6. In(h, n, a) = {}
  BY <1>4, <1>5, InIs
<1>7. TagSet(n, a) # LastTag(h, n)
  BY <1>3, <1>6, LastHas
<1>8. w \in Ways(n)
  BY <1>3, <1>5, VictimIs
<1>9. ~v.valid
  BY <1>4, <1>5, <1>8
<1>10. r = Miss(h, n, cmd, a, z, d, t, Below1)
  BY <1>2, <1>3, <1>6, <1>7 DEF cache_access, AccessOver, With, Looked, In, LastTag
<1>11. Evict(g, n, s, v, t, Below1) = Answer(g, 0, <<>>)
  BY <1>9 DEF Evict
<1>12. r = Refilled(f.h, n, cmd, a, z, d, t, w, 0 + f.lat, f.d)
  <2> DEFINE e == Evict(g, n, s, v, t, Below1)
             k == Below1(e.h, n, "Read", B, <<>>, t + e.lat)
  <2>1. r = Refilled(k.h, n, cmd, a, z, d, t, w, e.lat + k.lat, k.d)
    BY <1>10 DEF Miss, With, Chosen, Blk
  <2>e. e = Answer(g, 0, <<>>)
    BY <1>11
  <2> HIDE DEF e, g
  <2>2. e.h = g /\ e.lat = 0
    BY <2>e DEF Answer
  <2> QED
    BY <2>1, <2>2
<1>13. Ended(h, g)
  BY <1>3, TypedState, EndedChosen DEF Sane
<1> HIDE DEF g, s, w, v
<1>14. Spans(m, B, Opt(n).bsize)
  BY <1>3, LevelBlocked
<1>15. f.h = Ends(Counted(g, m), "access spans block")
  <2>1. n \notin Tlbs /\ m # NULL
    BY <1>1 DEF Tlbs, NULL
  <2> DEFINE b == Opt(n).bsize
             k == Counted(g, m)
  <2>2. AccessOver(g, m, "Read", B, b, <<>>, t + 0, MainMemory)
           = Answer(Ends(k, "access spans block"), 0, Zeros(B, b))
    BY <1>14 DEF AccessOver, With, Looked
  <2>3. f = AccessOver(g, m, "Read", B, b, <<>>, t + 0, MainMemory)
    BY <2>1 DEF Below1, NextLevel, With
  <2> HIDE DEF f, k
  <2>4. f = Answer(Ends(k, "access spans block"), 0, Zeros(B, b))
    BY <2>2, <2>3
  <2> QED
    <3> DEFINE x == Ends(k, "access spans block")
               y == Zeros(B, b)
    <3>1. f = Answer(x, 0, y)
      BY <2>4
    <3>k. x = Ends(Counted(g, m), "access spans block")
      BY DEF k
    <3> HIDE DEF x, y
    <3>2. f.h = x
      BY <3>1 DEF Answer
    <3> QED
      BY <3>2, <3>k
<1>16. Ended(h, Counted(g, m))
  BY <1>13, EndedSteps, EndedTrans DEF Ended
<1>17. IsState(f.h) /\ f.h.bad = "access spans block"
  <2> DEFINE k == Counted(g, m)
  <2>1. IsState(k) /\ Fine(k)
    BY <1>16 DEF Ended, Fine
  <2> HIDE DEF k
  <2>2. Ends(k, "access spans block") = [k EXCEPT !.bad = "access spans block"]
    BY <2>1 DEF Ends, Fine
  <2> QED
    BY <1>15, <2>1, <2>2 DEF k, IsState
<1> HIDE DEF f
<1>18. Ended(f.h, r.h)
  BY <1>12, <1>17, EndedRefilled
<1> QED
  BY <1>17, <1>18 DEF Ended, Spanned

-----------------------------------------------------------------------------
(* A flush *)

\* The block x of the cache n marked invalid.
Struck(g, n, s, w) == [g EXCEPT !.c[n].blk[s][w].valid = FALSE]

LEMMA StruckIs ==
    ASSUME Valid, NEW n \in Made, NEW g, Sane(g), LastTag(g, n) = 0,
           NEW s \in Sets(n), NEW w \in Ways(n), NEW i, i = Struck(g, n, s, w)
    PROVE  /\ Sane(i) /\ OnlyIn(n, g, i) /\ LastTag(i, n) = 0
           /\ \A q \in Sets(n) : Ord(i, n, q) = Ord(g, n, q)
           /\ ~Blk(i, n, s, w).valid
           /\ \A q \in Sets(n), x \in Ways(n) :
                 q # s \/ x # w => Blk(i, n, q, x) = Blk(g, n, q, x)
<1> DEFINE b == Blk(g, n, s, w)
           b2 == [b EXCEPT !.valid = FALSE]
<1>1. b \in BlockT /\ BlockOk(n, s, b)
  BY SaneBlock
<1>2. i = PutBlk(g, n, s, w, b2)
  BY DEF Struck, PutBlk, Blk
<1> HIDE DEF b
<1>3. b2 \in BlockT /\ b2.valid = FALSE /\ b2.ready = b.ready
  BY <1>1 DEF BlockT
<1> HIDE DEF b2
<1>4. /\ Typed(i) /\ OnlyIn(n, g, i)
      /\ LastTag(i, n) = LastTag(g, n)
      /\ \A q \in Sets(n) : Ord(i, n, q) = Ord(g, n, q)
      /\ \A q \in Sets(n), x \in Ways(n) :
            Blk(i, n, q, x) = IF q = s /\ x = w THEN b2 ELSE Blk(g, n, q, x)
  BY <1>2, <1>3, PutBlock DEF Sane
<1>5. BlockOk(n, s, b2)
  BY <1>1, <1>3 DEF BlockOk
<1>6. Shaped(g, n)
  BY DEF Sane
<1>7. Shaped(i, n)
  <2>1. ListsWays(i, n)
    BY <1>4, <1>6 DEF Shaped, ListsWays
  <2>2. LastIsThere(i, n)
    BY <1>4 DEF LastIsThere
  <2>3. OneWay(i, n)
    <3> SUFFICES ASSUME NEW q \in Sets(n), NEW x \in Ways(n), NEW y \in Ways(n),
                        Blk(i, n, q, x).valid, Blk(i, n, q, y).valid,
                        Blk(i, n, q, x).tag = Blk(i, n, q, y).tag
                 PROVE  x = y
      BY DEF OneWay
    <3>1. ~(q = s /\ x = w) /\ ~(q = s /\ y = w)
      BY <1>3, <1>4
    <3>2. Blk(i, n, q, x) = Blk(g, n, q, x) /\ Blk(i, n, q, y) = Blk(g, n, q, y)
      BY <1>4, <3>1
    <3> QED
      BY <1>6, <3>2 DEF Shaped, OneWay
  <2>4. BlocksOk(i, n)
    <3> SUFFICES ASSUME NEW q \in Sets(n), NEW x \in Ways(n)
                 PROVE  BlockOk(n, q, Blk(i, n, q, x))
      BY DEF BlocksOk
    <3>1. CASE q = s /\ x = w
      BY <1>4, <1>5, <3>1
    <3>2. CASE ~(q = s /\ x = w)
      <4>1. Blk(i, n, q, x) = Blk(g, n, q, x)
        BY <1>4, <3>2
      <4> QED
        BY <1>6, <4>1 DEF Shaped, BlocksOk
    <3> QED
      BY <3>1, <3>2
  <2> QED
    BY <2>1, <2>2, <2>3, <2>4 DEF Shaped
<1>8. Sane(i)
  BY <1>4, <1>7, OnlyShaped
<1>9. Blk(i, n, s, w) = b2
  BY <1>4
<1> QED
  BY <1>3, <1>4, <1>8, <1>9

\* A block goes, and what it has that is new is beneath.
LEMMA GoneSettles ==
    ASSUME Valid, NEW n \in Made, NEW g, Good(g),
           NEW s \in Sets(n), NEW w \in Ways(n), NEW v, v = Blk(g, n, s, w),
           NEW i, Sane(i), OnlyIn(n, g, i), ~Blk(i, n, s, w).valid,
           \A q \in Sets(n), x \in Ways(n) :
              q # s \/ x # w => Blk(i, n, q, x) = Blk(g, n, q, x),
           NEW h2, Beneath(i, h2, n, WrittenBack(v), v.data)
    PROVE  Settles(g, h2, n, {}, <<>>)
<1> DEFINE W == WrittenBack(v)
<1>0. Sane(g) /\ \A m \in Made : Kept(g, m)
  BY DEF Good
<1>1. /\ Sane(h2) /\ h2.bad = g.bad
      /\ \A m \in Made \ {n, Behind(n)} : h2.c[m] = g.c[m]
      /\ Behind(n) # NULL => Kept(h2, Behind(n))
  BY DEF Beneath, OnlyIn
<1>2. ~Blk(h2, n, s, w).valid
      /\ \A q \in Sets(n), x \in Ways(n) :
            q # s \/ x # w => Blk(h2, n, q, x) = Blk(g, n, q, x)
  BY DEF Beneath
<1>3. \A y : Under(i, n, y) = Under(g, n, y)
  BY OnlyUnder
<1>v. v \in BlockT
  BY <1>0, SaneBlock
<1>4. n \in Datas => \A y \in Granules :
         Under(h2, n, y) = IF y \in W THEN Datum(v, y) ELSE Under(g, n, y)
  BY <1>3 DEF Beneath, Datum
<1>5. n \notin Datas =>
        /\ Behind(n) \notin Datas => h2.mem = g.mem
        /\ Behind(n) \in Datas => \A y \in Granules : Under(h2, n, y) = Under(g, n, y)
  BY <1>3 DEF Beneath, OnlyIn
<1>w. \A y \in W : y \in Has(v) /\ v.valid /\ v.dirty
  BY DEF WrittenBack
<1>u. \A y \in Has(v) : v.valid /\ v.dirty => y \in W
  BY DEF WrittenBack
<1> HIDE DEF W
<1>6. ASSUME n \in Datas, NEW y \in Granules PROVE Top(h2, n, y) = Top(g, n, y)
  <2>0. 8 * y \in Nat /\ CACHE_SET(n, 8 * y) \in Sets(n)
    BY EightNat, Split
  <2>1. CASE In(h2, n, 8 * y) # {}
    <3>1. PICK x \in In(h2, n, 8 * y) : TRUE
      BY <2>1
    <3> DEFINE q == CACHE_SET(n, 8 * y)
    <3>2. /\ Value(h2, n, y) = Datum(Blk(h2, n, q, x), y) /\ y \in Has(Blk(h2, n, q, x))
          /\ q \in Sets(n) /\ x \in Ways(n) /\ Blk(h2, n, q, x).valid
      BY <1>1, <2>0, ValueIs, FoundOne
    <3>3. Top(h2, n, y) = Datum(Blk(h2, n, q, x), y)
      BY <3>1, <3>2 DEF Top
    <3> HIDE DEF q
    <3>4. Blk(h2, n, q, x) = Blk(g, n, q, x)
      BY <1>2, <3>2
    <3>5. Top(g, n, y) = Datum(Blk(g, n, q, x), y)
      BY <1>0, <3>2, <3>4, FoundByGranule
    <3> QED
      BY <3>3, <3>4, <3>5
  <2>2. CASE In(h2, n, 8 * y) = {}
    <3>1. Top(h2, n, y) = IF y \in W THEN Datum(v, y) ELSE Under(g, n, y)
      BY <1>4, <1>6, <2>2 DEF Top
    <3>2. CASE In(g, n, 8 * y) = {}
      <4>1. y \notin W
        <5> SUFFICES ASSUME y \in W PROVE FALSE
          OBVIOUS
        <5>1. y \in Has(Blk(g, n, s, w)) /\ Blk(g, n, s, w).valid
          BY <1>w
        <5>2. In(g, n, 8 * y) = {w}
          BY <1>0, <5>1, FoundByGranule
        <5> QED
          BY <3>2, <5>2
      <4> QED
        BY <3>1, <3>2, <4>1 DEF Top
    <3>3. CASE In(g, n, 8 * y) # {}
      <4>1. PICK x \in In(g, n, 8 * y) : TRUE
        BY <3>3
      <4> DEFINE q == CACHE_SET(n, 8 * y)
      <4>2. /\ Value(g, n, y) = Datum(Blk(g, n, q, x), y) /\ y \in Has(Blk(g, n, q, x))
            /\ q \in Sets(n) /\ x \in Ways(n) /\ Blk(g, n, q, x).valid
        BY <1>0, <2>0, ValueIs, FoundOne
      <4>t. Top(g, n, y) = Datum(Blk(g, n, q, x), y)
        BY <4>1, <4>2 DEF Top
      <4> HIDE DEF q
      <4>3. q = s /\ x = w
        <5> SUFFICES ASSUME q # s \/ x # w PROVE FALSE
          OBVIOUS
        <5>1. Blk(h2, n, q, x) = Blk(g, n, q, x)
          BY <1>2, <4>2
        <5>2. In(h2, n, 8 * y) = {x}
          BY <1>1, <4>2, <5>1, FoundByGranule
        <5> QED
          BY <2>2, <5>2
      <4>4. y \in Has(v) /\ v.valid /\ Top(g, n, y) = Datum(v, y)
        BY <4>2, <4>t, <4>3
      <4>5. CASE v.dirty
        BY <1>u, <3>1, <4>4, <4>5
      <4>6. CASE ~v.dirty
        <5>1. y \notin W
          BY <1>w, <4>6
        <5>2. Datum(v, y) = Under(g, n, y)
          BY <1>0, <1>6, <4>4, <4>6 DEF Kept
        <5> QED
          BY <3>1, <4>4, <5>1, <5>2
      <4> QED
        BY <4>5, <4>6
    <3> QED
      BY <3>2, <3>3
  <2> QED
    BY <2>1, <2>2
<1>7. Kept(h2, n)
  <2> SUFFICES ASSUME n \in Datas, NEW q \in Sets(n), NEW x \in Ways(n),
                      Blk(h2, n, q, x).valid, ~Blk(h2, n, q, x).dirty,
                      NEW y \in Has(Blk(h2, n, q, x))
               PROVE  Datum(Blk(h2, n, q, x), y) = Under(h2, n, y)
    BY DEF Kept
  <2>1. Blk(h2, n, q, x) = Blk(g, n, q, x) /\ (q # s \/ x # w)
    BY <1>2
  <2>2. y \in Granules
    BY <1>0, <2>1, SaneBlock, Fields
  <2>3. y \notin W
    <3> SUFFICES ASSUME y \in W PROVE FALSE
      OBVIOUS
    <3>1. y \in Has(Blk(g, n, s, w)) /\ Blk(g, n, s, w).valid
      BY <1>w
    <3>2. y \in Has(Blk(g, n, q, x)) /\ Blk(g, n, q, x).valid
      BY <2>1
    <3>3. q = s /\ x = w
      BY <1>0, <3>1, <3>2, Apart
    <3> QED
      BY <2>1, <3>3
  <2>4. Datum(Blk(g, n, q, x), y) = Under(g, n, y)
    BY <1>0, <2>1 DEF Kept
  <2> QED
    BY <1>4, <2>1, <2>2, <2>3, <2>4
<1> QED
  BY <1>1, <1>5, <1>6, <1>7 DEF Settles

\* h2 is g with the block in the way w invalid, and written back if it was dirty.
Scoured(g, h2, n, s, w) ==
    /\ Good(h2) /\ h2.bad = g.bad /\ LastTag(h2, n) = 0
    /\ \A k \in {"dl2", "il2"} : h2.owed[k] = g.owed[k]
    /\ \A x \in Granules : Program(h2, x) = Program(g, x)
    /\ \A m \in Made \ {n, Behind(n)} : h2.c[m] = g.c[m]
    /\ ~Blk(h2, n, s, w).valid
    /\ \A q \in Sets(n) : Ord(h2, n, q) = Ord(g, n, q)
    /\ \A q \in Sets(n), x \in Ways(n) :
          ~Blk(g, n, q, x).valid => ~Blk(h2, n, q, x).valid

LEMMA ScouredIs ==
    ASSUME Valid, NEW n \in Made, NEW g, Good(g),
           NEW s \in Sets(n), NEW w \in Ways(n), NEW v, v = Blk(g, n, s, w),
           NEW i, Sane(i), OnlyIn(n, g, i), LastTag(i, n) = 0,
           \A q \in Sets(n) : Ord(i, n, q) = Ord(g, n, q),
           ~Blk(i, n, s, w).valid,
           \A q \in Sets(n), x \in Ways(n) :
              q # s \/ x # w => Blk(i, n, q, x) = Blk(g, n, q, x),
           NEW h2, h2.c[n] = i.c[n], Beneath(i, h2, n, WrittenBack(v), v.data),
           \A k \in {"dl2", "il2"} : h2.owed[k] = g.owed[k]
    PROVE  Scoured(g, h2, n, s, w)
<1> DEFINE none == {}
           d == <<>>
<1>1. Settles(g, h2, n, none, d) /\ none = {}
  BY GoneSettles
<1> HIDE DEF none, d
<1>2. /\ Good(h2) /\ h2.bad = g.bad
      /\ \A x \in Granules : Program(h2, x) = Program(g, x)
  <2>0. Settles(g, h2, n, none, d) /\ (n = "dl2" => none = {})
    BY <1>1
  <2>1. \A x \in Granules :
           Program(h2, x) = IF n = "dl1" /\ x \in none THEN d[x] ELSE Program(g, x)
    BY <2>0, SettlesGood
  <2> QED
    BY <1>1, <2>1, SettlesGood
<1>3. \A m \in Made \ {n, Behind(n)} : h2.c[m] = g.c[m]
  BY <1>1 DEF Settles
<1>4. LastTag(h2, n) = 0 /\ \A q \in Sets(n) : Ord(h2, n, q) = Ord(g, n, q)
  BY DEF LastTag, Ord
<1>5. \A q, x : Blk(h2, n, q, x) = Blk(i, n, q, x)
  BY DEF Blk
<1> QED
  BY <1>2, <1>3, <1>4, <1>5 DEF Scoured

LEMMA InvalidatedIs ==
    ASSUME Valid, NEW n \in Made, NEW g, Good(g), LastTag(g, n) = 0,
           NEW s \in Sets(n), NEW w \in Ways(n),
           NEW h2, h2 = Invalidated(g, n, <<s, w>>)
    PROVE  Scoured(g, h2, n, s, w)
<1> DEFINE v == Blk(g, n, s, w)
           i == Struck(g, n, s, w)
           j == Asked(i, n)
           B == CACHE_MK_BADDR(n, v.tag, s)
           r == Below1(j, n, "Write", B, v.data, 0)
<1>1. h2 = IF ~(v.valid /\ v.dirty) THEN i ELSE r.h
  BY DEF Invalidated, Struck, Blk
<1>2. Sane(g)
  BY DEF Good
<1>v. v = Blk(g, n, s, w) /\ i = Struck(g, n, s, w) /\ j = Asked(i, n)
  OBVIOUS
<1>r. r.h = Below1(j, n, "Write", B, v.data, 0).h
      /\ B = CACHE_MK_BADDR(n, v.tag, s)
  OBVIOUS
<1> HIDE DEF v, i, j, r
<1>3. /\ Sane(i) /\ OnlyIn(n, g, i) /\ LastTag(i, n) = 0
      /\ \A q \in Sets(n) : Ord(i, n, q) = Ord(g, n, q)
      /\ ~Blk(i, n, s, w).valid
      /\ \A q \in Sets(n), x \in Ways(n) :
            q # s \/ x # w => Blk(i, n, q, x) = Blk(g, n, q, x)
  BY <1>2, <1>v, StruckIs
<1>4. ReadyBelow(i, n)
  <2>1. Behind(n) # NULL => Kept(g, Behind(n))
    BY SecondLevel DEF Good
  <2> QED
    BY <1>3, <2>1, OnlyUnder DEF ReadyBelow
<1>5. CASE ~(v.valid /\ v.dirty)
  <2>1. h2 = i /\ WrittenBack(v) = {}
    BY <1>1, <1>5 DEF WrittenBack
  <2>2. Beneath(i, i, n, {}, v.data)
    BY <1>4, BeneathRefl
  <2>3. i.owed = g.owed
    BY <1>3 DEF OnlyIn
  <2> QED
    BY <1>v, <1>3, <2>1, <2>2, <2>3, ScouredIs
<1>6. CASE v.valid /\ v.dirty
  <2>1. h2 = r.h /\ WrittenBack(v) = DOMAIN v.data
    BY <1>1, <1>6 DEF WrittenBack, Has
  <2>2. /\ Sane(j) /\ Same(i, j)
        /\ \A k \in {"dl2", "il2"} : j.owed[k] = i.owed[k] - One(Behind(n), k)
    BY <1>3, <1>v, AskedIs
  <2>3. Beneath(i, j, n, {}, <<>>)
    BY <1>4, <2>2, BeneathSame DEF ReadyBelow
  <2>4. ReadyBelow(j, n)
    BY <2>3 DEF ReadyBelow, Beneath
  <2>5. AsksBelow(n, "Write", B, v.data, 0)
    BY <1>2, <1>v, <1>6, <1>r, DirtyAsks
  <2> DEFINE lat == Below1(j, n, "Write", B, v.data, 0).lat
             e == Below1(j, n, "Write", B, v.data, 0).d
  <2>6. Serves(n, Below1)
    BY LevelServes
  <2> HIDE DEF B
  <2>7. DidBelow(j, r.h, lat, e, n, "Write", B, v.data, 0)
    BY <1>r, <2>4, <2>5, <2>6 DEF Serves
  <2> HIDE DEF lat, e
  <2>8. /\ Beneath(j, r.h, n, DOMAIN v.data, v.data) /\ r.h.c[n] = j.c[n]
        /\ \A k \in {"dl2", "il2"} : r.h.owed[k] = j.owed[k] + One(Behind(n), k)
    BY <2>7 DEF DidBelow
  <2>9. Beneath(i, r.h, n, DOMAIN v.data, v.data)
    BY <2>3, <2>8, BeneathThen
  <2>10. r.h.c[n] = i.c[n]
    BY <2>2, <2>8 DEF Same
  <2>11. \A k \in {"dl2", "il2"} : r.h.owed[k] = g.owed[k]
    <3> SUFFICES ASSUME NEW k \in {"dl2", "il2"} PROVE r.h.owed[k] = g.owed[k]
      OBVIOUS
    <3>1. g.owed[k] \in Int
      BY <1>2 DEF Sane, Typed
    <3>2. i.owed[k] = g.owed[k]
      BY <1>3 DEF OnlyIn
    <3>3. One(Behind(n), k) \in Int
      BY DEF One
    <3> QED
      BY <2>2, <2>8, <3>1, <3>2, <3>3
  <2> QED
    BY <1>v, <1>3, <2>1, <2>9, <2>10, <2>11, ScouredIs
<1> QED
  BY <1>5, <1>6

\* A flush takes the blocks one after the other.
LEMMA FlushSteps ==
    ASSUME Valid, NEW n \in Made, NEW h, Opt(n).nsets * Opt(n).assoc \in Nat
    PROVE  \E f : /\ cache_flush(h, n) = f[Opt(n).nsets * Opt(n).assoc]
                  /\ f[0] = ForgetLastHit(h, n)
                  /\ \A i \in 1 .. Opt(n).nsets * Opt(n).assoc :
                        f[i] = Invalidated(f[i - 1], n, InListOrder(h, n, i - 1))
<1> DEFINE all == Opt(n).nsets * Opt(n).assoc
           Next1(g, i) == With(g, LAMBDA y : Invalidated(y, n, InListOrder(h, n, i - 1)))
           Start == ForgetLastHit(h, n)
           P == {m \in Nat : \E g : g = [i \in 0 .. m |->
                    IF i = 0 THEN Start ELSE Next1(g[i - 1], i)]}
<1>1. 0 \in P
  <2> DEFINE g == [i \in 0 .. 0 |-> Start]
  <2>1. g = [i \in 0 .. 0 |-> IF i = 0 THEN Start ELSE Next1(g[i - 1], i)]
    OBVIOUS
  <2> QED
    BY <2>1
<1>2. ASSUME NEW m \in Nat, m \in P PROVE m + 1 \in P
  <2>1. PICK g : g = [i \in 0 .. m |-> IF i = 0 THEN Start ELSE Next1(g[i - 1], i)]
    BY <1>2
  <2> DEFINE g2 == [i \in 0 .. m + 1 |-> IF i = m + 1 THEN Next1(g[m], m + 1) ELSE g[i]]
  <2> HIDE DEF Start, Next1
  <2>2. \A i \in 0 .. m : g[i] = IF i = 0 THEN Start ELSE Next1(g[i - 1], i)
    BY <2>1
  <2>3. \A i \in 0 .. m + 1 : g2[i] = IF i = 0 THEN Start ELSE Next1(g2[i - 1], i)
    <3> TAKE i \in 0 .. m + 1
    <3>1. CASE i = m + 1
      BY <3>1
    <3>2. CASE i # m + 1
      BY <2>2, <3>2
    <3> QED
      BY <3>1, <3>2
  <2>4. g2 = [i \in 0 .. m + 1 |-> IF i = 0 THEN Start ELSE Next1(g2[i - 1], i)]
    BY <2>3
  <2> HIDE DEF g2
  <2>5. \E g3 : g3 = [i \in 0 .. m + 1 |-> IF i = 0 THEN Start ELSE Next1(g3[i - 1], i)]
    BY <2>4
  <2> QED
    BY <2>5
<1>3. all \in P
  <2> HIDE DEF P, all
  <2>0. all \in Nat
    BY DEF all
  <2>1. \A m \in Nat : m \in P => m + 1 \in P
    BY <1>2
  <2> QED
    BY <1>1, <2>0, <2>1, NatSetInduction
<1> DEFINE f == CHOOSE g : g = [i \in 0 .. all |->
                                   IF i = 0 THEN Start ELSE Next1(g[i - 1], i)]
<1>4. f = [i \in 0 .. all |-> IF i = 0 THEN Start ELSE Next1(f[i - 1], i)]
  BY <1>3
<1>5. n # NULL
  BY Geometry DEF NULL, Names
<1>6. cache_flush(h, n) = f[all]
  BY <1>5 DEF cache_flush
<1> HIDE DEF f
<1>7. f[0] = Start /\ \A i \in 1 .. all : f[i] = Next1(f[i - 1], i)
  <2>1. all \in Nat
    BY DEF all
  <2> HIDE DEF Start, Next1, all
  <2>2. \A i \in 0 .. all : f[i] = IF i = 0 THEN Start ELSE Next1(f[i - 1], i)
    BY <1>4
  <2> QED
    BY <2>1, <2>2
<1>8. \A g, i : Next1(g, i) = Invalidated(g, n, InListOrder(h, n, i - 1))
  BY DEF With
<1> HIDE DEF Next1
<1> QED
  BY <1>6, <1>7, <1>8

\* The blocks of a cache by their numbers.
LEMMA InListOrderIs ==
    ASSUME Valid, NEW n \in Made, NEW h, Sane(h)
    PROVE  /\ Opt(n).nsets * Opt(n).assoc \in Nat
           /\ \A j \in 0 .. (Opt(n).nsets * Opt(n).assoc - 1) :
                 \E s \in Sets(n), w \in Ways(n) : InListOrder(h, n, j) = <<s, w>>
           /\ \A s \in Sets(n), w \in Ways(n) :
                 \E j \in 0 .. (Opt(n).nsets * Opt(n).assoc - 1) :
                    InListOrder(h, n, j) = <<s, w>>
<1> DEFINE N == Opt(n).nsets
           A == Opt(n).assoc
<1>1. N \in Nat \ {0} /\ A \in Nat \ {0} /\ Sets(n) = 0 .. N - 1 /\ Ways(n) = 1 .. A
  BY Sizes DEF Sets, Ways
<1>2. \A s \in Sets(n) : Ord(h, n, s) \in [Ways(n) -> Ways(n)]
  BY FirstWay, OrdIs
<1>3. \A s \in Sets(n), w \in Ways(n) : \E i \in Ways(n) : Ord(h, n, s)[i] = w
  BY DEF Sane, Shaped, ListsWays
<1>4. \A j : InListOrder(h, n, j) = <<j \div A, Ord(h, n, j \div A)[(j % A) + 1]>>
  BY DEF InListOrder, Ord
<1> HIDE DEF N, A
<1>5. N * A \in Nat
  BY <1>1, TimesNat
<1>6. ASSUME NEW j \in 0 .. (N * A - 1)
      PROVE  \E s \in Sets(n), w \in Ways(n) : InListOrder(h, n, j) = <<s, w>>
  <2> DEFINE q == j \div A
             i == (j % A) + 1
  <2>0. j \in Nat /\ j < N * A
    BY <1>5
  <2>1. q \in Nat /\ q * A <= j /\ i \in 1 .. A
    BY <1>1, <2>0, DivIs
  <2>2. InListOrder(h, n, j) = <<q, Ord(h, n, q)[i]>>
    BY <1>4
  <2> HIDE DEF q, i
  <2>3. ~(N <= q)
    <3> SUFFICES ASSUME N <= q PROVE FALSE
      OBVIOUS
    <3>1. N * A <= q * A
      BY <1>1, <2>1, TimesUp
    <3>2. q * A \in Nat
      BY <1>1, <2>1, TimesNat
    <3> QED
      BY <1>5, <2>0, <2>1, <3>1, <3>2
  <2>4. q \in Sets(n)
    BY <1>1, <2>1, <2>3
  <2>5. Ord(h, n, q)[i] \in Ways(n)
    BY <1>1, <1>2, <2>1, <2>4
  <2> QED
    BY <2>2, <2>4, <2>5
<1>7. ASSUME NEW s \in Sets(n), NEW w \in Ways(n)
      PROVE  \E j \in 0 .. (N * A - 1) : InListOrder(h, n, j) = <<s, w>>
  <2>1. PICK i \in Ways(n) : Ord(h, n, s)[i] = w
    BY <1>3
  <2>2. s \in Nat /\ s + 1 <= N /\ i - 1 \in Nat /\ i - 1 < A
    BY <1>1
  <2> DEFINE j == s * A + (i - 1)
  <2>3. j \div A = s /\ j % A = i - 1
    BY <1>1, <2>2, DivTimes
  <2>4. s * A \in Nat /\ (s + 1) * A <= N * A /\ (s + 1) * A = s * A + A
    BY <1>1, <2>2, TimesUp, TimesNat, TimesStep
  <2>5. j \in 0 .. (N * A - 1)
    BY <1>1, <1>5, <2>2, <2>4
  <2> HIDE DEF j
  <2>6. InListOrder(h, n, j) = <<s, w>>
    <3>1. (j % A) + 1 = i
      BY <1>1, <2>3
    <3> QED
      BY <1>4, <2>1, <2>3, <3>1
  <2> QED
    BY <2>5, <2>6
<1> QED
  BY <1>5, <1>6, <1>7 DEF N, A

\* h2 is h after a flush of the cache n.
FlushedOf(h, h2, n) ==
    /\ Good(h2) /\ h2.bad = h.bad
    /\ \A k \in {"dl2", "il2"} : h2.owed[k] = h.owed[k]
    /\ \A x \in Granules : Program(h2, x) = Program(h, x)
    /\ \A m \in Made \ {n, Behind(n)} : h2.c[m] = h.c[m]

\* A flush on its way: k blocks of n are done.
Flushing(h, g, n, k) ==
    /\ FlushedOf(h, g, n) /\ LastTag(g, n) = 0
    /\ \A j \in 0 .. k - 1 : \A s \in Sets(n), w \in Ways(n) :
          InListOrder(h, n, j) = <<s, w>> => ~Blk(g, n, s, w).valid

LEMMA FlushStarts ==
    ASSUME Valid, NEW n \in Made, NEW h, Good(h), NEW g, g = ForgetLastHit(h, n)
    PROVE  Flushing(h, g, n, 0)
<1> DEFINE c == h.c[n]
           c2 == [c EXCEPT !.last_tagset = 0, !.last_blk = 0]
<1>0. Sane(h) /\ Typed(h) /\ \A m \in Made : Kept(h, m)
  BY DEF Good, Sane
<1>1. c \in CacheT(n)
  BY <1>0 DEF Typed
<1>2. g = Put(h, n, c2)
  BY DEF ForgetLastHit, Put
<1>3. Steady(n, h, g) /\ LastTag(g, n) = 0
  BY <1>0, ForgetLastHitIs
<1>4. c = h.c[n]
  OBVIOUS
<1> HIDE DEF c
<1>5. c2 \in CacheT(n) /\ c2.blk = c.blk
  BY <1>1 DEF CacheT
<1> HIDE DEF c2
<1>6. g.c[n] = c2
  BY <1>0, <1>2, <1>5, PutCache
<1>7. Sane(g) /\ g.mem = h.mem /\ g.owed = h.owed /\ g.bad = h.bad
      /\ \A m \in Made \ {n} : g.c[m] = h.c[m]
  BY <1>3 DEF Steady, OnlyIn
<1>8. \A m \in Made : g.c[m].blk = h.c[m].blk
  BY <1>4, <1>5, <1>6, <1>7
<1>9. /\ \A m \in Made : Kept(g, m)
      /\ \A m \in Made : \A x : Top(g, m, x) = Top(h, m, x)
  BY <1>0, <1>7, <1>8, SameValues
<1>10. \A x \in Granules : Program(g, x) = Program(h, x)
  BY <1>7, <1>9 DEF Program
<1> QED
  BY <1>3, <1>7, <1>9, <1>10 DEF Flushing, FlushedOf, Good

LEMMA FlushGoesOn ==
    ASSUME Valid, NEW n \in Made, NEW h, Good(h), NEW k \in Nat,
           k < Opt(n).nsets * Opt(n).assoc,
           NEW g, Flushing(h, g, n, k),
           NEW g2, g2 = Invalidated(g, n, InListOrder(h, n, k))
    PROVE  Flushing(h, g2, n, k + 1)
<1>0. Sane(h) /\ Opt(n).nsets * Opt(n).assoc \in Nat
  BY InListOrderIs DEF Good
<1>1. PICK s \in Sets(n), w \in Ways(n) : InListOrder(h, n, k) = <<s, w>>
  <2> DEFINE all == Opt(n).nsets * Opt(n).assoc
  <2>1. all \in Nat /\ k < all
    BY <1>0
  <2>2. \A j \in 0 .. (all - 1) :
           \E s \in Sets(n), w \in Ways(n) : InListOrder(h, n, j) = <<s, w>>
    BY <1>0, InListOrderIs
  <2> HIDE DEF all
  <2> QED
    BY <2>1, <2>2
<1>2. g2 = Invalidated(g, n, <<s, w>>)
  BY <1>1
<1>3. Good(g) /\ LastTag(g, n) = 0
  BY DEF Flushing, FlushedOf
<1>4. Scoured(g, g2, n, s, w)
  BY <1>2, <1>3, InvalidatedIs
<1>5. FlushedOf(h, g2, n) /\ LastTag(g2, n) = 0
  BY <1>4 DEF Scoured, Flushing, FlushedOf
<1>6. ASSUME NEW j \in 0 .. k, NEW q \in Sets(n), NEW x \in Ways(n),
             InListOrder(h, n, j) = <<q, x>>
      PROVE  ~Blk(g2, n, q, x).valid
  <2>1. CASE j = k
    <3>1. q = s /\ x = w
      BY <1>1, <1>6, <2>1
    <3> QED
      BY <1>4, <3>1 DEF Scoured
  <2>2. CASE j # k
    <3>1. j \in 0 .. k - 1
      BY <2>2
    <3>2. ~Blk(g, n, q, x).valid
      BY <1>6, <3>1 DEF Flushing
    <3> QED
      BY <1>4, <3>2 DEF Scoured
  <2> QED
    BY <2>1, <2>2
<1>7. 0 .. (k + 1) - 1 = 0 .. k
  OBVIOUS
<1> QED
  BY <1>5, <1>6, <1>7 DEF Flushing

LEMMA FlushIs ==
    ASSUME Valid, NEW n \in Made, NEW h, Good(h), NEW h2, h2 = cache_flush(h, n)
    PROVE  FlushedOf(h, h2, n) /\ \A s \in Sets(n), w \in Ways(n) : ~Blk(h2, n, s, w).valid
<1> DEFINE all == Opt(n).nsets * Opt(n).assoc
<1>0. Sane(h)
  BY DEF Good
<1>1. all \in Nat
  BY <1>0, InListOrderIs
<1>2. PICK f : /\ h2 = f[all] /\ f[0] = ForgetLastHit(h, n)
               /\ \A i \in 1 .. all : f[i] = Invalidated(f[i - 1], n, InListOrder(h, n, i - 1))
  BY <1>1, FlushSteps
<1>3. \A s \in Sets(n), w \in Ways(n) : \E j \in 0 .. (all - 1) : InListOrder(h, n, j) = <<s, w>>
  BY <1>0, InListOrderIs
<1> DEFINE P == {k \in Nat : k <= all => Flushing(h, f[k], n, k)}
<1>4. 0 \in P
  <2>1. Flushing(h, f[0], n, 0)
    BY <1>2, FlushStarts
  <2> QED
    BY <2>1
<1>5. ASSUME NEW k \in Nat, k \in P PROVE k + 1 \in P
  <2> SUFFICES ASSUME k + 1 <= all PROVE Flushing(h, f[k + 1], n, k + 1)
    OBVIOUS
  <2>a. k < all
    BY <1>1
  <2>1. Flushing(h, f[k], n, k)
    BY <1>5, <1>1
  <2> DEFINE i == k + 1
  <2>2. i \in 1 .. all /\ i - 1 = k
    BY <1>1
  <2>3. f[i] = Invalidated(f[k], n, InListOrder(h, n, k))
    BY <1>2, <2>2
  <2> DEFINE g == f[k]
             g2 == f[i]
  <2>4. Flushing(h, g, n, k) /\ g2 = Invalidated(g, n, InListOrder(h, n, k))
    BY <2>1, <2>3
  <2> HIDE DEF g, g2, i
  <2>5. Flushing(h, g2, n, k + 1)
    BY <2>4, <2>a, FlushGoesOn
  <2> QED
    BY <2>5 DEF g2, i
<1>6. all \in P
  <2> HIDE DEF P, all
  <2>1. \A k \in Nat : k \in P => k + 1 \in P
    BY <1>5
  <2> QED
    BY <1>1, <1>4, <2>1, NatSetInduction
<1>7. Flushing(h, h2, n, all)
  BY <1>1, <1>2, <1>6
<1> HIDE DEF all
<1>8. \A s \in Sets(n), w \in Ways(n) : ~Blk(h2, n, s, w).valid
  BY <1>3, <1>7 DEF Flushing
<1> QED
  BY <1>7, <1>8 DEF Flushing

\* No block of the cache is valid.
NoneValid(h, n) == \A s \in Sets(n), w \in Ways(n) : ~Blk(h, n, s, w).valid

\* Then all data is in memory.
LEMMA InMemory ==
    ASSUME Valid, NEW h, \A n \in Datas \cap Made : NoneValid(h, n)
    PROVE  \A g \in Granules : Program(h, g) = h.mem[g]
<1> TAKE g \in Granules
<1>1. ASSUME NEW n \in Datas \cap Made PROVE In(h, n, 8 * g) = {}
  <2>1. CACHE_SET(n, 8 * g) \in Sets(n)
    BY EightNat, Split
  <2> QED
    BY <2>1, InIs DEF NoneValid
<1>2. "dl2" \in Made => Second(h, "dl2", g) = h.mem[g]
  BY <1>1 DEF Second, Datas
<1>3. Under(h, "dl1", g) = h.mem[g]
  BY <1>2, UnderData
<1>4. "dl1" \in Made => Top(h, "dl1", g) = h.mem[g]
  BY <1>1, <1>3 DEF Top, Datas
<1> QED
  BY <1>4 DEF Program

\* What a system call finds.
LEMMA FlushedIs ==
    ASSUME Valid, NEW h, Good(h), NEW h2, h2 = Flushed(h)
    PROVE  /\ Good(h2) /\ h2.bad = h.bad
           /\ \A k \in {"dl2", "il2"} : h2.owed[k] = h.owed[k]
           /\ \A g \in Granules : Program(h2, g) = Program(h, g)
           /\ \A n \in Datas \cap Made : NoneValid(h2, n)
<1> DEFINE keeps(x, y) == /\ Good(y) /\ y.bad = x.bad
                          /\ \A k \in {"dl2", "il2"} : y.owed[k] = x.owed[k]
                          /\ \A g \in Granules : Program(y, g) = Program(x, g)
           h0 == cache_flush(h, Ptr.dtlb)
           h1 == cache_flush(h0, Ptr.dl1)
<1>1. ASSUME NEW n, n = NULL \/ n \in Made, NEW x, Good(x), NEW y, y = cache_flush(x, n)
      PROVE  /\ keeps(x, y)
             /\ n # NULL => NoneValid(y, n) /\ \A m \in Made \ {n, Behind(n)} : y.c[m] = x.c[m]
             /\ n = NULL => y = x
  <2>1. CASE n = NULL
    BY <1>1, <2>1 DEF cache_flush
  <2>2. CASE n \in Made
    <3>1. FlushedOf(x, y, n) /\ NoneValid(y, n)
      BY <1>1, <2>2, FlushIs DEF NoneValid
    <3>2. n # NULL
      BY <2>2 DEF Made, Created, Names, NULL
    <3> QED
      BY <3>1, <3>2 DEF FlushedOf
  <2> QED
    BY <1>1, <2>1, <2>2
<1>2. /\ Ptr.dtlb = NULL \/ Ptr.dtlb \in Made
      /\ Ptr.dl1 = NULL \/ Ptr.dl1 \in Made
      /\ Ptr.dl2 = NULL \/ Ptr.dl2 \in Made
  BY PointsAtMade, ValidChecked DEF Names
<1>3. h0 = cache_flush(h, Ptr.dtlb) /\ h1 = cache_flush(h0, Ptr.dl1)
      /\ h2 = cache_flush(h1, Ptr.dl2)
  BY DEF Flushed
<1> HIDE DEF keeps, h0, h1
<1>4. keeps(h, h0) /\ Good(h0)
  <2>1. keeps(h, h0)
    BY <1>1, <1>2, <1>3
  <2> QED
    BY <2>1 DEF keeps
<1>5. keeps(h0, h1) /\ Good(h1) /\ (Ptr.dl1 # NULL => NoneValid(h1, Ptr.dl1))
  <2>1. keeps(h0, h1) /\ (Ptr.dl1 # NULL => NoneValid(h1, Ptr.dl1))
    BY <1>1, <1>2, <1>3, <1>4
  <2> QED
    BY <2>1 DEF keeps
<1>6. /\ keeps(h1, h2)
      /\ Ptr.dl2 # NULL => NoneValid(h2, Ptr.dl2)
                           /\ \A m \in Made \ {Ptr.dl2, Behind(Ptr.dl2)} : h2.c[m] = h1.c[m]
      /\ Ptr.dl2 = NULL => h2 = h1
  BY <1>1, <1>2, <1>3, <1>5
<1>7. ASSUME "dl1" \in Made PROVE NoneValid(h2, "dl1")
  <2>1. Ptr.dl1 = "dl1" /\ "dl1" # NULL
    BY <1>7 DEF Made, Created, NULL
  <2>2. NoneValid(h1, "dl1")
    BY <1>5, <2>1
  <2>3. CASE Ptr.dl2 = NULL
    BY <1>6, <2>2, <2>3
  <2>4. CASE Ptr.dl2 # NULL
    <3>1. Ptr.dl2 = "dl2" /\ Behind("dl2") = NULL
      BY <2>4, Chained, ValidChecked DEF Behind
    <3>2. h2.c["dl1"] = h1.c["dl1"]
      BY <1>6, <1>7, <2>1, <2>4, <3>1
    <3> QED
      BY <2>2, <3>2 DEF NoneValid, Blk
  <2> QED
    BY <2>3, <2>4
<1>8. ASSUME "dl2" \in Made PROVE NoneValid(h2, "dl2")
  BY <1>6, <1>8 DEF Made, Created, NULL
<1> QED
  BY <1>4, <1>5, <1>6, <1>7, <1>8 DEF keeps, Datas

\* A system call writes to memory.
LEMMA PokeIs ==
    ASSUME Valid, NEW h, Good(h), \A n \in Datas \cap Made : NoneValid(h, n),
           NEW g \in Granules, NEW v \in Values, NEW h2, h2 = [h EXCEPT !.mem[g] = v]
    PROVE  /\ Good(h2) /\ h2.bad = h.bad /\ h2.owed = h.owed
           /\ \A x \in Granules : Program(h2, x) = IF x = g THEN v ELSE Program(h, x)
<1> DEFINE m == [h.mem EXCEPT ![g] = v]
<1>1. h2 = Remember(h, m)
  BY DEF Remember
<1>2. Sane(h) /\ h.mem \in [Granules -> Values]
  BY DEF Good, Sane, Typed
<1>3. m \in [Granules -> Values] /\ \A x \in Granules : m[x] = IF x = g THEN v ELSE h.mem[x]
  BY <1>2
<1> HIDE DEF m
<1>4. Sane(h2) /\ h2.mem = m /\ h2.c = h.c /\ h2.owed = h.owed /\ h2.bad = h.bad
  BY <1>1, <1>2, <1>3, RememberIs
<1>5. \A n \in Datas \cap Made : NoneValid(h2, n)
  BY <1>4 DEF NoneValid, Blk
<1>6. \A n \in Made : Kept(h2, n)
  BY <1>5 DEF NoneValid, Kept
<1>7. \A x \in Granules : Program(h2, x) = h2.mem[x] /\ Program(h, x) = h.mem[x]
  BY <1>5, InMemory
<1> QED
  BY <1>3, <1>4, <1>6, <1>7 DEF Good

-----------------------------------------------------------------------------
(* The references of the simulators *)

\* An access of aligned bytes, of data or of instructions.
Referable(a, z) == /\ a \in Nat /\ z \in {4, 8} /\ a % z = 0
                   /\ a \in {8 * g : g \in Granules} \/ a >= ld_text_base

LEMMA ReferableData ==
    ASSUME NEW g \in Granules, NEW z \in {4, 8}
    PROVE  Referable(8 * g, z) /\ Within(8 * g, z) = {g}
  BY OneGranule DEF Referable

LEMMA ReferableInst ==
    ASSUME NEW pc \in PCs
    PROVE  Referable(IACOMPRESS(pc), ISCOMPRESS)
  BY Compressed DEF Referable

LEMMA ReferableAsks ==
    ASSUME Valid, NEW n \in Made, NEW a, NEW z, Referable(a, z)
    PROVE  ~Spans(n, a, z) /\ Far(n, a) /\ a \in Nat /\ z \in Nat \ {0}
  BY NoSpan, AllFar DEF Referable

\* h2 is as good as h, and the program has the same data.
Keeps(h, h2) ==
    /\ Good(h2) /\ h2.bad = h.bad
    /\ \A k \in {"dl2", "il2"} : h2.owed[k] = h.owed[k]
    /\ \A g \in Granules : Program(h2, g) = Program(h, g)

\* The TLBs have no data.
LEMMA TlbIs ==
    ASSUME Valid, NEW h, Good(h), NEW p, p = NULL \/ p \in Made \cap Tlbs,
           NEW cmd \in {"Read", "Write"}, NEW a, NEW z, Referable(a, z),
           NEW r, r = Tlb(h, p, cmd, a, z)
    PROVE  Keeps(h, r.h) /\ \A m \in Made \ Tlbs : r.h.c[m] = h.c[m]
<1>1. CASE p = NULL
  <2>1. r.h = h
    BY <1>1 DEF Tlb, Answer
  <2> QED
    BY <2>1 DEF Keeps
<1>2. CASE p # NULL
  <2>1. p \in Made /\ p \in Tlbs
    BY <1>2
  <2> DEFINE d == <<>>
             t == 0
  <2>2. r = cache_access(h, p, cmd, a, z, d, t)
    BY <1>2 DEF Tlb
  <2>3. d \in Partial /\ DOMAIN d = {}
    <3>1. d \in [{} -> Values] /\ {} \in SUBSET Granules
      OBVIOUS
    <3> QED
      BY <3>1 DEF Partial
  <2>4. t \in Nat
    OBVIOUS
  <2> HIDE DEF d, t
  <2>5. Behind(p) = NULL /\ p \notin {"dl1", "dl2", "il1", "il2"}
    BY <2>1 DEF Behind, Tlbs
  <2>6. Asks(p, cmd, a, z, d, t)
    BY <2>1, <2>3, <2>4, <2>5, ReferableAsks DEF Asks, Blocked, Datas
  <2>7. Top1(p, cmd)
    BY <2>5 DEF Top1
  <2>8. Left(h, r.h, r.lat, r.d, p, cmd, a, z, d)
    BY <2>1, <2>2, <2>6, <2>7, AccessLeaves
  <2>9. \A m \in Made \ Tlbs : r.h.c[m] = h.c[m]
    BY <2>1, <2>5, <2>8 DEF Left, Made, Created, Names, NULL
  <2>10. \A k \in {"dl2", "il2"} : r.h.owed[k] = h.owed[k]
    <3> SUFFICES ASSUME NEW k \in {"dl2", "il2"} PROVE r.h.owed[k] = h.owed[k]
      OBVIOUS
    <3>1. h.owed[k] \in Int
      BY DEF Good, Sane, Typed
    <3>2. One(p, k) = 0
      BY <2>5 DEF One
    <3> QED
      BY <2>8, <3>1, <3>2 DEF Left
  <2> QED
    BY <2>5, <2>8, <2>9, <2>10 DEF Left, Keeps
<1> QED
  BY <1>1, <1>2

LEMMA BlockedWider ==
    ASSUME Valid, NEW n \in Made, Blocked(n)
    PROVE  Wider(Ptr.dl1, Ptr.dl2) \/ Wider(Ptr.il1, Ptr.il2)
<1>1. n \in {"dl1", "il1"} /\ Ptr[n] = n /\ Behind(n) # NULL /\ Behind(n) \in Names
  BY SecondLevel, PointsAtMade, ValidChecked DEF Blocked, Made, Created, Names
<1>2. Opt(n).bsize > Opt(Behind(n)).bsize
  BY DEF Blocked
<1>3. n = "dl1" => Ptr.dl1 = n /\ Behind(n) = Ptr.dl2
  BY <1>1 DEF Behind
<1>4. n = "il1" => Ptr.il1 = n /\ Behind(n) = Ptr.il2
  BY <1>1 DEF Behind
<1> QED
  BY <1>1, <1>2, <1>3, <1>4 DEF Wider, Names

\* The message of an access that ends the simulation, and what it is about.
Stopped(h) ==
    /\ Spanned(h)
    /\ Wider(Ptr.dl1, Ptr.dl2) \/ Wider(Ptr.il1, Ptr.il2)

\* The data caches after a reference of the program.
Referenced(h, h2, e, cmd, g, v) ==
    /\ Good(h2) /\ h2.bad = h.bad
    /\ \A k \in {"dl2", "il2"} : h2.owed[k] = h.owed[k]
    /\ \A x \in Granules : Program(h2, x) =
            IF cmd = "Write" /\ x = g THEN v ELSE Program(h, x)
    /\ e[g] = Program(h2, g)
    /\ \A m \in Made \ Tlbs : m \notin {"dl1", "dl2"} => h2.c[m] = h.c[m]
    /\ "dl1" \in Made => Fresh(h, h2, "dl1")

\* A datum of one granule.
Single(g, v) == [x \in {g} |-> v]

LEMMA SingleIs ==
    ASSUME NEW g \in Granules, NEW v \in Values
    PROVE  Single(g, v) \in Partial /\ DOMAIN Single(g, v) = {g} /\ Single(g, v)[g] = v
<1>1. Single(g, v) \in [{g} -> Values] /\ {g} \in SUBSET Granules
  BY DEF Single
<1> QED
  BY <1>1 DEF Partial, Single

\* Without a cache of data the memory answers.
LEMMA MemoryAnswers ==
    ASSUME Valid, NEW h, Good(h), "dl1" \notin Made,
           NEW cmd \in {"Read", "Write"}, NEW g \in Granules, NEW z \in {4, 8},
           NEW v \in Values, NEW lat, NEW r,
           r = AccessLevel(h, NULL, cmd, 8 * g, z, Single(g, v), lat)
    PROVE  Referenced(h, r.h, r.d, cmd, g, v)
<1> DEFINE d == Single(g, v)
<1>1. Within(8 * g, z) = {g}
  BY OneGranule
<1>2. Sane(h) /\ "dl2" \notin Made /\ \A x : Program(h, x) = h.mem[x]
  BY FirstMade DEF Good, Program
<1>3. CASE cmd = "Read"
  <2>1. r.h = h /\ r.d = Of(h.mem, 8 * g, z)
    BY <1>3 DEF AccessLevel, Answer
  <2>2. r.d[g] = h.mem[g]
    BY <1>1, <2>1 DEF Of
  <2> QED
    BY <1>2, <1>3, <2>1, <2>2 DEF Referenced
<1>4. CASE cmd = "Write"
  <2>1. r.h = Remember(h, Written(d, h.mem)) /\ r.d = d
    BY <1>4 DEF AccessLevel, Answer, Remember
  <2>2. d \in Partial /\ DOMAIN d = {g} /\ d[g] = v
    BY SingleIs
  <2> HIDE DEF d
  <2>3. /\ Sane(r.h) /\ r.h.c = h.c /\ r.h.owed = h.owed /\ r.h.bad = h.bad
        /\ \A x \in Granules : r.h.mem[x] = IF x \in DOMAIN d THEN d[x] ELSE h.mem[x]
    BY <1>2, <2>1, <2>2, MemWritten
  <2>4. \A m \in Made : Kept(r.h, m)
    BY <1>2 DEF Kept, Datas
  <2>5. \A x : Program(r.h, x) = r.h.mem[x]
    BY DEF Program
  <2>6. \A x \in Granules : Program(r.h, x) = IF x = g THEN v ELSE Program(h, x)
    BY <1>2, <2>2, <2>3, <2>5
  <2> QED
    BY <1>4, <2>1, <2>2, <2>3, <2>4, <2>6 DEF Referenced, Good
<1> QED
  BY <1>3, <1>4

\* The first data cache answers, or its blocks are larger than those of the second.
LEMMA DataAnswers ==
    ASSUME Valid, NEW h, Good(h), Fine(h), "dl1" \in Made,
           NEW cmd \in {"Read", "Write"}, NEW g \in Granules, NEW z \in {4, 8},
           NEW v \in Values, NEW d, d = Single(g, v), NEW t \in Nat,
           NEW r, r = cache_access(h, "dl1", cmd, 8 * g, z, d, t)
    PROVE  Referenced(h, r.h, r.d, cmd, g, v) \/ Stopped(r.h)
<1> DEFINE n == "dl1"
           a == 8 * g
<1>1. Referable(a, z) /\ Within(a, z) = {g}
  BY ReferableData
<1>2. n \in Made /\ n \in Datas /\ n \notin {"dl2", "il1", "il2"} /\ n \notin Tlbs
  BY DEF Datas, Tlbs
<1>3. d \in Partial /\ DOMAIN d = {g} /\ d[g] = v
  BY SingleIs
<1>4. n = "dl1"
  OBVIOUS
<1>r. r = cache_access(h, n, cmd, a, z, d, t)
  OBVIOUS
<1> HIDE DEF n, a
<1>5. ~Spans(n, a, z) /\ Far(n, a) /\ a \in Nat /\ z \in Nat \ {0}
  BY <1>1, <1>2, ReferableAsks
<1>6. CASE Blocked(n)
  <2>1. Spanned(r.h)
    <3>1. Reaches(n, a, z)
      BY <1>5 DEF Reaches
    <3> QED
      BY <1>2, <1>r, <1>6, <3>1, BlockedEnds
  <2> QED
    BY <1>2, <1>6, <2>1, BlockedWider DEF Stopped
<1>7. CASE ~Blocked(n)
  <2>1. Asks(n, cmd, a, z, d, t)
    BY <1>1, <1>2, <1>3, <1>5, <1>7 DEF Asks
  <2>2. Top1(n, cmd)
    BY <1>2 DEF Top1
  <2>3. Left(h, r.h, r.lat, r.d, n, cmd, a, z, d)
    BY <1>2, <1>r, <2>1, <2>2, AccessLeaves
  <2>4. \A k \in {"dl2", "il2"} : r.h.owed[k] = h.owed[k]
    <3> SUFFICES ASSUME NEW k \in {"dl2", "il2"} PROVE r.h.owed[k] = h.owed[k]
      OBVIOUS
    <3>1. h.owed[k] \in Int
      BY DEF Good, Sane, Typed
    <3>2. One(n, k) = 0
      BY <1>4 DEF One
    <3>3. r.h.owed[k] = h.owed[k] + One(n, k)
      BY <2>3 DEF Left
    <3> QED
      BY <3>1, <3>2, <3>3
  <2>5. \A m \in Made \ Tlbs : m \notin {"dl1", "dl2"} => r.h.c[m] = h.c[m]
    <3>1. Behind(n) \in {"dl2", NULL}
      BY <1>4, SecondLevel
    <3>2. NULL \notin Made
      BY DEF Made, Created, Names, NULL
    <3> QED
      BY <1>4, <2>3, <3>1, <3>2 DEF Left
  <2>6. /\ \A x \in Granules : Program(r.h, x) =
             IF cmd = "Write" /\ x = g THEN v ELSE Program(h, x)
        /\ r.d[g] = Program(r.h, g)
    BY <1>1, <1>3, <1>4, <2>3 DEF Left
  <2> QED
    BY <1>4, <2>3, <2>4, <2>5, <2>6 DEF Left, Referenced
<1> QED
  BY <1>6, <1>7

LEMMA DataRefIs ==
    ASSUME Valid, NEW h, Good(h), Fine(h),
           NEW cmd \in {"Read", "Write"}, NEW g \in Granules, NEW z \in {4, 8},
           NEW v \in Values, NEW r, r = DataRef(h, cmd, 8 * g, z, v)
    PROVE  Referenced(h, r.h, r.d, cmd, g, v) \/ Stopped(r.h)
<1> DEFINE cmd1 == IF Timed THEN "Read" ELSE cmd
           p == Ptr.dtlb
           a == 8 * g
           x == Tlb(h, p, cmd1, a, z)
           y == x.h
           d == Single(g, v)
<1>1. r = AccessLevel(y, Ptr.dl1, cmd, 8 * g, z, d, o.cache_dl1_lat)
  <2> DEFINE d2 == [q \in Within(8 * g, z) |-> v]
  <2>1. r = AccessLevel(y, Ptr.dl1, cmd, 8 * g, z, d2, o.cache_dl1_lat)
    BY DEF DataRef, With
  <2>2. d2 = d
    BY OneGranule DEF Single
  <2> QED
    BY <2>1, <2>2
<1>2. cmd1 \in {"Read", "Write"} /\ x = Tlb(h, p, cmd1, a, z)
  OBVIOUS
<1>3. p = NULL \/ p \in Made \cap Tlbs
  BY Chained, PointsAtMade, ValidChecked DEF Names, Tlbs
<1>4. Referable(a, z)
  BY ReferableData
<1> HIDE DEF cmd1, x, p, a
<1>5. Keeps(h, x.h) /\ \A m \in Made \ Tlbs : x.h.c[m] = h.c[m]
  BY <1>2, <1>3, <1>4, TlbIs
<1>6. /\ Good(y) /\ y.bad = h.bad
      /\ \A k \in {"dl2", "il2"} : y.owed[k] = h.owed[k]
      /\ \A q \in Granules : Program(y, q) = Program(h, q)
      /\ \A m \in Made \ Tlbs : y.c[m] = h.c[m]
  BY <1>5 DEF Keeps
<1>d. d = Single(g, v)
  OBVIOUS
<1> HIDE DEF y, d
<1>7. Referenced(y, r.h, r.d, cmd, g, v) \/ Stopped(r.h)
  <2>1. CASE "dl1" \in Made
    <3>1. Ptr.dl1 = "dl1" /\ "dl1" # NULL
      BY <2>1, SecondLevel DEF NULL
    <3> DEFINE t == 0
    <3>2. r = cache_access(y, "dl1", cmd, 8 * g, z, d, t) /\ t \in Nat
      BY <1>1, <3>1 DEF AccessLevel
    <3> HIDE DEF t
    <3>3. Fine(y)
      BY <1>6 DEF Fine
    <3> QED
      BY <1>6, <1>d, <2>1, <3>2, <3>3, DataAnswers
  <2>2. CASE "dl1" \notin Made
    <3>1. Ptr.dl1 = NULL
      BY <2>2, Chained, ValidChecked, SecondLevel
    <3> DEFINE lat == o.cache_dl1_lat
    <3>2. r = AccessLevel(y, NULL, cmd, 8 * g, z, Single(g, v), lat)
      BY <1>1, <1>d, <3>1
    <3> HIDE DEF lat
    <3> QED
      BY <1>6, <2>2, <3>2, MemoryAnswers
  <2> QED
    BY <2>1, <2>2
<1>8. CASE Referenced(y, r.h, r.d, cmd, g, v)
  <2>1. "dl1" \in Made => Fresh(h, r.h, "dl1")
    <3> SUFFICES ASSUME "dl1" \in Made PROVE Fresh(h, r.h, "dl1")
      OBVIOUS
    <3>1. y.c["dl1"] = h.c["dl1"]
      BY <1>6 DEF Tlbs
    <3>2. \A s, w : Blk(y, "dl1", s, w) = Blk(h, "dl1", s, w)
      BY <3>1, SameCache
    <3>3. Fresh(y, r.h, "dl1")
      BY <1>8 DEF Referenced
    <3> QED
      BY <3>2, <3>3 DEF Fresh
  <2> QED
    BY <1>6, <1>8, <2>1 DEF Referenced
<1> QED
  BY <1>7, <1>8

LEMMA KeepsTrans ==
    ASSUME NEW h, NEW h1, NEW h2, Keeps(h, h1), Keeps(h1, h2)
    PROVE  Keeps(h, h2)
  BY DEF Keeps

\* The access to the second level that the simulator asks for itself.
LEMMA OweIs ==
    ASSUME Valid, NEW h, Good(h), NEW h2, h2 = Owe(h, "dl2", 0 - 1)
    PROVE  /\ Good(h2) /\ h2.bad = h.bad
           /\ \A k \in {"dl2", "il2"} : h2.owed[k] = h.owed[k] - One("dl2", k)
           /\ \A g \in Granules : Program(h2, g) = Program(h, g)
<1> DEFINE i == 0 - 1
           k0 == "dl2"
<1>1. Same(h, h2)
  BY DEF Same, Owe
<1>2. Sane(h) /\ \A m \in Made : Kept(h, m)
  BY DEF Good
<1>3. h2 = Owe(h, k0, i) /\ i \in Int /\ k0 \in {"dl2", "il2"} /\ k0 = "dl2" /\ i = 0 - 1
  OBVIOUS
<1> HIDE DEF i, k0
<1>4. Sane(h2) /\ \A k \in {"dl2", "il2"} :
         h2.owed[k] = h.owed[k] + (IF k = k0 THEN i ELSE 0)
  BY <1>1, <1>2, <1>3, SameSane
<1>5. \A m \in Made : Kept(h2, m) /\ \A g : Top(h2, m, g) = Top(h, m, g)
  BY <1>1, <1>2, SameIs
<1>6. \A k \in {"dl2", "il2"} : h2.owed[k] = h.owed[k] - One("dl2", k)
  <2> SUFFICES ASSUME NEW k \in {"dl2", "il2"} PROVE h2.owed[k] = h.owed[k] - One("dl2", k)
    OBVIOUS
  <2>1. h.owed[k] \in Int
    BY DEF Good, Sane, Typed
  <2> QED
    BY <1>3, <1>4, <2>1 DEF One
<1> QED
  BY <1>1, <1>4, <1>5, <1>6 DEF Good, Same, Program

LEMMA InstAnswers ==
    ASSUME Valid, NEW n \in Made, n \in {"dl1", "dl2", "il1"},
           NEW h, Good(h), Fine(h), NEW a, NEW z, Referable(a, z),
           NEW cmd, cmd = "Read", NEW d, NEW t \in Nat,
           NEW r, r = cache_access(h, n, cmd, a, z, d, t)
    PROVE  \/ /\ Good(r.h) /\ r.h.bad = h.bad
              /\ \A k \in {"dl2", "il2"} : r.h.owed[k] = h.owed[k] + One(n, k)
              /\ \A g \in Granules : Program(r.h, g) = Program(h, g)
           \/ Stopped(r.h)
<1>1. ~Spans(n, a, z) /\ Far(n, a) /\ a \in Nat /\ z \in Nat \ {0}
  BY ReferableAsks
<1>2. CASE Blocked(n)
  <2>1. Reaches(n, a, z)
    BY <1>1 DEF Reaches
  <2>2. Spanned(r.h)
    BY <1>2, <2>1, BlockedEnds
  <2> QED
    BY <1>2, <2>2, BlockedWider DEF Stopped
<1>3. CASE ~Blocked(n)
  <2>1. Asks(n, cmd, a, z, d, t)
    BY <1>1, <1>3 DEF Asks
  <2>2. Top1(n, cmd)
    BY DEF Top1
  <2>3. Left(h, r.h, r.lat, r.d, n, cmd, a, z, d)
    BY <2>1, <2>2, AccessLeaves
  <2> QED
    BY <2>3 DEF Left
<1> QED
  BY <1>2, <1>3

LEMMA Il1Is ==
    ASSUME Valid, NEW h, Good(h), Fine(h), NEW pc \in PCs, NEW r, r = Il1(h, pc)
    PROVE  Keeps(h, r.h) \/ Stopped(r.h)
<1> DEFINE n == Ptr.il1
           a == IACOMPRESS(pc)
           z == ISCOMPRESS
           d == <<>>
           t == 0
           cmd == "Read"
           q == IF n = "dl2" THEN Owe(h, "dl2", 0 - 1) ELSE h
<1>1. Referable(a, z)
  BY ReferableInst
<1>2. n = NULL \/ (n \in Made /\ n \in {"dl1", "dl2", "il1"})
  BY Chained, PointsAtMade, ValidChecked DEF Names
<1>3. CASE n = NULL
  <2>1. r.h = h
    BY <1>3 DEF Il1, Answer
  <2> QED
    BY <2>1 DEF Keeps
<1>4. CASE n # NULL
  <2>1. (h.owed["dl2"] - 1) = h.owed["dl2"] + (0 - 1)
    <3>1. h.owed["dl2"] \in Int
      BY DEF Good, Sane, Typed
    <3> QED
      BY <3>1
  <2>2. q = IF n = "dl2" THEN [h EXCEPT !.owed["dl2"] = @ - 1] ELSE h
    BY <2>1 DEF Owe
  <2>3. r = cache_access(q, n, cmd, a, z, d, t)
    BY <1>4, <2>2 DEF Il1
  <2>4. /\ Good(q) /\ q.bad = h.bad
        /\ \A k \in {"dl2", "il2"} : q.owed[k] = h.owed[k] - One(n, k)
        /\ \A g \in Granules : Program(q, g) = Program(h, g)
    <3>1. CASE n = "dl2"
      <4>1. q = Owe(h, "dl2", 0 - 1)
        BY <3>1
      <4> HIDE DEF q, n
      <4> QED
        BY <3>1, <4>1, OweIs
    <3>2. CASE n # "dl2"
      <4>1. q = h
        BY <3>2
      <4>2. \A k \in {"dl2", "il2"} : One(n, k) = 0 /\ h.owed[k] \in Int
        BY <1>2, <3>2, <1>4 DEF One, Good, Sane, Typed
      <4>3. \A k \in {"dl2", "il2"} : h.owed[k] = h.owed[k] - One(n, k)
        BY <4>2
      <4> HIDE DEF q, n
      <4> QED
        BY <4>1, <4>3
    <3> QED
      BY <3>1, <3>2
  <2>5. cmd = "Read" /\ t \in Nat /\ n \in Made /\ n \in {"dl1", "dl2", "il1"}
    BY <1>2, <1>4
  <2>6. Fine(q)
    BY <2>4 DEF Fine
  <2> HIDE DEF q, cmd, t, n, a, z, d
  <2>7. \/ /\ Good(r.h) /\ r.h.bad = q.bad
           /\ \A k \in {"dl2", "il2"} : r.h.owed[k] = q.owed[k] + One(n, k)
           /\ \A g \in Granules : Program(r.h, g) = Program(q, g)
        \/ Stopped(r.h)
    BY <1>1, <2>3, <2>4, <2>5, <2>6, InstAnswers
  <2>8. \A k \in {"dl2", "il2"} : q.owed[k] + One(n, k) = h.owed[k]
    <3>1. \A k \in {"dl2", "il2"} : h.owed[k] \in Int /\ One(n, k) \in Int
      BY DEF Good, Sane, Typed, One
    <3> QED
      BY <2>4, <3>1
  <2> QED
    BY <2>4, <2>7, <2>8 DEF Keeps
<1> QED
  BY <1>3, <1>4

\* A TLB changes nothing of an access that ended the simulation.
LEMMA TlbStops ==
    ASSUME Valid, NEW h, Stopped(h), NEW p, p = NULL \/ p \in Made \cap Tlbs,
           NEW cmd, NEW a, NEW z, Referable(a, z), NEW r, r = Tlb(h, p, cmd, a, z)
    PROVE  Stopped(r.h)
<1>1. CASE p = NULL
  <2>1. r.h = h
    BY <1>1 DEF Tlb, Answer
  <2> QED
    BY <2>1
<1>2. CASE p # NULL
  <2>1. p \in Made /\ p \in Tlbs
    BY <1>2
  <2> DEFINE d == <<>>
             t == 0
  <2>2. r = cache_access(h, p, cmd, a, z, d, t)
    BY <1>2 DEF Tlb
  <2> HIDE DEF d, t
  <2>3. ~Spans(p, a, z)
    BY <2>1, ReferableAsks
  <2>4. IsState(h)
    BY DEF Stopped, Spanned
  <2> DEFINE h2 == r.h
  <2>5. Ended(h, h2)
    BY <2>1, <2>2, <2>3, <2>4, TlbEnds
  <2> HIDE DEF h2
  <2>6. Spanned(h2)
    BY <2>5 DEF Spanned, Stopped, Ended
  <2> QED
    BY <2>6 DEF Stopped, h2
<1> QED
  BY <1>1, <1>2

LEMMA ItlbMade ==
    ASSUME Valid
    PROVE  Ptr.itlb = NULL \/ Ptr.itlb \in Made \cap Tlbs
  BY Chained, PointsAtMade, ValidChecked DEF Names, Tlbs

\* sim-outorder: the cache and the TLB at once.
LEMMA InstRefIs ==
    ASSUME Valid, NEW h, Good(h), Fine(h), NEW pc \in PCs, NEW r, r = InstRef(h, pc)
    PROVE  Keeps(h, r.h) \/ Stopped(r.h)
<1> DEFINE x == Il1(h, pc)
           k == x.h
           p == Ptr.itlb
           a == IACOMPRESS(pc)
           z == ISCOMPRESS
           cmd == "Read"
           y == Tlb(k, p, cmd, a, z)
<1>1. r.h = y.h
  <2> DEFINE After(u) == With(Tlb(u.h, p, cmd, a, z),
                             LAMBDA q : Answer(q.h, Larger(u.lat, q.lat), <<>>))
  <2>1. r = With(x, After)
    BY DEF InstRef
  <2>2. r = After(x)
    <3> HIDE DEF After, x
    <3> QED
      BY <2>1 DEF With
  <2> HIDE DEF x
  <2>3. r = Answer(y.h, Larger(x.lat, y.lat), <<>>)
    BY <2>2 DEF With
  <2> QED
    BY <2>3 DEF Answer
<1>2. x = Il1(h, pc) /\ y = Tlb(k, p, cmd, a, z) /\ cmd \in {"Read", "Write"}
  OBVIOUS
<1>3. Referable(a, z) /\ (p = NULL \/ p \in Made \cap Tlbs)
  BY ReferableInst, ItlbMade
<1> HIDE DEF x, y, p, a, z, cmd
<1>4. Keeps(h, x.h) \/ Stopped(x.h)
  BY <1>2, Il1Is
<1>5. Keeps(h, k) \/ Stopped(k)
  BY <1>4
<1> HIDE DEF k
<1>6. CASE Keeps(h, k)
  <2>1. Keeps(k, y.h)
    BY <1>2, <1>3, <1>6, TlbIs DEF Keeps
  <2> DEFINE h2 == y.h
  <2>2. Keeps(k, h2) /\ h2 = r.h
    BY <1>1, <2>1
  <2> HIDE DEF h2
  <2>3. Keeps(h, h2)
    BY <1>6, <2>2, KeepsTrans
  <2> QED
    BY <2>2, <2>3
<1>7. CASE Stopped(k)
  <2>1. Stopped(y.h)
    BY <1>2, <1>3, <1>7, TlbStops
  <2> QED
    BY <1>1, <2>1
<1> QED
  BY <1>5, <1>6, <1>7

\* sim-cache: the TLB, then the cache.
LEMMA FetchIs ==
    ASSUME Valid, NEW h, Good(h), Fine(h), NEW pc \in PCs,
           NEW y, y = Tlb(h, Ptr.itlb, "Read", IACOMPRESS(pc), ISCOMPRESS),
           NEW x, x = Il1(y.h, pc)
    PROVE  Keeps(h, x.h) \/ Stopped(x.h)
<1> DEFINE p == Ptr.itlb
           a == IACOMPRESS(pc)
           z == ISCOMPRESS
           cmd == "Read"
           k == y.h
<1>1. y = Tlb(h, p, cmd, a, z) /\ cmd \in {"Read", "Write"} /\ x = Il1(k, pc)
  OBVIOUS
<1>2. Referable(a, z) /\ (p = NULL \/ p \in Made \cap Tlbs)
  BY ReferableInst, ItlbMade
<1> HIDE DEF p, a, z, cmd
<1>3. Keeps(h, y.h)
  BY <1>1, <1>2, TlbIs
<1>4. Keeps(h, k)
  BY <1>3
<1> HIDE DEF k
<1>5. Good(k) /\ Fine(k)
  BY <1>4 DEF Keeps, Fine
<1>6. Keeps(k, x.h) \/ Stopped(x.h)
  BY <1>1, <1>5, Il1Is
<1> DEFINE h2 == x.h
<1>7. Keeps(k, h2) \/ Stopped(h2)
  BY <1>6
<1> HIDE DEF h2
<1>8. Keeps(h, h2) \/ Stopped(h2)
  BY <1>4, <1>7, KeepsTrans
<1> QED
  BY <1>8 DEF h2

-----------------------------------------------------------------------------
(* The end of a cycle *)

LEMMA NearerIs ==
    ASSUME NEW n, NEW s, NEW b \in BlockT, BlockOk(n, s, b), NEW b2, b2 = Nearer(b)
    PROVE  /\ b2 \in BlockT /\ BlockOk(n, s, b2)
           /\ b2.tag = b.tag /\ b2.valid = b.valid /\ b2.dirty = b.dirty
           /\ Has(b2) = Has(b) /\ \A g : Datum(b2, g) = Datum(b, g)
<1>1. b.ready \in Nat
  BY Fields
<1>2. Sooner(b.ready) \in Nat /\ (b.ready = 0 => Sooner(b.ready) = 0)
  BY <1>1 DEF Sooner
<1>3. b2 = [b EXCEPT !.ready = Sooner(b.ready)]
  BY DEF Nearer
<1> DEFINE k == Sooner(b.ready)
<1>4. b2 = [b EXCEPT !.ready = k] /\ k \in Nat
  BY <1>2, <1>3
<1> HIDE DEF k
<1>5. /\ b2 \in BlockT /\ b2.ready = k
      /\ b2.tag = b.tag /\ b2.valid = b.valid /\ b2.dirty = b.dirty /\ b2.data = b.data
  BY <1>4 DEF BlockT
<1>6. Has(b2) = Has(b) /\ \A g : Datum(b2, g) = Datum(b, g)
  BY <1>5 DEF Has, Datum
<1>7. b.ready = 0 => b2.ready = 0
  BY <1>2, <1>5 DEF k
<1>8. BlockOk(n, s, b2)
  BY <1>5, <1>6, <1>7 DEF BlockOk
<1> QED
  BY <1>5, <1>6, <1>8

\* A cache a cycle later.
NearerCache(n, c) ==
    [c EXCEPT !.bus_free = Sooner(@),
              !.blk = [s \in Sets(n) |-> [w \in Ways(n) |-> Nearer(c.blk[s][w])]]]

LEMMA NearerCacheIs ==
    ASSUME Valid, NEW n \in Made, NEW h, Sane(h), NEW c, c = NearerCache(n, h.c[n])
    PROVE  /\ c \in CacheT(n) /\ c.order = h.c[n].order
           /\ c.last_tagset = LastTag(h, n) /\ c.last_blk = LastBlk(h, n)
           /\ \A s \in Sets(n), w \in Ways(n) : c.blk[s][w] = Nearer(Blk(h, n, s, w))
<1> DEFINE d == h.c[n]
           B == [s \in Sets(n) |-> [w \in Ways(n) |-> Nearer(d.blk[s][w])]]
           k == Sooner(d.bus_free)
<1>1. d \in CacheT(n)
  BY DEF Sane, Typed
<1>2. \A s \in Sets(n), w \in Ways(n) : d.blk[s][w] = Blk(h, n, s, w)
  BY DEF Blk
<1>3. \A s \in Sets(n), w \in Ways(n) : Nearer(d.blk[s][w]) \in BlockT
  <2> TAKE s \in Sets(n), w \in Ways(n)
  <2> DEFINE b == Blk(h, n, s, w)
  <2>1. b \in BlockT /\ BlockOk(n, s, b) /\ d.blk[s][w] = b
    BY <1>2, SaneBlock
  <2> HIDE DEF b, d
  <2>2. Nearer(b) \in BlockT
    BY <2>1, NearerIs
  <2> QED
    BY <2>1, <2>2
<1>4. c = [d EXCEPT !.bus_free = k, !.blk = B]
  BY DEF NearerCache
<1>5. LastTag(h, n) = d.last_tagset /\ LastBlk(h, n) = d.last_blk
  BY DEF LastTag, LastBlk
<1>6. h.c[n] = d
  OBVIOUS
<1> HIDE DEF d
<1>7. B \in [Sets(n) -> [Ways(n) -> BlockT]]
      /\ \A s \in Sets(n), w \in Ways(n) : B[s][w] = Nearer(Blk(h, n, s, w))
  BY <1>2, <1>3
<1>8. k \in Nat
  BY <1>1 DEF CacheT, Sooner
<1> HIDE DEF B, k
<1>9. /\ c \in CacheT(n) /\ c.order = d.order /\ c.last_tagset = d.last_tagset
      /\ c.last_blk = d.last_blk /\ c.blk = B
  BY <1>1, <1>4, <1>7, <1>8 DEF CacheT
<1> QED
  BY <1>5, <1>6, <1>7, <1>9

\* h2 is h a cycle later.
LEMMA NextCycleBlocks ==
    ASSUME Valid, NEW h, Sane(h), NEW h2, h2 = NextCycle(h)
    PROVE  /\ Typed(h2) /\ h2.mem = h.mem /\ h2.owed = h.owed /\ h2.bad = h.bad
           /\ \A n \in Made :
                /\ \A s \in Sets(n), w \in Ways(n) :
                      Blk(h2, n, s, w) = Nearer(Blk(h, n, s, w))
                /\ \A s : Ord(h2, n, s) = Ord(h, n, s)
                /\ LastTag(h2, n) = LastTag(h, n) /\ LastBlk(h2, n) = LastBlk(h, n)
<1> DEFINE C == [n \in DOMAIN h.c |-> NearerCache(n, h.c[n])]
<1>1. h2 = [h EXCEPT !.c = C]
  BY DEF NextCycle, NearerCache
<1>2. Typed(h)
  BY DEF Sane
<1>3. DOMAIN h.c = Made
  BY <1>2 DEF Typed
<1>4. \A n \in Made : C[n] = NearerCache(n, h.c[n])
  BY <1>3
<1>d. DOMAIN C = Made /\ C = [n \in Made |-> C[n]]
  BY <1>3
<1> HIDE DEF C
<1>5. \A n \in Made :
        /\ C[n] \in CacheT(n) /\ C[n].order = h.c[n].order
        /\ C[n].last_tagset = LastTag(h, n) /\ C[n].last_blk = LastBlk(h, n)
        /\ \A s \in Sets(n), w \in Ways(n) : C[n].blk[s][w] = Nearer(Blk(h, n, s, w))
  BY <1>4, NearerCacheIs
<1>6. C \in [Made -> UNION {CacheT(n) : n \in Made}]
  BY <1>5, <1>d
<1>7. h2.c = C /\ h2.mem = h.mem /\ h2.owed = h.owed /\ h2.bad = h.bad
  BY <1>1, <1>2 DEF Typed
<1>8. Typed(h2)
  <2>1. h2 \in [c : [Made -> UNION {CacheT(n) : n \in Made}], mem : [Granules -> Values],
                rand : Rands, owed : [{"dl2", "il2"} -> Int], bad : Messages]
    BY <1>1, <1>2, <1>6 DEF Typed
  <2> QED
    BY <1>5, <1>7, <2>1 DEF Typed
<1> QED
  BY <1>5, <1>7, <1>8 DEF Blk, Ord, LastTag, LastBlk

LEMMA NextCycleIs ==
    ASSUME Valid, NEW h, Good(h), NEW h2, h2 = NextCycle(h)
    PROVE  Keeps(h, h2)
<1>0. Sane(h) /\ \A m \in Made : Kept(h, m)
  BY DEF Good
<1>1. /\ Typed(h2) /\ h2.mem = h.mem /\ h2.owed = h.owed /\ h2.bad = h.bad
      /\ \A n \in Made :
           /\ \A s \in Sets(n), w \in Ways(n) :
                 Blk(h2, n, s, w) = Nearer(Blk(h, n, s, w))
           /\ \A s : Ord(h2, n, s) = Ord(h, n, s)
           /\ LastTag(h2, n) = LastTag(h, n) /\ LastBlk(h2, n) = LastBlk(h, n)
  BY <1>0, NextCycleBlocks
<1>2. ASSUME NEW n \in Made, NEW s \in Sets(n), NEW w \in Ways(n)
      PROVE  LET b == Blk(h, n, s, w)
                 b2 == Blk(h2, n, s, w)
             IN  /\ BlockOk(n, s, b2)
                 /\ b2.tag = b.tag /\ b2.valid = b.valid /\ b2.dirty = b.dirty
                 /\ Has(b2) = Has(b) /\ \A g : Datum(b2, g) = Datum(b, g)
  <2> DEFINE b == Blk(h, n, s, w)
             b2 == Blk(h2, n, s, w)
  <2>1. b \in BlockT /\ BlockOk(n, s, b) /\ b2 = Nearer(b)
    BY <1>0, <1>1, SaneBlock
  <2> HIDE DEF b, b2
  <2>2. /\ BlockOk(n, s, b2)
        /\ b2.tag = b.tag /\ b2.valid = b.valid /\ b2.dirty = b.dirty
        /\ Has(b2) = Has(b) /\ \A g : Datum(b2, g) = Datum(b, g)
    BY <2>1, NearerIs
  <2> QED
    BY <2>2 DEF b, b2
<1>3. ASSUME NEW n \in Made PROVE Shaped(h2, n)
  <2>0. Shaped(h, n)
    BY <1>0 DEF Sane
  <2>1. ListsWays(h2, n)
    BY <1>1, <2>0 DEF Shaped, ListsWays
  <2>2. LastIsThere(h2, n)
    <3> SUFFICES ASSUME LastTag(h2, n) # 0
                 PROVE  LET b == Blk(h2, n, LastTag(h2, n) % Opt(n).nsets, LastBlk(h2, n))
                        IN  /\ LastBlk(h2, n) \in Ways(n) /\ b.valid
                            /\ b.tag = LastTag(h2, n) \div Opt(n).nsets
      BY DEF LastIsThere
    <3> DEFINE T == LastTag(h, n)
               W == LastBlk(h, n)
               s == T % Opt(n).nsets
    <3>1. LastTag(h2, n) = T /\ LastBlk(h2, n) = W /\ T # 0
      BY <1>1
    <3>2. /\ W \in Ways(n) /\ Blk(h, n, s, W).valid
          /\ Blk(h, n, s, W).tag = T \div Opt(n).nsets
      BY <2>0, <3>1 DEF Shaped, LastIsThere
    <3>3. s \in Sets(n)
      <4>1. T \in Nat
        BY <1>0 DEF Sane, Typed, CacheT, LastTag
      <4>2. Opt(n).nsets \in Nat \ {0}
        BY Sizes
      <4> QED
        BY <4>1, <4>2 DEF Sets
    <3>4. Blk(h2, n, s, W).valid /\ Blk(h2, n, s, W).tag = Blk(h, n, s, W).tag
      BY <1>2, <3>2, <3>3
    <3> QED
      BY <3>1, <3>2, <3>4
  <2>3. OneWay(h2, n)
    <3> SUFFICES ASSUME NEW s \in Sets(n), NEW w \in Ways(n), NEW x \in Ways(n),
                        Blk(h2, n, s, w).valid, Blk(h2, n, s, x).valid,
                        Blk(h2, n, s, w).tag = Blk(h2, n, s, x).tag
                 PROVE  w = x
      BY DEF OneWay
    <3>1. Blk(h, n, s, w).valid /\ Blk(h, n, s, x).valid
          /\ Blk(h, n, s, w).tag = Blk(h, n, s, x).tag
      BY <1>2
    <3> QED
      BY <2>0, <3>1 DEF Shaped, OneWay
  <2>4. BlocksOk(h2, n)
    BY <1>2 DEF BlocksOk
  <2> QED
    BY <2>1, <2>2, <2>3, <2>4 DEF Shaped
<1>4. Sane(h2)
  BY <1>1, <1>3 DEF Sane
<1>5. ASSUME NEW n \in Made, NEW g \in Granules
      PROVE  In(h2, n, 8 * g) = In(h, n, 8 * g)
             /\ (In(h, n, 8 * g) # {} => Value(h2, n, g) = Value(h, n, g))
  <2> DEFINE s == CACHE_SET(n, 8 * g)
  <2>1. s \in Sets(n)
    BY EightNat, Split
  <2>2. In(h2, n, 8 * g) = In(h, n, 8 * g) /\ In(h, n, 8 * g) \subseteq Ways(n)
    <3>1. \A w \in Ways(n) : w \in In(h2, n, 8 * g) <=> w \in In(h, n, 8 * g)
      <4> TAKE w \in Ways(n)
      <4>1. Blk(h2, n, s, w).valid = Blk(h, n, s, w).valid
            /\ Blk(h2, n, s, w).tag = Blk(h, n, s, w).tag
        BY <1>2, <2>1
      <4> QED
        BY <4>1, InIs
    <3>2. In(h2, n, 8 * g) \subseteq Ways(n) /\ In(h, n, 8 * g) \subseteq Ways(n)
      BY InIs
    <3> QED
      BY <3>1, <3>2
  <2>3. ASSUME In(h, n, 8 * g) # {} PROVE Value(h2, n, g) = Value(h, n, g)
    <3>1. PICK w \in In(h, n, 8 * g) : TRUE
      BY <2>3
    <3>2. w \in Ways(n) /\ w \in In(h2, n, 8 * g)
      BY <2>2
    <3>3. Value(h, n, g) = Datum(Blk(h, n, s, w), g)
          /\ Value(h2, n, g) = Datum(Blk(h2, n, s, w), g)
      BY <1>0, <1>4, <3>1, <3>2, ValueIs
    <3>4. Datum(Blk(h2, n, s, w), g) = Datum(Blk(h, n, s, w), g)
      BY <1>2, <2>1, <3>2
    <3> QED
      BY <3>3, <3>4
  <2> QED
    BY <2>2, <2>3
<1>6. ASSUME NEW n \in Made, NEW g \in Granules
      PROVE  Under(h2, n, g) = Under(h, n, g) /\ Top(h2, n, g) = Top(h, n, g)
  <2>1. Behind(n) # NULL => Second(h2, Behind(n), g) = Second(h, Behind(n), g)
    BY <1>1, <1>5, SecondLevel DEF Second
  <2>2. Under(h2, n, g) = Under(h, n, g)
    BY <1>1, <2>1 DEF Under
  <2> QED
    BY <1>5, <2>2 DEF Top
<1>7. ASSUME NEW n \in Made PROVE Kept(h2, n)
  <2> SUFFICES ASSUME n \in Datas, NEW s \in Sets(n), NEW w \in Ways(n),
                      Blk(h2, n, s, w).valid, ~Blk(h2, n, s, w).dirty,
                      NEW g \in Has(Blk(h2, n, s, w))
               PROVE  Datum(Blk(h2, n, s, w), g) = Under(h2, n, g)
    BY DEF Kept
  <2>1. /\ Blk(h, n, s, w).valid /\ ~Blk(h, n, s, w).dirty /\ g \in Has(Blk(h, n, s, w))
        /\ Datum(Blk(h2, n, s, w), g) = Datum(Blk(h, n, s, w), g)
    BY <1>2
  <2>2. g \in Granules
    BY <1>0, <2>1, SaneBlock, Fields
  <2>3. Datum(Blk(h, n, s, w), g) = Under(h, n, g)
    BY <1>0, <2>1 DEF Kept
  <2> QED
    BY <1>6, <2>1, <2>2, <2>3
<1>8. \A g \in Granules : Program(h2, g) = Program(h, g)
  BY <1>1, <1>6 DEF Program
<1> QED
  BY <1>1, <1>4, <1>7, <1>8 DEF Keeps, Good

LEMMA NextCycleStops ==
    ASSUME NEW h, Stopped(h), NEW h2, h2 = NextCycle(h)
    PROVE  Stopped(h2)
<1> DEFINE x == h2.c
<1>1. IsState(h)
  BY DEF Stopped, Spanned
<1>2. Ended(h, h2)
  <2> DEFINE C == [n \in DOMAIN h.c |->
                     [h.c[n] EXCEPT !.bus_free = Sooner(@),
                         !.blk = [s \in Sets(n) |->
                                    [w \in Ways(n) |-> Nearer(h.c[n].blk[s][w])]]]]
  <2>1. h2 = [h EXCEPT !.c = C]
    BY DEF NextCycle
  <2> HIDE DEF C
  <2> QED
    BY <1>1, <2>1 DEF Ended, IsState
<1> QED
  BY <1>2 DEF Stopped, Spanned, Ended

-----------------------------------------------------------------------------
(* The options of a run stay, and so does what depends on them alone. *)

LEMMA SameOptions ==
    ASSUME o' = o
    PROVE  /\ Ptr' = Ptr /\ (Timed' <=> Timed) /\ (Valid' <=> Valid) /\ (Checked' <=> Checked)
           /\ \A n : Opt(n)' = Opt(n)
  BY DEF Ptr, Timed, Valid, Checked, Opt

LEMMA SameSizes ==
    ASSUME o' = o
    PROVE  /\ \A n : Ways(n)' = Ways(n) /\ Sets(n)' = Sets(n) /\ Behind(n)' = Behind(n)
           /\ Made' = Made
  BY SameOptions DEF Ways, Sets, Behind, Made

LEMMA SameAddresses ==
    ASSUME o' = o
    PROVE  \A n, a : /\ TagSet(n, a)' = TagSet(n, a)
                     /\ CACHE_SET(n, a)' = CACHE_SET(n, a)
                     /\ CACHE_TAG(n, a)' = CACHE_TAG(n, a)
<1>1. \A n, a : TagSet(n, a)' = TagSet(n, a)
  BY SameOptions DEF TagSet
<1>2. \A n, a : CACHE_SET(n, a)' = CACHE_SET(n, a)
  BY <1>1, SameOptions DEF CACHE_SET
<1>3. \A n, a : CACHE_TAG(n, a)' = CACHE_TAG(n, a)
  BY <1>1, SameOptions DEF CACHE_TAG
<1> QED
  BY <1>1, <1>2, <1>3

LEMMA SameBaddr ==
    ASSUME o' = o
    PROVE  /\ \A n, x, s : CACHE_MK_BADDR(n, x, s)' = CACHE_MK_BADDR(n, x, s)
           /\ \A n, x : Mine(n, x)' = Mine(n, x)
           /\ \A n : Blocked(n)' <=> Blocked(n)
           /\ \A n, a : Far(n, a)' <=> Far(n, a)
<1>1. \A n, x, s : CACHE_MK_BADDR(n, x, s)' = CACHE_MK_BADDR(n, x, s)
  BY SameOptions DEF CACHE_MK_BADDR
<1>2. \A n, x : Mine(n, x)' = Mine(n, x)
  BY SameAddresses DEF Mine
<1>3. \A n : Blocked(n)' <=> Blocked(n)
  BY SameOptions, SameSizes DEF Blocked
<1>4. \A n, a : Far(n, a)' <=> Far(n, a)
  BY SameOptions, SameSizes DEF Far
<1> QED
  BY <1>1, <1>2, <1>3, <1>4

LEMMA SameFound ==
    ASSUME o' = o, NEW h
    PROVE  \A n, a : In(h, n, a)' = In(h, n, a)
<1>1. \A c, n, a : Found(c, n, a)' = Found(c, n, a)
  BY SameSizes, SameAddresses DEF Found
<1> QED
  BY <1>1 DEF In

LEMMA SameTyped ==
    ASSUME o' = o, NEW h
    PROVE  Typed(h)' <=> Typed(h)
<1>1. \A n : CacheT(n)' = CacheT(n)
  BY SameSizes DEF CacheT
<1> QED
  BY <1>1, SameSizes DEF Typed

LEMMA SameShaped ==
    ASSUME o' = o, NEW h, NEW n
    PROVE  Shaped(h, n)' <=> Shaped(h, n)
<1>1. ListsWays(h, n)' <=> ListsWays(h, n)
  BY SameSizes DEF ListsWays
<1>2. LastIsThere(h, n)' <=> LastIsThere(h, n)
  BY SameSizes, SameOptions DEF LastIsThere
<1>3. OneWay(h, n)' <=> OneWay(h, n)
  BY SameSizes DEF OneWay
<1>4. \A s, b : BlockOk(n, s, b)' <=> BlockOk(n, s, b)
  BY SameOptions, SameBaddr DEF BlockOk
<1>5. BlocksOk(h, n)' <=> BlocksOk(h, n)
  BY <1>4, SameSizes DEF BlocksOk
<1> QED
  BY <1>1, <1>2, <1>3, <1>5 DEF Shaped

LEMMA SameReads ==
    ASSUME o' = o, NEW h, NEW g
    PROVE  \A n : Under(h, n, g)' = Under(h, n, g) /\ Top(h, n, g)' = Top(h, n, g)
<1>1. \A n : Value(h, n, g)' = Value(h, n, g)
  BY SameFound, SameAddresses DEF Value
<1>2. \A n : Second(h, n, g)' = Second(h, n, g)
  BY <1>1, SameFound DEF Second
<1>3. \A n : Under(h, n, g)' = Under(h, n, g)
  BY <1>2, SameSizes DEF Under
<1>4. \A n : Top(h, n, g)' = Top(h, n, g)
  BY <1>1, <1>3, SameFound DEF Top
<1> QED
  BY <1>3, <1>4

LEMMA SameGood ==
    ASSUME o' = o, NEW h
    PROVE  /\ Good(h)' <=> Good(h)
           /\ \A g : Program(h, g)' = Program(h, g)
<1>1. Sane(h)' <=> Sane(h)
  BY SameTyped, SameShaped, SameSizes DEF Sane
<1>2. \A n : Kept(h, n)' <=> Kept(h, n)
  BY SameReads, SameSizes DEF Kept
<1>3. Good(h)' <=> Good(h)
  BY <1>1, <1>2, SameSizes DEF Good
<1>4. \A g : Program(h, g)' = Program(h, g)
  BY SameReads, SameSizes DEF Program
<1> QED
  BY <1>3, <1>4

-----------------------------------------------------------------------------
(* The invariant *)

TooWide == "access spans block"

\* The options passed the checks, and what the caches hold is sound; a simulation that
\* ended was asked for more than a block of the second level.
IInv ==
    /\ o \in Options
    /\ status \in {"run", "fatal", TooWide}
    /\ status # "fatal" => sim_check_options(o)
    /\ status = TooWide => Wider(Ptr.dl1, Ptr.dl2) \/ Wider(Ptr.il1, Ptr.il2)
    /\ owed = NoTraffic /\ fetch_regs_PC \in PCs
    /\ Valid => Good(Now)

Silent == ""

LEMMA NowIs ==
    /\ Now.c = caches /\ Now.mem = mem /\ Now.rand = rand /\ Now.owed = owed
    /\ Fine(Now) /\ IsState(Now)
<1>1. Now = [c |-> caches, mem |-> mem, rand |-> rand, owed |-> owed, bad |-> Silent]
  BY Zenon DEF Now, Silent
<1>2. /\ Now.c = caches /\ Now.mem = mem /\ Now.rand = rand /\ Now.owed = owed
      /\ Now.bad = Silent
  BY <1>1
<1>3. Fine(Now)
  BY <1>2, Zenon DEF Fine, Silent
<1> QED
  BY <1>1, <1>2, <1>3 DEF IsState

\* The simulation goes on.
LEMMA GoesOn ==
    ASSUME NEW h, Fine(h), IsState(h), Become(h)
    PROVE  /\ caches' = h.c /\ mem' = h.mem /\ owed' = h.owed /\ o' = o
           /\ status' = "run" /\ h = Now'
<1>1. /\ caches' = h.c /\ mem' = h.mem /\ rand' = h.rand /\ owed' = h.owed /\ o' = o
      /\ status' = "run"
  BY Zenon DEF Become, Fine
<1>2. h.bad = Silent
  BY Zenon DEF Fine, Silent
<1>3. Now' = [c |-> caches', mem |-> mem', rand |-> rand', owed |-> owed', bad |-> Silent]
  BY Zenon DEF Now, Silent
<1> QED
  BY <1>1, <1>2, <1>3 DEF IsState

\* The simulation ends with the message.
LEMMA ComesToAnEnd ==
    ASSUME NEW h, Stopped(h), Become(h)
    PROVE  /\ caches' = caches /\ mem' = mem /\ rand' = rand /\ owed' = owed /\ o' = o
           /\ status' = TooWide /\ status' # "run"
<1>1. h.bad = TooWide
  BY Zenon DEF Stopped, Spanned, TooWide
<1>2. TooWide # Silent /\ TooWide # "run"
  BY Zenon DEF TooWide, Silent
<1>3. h.bad # ""
  BY <1>1, <1>2, Zenon DEF Silent
<1> QED
  BY <1>1, <1>2, <1>3, Zenon DEF Become

-----------------------------------------------------------------------------
(* What a step does. *)

LEMMA RunningValid ==
    ASSUME IInv, NEW sim \in {"sim-cache", "sim-outorder"}, Running(sim)
    PROVE  Valid /\ Good(Now) /\ Fine(Now) /\ o.sim = sim /\ (Timed <=> sim = "sim-outorder")
<1>1. Valid /\ o.sim = sim
  BY DEF IInv, Running, Valid, Checked
<1> QED
  BY <1>1, NowIs DEF IInv, Timed

\* The simulation ends, and nothing else changes.
EndStep ==
    /\ \E h : Stopped(h) /\ Become(h)
    /\ out' = out /\ call' # <<"create">>

\* The program does not see the step.
QuietStep ==
    /\ \E h : Keeps(Now, h) /\ Become(h)
    /\ out' = out /\ call' \in {<<"fetch">>, <<"none">>, <<"syscall">>}

\* The program reads or writes a granule.
ReferStep(cmd, g, v) ==
    /\ \E h : /\ Good(h) /\ h.bad = Now.bad
              /\ \A k \in {"dl2", "il2"} : h.owed[k] = owed[k]
              /\ \A x \in Granules : Program(h, x) =
                      IF cmd = "Write" /\ x = g THEN v ELSE Program(Now, x)
              /\ Become(h)
    /\ call' = <<cmd, g>>
    /\ out' = IF cmd = "Read" THEN Program(Now, g) ELSE out

AnyStep ==
    \/ EndStep \/ QuietStep
    \/ \E cmd \in {"Read", "Write"}, g \in Granules, v \in Values : ReferStep(cmd, g, v)

LEMMA ReferredIs ==
    ASSUME Valid, Good(Now), NEW cmd \in {"Read", "Write"}, NEW g \in Granules,
           NEW v \in Values, NEW z \in {4, 8}, Referred(cmd, g, v, 8 * g, z)
    PROVE  EndStep \/ ReferStep(cmd, g, v)
<1>1. PICK x : /\ x = DataRef(Now, cmd, 8 * g, z, v) /\ Become(x.h)
               /\ call' = <<cmd, g>>
               /\ out' = IF cmd = "Read" /\ Fine(x.h) THEN x.d[g] ELSE out
  BY Zenon DEF Referred, Fine
<1>2. Referenced(Now, x.h, x.d, cmd, g, v) \/ Stopped(x.h)
  BY <1>1, NowIs, DataRefIs
<1>3. CASE Referenced(Now, x.h, x.d, cmd, g, v)
  <2>1. Good(x.h) /\ x.h.bad = Now.bad /\ x.d[g] = Program(x.h, g)
        /\ (\A k \in {"dl2", "il2"} : x.h.owed[k] = owed[k])
        /\ \A y \in Granules : Program(x.h, y) =
                 IF cmd = "Write" /\ y = g THEN v ELSE Program(Now, y)
    BY <1>3, NowIs DEF Referenced
  <2>2. Fine(x.h)
    BY <2>1, NowIs, Zenon DEF Fine
  <2>3. out' = IF cmd = "Read" THEN Program(Now, g) ELSE out
    BY <1>1, <2>1, <2>2
  <2> QED
    BY <1>1, <2>1, <2>3 DEF ReferStep
<1>4. CASE Stopped(x.h)
  <2>1. ~Fine(x.h)
    <3>1. x.h.bad = TooWide /\ TooWide # Silent
      BY <1>4, Zenon DEF Stopped, Spanned, TooWide, Silent
    <3> QED
      BY <3>1, Zenon DEF Fine, Silent
  <2>2. out' = out /\ call' # <<"create">>
    BY <1>1, <2>1
  <2> QED
    BY <1>1, <1>4, <2>2 DEF EndStep
<1> QED
  BY <1>2, <1>3, <1>4

LEMMA QuietIs ==
    ASSUME NEW h, Keeps(Now, h) \/ Stopped(h), Become(h), out' = out,
           call' \in {<<"fetch">>, <<"none">>, <<"syscall">>}
    PROVE  EndStep \/ QuietStep
<1>1. call' # <<"create">>
  OBVIOUS
<1> QED
  BY <1>1 DEF EndStep, QuietStep

LEMMA KeepsNow == ASSUME Good(Now) PROVE Keeps(Now, Now)
  BY DEF Keeps

LEMMA FetchInstIs ==
    ASSUME IInv, NEW pc \in PCs, FetchInst(pc)
    PROVE  EndStep \/ QuietStep
<1>1. Valid /\ Good(Now) /\ Fine(Now)
  BY RunningValid DEF FetchInst
<1>2. PICK y, x : /\ y = Tlb(Now, Ptr.itlb, "Read", IACOMPRESS(pc), ISCOMPRESS)
                  /\ x = Il1(y.h, pc) /\ Become(x.h)
                  /\ call' = <<"fetch">> /\ out' = out
  BY DEF FetchInst
<1>3. Keeps(Now, x.h) \/ Stopped(x.h)
  BY <1>1, <1>2, FetchIs
<1> QED
  BY <1>2, <1>3, QuietIs

LEMMA SyscallIs ==
    ASSUME IInv, NEW cmd \in {"Read", "Write"}, NEW g \in Granules, NEW v \in Values,
           SYSCALL(cmd, g, v)
    PROVE  ReferStep(cmd, g, v)
<1>1. Valid /\ Good(Now)
  BY RunningValid DEF SYSCALL
<1>2. PICK h : /\ h = Flushed(Now) /\ call' = <<cmd, g>>
               /\ Become(IF cmd = "Write" THEN [h EXCEPT !.mem[g] = v] ELSE h)
               /\ out' = IF cmd = "Read" THEN h.mem[g] ELSE out
  BY DEF SYSCALL
<1>3. /\ Good(h) /\ h.bad = Now.bad
      /\ \A k \in {"dl2", "il2"} : h.owed[k] = owed[k]
      /\ \A x \in Granules : Program(h, x) = Program(Now, x)
      /\ \A n \in Datas \cap Made : NoneValid(h, n)
  BY <1>1, <1>2, FlushedIs, NowIs
<1>4. h.mem[g] = Program(Now, g)
  BY <1>1, <1>3, InMemory
<1>5. CASE cmd = "Read"
  BY <1>2, <1>3, <1>4, <1>5 DEF ReferStep
<1>6. CASE cmd = "Write"
  <2> DEFINE h2 == [h EXCEPT !.mem[g] = v]
  <2>1. Become(h2) /\ out' = out
    BY <1>2, <1>6
  <2>2. /\ Good(h2) /\ h2.bad = h.bad /\ h2.owed = h.owed
        /\ \A x \in Granules : Program(h2, x) = IF x = g THEN v ELSE Program(h, x)
    BY <1>1, <1>3, PokeIs
  <2> HIDE DEF h2
  <2> QED
    BY <1>2, <1>3, <1>6, <2>1, <2>2 DEF ReferStep
<1> QED
  BY <1>5, <1>6

LEMMA RuuFetchIs ==
    ASSUME IInv, ruu_fetch
    PROVE  EndStep \/ QuietStep
<1>1. Valid /\ Good(Now) /\ Fine(Now) /\ fetch_regs_PC \in PCs
  BY RunningValid DEF ruu_fetch, IInv
<1>2. PICK x, h : /\ x = InstRef(Now, fetch_regs_PC) /\ h = NextCycle(x.h)
                  /\ Become(h) /\ call' = <<"fetch">> /\ out' = out
  BY DEF ruu_fetch
<1>3. Keeps(Now, x.h) \/ Stopped(x.h)
  BY <1>1, <1>2, InstRefIs
<1>4. CASE Keeps(Now, x.h)
  <2>1. Keeps(x.h, h)
    BY <1>1, <1>2, <1>4, NextCycleIs DEF Keeps
  <2>2. Keeps(Now, h)
    BY <1>4, <2>1, KeepsTrans
  <2> QED
    BY <1>2, <2>2, QuietIs
<1>5. CASE Stopped(x.h)
  BY <1>2, <1>5, NextCycleStops, QuietIs
<1> QED
  BY <1>3, <1>4, <1>5

LEMMA FetchDelayedIs ==
    ASSUME IInv, FetchDelayed
    PROVE  EndStep \/ QuietStep
<1>1. Valid /\ Good(Now)
  BY RunningValid DEF FetchDelayed
<1> DEFINE h == NextCycle(Now)
<1>2. Become(h) /\ call' = <<"none">> /\ out' = out
  BY DEF FetchDelayed
<1>3. Keeps(Now, h)
  BY <1>1, NextCycleIs
<1> HIDE DEF h
<1> QED
  BY <1>2, <1>3, QuietIs

\* Nothing that concerns the caches.
LEMMA OtherIs ==
    ASSUME IInv, CommitOther \/ (\E pc \in PCs : Recover(pc)) \/ IssueOther
    PROVE  EndStep \/ QuietStep
<1>1. Valid /\ Good(Now)
  BY RunningValid DEF CommitOther, Recover, IssueOther
<1>2. Become(Now) /\ call' \in {<<"none">>, <<"syscall">>} /\ out' = out
  BY DEF CommitOther, Recover, IssueOther
<1> QED
  BY <1>1, <1>2, KeepsNow, QuietIs

LEMMA StepIs ==
    ASSUME IInv, Next
    PROVE  Valid /\ Good(Now) /\ AnyStep
<1>1. ASSUME NEW g \in Granules, Load(g) PROVE Valid /\ Good(Now) /\ AnyStep
  <2>1. Valid /\ Good(Now) /\ Referred("Read", g, 0, 8 * g, 8)
    BY <1>1, RunningValid DEF Load
  <2> QED
    BY <2>1, ReferredIs, HierarchyAssumption DEF AnyStep
<1>2. ASSUME NEW g \in Granules, NEW v \in Values, Store(g, v)
      PROVE  Valid /\ Good(Now) /\ AnyStep
  <2>1. Valid /\ Good(Now) /\ Referred("Write", g, v, 8 * g, 8)
    BY <1>2, RunningValid DEF Store
  <2> QED
    BY <2>1, ReferredIs DEF AnyStep
<1>3. ASSUME NEW pc \in PCs, FetchInst(pc) PROVE Valid /\ Good(Now) /\ AnyStep
  BY <1>3, FetchInstIs, RunningValid DEF AnyStep, FetchInst
<1>4. ASSUME NEW cmd \in {"Read", "Write"}, NEW g \in Granules, NEW v \in Values,
             SYSCALL(cmd, g, v)
      PROVE  Valid /\ Good(Now) /\ AnyStep
  BY <1>4, SyscallIs, RunningValid DEF AnyStep, SYSCALL
<1>5. ASSUME NEW g \in Granules, CommitStore(g) PROVE Valid /\ Good(Now) /\ AnyStep
  <2>1. Valid /\ Good(Now) /\ Referred("Write", g, 0, 8 * g, 4)
    BY <1>5, RunningValid DEF CommitStore
  <2> QED
    BY <2>1, ReferredIs, HierarchyAssumption DEF AnyStep
<1>6. ASSUME NEW g \in Granules, IssueLoad(g) PROVE Valid /\ Good(Now) /\ AnyStep
  <2>1. Valid /\ Good(Now) /\ Referred("Read", g, 0, 8 * g, 4)
    BY <1>6, RunningValid DEF IssueLoad
  <2> QED
    BY <2>1, ReferredIs, HierarchyAssumption DEF AnyStep
<1>7. ASSUME CommitOther \/ (\E pc \in PCs : Recover(pc)) \/ IssueOther
      PROVE  Valid /\ Good(Now) /\ AnyStep
  <2>1. Valid /\ Good(Now)
    BY <1>7, RunningValid DEF CommitOther, Recover, IssueOther
  <2> QED
    BY <1>7, <2>1, OtherIs DEF AnyStep
<1>8. ASSUME ruu_fetch PROVE Valid /\ Good(Now) /\ AnyStep
  BY <1>8, RuuFetchIs, RunningValid DEF AnyStep, ruu_fetch
<1>9. ASSUME FetchDelayed PROVE Valid /\ Good(Now) /\ AnyStep
  BY <1>9, FetchDelayedIs, RunningValid DEF AnyStep, FetchDelayed
<1>10. ASSUME SimCacheStep PROVE Valid /\ Good(Now) /\ AnyStep
  BY <1>1, <1>2, <1>3, <1>4, <1>10, HierarchyAssumption DEF SimCacheStep
<1>11. ASSUME Cycle PROVE Valid /\ Good(Now) /\ AnyStep
  BY <1>5, <1>6, <1>7, <1>8, <1>9, <1>11 DEF Cycle
<1> QED
  BY <1>10, <1>11 DEF Next

-----------------------------------------------------------------------------
(* The first state *)

LEMMA EmptyIs ==
    /\ Empty \in BlockT /\ Empty.valid = FALSE
    /\ \A n, s : BlockOk(n, s, Empty)
<1>1. <<>> \in [{} -> Values]
  <2>1. <<>> \in Seq(Values) /\ Len(<<>>) = 0
    OBVIOUS
  <2>2. <<>> \in [1 .. Len(<<>>) -> Values]
    BY <2>1, LenProperties
  <2> QED
    BY <2>1, <2>2
<1>2. {} \in SUBSET Granules
  OBVIOUS
<1> DEFINE e == <<>>
<1>3. e \in Partial
  BY <1>1, <1>2 DEF Partial
<1>4. Empty = [tag |-> 0, valid |-> FALSE, dirty |-> FALSE, ready |-> 0, data |-> e]
  BY DEF Empty
<1> HIDE DEF e
<1>5. Empty \in BlockT /\ Empty.valid = FALSE /\ Empty.ready = 0
  BY <1>3, <1>4 DEF BlockT
<1> QED
  BY <1>5 DEF BlockOk

LEMMA CreateIs ==
    ASSUME Valid, NEW n \in Made, NEW c, c = cache_create(n)
    PROVE  /\ c \in CacheT(n) /\ c.last_tagset = 0
           /\ \A s \in Sets(n), w \in Ways(n) : c.blk[s][w] = Empty
           /\ \A s \in Sets(n), w \in Ways(n) : \E i \in Ways(n) : c.order[s][i] = w
<1> DEFINE e == Empty
           k == Opt(n).assoc
<1>1. k \in Nat \ {0} /\ Ways(n) = 1 .. k
  BY Sizes DEF Ways
<1>2. e \in BlockT
  BY EmptyIs
<1>3. c = [blk   |-> [s \in Sets(n) |-> [w \in Ways(n) |-> e]],
           order |-> [s \in Sets(n) |-> [i \in Ways(n) |-> k + 1 - i]],
           last_tagset |-> 0, last_blk |-> 0, bus_free |-> 0]
  BY DEF cache_create
<1> HIDE DEF e, k
<1>4. \A i \in Ways(n) : k + 1 - i \in Ways(n) /\ k + 1 - (k + 1 - i) = i
  BY <1>1
<1>5. /\ c.blk = [s \in Sets(n) |-> [w \in Ways(n) |-> e]]
      /\ c.order = [s \in Sets(n) |-> [i \in Ways(n) |-> k + 1 - i]]
      /\ c.last_tagset = 0
  BY <1>3
<1>6. c \in CacheT(n)
  BY <1>2, <1>3, <1>4 DEF CacheT
<1>7. \A s \in Sets(n), w \in Ways(n) : c.blk[s][w] = e
  BY <1>5
<1>8. \A s \in Sets(n), w \in Ways(n) : c.order[s][k + 1 - w] = w
  BY <1>4, <1>5
<1> QED
  BY <1>4, <1>5, <1>6, <1>7, <1>8 DEF e

LEMMA InitIs ==
    ASSUME Init, Valid
    PROVE  Good(Now) /\ \A g \in Granules : Program(Now, g) = 0
<1>1. /\ caches = [n \in Made |-> cache_create(n)]
      /\ mem = [g \in Granules |-> 0] /\ owed = NoTraffic
  BY DEF Init, Valid, Checked, Made, Ptr
<1>2. \A n \in Made : /\ caches[n] \in CacheT(n) /\ caches[n].last_tagset = 0
                      /\ \A s \in Sets(n), w \in Ways(n) : caches[n].blk[s][w] = Empty
                      /\ \A s \in Sets(n), w \in Ways(n) :
                            \E i \in Ways(n) : caches[n].order[s][i] = w
  BY <1>1, CreateIs
<1>3. mem \in [Granules -> Values] /\ owed \in [{"dl2", "il2"} -> Int]
  BY <1>1, HierarchyAssumption DEF NoTraffic
<1>4. Silent \in Messages
  BY Zenon DEF Silent, Messages
<1>5. Now = [c |-> caches, mem |-> mem, rand |-> rand, owed |-> owed, bad |-> Silent]
  BY Zenon DEF Now, Silent
<1>r. rand \in Rands
  BY RandomAssumption DEF Init
<1> DEFINE h == Now
<1>6. /\ h.c = caches /\ h.mem = mem /\ \A n \in Made : h.c[n] = caches[n]
  BY NowIs
<1>7. Typed(h)
  BY <1>1, <1>2, <1>3, <1>4, <1>5, <1>r DEF Typed
<1> HIDE DEF h
<1>8. \A n \in Made : \A s \in Sets(n), w \in Ways(n) :
          Blk(h, n, s, w) = Empty /\ ~Blk(h, n, s, w).valid
  BY <1>2, <1>6, EmptyIs DEF Blk
<1>9. ASSUME NEW n \in Made PROVE Shaped(h, n) /\ Kept(h, n)
  <2>1. ListsWays(h, n)
    BY <1>2, <1>6 DEF ListsWays, Ord
  <2>2. LastIsThere(h, n)
    BY <1>2, <1>6 DEF LastIsThere, LastTag
  <2>3. OneWay(h, n)
    BY <1>8 DEF OneWay
  <2>4. BlocksOk(h, n)
    BY <1>8, EmptyIs DEF BlocksOk
  <2>5. Kept(h, n)
    BY <1>8 DEF Kept
  <2> QED
    BY <2>1, <2>2, <2>3, <2>4, <2>5 DEF Shaped
<1>10. \A g \in Granules : Program(h, g) = h.mem[g]
  <2>1. \A n \in Datas \cap Made : NoneValid(h, n)
    BY <1>8 DEF NoneValid
  <2> QED
    BY <2>1, InMemory
<1>11. \A g \in Granules : Program(h, g) = 0
  BY <1>1, <1>6, <1>10
<1> QED
  BY <1>7, <1>9, <1>11 DEF Good, Sane, h

-----------------------------------------------------------------------------
(* Every step keeps the invariant. *)

\* The state after a call that went well.
LEMMA AfterCall ==
    ASSUME IInv, Valid, fetch_regs_PC' \in PCs, NEW h, Good(h), h.bad = Now.bad,
           \A k \in {"dl2", "il2"} : h.owed[k] = owed[k], Become(h)
    PROVE  IInv' /\ h = Now' /\ o' = o /\ status' = "run" /\ caches' = h.c
<1>1. Fine(h) /\ IsState(h)
  <2>1. Fine(h)
    BY NowIs, Zenon DEF Fine
  <2>2. IsState(h)
    BY DEF Good, Sane, Typed, IsState
  <2> QED
    BY <2>1, <2>2
<1>2. /\ caches' = h.c /\ owed' = h.owed /\ o' = o /\ status' = "run" /\ h = Now'
  BY <1>1, GoesOn
<1>3. owed' = NoTraffic
  <2>1. h.owed \in [{"dl2", "il2"} -> Int] /\ owed = NoTraffic
    BY DEF Good, Sane, Typed, IInv
  <2> QED
    BY <1>2, <2>1 DEF NoTraffic
<1>4. Good(Now)'
  BY <1>2, SameGood
<1>5. o' \in Options /\ (sim_check_options(o))'
  BY <1>2, HierarchyAssumption DEF Valid, Checked, IInv
<1>6. TooWide # "run"
  BY Zenon DEF TooWide
<1>7. IInv'
  BY <1>2, <1>3, <1>4, <1>5, <1>6 DEF IInv
<1> QED
  BY <1>2, <1>7

\* The state after the end of the simulation.
LEMMA AfterEnd ==
    ASSUME IInv, Valid, fetch_regs_PC' \in PCs, NEW h, Stopped(h), Become(h)
    PROVE  /\ IInv' /\ o' = o /\ caches' = caches /\ mem' = mem
           /\ status' = TooWide /\ status' # "run"
<1>1. /\ caches' = caches /\ mem' = mem /\ rand' = rand /\ owed' = owed /\ o' = o
      /\ status' = TooWide /\ status' # "run"
  BY ComesToAnEnd
<1> DEFINE k == Now
<1>2. k = Now'
  BY <1>1 DEF Now
<1>3. Good(k)
  BY DEF IInv
<1> HIDE DEF k
<1>4. Good(Now)'
  BY <1>1, <1>2, <1>3, SameGood
<1>5. o' \in Options /\ (sim_check_options(o))'
  BY <1>1, HierarchyAssumption DEF Valid, Checked, IInv
<1>6. (Wider(Ptr.dl1, Ptr.dl2) \/ Wider(Ptr.il1, Ptr.il2))'
  BY <1>1, SameOptions DEF Stopped, Wider
<1>7. IInv'
  BY <1>1, <1>4, <1>5, <1>6 DEF IInv
<1> QED
  BY <1>1, <1>7

\* Instructions are fetched from the text.
LEMMA FetchedFrom == ASSUME IInv, Next PROVE fetch_regs_PC' \in PCs
  BY DEF IInv, Next, SimCacheStep, Cycle, Load, Store, FetchInst, SYSCALL, CommitStore,
         CommitOther, Recover, IssueLoad, IssueOther, ruu_fetch, FetchResult, FetchDelayed,
         frontVars

LEMMA StepInv == ASSUME IInv, Next PROVE IInv'
<1>1. Valid /\ fetch_regs_PC' \in PCs /\ AnyStep
  BY StepIs, FetchedFrom
<1>2. ASSUME NEW h, Stopped(h), Become(h) PROVE IInv'
  BY <1>1, <1>2, AfterEnd
<1>3. ASSUME NEW h, Good(h), h.bad = Now.bad, Become(h),
             \A k \in {"dl2", "il2"} : h.owed[k] = owed[k]
      PROVE  IInv'
  BY <1>1, <1>3, AfterCall
<1>4. CASE EndStep
  BY <1>2, <1>4 DEF EndStep
<1>5. CASE QuietStep
  BY <1>3, <1>5, NowIs DEF QuietStep, Keeps
<1>6. ASSUME NEW cmd, NEW g, NEW v, ReferStep(cmd, g, v) PROVE IInv'
  BY <1>3, <1>6 DEF ReferStep
<1> QED
  BY <1>1, <1>4, <1>5, <1>6 DEF AnyStep

LEMMA StutterInv == ASSUME IInv, UNCHANGED vars PROVE IInv'
<1>1. /\ o' = o /\ caches' = caches /\ mem' = mem /\ rand' = rand /\ owed' = owed
      /\ status' = status
      /\ fetch_regs_PC' = fetch_regs_PC
  BY DEF vars, frontVars
<1> DEFINE k == Now
<1>2. k = Now'
  BY <1>1 DEF Now
<1>3. Valid => Good(k)
  BY DEF IInv
<1> HIDE DEF k
<1>4. Valid' => Good(Now)'
  BY <1>1, <1>2, <1>3, SameGood, SameOptions
<1>5. \A a, b : Wider(a, b)' <=> Wider(a, b)
  BY <1>1, SameOptions DEF Wider
<1> QED
  BY <1>1, <1>4, <1>5, SameOptions DEF IInv

LEMMA InitInv == Init => IInv
<1> SUFFICES ASSUME Init PROVE IInv
  OBVIOUS
<1>1. o \in Options /\ status \in {"run", "fatal"} /\ owed = NoTraffic
      /\ (status # "fatal" => sim_check_options(o)) /\ fetch_regs_PC \in PCs
  BY HierarchyAssumption DEF Init
<1>2. TooWide # "run" /\ TooWide # "fatal"
  BY Zenon DEF TooWide
<1> QED
  BY <1>1, <1>2, InitIs DEF IInv

\* The invariant of the caches and TLBs: the lists and the block that hit last are
\* sound, a clean block holds what is behind it, and nothing is owed.
THEOREM CachesStaySound == Spec => []IInv
<1>1. IInv /\ [Next]_vars => IInv'
  BY StepInv, StutterInv
<1> QED
  BY <1>1, InitInv, PTL DEF Spec

-----------------------------------------------------------------------------
(* What the invariant implies *)

\* Options that sim_check_options accepts can be simulated, and only an access wider
\* than a block of the level below ends the simulation.
THEOREM AcceptedOptionsRun == Spec => []AcceptedRuns
<1>1. IInv => AcceptedRuns
  <2> SUFFICES ASSUME IInv PROVE AcceptedRuns
    OBVIOUS
  <2>1. ASSUME status # "fatal" PROVE o \in Options /\ sim_check_options(o)
    BY <2>1 DEF IInv
  <2>2. ASSUME status # "fatal"
        PROVE  /\ o.sim = "sim-outorder" =>
                    /\ {o.ruu_ifq_size, o.ruu_decode_width, o.ruu_issue_width, o.RUU_size,
                        o.LSQ_size, o.ruu_commit_width, o.fetch_speed,
                        o.ruu_branch_penalty} \subseteq Nat \ {0}
                    /\ o.RUU_size % 2 = 0 /\ o.LSQ_size % 2 = 0
               /\ o.sim # "sim-cache" /\ o.pred_type \notin Static =>
                    /\ PowerOf2(o.btb_config[1]) /\ PowerOf2(o.btb_config[2])
                    /\ o.pred_type # "2lev" => PowerOf2(BimodArg(o)[1])
                    /\ o.pred_type \in {"comb", "opcodecomb"} => PowerOf2(MetaArg(o)[1])
    BY <2>1, <2>2, SizesAccepted
  <2>3. ASSUME status # "fatal", o.sim # "sim-bpred"
        PROVE  /\ \A n \in Names : Ptr[n] # NULL => Ptr[n] \in Created(o, Ptr)
               /\ Ptr.il1 # "il1" => Ptr.il2 = NULL
               /\ Ptr.dl1 = NULL => Ptr.dl2 = NULL
    <3>1. Checked
      BY <2>1, <2>3, OptionAssumption DEF Checked
    <3> QED
      BY <3>1, Chained, PointsAtMade DEF Made
  <2>4. /\ status \in {"run", "fatal", TooWide}
        /\ status = TooWide => Wider(Ptr.dl1, Ptr.dl2) \/ Wider(Ptr.il1, Ptr.il2)
    BY DEF IInv
  <2>5. /\ status = "access spans block" =>
              Wider(Ptr.dl1, Ptr.dl2) \/ Wider(Ptr.il1, Ptr.il2)
        /\ status # "writes to instruction memory"
    BY <2>4, Zenon DEF TooWide
  <2> QED
    BY <2>2, <2>3, <2>5, Zenon DEF AcceptedRuns
<1> QED
  BY <1>1, CachesStaySound, PTL

\* What is counted at a second level is what was missed and written back in front of
\* it, and what the simulator asked of it directly.
THEOREM TrafficIsConserved == Spec => []TrafficConserved
<1>1. IInv => TrafficConserved
  BY DEF IInv, TrafficConserved, NoTraffic
<1> QED
  BY <1>1, CachesStaySound, PTL

-----------------------------------------------------------------------------
(* The caches and the memory together are a memory. *)

LEMMA CopiesIs ==
    ASSUME Valid, NEW h, Sane(h), NEW n, NEW g \in Granules
    PROVE  Copies(h.c, n, g) =
               IF n \in Made /\ In(h, n, 8 * g) # {} THEN {Value(h, n, g)} ELSE {}
<1>1. DOMAIN h.c = Made
  BY DEF Sane, Typed
<1>2. 8 * g \in Nat
  BY EightNat
<1> DEFINE s == CACHE_SET(n, 8 * g)
           F == In(h, n, 8 * g)
<1>3. n \in Made => Copies(h.c, n, g) = {Datum(Blk(h, n, s, w), g) : w \in F}
  BY <1>1 DEF Copies, Datum, Blk, In
<1>4. n \notin Made => Copies(h.c, n, g) = {}
  BY <1>1 DEF Copies
<1>5. ASSUME n \in Made, NEW w \in F
      PROVE  F = {w} /\ Value(h, n, g) = Datum(Blk(h, n, s, w), g)
  BY <1>2, <1>5, FoundOne, ValueIs
<1> HIDE DEF s, F
<1>6. ASSUME n \in Made, F # {} PROVE Copies(h.c, n, g) = {Value(h, n, g)}
  <2>1. PICK w \in F : TRUE
    BY <1>6
  <2>2. F = {w} /\ Value(h, n, g) = Datum(Blk(h, n, s, w), g)
    BY <1>5, <1>6
  <2> QED
    BY <1>3, <1>6, <2>2
<1>7. ASSUME n \in Made, F = {} PROVE Copies(h.c, n, g) = {}
  BY <1>3, <1>7
<1> QED
  BY <1>4, <1>6, <1>7 DEF F

VisibleOk == \A g \in Granules : Visible[g] = Program(Now, g)

LEMMA VisibleIs == IInv /\ Valid => VisibleOk
<1> SUFFICES ASSUME IInv, Valid, NEW g \in Granules PROVE Visible[g] = Program(Now, g)
  BY DEF VisibleOk
<1> DEFINE h == Now
           near == Copies(caches, "dl1", g)
           far == Copies(caches, "dl2", g)
<1>1. Sane(h) /\ h.c = caches /\ h.mem = mem
  BY NowIs DEF IInv, Good
<1>2. Visible[g] = IF near # {} THEN CHOOSE v \in near : TRUE
                   ELSE IF far # {} THEN CHOOSE v \in far : TRUE ELSE mem[g]
  BY DEF Visible
<1> HIDE DEF h
<1>3. near = IF "dl1" \in Made /\ In(h, "dl1", 8 * g) # {} THEN {Value(h, "dl1", g)} ELSE {}
  BY <1>1, CopiesIs
<1>4. far = IF "dl2" \in Made /\ In(h, "dl2", 8 * g) # {} THEN {Value(h, "dl2", g)} ELSE {}
  BY <1>1, CopiesIs
<1> HIDE DEF near, far
<1>5. /\ "dl1" \notin Made => "dl2" \notin Made
      /\ Behind("dl1") = Ptr.dl2 /\ Ptr.dl2 \in {NULL, "dl2"}
      /\ "dl2" \in Made <=> Ptr.dl2 = "dl2"
  BY FirstMade, Chained, ValidChecked DEF Behind, Made, Created, Names
<1>6. "dl2" # NULL
  BY DEF NULL
<1>7. Program(h, g) = IF near # {} THEN CHOOSE v \in near : TRUE
                      ELSE IF far # {} THEN CHOOSE v \in far : TRUE ELSE h.mem[g]
  <2>1. CASE near # {}
    BY <1>3, <2>1 DEF Program, Top
  <2>2. CASE near = {} /\ "dl1" \in Made
    <3>1. Program(h, g) = Under(h, "dl1", g)
      BY <1>3, <2>2 DEF Program, Top
    <3>2. CASE Ptr.dl2 = NULL
      BY <1>4, <1>5, <1>6, <2>2, <3>1, <3>2 DEF Under
    <3>3. CASE Ptr.dl2 = "dl2"
      <4>1. Program(h, g) = Second(h, "dl2", g)
        BY <1>5, <1>6, <3>1, <3>3 DEF Under
      <4> QED
        BY <1>4, <1>5, <2>2, <3>3, <4>1 DEF Second
    <3> QED
      BY <1>5, <3>2, <3>3
  <2>3. CASE "dl1" \notin Made
    BY <1>3, <1>4, <1>5, <2>3 DEF Program
  <2> QED
    BY <2>1, <2>2, <2>3
<1> QED
  BY <1>1, <1>2, <1>7 DEF h

LEMMA VisibleNext == IInv' /\ Valid' => VisibleOk'
  BY VisibleIs, PTL

\* What the program sees is in the caches and the memory.
Nearest(S, T, x) ==
    IF S # {} THEN CHOOSE v \in S : TRUE ELSE IF T # {} THEN CHOOSE v \in T : TRUE ELSE x

LEMMA SameVisible ==
    ASSUME o' = o, caches' = caches, mem' = mem
    PROVE  Visible' = Visible
<1>1. ASSUME NEW c, NEW n, NEW g PROVE Copies(c, n, g)' = Copies(c, n, g)
  <2> DEFINE F == Found(c[n], n, 8 * g)
             s == CACHE_SET(n, 8 * g)
             Data(S, x) == {c[n].blk[x][w].data[g] : w \in S}
  <2>1. F' = F /\ s' = s
    BY SameSizes, SameAddresses DEF Found
  <2>2. /\ Copies(c, n, g) = IF n \notin DOMAIN c THEN {} ELSE Data(F, s)
        /\ Copies(c, n, g)' = IF n \notin DOMAIN c THEN {} ELSE Data(F', s')
    BY Zenon DEF Copies
  <2> HIDE DEF F, s, Data
  <2> QED
    BY <2>1, <2>2
<1>2. /\ Visible = [g \in Granules |-> Nearest(Copies(caches, "dl1", g),
                                               Copies(caches, "dl2", g), mem[g])]
      /\ Visible' = [g \in Granules |-> Nearest(Copies(caches, "dl1", g)',
                                                Copies(caches, "dl2", g)', mem'[g])]
  BY Zenon DEF Visible, Nearest
<1>3. \A n, g : Copies(caches, n, g)' = Copies(caches, n, g)
  BY <1>1
<1> QED
  BY <1>2, <1>3

FlatData == [g \in Granules |-> [x \in {0} |-> Visible[g]]]
FlatCall == IF call = <<"create">> THEN call
            ELSE IF status = "run" /\ Len(call) = 2
            THEN <<call[1], call[2], 0>> ELSE <<"flush">>
FlatStep == [Flat!Next]_<<FlatData, FlatCall, out>>

LEMMA FlushStepIs ==
    ASSUME call' # <<"create">>, status' # "run" \/ Len(call') # 2, out' = out,
           \A g \in Granules : Visible'[g] = Visible[g]
    PROVE  FlatStep
<1>1. FlatCall' = <<"flush">>
  BY DEF FlatCall
<1>2. FlatData' = FlatData
  BY DEF FlatData
<1>3. Flat!Flush
  BY <1>1, <1>2 DEF Flat!Flush, FlatData, FlatCall
<1> QED
  BY <1>3 DEF FlatStep, Flat!Next

LEMMA ReferStepIs ==
    ASSUME NEW cmd \in {"Read", "Write"}, NEW g \in Granules, NEW v \in Values,
           call' = <<cmd, g>>, status' = "run",
           out' = IF cmd = "Read" THEN Visible[g] ELSE out,
           \A x \in Granules : Visible'[x] = IF cmd = "Write" /\ x = g THEN v ELSE Visible[x]
    PROVE  FlatStep
<1>1. FlatCall' = <<cmd, g, 0>>
  BY DEF FlatCall
<1>2. CASE cmd = "Read"
  <2>1. FlatData' = FlatData /\ out' = FlatData[g][0]
    BY <1>2 DEF FlatData
  <2>2. Flat!Read(g, 0)
    BY <1>1, <1>2, <2>1 DEF Flat!Read, FlatData, FlatCall
  <2> QED
    BY <2>2 DEF FlatStep, Flat!Next
<1>3. CASE cmd = "Write"
  <2>1. FlatData' = [FlatData EXCEPT ![g] = [@ EXCEPT ![0] = v]] /\ out' = out
    BY <1>3 DEF FlatData
  <2>2. Flat!Write(g, 0, v)
    BY <1>1, <1>3, <2>1 DEF Flat!Write, FlatData, FlatCall
  <2> QED
    BY <2>2 DEF FlatStep, Flat!Next
<1> QED
  BY <1>2, <1>3

LEMMA AnyStepRefines ==
    ASSUME IInv, Valid, fetch_regs_PC' \in PCs, AnyStep
    PROVE  FlatStep
<1>1. \A g \in Granules : Visible[g] = Program(Now, g)
  BY VisibleIs DEF VisibleOk
<1>2. CASE EndStep
  <2>1. PICK h : Stopped(h) /\ Become(h) /\ out' = out /\ call' # <<"create">>
    BY <1>2 DEF EndStep
  <2>2. /\ o' = o /\ caches' = caches /\ mem' = mem /\ status' # "run"
    BY <2>1, AfterEnd
  <2>3. Visible' = Visible
    BY <2>2, SameVisible
  <2> QED
    BY <2>1, <2>2, <2>3, FlushStepIs
<1>3. ASSUME NEW h, Good(h), h.bad = Now.bad, Become(h),
             \A k \in {"dl2", "il2"} : h.owed[k] = owed[k]
      PROVE  status' = "run" /\ \A g \in Granules : Visible'[g] = Program(h, g)
  <2>1. IInv' /\ h = Now' /\ o' = o /\ status' = "run"
    BY <1>3, AfterCall
  <2>2. VisibleOk'
    BY <2>1, VisibleNext, SameOptions
  <2>3. \A g : Program(h, g)' = Program(h, g)
    BY <2>1, SameGood
  <2>4. \A g \in Granules : Visible'[g] = Program(h, g)'
    BY <2>1, <2>2 DEF VisibleOk
  <2> QED
    BY <2>1, <2>3, <2>4
<1>4. CASE QuietStep
  <2>1. PICK h : Keeps(Now, h) /\ Become(h)
    BY <1>4 DEF QuietStep
  <2>2. \A g \in Granules : Visible'[g] = Program(h, g)
    BY <1>3, <2>1, NowIs DEF Keeps
  <2>3. \A g \in Granules : Visible'[g] = Visible[g]
    BY <1>1, <2>1, <2>2 DEF Keeps
  <2>4. call' # <<"create">> /\ Len(call') # 2 /\ out' = out
    BY <1>4 DEF QuietStep
  <2> QED
    BY <2>3, <2>4, FlushStepIs
<1>5. ASSUME NEW cmd \in {"Read", "Write"}, NEW g \in Granules, NEW v \in Values,
             ReferStep(cmd, g, v)
      PROVE  FlatStep
  <2>1. PICK h : /\ Good(h) /\ h.bad = Now.bad /\ Become(h)
                 /\ \A k \in {"dl2", "il2"} : h.owed[k] = owed[k]
                 /\ \A x \in Granules : Program(h, x) =
                         IF cmd = "Write" /\ x = g THEN v ELSE Program(Now, x)
    BY <1>5 DEF ReferStep
  <2>2. /\ call' = <<cmd, g>>
        /\ out' = IF cmd = "Read" THEN Program(Now, g) ELSE out
    BY <1>5 DEF ReferStep
  <2>3. status' = "run" /\ \A x \in Granules : Visible'[x] = Program(h, x)
    BY <1>3, <2>1
  <2>4. \A x \in Granules : Visible'[x] = IF cmd = "Write" /\ x = g THEN v ELSE Visible[x]
    BY <1>1, <2>1, <2>3
  <2>5. out' = IF cmd = "Read" THEN Visible[g] ELSE out
    BY <1>1, <2>2
  <2> QED
    BY <2>2, <2>3, <2>4, <2>5, ReferStepIs
<1> QED
  BY <1>2, <1>4, <1>5 DEF AnyStep

\* For all options that are accepted the caches and the memory together are a memory: a
\* load reads what was stored last, through both levels, shared or not, and through
\* flushes.
THEOREM HierarchyImplementsMemory == Spec => ImplementsMemory
<1>1. Init => Flat!Init
  <2> SUFFICES ASSUME Init PROVE Flat!Init
    OBVIOUS
  <2>1. \A g \in Granules : Visible[g] = 0
    <3>1. CASE Valid
      <4>1. VisibleOk
        BY <3>1, InitInv, VisibleIs
      <4> QED
        BY <3>1, <4>1, InitIs DEF VisibleOk
    <3>2. CASE ~Valid
      <4>1. caches = <<>> /\ mem = [g \in Granules |-> 0]
        BY <3>2, HierarchyAssumption DEF Init, Valid, Checked
      <4>2. \A n, g : Copies(caches, n, g) = {}
        BY <4>1 DEF Copies
      <4> QED
        BY <4>1, <4>2 DEF Visible
    <3> QED
      BY <3>1, <3>2
  <2>2. FlatData \in [Granules -> [{0} -> Values]]
    BY <2>1, HierarchyAssumption DEF FlatData
  <2>3. FlatCall = <<"create">> /\ out = 0
    BY DEF Init, FlatCall
  <2> QED
    BY <2>2, <2>3 DEF Flat!Init, FlatData, FlatCall
<1>2. IInv /\ [Next]_vars => FlatStep
  <2>1. ASSUME IInv, Next PROVE FlatStep
    BY <2>1, StepIs, FetchedFrom, AnyStepRefines
  <2>2. ASSUME UNCHANGED vars PROVE FlatStep
    <3>1. /\ o' = o /\ caches' = caches /\ mem' = mem /\ status' = status
          /\ call' = call /\ out' = out
      BY <2>2 DEF vars
    <3>2. Visible' = Visible
      BY <3>1, SameVisible
    <3>3. FlatData' = FlatData /\ FlatCall' = FlatCall
      BY <3>1, <3>2 DEF FlatData, FlatCall
    <3> QED
      BY <3>1, <3>3 DEF FlatStep
  <2> QED
    BY <2>1, <2>2
<1> QED
  BY <1>1, <1>2, CachesStaySound, PTL
     DEF Spec, ImplementsMemory, Flat!Spec, FlatStep, FlatData, FlatCall

-----------------------------------------------------------------------------
(* No data is early. *)

LEMMA FreshSame ==
    ASSUME NEW h, Sane(h), NEW m \in Made, NEW h2, h2.c[m] = h.c[m]
    PROVE  Fresh(h, h2, m)
<1>1. \A s \in Sets(m), w \in Ways(m) :
          Blk(h2, m, s, w) = Blk(h, m, s, w) /\ Blk(h, m, s, w).valid \in BOOLEAN
  BY TypedBlock, Fields, SameCache DEF Sane
<1> QED
  BY <1>1 DEF Fresh

\* sim-cache counts and does not wait.
LEMMA FreshUntimed ==
    ASSUME Valid, ~Timed, NEW h, NEW h2, Sane(h2), NEW m \in Made \cap {"dl1", "il1"}
    PROVE  Fresh(h, h2, m)
<1> SUFFICES ASSUME Behind(m) # NULL, NEW s \in Sets(m), NEW w \in Ways(m),
                    Blk(h2, m, s, w).valid
             PROVE  NotBefore(Behind(m), h2, CACHE_MK_BADDR(m, Blk(h2, m, s, w).tag, s),
                              Blk(h2, m, s, w))
  BY DEF Fresh
<1> DEFINE b == Blk(h2, m, s, w)
           n == Behind(m)
           a == CACHE_MK_BADDR(m, b.tag, s)
<1>1. b \in BlockT /\ BlockOk(m, s, b) /\ b.valid
  BY SaneBlock
<1>2. n \in Made
  BY SecondLevel DEF Behind
<1>3. a \in Nat
  <2>1. b.tag \in Nat
    BY <1>1, Fields
  <2>2. Opt(m).nsets \in Nat \ {0} /\ Opt(m).bsize \in Nat \ {0} /\ s \in Nat
    BY Sizes DEF Sets
  <2> HIDE DEF b
  <2>3. b.tag * Opt(m).nsets + s \in Nat
    BY <2>1, <2>2, TimesNat
  <2> QED
    BY <2>2, <2>3, TimesNat DEF CACHE_MK_BADDR
<1>4. b.ready = 0
  BY <1>1 DEF BlockOk
<1> HIDE DEF a, b, n
<1>5. ASSUME NEW x \in In(h2, n, a) PROVE Blk(h2, n, CACHE_SET(n, a), x).ready = 0
  <2>1. x \in Ways(n) /\ CACHE_SET(n, a) \in Sets(n)
    BY <1>2, <1>3, <1>5, FoundOne
  <2>2. BlockOk(n, CACHE_SET(n, a), Blk(h2, n, CACHE_SET(n, a), x))
    BY <1>2, <2>1, SaneBlock
  <2> QED
    BY <2>2 DEF BlockOk
<1>6. NotBefore(n, h2, a, b)
  BY <1>4, <1>5 DEF NotBefore
<1> QED
  BY <1>6 DEF a, b, n

\* The data references of sim-outorder.
LEMMA ReferredFresh ==
    ASSUME IInv, Valid, NEW cmd \in {"Read", "Write"}, NEW g \in Granules, NEW v \in Values,
           NEW z \in {4, 8}, Referred(cmd, g, v, 8 * g, z), fetch_regs_PC' \in PCs,
           NEW m \in Made \cap {"dl1", "il1"}
    PROVE  Fresh(Now, Now', m)
<1>1. PICK x : x = DataRef(Now, cmd, 8 * g, z, v) /\ Become(x.h)
  BY DEF Referred
<1>2. Good(Now) /\ Sane(Now)
  BY DEF IInv, Good
<1>3. Referenced(Now, x.h, x.d, cmd, g, v) \/ Stopped(x.h)
  BY <1>1, <1>2, NowIs, DataRefIs
<1>4. CASE Stopped(x.h)
  <2>1. caches' = caches
    BY <1>1, <1>4, AfterEnd
  <2>2. Now'.c[m] = Now.c[m]
    BY <2>1 DEF Now
  <2> QED
    BY <1>2, <2>2, FreshSame
<1>5. CASE Referenced(Now, x.h, x.d, cmd, g, v)
  <2>1. Good(x.h) /\ x.h.bad = Now.bad
        /\ (\A k \in {"dl2", "il2"} : x.h.owed[k] = owed[k])
        /\ ("dl1" \in Made => Fresh(Now, x.h, "dl1"))
        /\ (m # "dl1" => x.h.c[m] = Now.c[m])
    BY <1>5, NowIs DEF Referenced, Tlbs
  <2>2. x.h = Now'
    BY <1>1, <2>1, AfterCall
  <2>3. Fresh(Now, x.h, m)
    BY <1>2, <2>1, FreshSame
  <2> QED
    BY <2>2, <2>3
<1> QED
  BY <1>3, <1>4, <1>5

LEMMA StepFresh ==
    ASSUME IInv, Next, stage # "fetch", NEW m \in {"dl1", "il1"} \cap Dom
    PROVE  Fresh(Now, Now', m)
<1>1. Valid /\ Good(Now) /\ Sane(Now) /\ AnyStep /\ fetch_regs_PC' \in PCs
  BY StepIs, FetchedFrom DEF Good
<1>2. m \in Made \cap {"dl1", "il1"}
  BY <1>1, NowIs DEF Sane, Typed, Dom
<1>3. CASE ~Timed
  <2>1. ASSUME NEW h, Stopped(h), Become(h) PROVE Fresh(Now, Now', m)
    <3>1. Now'.c[m] = Now.c[m]
      BY <1>1, <2>1, AfterEnd DEF Now
    <3> QED
      BY <1>1, <1>2, <3>1, FreshSame
  <2>2. ASSUME NEW h, Good(h), h.bad = Now.bad, Become(h),
               \A k \in {"dl2", "il2"} : h.owed[k] = owed[k]
        PROVE  Fresh(Now, Now', m)
    <3>1. h = Now' /\ Sane(h)
      BY <1>1, <2>2, AfterCall DEF Good
    <3>2. Fresh(Now, h, m)
      BY <1>1, <1>2, <1>3, <3>1, FreshUntimed
    <3> QED
      BY <3>1, <3>2
  <2>3. CASE EndStep
    BY <2>1, <2>3 DEF EndStep
  <2>4. CASE QuietStep
    BY <2>2, <2>4, NowIs DEF QuietStep, Keeps
  <2>5. ASSUME NEW cmd, NEW g, NEW v, ReferStep(cmd, g, v) PROVE Fresh(Now, Now', m)
    BY <2>2, <2>5 DEF ReferStep
  <2> QED
    BY <1>1, <2>3, <2>4, <2>5 DEF AnyStep
<1>4. CASE Timed
  <2>1. ASSUME NEW g \in Granules, CommitStore(g) PROVE Fresh(Now, Now', m)
    <3>1. Referred("Write", g, 0, 8 * g, 4)
      BY <2>1 DEF CommitStore
    <3> QED
      BY <1>1, <1>2, <3>1, ReferredFresh, HierarchyAssumption
  <2>2. ASSUME NEW g \in Granules, IssueLoad(g) PROVE Fresh(Now, Now', m)
    <3>1. Referred("Read", g, 0, 8 * g, 4)
      BY <2>2 DEF IssueLoad
    <3> QED
      BY <1>1, <1>2, <3>1, ReferredFresh, HierarchyAssumption
  <2>3. ASSUME CommitOther \/ (\E pc \in PCs : Recover(pc)) \/ IssueOther
        PROVE  Fresh(Now, Now', m)
    <3>1. Become(Now)
      BY <2>3 DEF CommitOther, Recover, IssueOther
    <3>2. Now'.c[m] = Now.c[m]
      BY <3>1, NowIs, GoesOn
    <3> QED
      BY <1>1, <1>2, <3>2, FreshSame
  <2>4. ~SimCacheStep /\ ~ruu_fetch /\ ~FetchDelayed
    BY <1>4 DEF SimCacheStep, Load, Store, FetchInst, SYSCALL, Running, Timed, ruu_fetch,
                FetchDelayed
  <2> QED
    BY <2>1, <2>2, <2>3, <2>4 DEF Next, Cycle
<1> QED
  BY <1>3, <1>4

\* The level behind a first level, as the property names it.
Level2(m) == IF m = "dl1" THEN Ptr.dl2 ELSE Ptr.il2

\* For all latencies, sizes and bus widths: a block that a load or a store of
\* sim-outorder brings to a first level is not there before the block of the second
\* level it is a part of.
THEOREM NoDataIsEarly == Spec => NoEarlyData
<1>1. (Now.c = caches)'
  BY NowIs, PTL
<1>2. IInv /\ [Next]_vars =>
        [\A m \in {"dl1", "il1"} \cap Dom :
            LET n == IF m = "dl1" THEN Ptr.dl2 ELSE Ptr.il2
            IN  n # NULL /\ stage # "fetch" =>
                  \A s \in Sets(m), w \in Ways(m) :
                    LET old == caches[m].blk[s][w]
                        new == caches'[m].blk[s][w]
                        a   == CACHE_MK_BADDR(m, new.tag, s)
                    IN  new.valid /\ <<old.tag, old.valid>> # <<new.tag, TRUE>> =>
                          \A x \in Found(caches'[n], n, a) :
                            new.ready >= caches'[n].blk[CACHE_SET(n, a)][x].ready]_vars
  <2> SUFFICES ASSUME IInv, Next, stage # "fetch", NEW m \in {"dl1", "il1"} \cap Dom,
                      Level2(m) # NULL, NEW s \in Sets(m), NEW w \in Ways(m)
               PROVE  LET old == caches[m].blk[s][w]
                          new == caches'[m].blk[s][w]
                          a   == CACHE_MK_BADDR(m, new.tag, s)
                      IN  new.valid /\ <<old.tag, old.valid>> # <<new.tag, TRUE>> =>
                            \A x \in Found(caches'[Level2(m)], Level2(m), a) :
                              new.ready >=
                                  caches'[Level2(m)].blk[CACHE_SET(Level2(m), a)][x].ready
    BY DEF Level2
  <2>0. Level2(m) = Behind(m)
    BY DEF Level2, Behind
  <2> DEFINE h == Now
             h2 == Now'
  <2>1. Fresh(h, h2, m)
    BY StepFresh
  <2>2. h.c = caches /\ h2.c = caches'
    BY <1>1, NowIs
  <2> HIDE DEF h, h2
  <2> QED
    BY <2>0, <2>1, <2>2 DEF Fresh, NotBefore, Blk, In
<1> QED
  BY <1>2, CachesStaySound, PTL DEF Spec, NoEarlyData
=============================================================================
