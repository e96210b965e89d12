----------------------------- MODULE SpecState ------------------------------
(***************************************************************************)
(* The registers and the memory as the instructions see them that          *)
(* sim-outorder.c executes at dispatch: through GPR, SET_GPR and their     *)
(* kin, and through READ_x and WRITE_x.  On a wrong path (spec_mode) a     *)
(* write goes to a copy of the register, marked in a bit map, or to an     *)
(* entry of a hash table over memory; tracer_recover forgets both.         *)
(***************************************************************************)
EXTENDS Memory

CONSTANTS
    TARGET,            \* "PISA" or "ALPHA": the bit of a register differs
    MD_NUM_IREGS, MD_NUM_FREGS,
    Programs,          \* sets of "R", "F", "D", "C", "M": what a program uses,
                       \* registers of which kind, or memory
    Accesses,          \* the <<address, size>> of its loads and stores
    Values, Bytes,
    MAX_BYTES,         \* of an entry of the hash table: 8 in the code
    STORE_HASH_SIZE,
    ld_text_base, ld_text_size, ld_data_base, ld_stack_base,
    bugcompat_mode

\* The code does not combine accesses that overlap in part (its FIXMEs): the
\* aligned ones of the program are the same or disjoint.
ASSUME SpecStateAssumption ==
    /\ TARGET \in {"PISA", "ALPHA"} /\ STORE_HASH_SIZE \in Nat \ {0}
    /\ 0 \in Values /\ 0 \in Bytes /\ MAX_BYTES \in Nat /\ bugcompat_mode \in BOOLEAN
    /\ MD_NUM_IREGS \in Nat /\ MD_NUM_FREGS \in Nat
    /\ TARGET = "PISA" => MD_NUM_FREGS % 2 = 0
    /\ Accesses \subseteq Nat \X (1 .. MAX_BYTES)
    /\ \E l \in {x[1] + x[2] : x \in Accesses} : \A x \in Accesses : x[1] + x[2] <= l
    /\ \A x, y \in {z \in Accesses : z[1] % z[2] = 0} :
           x = y \/ x[1] + x[2] <= y[1] \/ y[1] + y[2] <= x[1]

VARIABLES
    uses,                  \* what this program uses
    spec_mode,
    regs,                  \* register -> value
    spec_regs,             \* the copies, which nothing clears
    use_spec,              \* the bits that are set, of all three maps
    mem,
    store_htable,          \* bucket -> list of [addr, data]
    bucket_free_list,      \* the number of entries on it
    entries,               \* the number of entries ever allocated
    out,                   \* what the last read returned
    wrote,                 \* history: the registers this wrong path has written
    fault                  \* a fault of the program itself ends the simulation

specVars == <<spec_regs, use_spec, wrote, store_htable, bucket_free_list, entries>>
vars == <<uses, spec_mode, regs, specVars, mem, out, fault>>

CRegs == IF TARGET = "PISA" THEN {"hi", "lo", "fcc"} ELSE {"fpcr", "uniq", "fcc"}
Registers ==
    ({"R"} \X (0 .. MD_NUM_IREGS - 1)) \cup ({"F"} \X (0 .. MD_NUM_FREGS - 1))
        \cup ({"C"} \X CRegs)

\* The sets of registers that one accessor of kind k names.  A double of the
\* PISA target is a pair.
Pair(n) == IF TARGET = "PISA" THEN {<<"F", n>>, <<"F", n + 1>>} ELSE {<<"F", n>>}
DoubleNames == {n \in 0 .. MD_NUM_FREGS - 1 : TARGET = "PISA" => n % 2 = 0}
Named(k) ==
    CASE k = "R" -> {{<<"R", n>>} : n \in 0 .. MD_NUM_IREGS - 1}
      [] k = "F" -> {{<<"F", n>>} : n \in 0 .. MD_NUM_FREGS - 1}
      [] k = "D" -> {Pair(n) : n \in DoubleNames}
      [] k = "C" -> {{<<"C", c>>} : c \in CRegs}
      [] OTHER   -> {}
OperandsOf(U) == UNION {Named(k) : k \in U}

\* The index of a register of the third file in its map, for the read and for
\* the write of it.
BitC(c) == CASE c = "hi" -> 0 [] c = "lo" -> 1
             [] c = "fpcr" -> 0 [] c = "uniq" -> 1 [] OTHER -> 2
SetBitC(c) == IF TARGET = "ALPHA" /\ c = "fcc" THEN 1 ELSE BitC(c)

\* The bit of register r that BITMAP_SET_P tests, and that BITMAP_SET sets:
\* the registers of a pair share one.
TestBit(r) == CASE r[1] = "C" -> <<"C", BitC(r[2])>>
                [] r[1] = "F" /\ TARGET = "PISA" -> <<"F", r[2] - (r[2] % 2)>>
                [] OTHER -> r
SetBit(r) == IF r[1] = "C" THEN <<"C", SetBitC(r[2])>> ELSE TestBit(r)

\* mem_init and tracer_init.  Every page is still to be allocated.
Init ==
    /\ uses \in Programs
    /\ spec_mode = FALSE
    /\ regs = [r \in Registers |-> 0] /\ spec_regs = [r \in Registers |-> 0]
    /\ use_spec = {} /\ wrote = {}
    /\ mem = mem_create
    /\ store_htable = [i \in 0 .. STORE_HASH_SIZE - 1 |-> << >>]
    /\ bucket_free_list = 0 /\ entries = 0
    /\ out = <<"none">> /\ fault = "md_fault_none"

-----------------------------------------------------------------------------
\* GPR, FPR_L, FPR_F, FPR_D, HI, LO, FCC and those of the alpha target.
\* Faulty variant: a copy is read as soon as the path is wrong.
RegCopy(r) == IF spec_mode THEN spec_regs[r] ELSE regs[r]
Reg(r) == IF TestBit(r) \in use_spec THEN spec_regs[r] ELSE regs[r]

ReadRegs(R) ==
    /\ out' = <<"regs", [r \in R |-> Reg(r)]>>
    /\ UNCHANGED <<spec_mode, regs, specVars, mem, fault>>

\* SET_GPR, SET_FPR_x, SET_HI, ...
SetRegs(R, f) ==
    /\ IF spec_mode
       THEN /\ spec_regs' = [r \in Registers |-> IF r \in R THEN f[r] ELSE spec_regs[r]]
            /\ use_spec' = use_spec \cup {SetBit(r) : r \in R}
            /\ wrote' = wrote \cup R
            /\ UNCHANGED regs
       ELSE /\ regs' = [r \in Registers |-> IF r \in R THEN f[r] ELSE regs[r]]
            /\ UNCHANGED <<spec_regs, use_spec, wrote>>
    /\ UNCHANGED <<spec_mode, store_htable, bucket_free_list, entries, mem, out, fault>>

-----------------------------------------------------------------------------
(* spec_mem_access *)

\* The folding of HASH_ADDR leaves addresses below 256 alone.
HASH_ADDR(addr) == addr % STORE_HASH_SIZE

InText(addr) == ld_text_base <= addr /\ addr < ld_text_base + ld_text_size
MD_VALID_ADDR(addr) == InText(addr) \/ (ld_data_base <= addr /\ addr < ld_stack_base)

Aligned(addr, n) == PowerOfTwo(n) /\ addr % n = 0
Permitted(cmd, addr) == (InText(addr) /\ cmd = "Read") \/ MD_VALID_ADDR(addr)

chain(addr) == store_htable[HASH_ADDR(addr)]
\* The place of the entry of addr in its chain.
Copied(addr) == {k \in DOMAIN chain(addr) : chain(addr)[k].addr = addr}

Zeros(n) == [i \in 0 .. n - 1 |-> 0]
\* Data with its first n bytes replaced.
Patched(data, p, n) == [i \in 0 .. MAX_BYTES - 1 |-> IF i < n THEN p[i] ELSE data[i]]
\* A chain with those of its first entry replaced.
FirstPatched(s, p, n) == [s EXCEPT ![1].data = Patched(@, p, n)]

\* A read on the wrong path: from the entry of the address, which moves to the
\* front of its chain, else from memory.
SpecRead(addr, n) ==
    IF ~ Aligned(addr, n) \/ ~ Permitted("Read", addr)
    THEN out' = <<"bytes", Zeros(n)>> /\ UNCHANGED <<store_htable, mem>>
    ELSE \/ \E k \in Copied(addr) :
                /\ out' = <<"bytes", [i \in 0 .. n - 1 |-> chain(addr)[k].data[i]]>>
                /\ store_htable' = [store_htable EXCEPT ![HASH_ADDR(addr)] = MoveToFront(@, k)]
                /\ UNCHANGED mem
         \/ /\ Copied(addr) = {}
            /\ out' = <<"bytes", [i \in 0 .. n - 1 |-> MEM_READ(mem, addr + i)]>>
            /\ mem' = mem_translate(mem, addr)
            /\ UNCHANGED store_htable

\* An entry for a new address comes from the free list, or from calloc.
TakeEntry ==
    IF bucket_free_list = 0
    THEN entries' = entries + 1 /\ UNCHANGED bucket_free_list
    ELSE bucket_free_list' = bucket_free_list - 1 /\ UNCHANGED entries

\* Faulty variant: a store to an address that has an entry makes a second one,
\* behind the first.
Behind(addr, p, n) ==
    /\ store_htable' = [store_htable EXCEPT ![HASH_ADDR(addr)] =
                           Append(@, [addr |-> addr, data |-> Patched(Zeros(MAX_BYTES), p, n)])]
    /\ TakeEntry
\* A write on the wrong path.  With -bugcompat the new entry is not put into
\* the table: the data is lost, and so is the entry.
Insert(addr, p, n) ==
    /\ \/ \E k \in Copied(addr) :
            /\ store_htable' = [store_htable EXCEPT ![HASH_ADDR(addr)] =
                                   FirstPatched(MoveToFront(@, k), p, n)]
            /\ UNCHANGED <<bucket_free_list, entries>>
       \/ /\ Copied(addr) = {}
          /\ TakeEntry
          /\ store_htable' =
                IF bugcompat_mode THEN store_htable
                ELSE [store_htable EXCEPT ![HASH_ADDR(addr)] =
                         <<[addr |-> addr, data |-> Patched(Zeros(MAX_BYTES), p, n)]>> \o @]

SpecWrite(addr, n, p) ==
    IF ~ Aligned(addr, n) \/ ~ Permitted("Write", addr)
    THEN UNCHANGED <<store_htable, bucket_free_list, entries>>
    ELSE Insert(addr, p, n)

\* READ_BYTE, READ_HALF, READ_WORD, ... : a fault is one of the program's own.
Load(addr, n) ==
    /\ IF spec_mode
       THEN SpecRead(addr, n) /\ UNCHANGED fault
       ELSE LET r == mem_access(mem, "Read", addr, Zeros(n), n)
            IN  /\ fault' = r.fault
                /\ out' = IF r.fault = "md_fault_none" THEN <<"bytes", r.buf>> ELSE out
                /\ mem' = r.mem
                /\ UNCHANGED store_htable
    /\ UNCHANGED <<spec_mode, regs, spec_regs, use_spec, wrote, bucket_free_list, entries>>

\* WRITE_BYTE, WRITE_HALF, WRITE_WORD, ...
Store(addr, n, p) ==
    /\ IF spec_mode
       THEN SpecWrite(addr, n, p) /\ UNCHANGED <<mem, fault>>
       ELSE LET r == mem_access(mem, "Write", addr, p, n)
            IN  /\ fault' = r.fault /\ mem' = r.mem
                /\ UNCHANGED <<store_htable, bucket_free_list, entries>>
    /\ UNCHANGED <<spec_mode, regs, spec_regs, use_spec, wrote, out>>

-----------------------------------------------------------------------------
\* The end of ruu_dispatch: the prediction of a branch was not its successor.
Misspeculate ==
    /\ ~ spec_mode /\ spec_mode' = TRUE
    /\ UNCHANGED <<regs, specVars, mem, out, fault>>

\* Faulty variant: the entries are released, the table still holds them.
ForgetRegistersOnly ==
    /\ bucket_free_list' = bucket_free_list + Cardinality(Places(store_htable))
    /\ UNCHANGED store_htable
\* Every entry of every chain goes to the free list.
ReleaseEntries ==
    /\ bucket_free_list' = bucket_free_list + Cardinality(Places(store_htable))
    /\ store_htable' = [i \in DOMAIN store_htable |-> << >>]

\* tracer_recover; what it does to the fetch queue is in OutOrder.
Recover ==
    /\ spec_mode /\ spec_mode' = FALSE
    /\ use_spec' = {} /\ wrote' = {}
    /\ ReleaseEntries
    /\ UNCHANGED <<regs, spec_regs, entries, mem, out, fault>>

Next ==
    /\ fault = "md_fault_none" /\ UNCHANGED uses
    /\ \/ Misspeculate \/ Recover
       \/ \E R \in OperandsOf(uses) : ReadRegs(R) \/ \E f \in [R -> Values] : SetRegs(R, f)
       \/ \E x \in IF "M" \in uses THEN Accesses ELSE {} :
            Load(x[1], x[2]) \/ \E p \in [0 .. x[2] - 1 -> Bytes] : Store(x[1], x[2], p)

Spec == Init /\ [][Next]_vars

-----------------------------------------------------------------------------
(* What must hold of the state of a wrong path. *)


\* Type correctness of the registers, the maps and the table, and the bound of
\* the table: an entry is on the free list or in it.
TypeOK ==
    /\ spec_mode \in BOOLEAN
    /\ regs \in [Registers -> Values] /\ spec_regs \in [Registers -> Values]
    /\ use_spec \subseteq {SetBit(r) : r \in Registers}
    /\ bucket_free_list \in 0 .. entries
    /\ \A i \in DOMAIN store_htable : \A k \in DOMAIN store_htable[i] :
           store_htable[i][k].data \in [0 .. MAX_BYTES - 1 -> Bytes]

\* The store table of spec_mem_access has an address once, in the chain of its
\* hash, whatever the lookups have moved about; outside of wrong paths it and
\* the maps of copied registers are empty, and no entry has been lost since the
\* first was allocated.  The same of the page table under it, whose pages are
\* allocated once.
TablesSound ==
    /\ TypeOK
    /\ \A i \in DOMAIN store_htable : \A j, k \in DOMAIN store_htable[i] :
           /\ HASH_ADDR(store_htable[i][k].addr) = i
           /\ store_htable[i][j].addr = store_htable[i][k].addr => j = k
    /\ ~ spec_mode => use_spec = {} /\ \A i \in DOMAIN store_htable : store_htable[i] = << >>
    /\ ~ bugcompat_mode =>
           entries = bucket_free_list + Cardinality(Places(store_htable))
    /\ PagesSound(mem)

-----------------------------------------------------------------------------
\* The top of the addresses the program uses.
Limit == CHOOSE l \in {x[1] + x[2] : x \in Accesses} :
             \A x \in Accesses : x[1] + x[2] <= l

SizeAt(addr) == (CHOOSE x \in Accesses : x[1] = addr /\ x[1] % x[2] = 0)[2]
\* The bytes the entries of a table hold, as a function of their addresses.
EntriesOf(t) == UNION {{t[i][k] : k \in DOMAIN t[i]} : i \in DOMAIN t}
BytesOf(e) == e.addr .. e.addr + SizeAt(e.addr) - 1
StoredBytesOf(t) == UNION {BytesOf(e) : e \in EntriesOf(t)}
HolderOf(t, a) == CHOOSE e \in EntriesOf(t) : e.addr <= a /\ a < e.addr + SizeAt(e.addr)
StoredOf(t) == [a \in StoredBytesOf(t) |-> HolderOf(t, a).data[a - HolderOf(t, a).addr]]

Precise == INSTANCE PreciseState WITH
    Operands <- OperandsOf(UNION Programs),
    memory   <- Content(mem, Limit),
    written  <- [r \in wrote |-> spec_regs[r]],
    stored   <- StoredOf(store_htable),
    Readable <- {x \in Accesses : Aligned(x[1], x[2]) /\ Permitted("Read", x[1])},
    Writable <- {x \in Accesses : Aligned(x[1], x[2]) /\ Permitted("Write", x[1])}

\* Wrong paths read their own writes over the program's registers and memory,
\* byte by byte, they never change the program's, and a recovery leaves nothing
\* of them behind: GPR, SET_GPR, spec_mem_access and tracer_recover implement
\* PreciseState.
ImplementsPrecise == Precise!Spec
=============================================================================
