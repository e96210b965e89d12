------------------------------- MODULE Memory -------------------------------
(***************************************************************************)
(* The simulated memory of memory.c: an inverted page table, whose buckets *)
(* are lists that a lookup reorders.  A memory is a record, and a function *)
(* of memory.c that changes it an operator whose value is the new memory;  *)
(* the accessors give what they return as well.  A host buffer is a        *)
(* function from 0 .. n - 1 to bytes.  The access statistics are left out. *)
(***************************************************************************)
EXTENDS Integers, Sequences, FiniteSets

CONSTANTS
    MD_PAGE_SIZE,      \* bytes in a page, a power of two
    MEM_PTAB_SIZE,     \* buckets of the page table, a power of two
    WORD               \* sizeof(word_t), 4 in the code

ASSUME MemoryAssumption ==
    MD_PAGE_SIZE \in Nat \ {0} /\ MEM_PTAB_SIZE \in Nat \ {0} /\ WORD \in Nat \ {0}

MEM_PTAB_SET(addr) == (addr \div MD_PAGE_SIZE) % MEM_PTAB_SIZE
MEM_PTAB_TAG(addr) == addr \div (MD_PAGE_SIZE * MEM_PTAB_SIZE)
MEM_OFFSET(addr)   == addr % MD_PAGE_SIZE
\* Where the page of entry pte of bucket idx begins.
MEM_PTE_ADDR(pte, idx) == (pte.tag * MEM_PTAB_SIZE + idx) * MD_PAGE_SIZE

\* mem_create and mem_init
mem_create ==
    [ptab |-> [i \in 0 .. MEM_PTAB_SIZE - 1 |-> << >>], page_count |-> 0]

bucket(mem, addr) == mem.ptab[MEM_PTAB_SET(addr)]
mapped(mem, addr) ==
    {k \in DOMAIN bucket(mem, addr) : bucket(mem, addr)[k].tag = MEM_PTAB_TAG(addr)}

\* The places of a table of lists, as <<list, position>>.
Places(lists) == UNION {{i} \X DOMAIN lists[i] : i \in DOMAIN lists}

MoveToFront(s, k) == <<s[k]>> \o SubSeq(s, 1, k - 1) \o SubSeq(s, k + 1, Len(s))

\* mem_translate, reached through MEM_PAGE, which tries the first entry itself:
\* the entry that is found moves to the front.
mem_translate(mem, addr) ==
    IF mapped(mem, addr) = {} THEN mem
    ELSE LET k == CHOOSE i \in mapped(mem, addr) :
                     \A j \in mapped(mem, addr) : i <= j
         IN  [mem EXCEPT !.ptab[MEM_PTAB_SET(addr)] = MoveToFront(@, k)]

mem_newpage(mem, addr) ==
    [mem EXCEPT
        !.ptab[MEM_PTAB_SET(addr)] =
            <<[tag |-> MEM_PTAB_TAG(addr),
               page |-> [o \in 0 .. MD_PAGE_SIZE - 1 |-> 0]]>> \o @,
        !.page_count = @ + 1]

\* MEM_READ: a page that is not allocated reads as zero and stays so.
MEM_READ(mem, addr) ==
    IF mapped(mem, addr) = {} THEN 0
    ELSE bucket(mem_translate(mem, addr), addr)[1].page[MEM_OFFSET(addr)]

\* MEM_TICKLE, which has the page of addr at the front of its bucket.
\* Faulty variant: the write allocates a page whenever the first is another one.
MEM_TICKLE_FIRST(mem, addr) ==
    IF bucket(mem, addr) # << >> /\ bucket(mem, addr)[1].tag = MEM_PTAB_TAG(addr)
    THEN mem ELSE mem_newpage(mem, addr)
MEM_TICKLE(mem, addr) ==
    IF mapped(mem, addr) = {} THEN mem_newpage(mem, addr)
                              ELSE mem_translate(mem, addr)

MEM_WRITE(mem, addr, b) ==
    [MEM_TICKLE(mem, addr) EXCEPT
        !.ptab[MEM_PTAB_SET(addr)][1].page[MEM_OFFSET(addr)] = b]

PowerOfTwo(n) == \E k \in 0 .. 31 : n = 2 ^ k

\* The fault mem_access declares; a size of zero passes both of its checks.
access_fault(addr, nbytes) ==
    IF (nbytes # 0 /\ ~ PowerOfTwo(nbytes)) \/ nbytes > MD_PAGE_SIZE
    THEN "md_fault_access"
    ELSE IF nbytes # 0 /\ addr % nbytes # 0 THEN "md_fault_alignment"
    ELSE "md_fault_none"

\* The memory after n bytes from addr have been looked up, or stored, in turn.
ReadOver(mem, addr, n) ==
    LET m[i \in 0 .. n] ==
            IF i = 0 THEN mem ELSE mem_translate(m[i - 1], addr + i - 1)
    IN  m[n]
Stored(mem, addr, p, n) ==
    LET m[i \in 0 .. n] ==
            IF i = 0 THEN mem ELSE MEM_WRITE(m[i - 1], addr + i - 1, p[i - 1])
    IN  m[n]

\* mem_access: the fault, the buffer and the memory it leaves.
mem_access(mem, cmd, addr, p, nbytes) ==
    LET fault == access_fault(addr, nbytes)
    IN  [fault |-> fault,
         buf   |-> IF fault = "md_fault_none" /\ cmd = "Read"
                   THEN [i \in 0 .. nbytes - 1 |-> MEM_READ(mem, addr + i)] ELSE p,
         mem   |-> IF fault # "md_fault_none" THEN mem
                   ELSE IF cmd = "Read" THEN ReadOver(mem, addr, nbytes)
                   ELSE Stored(mem, addr, p, nbytes)]

\* mem_bcopy, mem_bzero: byte by byte, so no access of theirs can fault.
mem_bcopy(mem, cmd, addr, p, nbytes) ==
    [fault |-> "md_fault_none",
     buf   |-> IF cmd = "Read"
               THEN [i \in 0 .. nbytes - 1 |-> MEM_READ(mem, addr + i)] ELSE p,
     mem   |-> IF cmd = "Read" THEN ReadOver(mem, addr, nbytes)
               ELSE Stored(mem, addr, p, nbytes)]
mem_bzero(mem, addr, nbytes) ==
    Stored(mem, addr, [i \in 0 .. nbytes - 1 |-> 0], nbytes)

\* mem_bcopy4: a word at a time; what is left of nbytes is not copied, and a
\* misaligned address ends it at the first word.
mem_bcopy4(mem, cmd, addr, p, nbytes) ==
    LET n == WORD * (nbytes \div WORD)
    IN  IF n > 0 /\ access_fault(addr, WORD) # "md_fault_none"
        THEN [fault |-> access_fault(addr, WORD), buf |-> p, mem |-> mem]
        ELSE mem_bcopy(mem, cmd, addr, p, n)

\* mem_strcpy: up to and with the first zero, which Limit bytes from addr hold.
strlen(mem, addr, Limit) ==
    CHOOSE n \in 0 .. Limit :
        MEM_READ(mem, addr + n) = 0 /\ \A i \in 0 .. n - 1 : MEM_READ(mem, addr + i) # 0
mem_strcpy(mem, cmd, addr, s, Limit) ==
    IF cmd = "Read"
    THEN mem_bcopy(mem, cmd, addr, s, strlen(mem, addr, Limit) + 1)
    ELSE LET z == CHOOSE n \in DOMAIN s : s[n] = 0 /\ \A i \in 0 .. n - 1 : s[i] # 0
         IN  mem_bcopy(mem, cmd, addr, s, z + 1)

\* mem_dump: the addresses it prints.  The masks clear one bit, 4, of the
\* address and of the length, and the loop counts the length down by one a word.
ClearBit(n) == IF (n \div WORD) % 2 = 1 THEN n - WORD ELSE n
mem_dump(addr, len) ==
    LET a == ClearBit(addr)
        n == ClearBit(len + WORD - 1)
    IN  IF n > 0 /\ a % WORD # 0 THEN << >> ELSE [k \in 1 .. n |-> a + (k - 1) * WORD]

-----------------------------------------------------------------------------
\* The content of a memory: a byte of every address below limit.
Content(mem, limit) == [a \in 0 .. limit - 1 |-> MEM_READ(mem, a)]

\* No page is mapped twice, each is in the bucket of its address, and the
\* page count is their number.
PagesSound(mem) ==
    /\ \A i \in DOMAIN mem.ptab : \A j, k \in DOMAIN mem.ptab[i] :
           mem.ptab[i][j].tag = mem.ptab[i][k].tag => j = k
    /\ mem.page_count = Cardinality(Places(mem.ptab))
=============================================================================
