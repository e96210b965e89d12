-------------------------- MODULE SpecStateProofs ---------------------------
(***************************************************************************)
(* Proofs about the simulated memory and the speculative state: what the   *)
(* operators of memory.c leave of the bytes of a memory, that the tables   *)
(* stay sound, and that GPR, SET_GPR, spec_mem_access and tracer_recover   *)
(* implement PreciseState.                                                 *)
(***************************************************************************)
EXTENDS SpecState, TLAPS, FiniteSetTheorems, FunctionTheorems, NaturalsInduction,
        SequenceTheorems, WellFoundedInduction

-----------------------------------------------------------------------------
(* Numbers *)

\* Induction over the natural numbers, for a set instead of a predicate.
LEMMA NatSetInduction ==
    ASSUME NEW S, 0 \in S, \A k \in Nat : k \in S => k + 1 \in S
    PROVE  Nat \subseteq S
<1> SUFFICES ASSUME Nat \ S # {} PROVE FALSE
  OBVIOUS
<1>1. PICK x \in Nat \ S : \A y \in Nat \ S : ~(<<y, x>> \in OpToRel(<, Nat))
  BY NatLessThanWellFounded, WFMin
<1>2. \A y \in Nat \ S : ~(y < x)
  BY <1>1 DEF OpToRel
<1>3. x # 0
  OBVIOUS
<1>4. x - 1 \in Nat /\ x - 1 < x
  BY <1>3
<1>5. x - 1 \in S
  BY <1>2, <1>4
<1> QED
  BY <1>4, <1>5

\* Quotient and remainder.
LEMMA Division ==
    ASSUME NEW a \in Nat, NEW d \in Nat \ {0}
    PROVE  /\ a \div d \in Nat /\ a % d \in Nat /\ a % d < d
           /\ a = d * (a \div d) + (a % d)
  OBVIOUS

\* Products of natural numbers are natural numbers, and grow with their factors.
LEMMA Products ==
    ASSUME NEW d \in Nat, NEW x \in Nat, NEW y \in Nat
    PROVE  /\ d * x \in Nat
           /\ x < y => d * x + d <= d * y
<1>1. d * x \in Nat
  OBVIOUS
<1>2. ASSUME x < y PROVE d * x + d <= d * y
  <2>1. PICK z \in Nat : y = x + 1 + z
    <3>1. y - x - 1 \in Nat /\ y = x + 1 + (y - x - 1)
      BY <1>2
    <3> QED
      BY <3>1
  <2>2. d * y = d * x + d + d * z /\ d * z \in Nat
    BY <2>1
  <2> QED
    BY <1>1, <2>2
<1> QED
  BY <1>1, <1>2

\* The bytes of a page follow each other: pages with the same number are the
\* same, and an address is its page and its offset.
LEMMA SameQuotient ==
    ASSUME NEW d \in Nat \ {0}, NEW a \in Nat, NEW b \in Nat,
           a \div d = b \div d, a % d = b % d
    PROVE  a = b
  BY Division

LEMMA QuotientIs ==
    ASSUME NEW d \in Nat \ {0}, NEW a \in Nat, NEW q \in Nat, NEW r \in Nat,
           a = d * q + r, r < d
    PROVE  a \div d = q
<1> DEFINE p == a \div d
           e == a % d
<1>1. p \in Nat /\ e \in Nat /\ e < d /\ a = d * p + e
  BY Division
<1> HIDE DEF p, e
<1>2. /\ d * p \in Nat /\ d * q \in Nat
      /\ p < q => d * p + d <= d * q
      /\ q < p => d * q + d <= d * p
  BY <1>1, Products
<1>3. ~(p < q) /\ ~(q < p)
  <2> DEFINE x == d * p
             y == d * q
  <2>1. x \in Nat /\ y \in Nat /\ x + e = y + r /\ (p < q => x + d <= y) /\ (q < p => y + d <= x)
    BY <1>1, <1>2
  <2> HIDE DEF x, y
  <2> QED
    BY <1>1, <2>1
<1> QED
  BY <1>1, <1>3 DEF p

\* The tag of an address is the quotient of its page number, whose remainder is
\* the bucket.
LEMMA TagIs ==
    ASSUME NEW a \in Nat
    PROVE  MEM_PTAB_TAG(a) = (a \div MD_PAGE_SIZE) \div MEM_PTAB_SIZE
<1> DEFINE P == MD_PAGE_SIZE
           N == MEM_PTAB_SIZE
           q == a \div P
           r == a % P
           t == q \div N
           s == q % N
<1>1. P \in Nat \ {0} /\ N \in Nat \ {0}
  BY MemoryAssumption
<1> HIDE DEF P, N
<1>2. q \in Nat /\ r \in Nat /\ r < P /\ a = P * q + r
  BY <1>1, Division
<1>3. t \in Nat /\ s \in Nat /\ s < N /\ q = N * t + s
  BY <1>1, <1>2, Division
<1> HIDE DEF q, r, t, s
<1>4. P * q = (P * N) * t + P * s
  BY <1>1, <1>2, <1>3
<1>5. P * s + P <= P * N /\ P * s \in Nat /\ P * N \in Nat \ {0}
  <2>1. P * s + P <= P * N /\ P * s \in Nat /\ P * N \in Nat
    BY <1>1, <1>3, Products
  <2> QED
    BY <1>1, <2>1
<1>6. a = (P * N) * t + (P * s + r)
  <2>1. (P * N) * t \in Nat
    BY <1>3, <1>5, Products
  <2> DEFINE x == (P * N) * t
             y == P * s
             z == P * q
  <2>2. z = x + y /\ a = z + r /\ x \in Nat /\ y \in Nat
    BY <1>2, <1>4, <1>5, <2>1
  <2> HIDE DEF x, y, z
  <2>3. a = x + (y + r)
    BY <1>2, <2>2
  <2> QED
    BY <2>3 DEF x, y
<1>7. P * s + r \in Nat /\ P * s + r < P * N
  BY <1>1, <1>2, <1>5
<1>8. a \div (P * N) = t
  BY <1>3, <1>5, <1>6, <1>7, QuotientIs
<1> QED
  BY <1>8 DEF P, N, q, t, MEM_PTAB_TAG

\* An address is known from its bucket, its tag and its offset.
LEMMA AddressIs ==
    ASSUME NEW a \in Nat, NEW b \in Nat,
           MEM_PTAB_SET(a) = MEM_PTAB_SET(b), MEM_PTAB_TAG(a) = MEM_PTAB_TAG(b),
           MEM_OFFSET(a) = MEM_OFFSET(b)
    PROVE  a = b
<1>1. MD_PAGE_SIZE \in Nat \ {0} /\ MEM_PTAB_SIZE \in Nat \ {0}
  BY MemoryAssumption
<1>2. a \div MD_PAGE_SIZE \in Nat /\ b \div MD_PAGE_SIZE \in Nat
  BY <1>1
<1>3. a \div MD_PAGE_SIZE = b \div MD_PAGE_SIZE
  BY <1>1, <1>2, TagIs, SameQuotient DEF MEM_PTAB_SET
<1> QED
  BY <1>1, <1>3, SameQuotient DEF MEM_OFFSET

\* The bucket, the tag and the offset of an address are in range.
LEMMA FieldsType ==
    ASSUME NEW a \in Nat
    PROVE  /\ MEM_PTAB_SET(a) \in 0 .. MEM_PTAB_SIZE - 1
           /\ MEM_PTAB_TAG(a) \in Nat
           /\ MEM_OFFSET(a) \in 0 .. MD_PAGE_SIZE - 1
<1>1. MD_PAGE_SIZE \in Nat \ {0} /\ MEM_PTAB_SIZE \in Nat \ {0}
  BY MemoryAssumption
<1>2. a \div MD_PAGE_SIZE \in Nat
  BY <1>1
<1>3. (a \div MD_PAGE_SIZE) \div MEM_PTAB_SIZE \in Nat
  BY <1>1, <1>2
<1> QED
  BY <1>1, <1>2, <1>3, TagIs DEF MEM_PTAB_SET, MEM_OFFSET

-----------------------------------------------------------------------------
(* The page table *)

PTE == [tag : Nat, page : [0 .. MD_PAGE_SIZE - 1 -> Bytes]]
Buckets == 0 .. MEM_PTAB_SIZE - 1
MemType == [ptab : [Buckets -> Seq(PTE)], page_count : Nat]

\* No page is mapped twice.
OnePage(m) ==
    \A i \in DOMAIN m.ptab : \A j, k \in DOMAIN m.ptab[i] :
        m.ptab[i][j].tag = m.ptab[i][k].tag => j = k
\* The page count is the number of pages.
Counted(m) == m.page_count = Cardinality(Places(m.ptab))
MemOK(m) == m \in MemType /\ OnePage(m) /\ Counted(m)

\* A table of lists, one for every index in D.
ListTable(t, D) == DOMAIN t = D /\ \A i \in D : DOMAIN t[i] = 1 .. Len(t[i]) /\ Len(t[i]) \in Nat
SameLengths(t, u, D) == \A i \in D : Len(t[i]) = Len(u[i])
LongerAt(t, u, D, h) == \A i \in D : Len(u[i]) = Len(t[i]) + IF i = h THEN 1 ELSE 0

LEMMA ListTableIs ==
    ASSUME NEW D, NEW X, NEW t \in [D -> Seq(X)]
    PROVE  ListTable(t, D)
<1> SUFFICES ASSUME NEW i \in D PROVE DOMAIN t[i] = 1 .. Len(t[i]) /\ Len(t[i]) \in Nat
  BY DEF ListTable
<1>1. t[i] \in Seq(X)
  OBVIOUS
<1> QED
  BY <1>1, LenProperties

\* The places of a table of lists depend on the lengths of the lists only.
LEMMA PlacesSame ==
    ASSUME NEW D, NEW t, ListTable(t, D), NEW u, ListTable(u, D), SameLengths(t, u, D)
    PROVE  Places(t) = Places(u)
<1>1. \A i \in D : DOMAIN t[i] = DOMAIN u[i]
  BY DEF ListTable, SameLengths
<1> QED
  BY <1>1 DEF Places, ListTable

LEMMA PlacesFinite ==
    ASSUME NEW D, IsFiniteSet(D), NEW t, ListTable(t, D)
    PROVE  IsFiniteSet(Places(t))
<1> DEFINE Row(i) == {i} \X DOMAIN t[i]
           rows == {Row(i) : i \in D}
           f == [i \in D |-> Row(i)]
<1>1. f \in Surjection(D, rows)
  <2>1. f \in [D -> rows] /\ \A r \in rows : \E i \in D : f[i] = r
    <3> HIDE DEF Row
    <3> QED
      OBVIOUS
  <2> HIDE DEF f, rows
  <2> QED
    BY <2>1, Fun_IsSurj
<1>2. IsFiniteSet(rows)
  <2> HIDE DEF f, rows
  <2> QED
    BY <1>1, FS_Surjection
<1>3. \A r \in rows : IsFiniteSet(r)
  <2>1. ASSUME NEW i \in D PROVE IsFiniteSet(Row(i))
    <3>1. PICK n : n = Len(t[i]) /\ n \in Nat /\ DOMAIN t[i] = 1 .. n
      BY DEF ListTable
    <3>2. IsFiniteSet(1 .. n)
      BY <3>1, FS_Interval
    <3>3. IsFiniteSet({i})
      BY FS_Singleton
    <3>4. IsFiniteSet({i} \X (1 .. n))
      BY <3>2, <3>3, FS_Product
    <3> QED
      BY <3>1, <3>4
  <2> QED
    BY <2>1
<1>4. Places(t) = UNION rows
  BY DEF Places, ListTable
<1> HIDE DEF rows
<1> QED
  BY <1>2, <1>3, <1>4, FS_UNION

\* One list longer by one is one place more.
LEMMA PlacesOneMore ==
    ASSUME NEW D, IsFiniteSet(D), NEW t, ListTable(t, D), NEW u, ListTable(u, D),
           NEW h \in D, LongerAt(t, u, D, h)
    PROVE  /\ Cardinality(Places(t)) \in Nat
           /\ Cardinality(Places(u)) = Cardinality(Places(t)) + 1
<1>1. PICK n : n = Len(t[h]) + 1 /\ Len(t[h]) \in Nat /\ Len(u[h]) = n
  BY DEF ListTable, LongerAt
<1>2. \A i, k : /\ <<i, k>> \in Places(t) <=> i \in D /\ k \in 1 .. Len(t[i])
                /\ <<i, k>> \in Places(u) <=> i \in D /\ k \in 1 .. Len(u[i])
  BY DEF Places, ListTable
<1>3. \A x : (x \in Places(t) \/ x \in Places(u)) => \E i, k : x = <<i, k>>
  BY DEF Places
<1>4. <<h, n>> \notin Places(t)
  <2>1. n \notin 1 .. Len(t[h])
    BY <1>1
  <2> QED
    BY <1>2, <2>1
<1>5. \A i \in D : \A k : k \in 1 .. Len(u[i]) <=> k \in 1 .. Len(t[i]) \/ (i = h /\ k = n)
  <2> TAKE i \in D
  <2>1. CASE i = h
    <3>1. \A k : k \in 1 .. n <=> k \in 1 .. Len(t[h]) \/ k = n
      BY <1>1
    <3> QED
      BY <1>1, <2>1, <3>1
  <2>2. CASE i # h
    <3>1. Len(u[i]) = Len(t[i])
      BY <2>2 DEF LongerAt, ListTable
    <3> QED
      BY <2>2, <3>1
  <2> QED
    BY <2>1, <2>2
<1>6. Places(u) = Places(t) \cup {<<h, n>>}
  <2>1. \A i, k : <<i, k>> \in Places(u) <=> <<i, k>> \in Places(t) \/ (i = h /\ k = n)
    BY <1>2, <1>5
  <2>2. \A i, k : <<i, k>> \in Places(u) <=> <<i, k>> \in Places(t) \/ <<i, k>> = <<h, n>>
    BY <2>1
  <2>3. \A x : x \in Places(u) <=> x \in Places(t) \/ x = <<h, n>>
    BY <1>3, <2>2
  <2> QED
    BY <2>3
<1>7. IsFiniteSet(Places(t))
  BY PlacesFinite
<1> QED
  BY <1>4, <1>6, <1>7, FS_AddElement, FS_CardinalityType

\* Empty lists have no places.
LEMMA PlacesNone ==
    ASSUME NEW t, \A i \in DOMAIN t : t[i] = <<>>
    PROVE  Places(t) = {} /\ Cardinality(Places(t)) = 0
<1>1. Places(t) = {}
  BY DEF Places
<1> QED
  BY <1>1, FS_EmptySet

LEMMA PtabTable == \A m \in MemType : ListTable(m.ptab, Buckets)
<1> TAKE m \in MemType
<1>1. PICK t : t = m.ptab /\ t \in [Buckets -> Seq(PTE)]
  BY DEF MemType
<1>2. ListTable(t, Buckets)
  BY <1>1, ListTableIs
<1> QED
  BY <1>1, <1>2

\* The place in s of what is at place i after place k has moved to the front.
Origin(i, k) == IF i = 1 THEN k ELSE IF i <= k THEN i - 1 ELSE i

LEMMA MovedIs ==
    ASSUME NEW X, NEW s \in Seq(X), NEW k \in 1 .. Len(s)
    PROVE  /\ MoveToFront(s, k) \in Seq(X)
           /\ Len(MoveToFront(s, k)) = Len(s)
           /\ \A i \in 1 .. Len(s) : /\ Origin(i, k) \in 1 .. Len(s)
                                     /\ MoveToFront(s, k)[i] = s[Origin(i, k)]
           /\ \A i \in 1 .. Len(s) : \E j \in 1 .. Len(s) : Origin(j, k) = i
<1> DEFINE a == <<s[k]>>
           b == SubSeq(s, 1, k - 1)
           c == SubSeq(s, k + 1, Len(s))
           N == Len(s)
<1>1. /\ a \in Seq(X) /\ Len(a) = 1 /\ a[1] = s[k]
      /\ b \in Seq(X) /\ Len(b) = k - 1 /\ \A i \in 1 .. k - 1 : b[i] = s[i]
      /\ c \in Seq(X) /\ Len(c) = N - k /\ \A i \in 1 .. N - k : c[i] = s[k + i]
  <2>1. s[k] \in X /\ N \in Nat
    OBVIOUS
  <2>2. a \in Seq(X) /\ Len(a) = 1 /\ a[1] = s[k]
    BY <2>1
  <2>3. b \in Seq(X) /\ Len(b) = k - 1 /\ \A i \in 1 .. k - 1 : b[i] = s[i]
    OBVIOUS
  <2>4. c \in Seq(X) /\ Len(c) = N - k /\ \A i \in 1 .. N - k : c[i] = s[k + i]
    OBVIOUS
  <2> QED
    BY <2>2, <2>3, <2>4
<1>2. MoveToFront(s, k) = (a \o b) \o c
  BY DEF MoveToFront
<1> HIDE DEF a, b, c
<1>3. /\ a \o b \in Seq(X) /\ Len(a \o b) = k
      /\ \A i \in 1 .. k : (a \o b)[i] = IF i = 1 THEN s[k] ELSE s[i - 1]
  <2>1. /\ a \o b \in Seq(X) /\ Len(a \o b) = Len(a) + Len(b)
        /\ \A i \in 1 .. Len(a) + Len(b) :
              (a \o b)[i] = IF i <= Len(a) THEN a[i] ELSE b[i - Len(a)]
    BY <1>1, ConcatProperties
  <2> QED
    BY <1>1, <2>1
<1> DEFINE d == a \o b
<1>d. /\ d \in Seq(X) /\ Len(d) = k
      /\ \A i \in 1 .. k : d[i] = IF i = 1 THEN s[k] ELSE s[i - 1]
  BY <1>3
<1> HIDE DEF d
<1>4. /\ d \o c \in Seq(X) /\ Len(d \o c) = N
      /\ \A i \in 1 .. N : (d \o c)[i] = IF i <= k THEN d[i] ELSE s[i]
  <2>1. /\ d \o c \in Seq(X) /\ Len(d \o c) = Len(d) + Len(c)
        /\ \A i \in 1 .. Len(d) + Len(c) :
              (d \o c)[i] = IF i <= Len(d) THEN d[i] ELSE c[i - Len(d)]
    <3>1. d \in Seq(X) /\ c \in Seq(X)
      BY <1>1, <1>d
    <3> QED
      BY <3>1, ConcatProperties
  <2>2. N \in Nat
    OBVIOUS
  <2>3. \A i \in 1 .. N : i > k => c[i - k] = s[i]
    <3> TAKE i \in 1 .. N
    <3> HAVE i > k
    <3>1. i - k \in 1 .. N - k /\ k + (i - k) = i
      OBVIOUS
    <3> QED
      BY <1>1, <3>1
  <2> QED
    BY <1>1, <1>d, <2>1, <2>2, <2>3
<1>5. \A i \in 1 .. N : (d \o c)[i] = s[Origin(i, k)] /\ Origin(i, k) \in 1 .. N
  BY <1>d, <1>4 DEF Origin
<1>6. \A i \in 1 .. N : \E j \in 1 .. N : Origin(j, k) = i
  <2> TAKE i \in 1 .. N
  <2> DEFINE j == IF i = k THEN 1 ELSE IF i < k THEN i + 1 ELSE i
  <2>1. j \in 1 .. N /\ Origin(j, k) = i
    BY DEF Origin
  <2> QED
    BY <2>1
<1> QED
  BY <1>2, <1>4, <1>5, <1>6 DEF d

\* Different places have different origins.
LEMMA OriginsDiffer ==
    ASSUME NEW n \in Nat, NEW k \in 1 .. n, NEW i \in 1 .. n, NEW j \in 1 .. n,
           Origin(i, k) = Origin(j, k)
    PROVE  i = j
  BY DEF Origin

\* What is read is in the page with the tag.
LEMMA ReadIs ==
    ASSUME NEW m, MemOK(m), NEW a \in Nat, NEW k \in mapped(m, a)
    PROVE  MEM_READ(m, a) = bucket(m, a)[k].page[MEM_OFFSET(a)]
<1> DEFINE i == MEM_PTAB_SET(a)
           s == bucket(m, a)
<1>1. i \in Buckets /\ m \in MemType /\ m.ptab[i] \in Seq(PTE) /\ s = m.ptab[i]
  BY FieldsType DEF Buckets, MemOK, MemType, bucket
<1>2. k \in 1 .. Len(s) /\ mapped(m, a) = {k}
  BY <1>1 DEF MemOK, OnePage, mapped, MemType
<1>3. mem_translate(m, a) = [m EXCEPT !.ptab[i] = MoveToFront(@, k)]
  BY <1>2 DEF mem_translate
<1>4. bucket(mem_translate(m, a), a) = MoveToFront(s, k)
  BY <1>1, <1>3 DEF bucket, MemType
<1>5. MoveToFront(s, k)[1] = s[k]
  <2>1. 1 \in 1 .. Len(s) /\ Origin(1, k) = k
    BY <1>1, <1>2 DEF Origin
  <2> QED
    <3> HIDE DEF s
    <3>0. s \in Seq(PTE) /\ k \in 1 .. Len(s)
      BY <1>1, <1>2
    <3>1. \A j \in 1 .. Len(s) : MoveToFront(s, k)[j] = s[Origin(j, k)]
      BY <3>0, MovedIs
    <3> QED
      BY <2>1, <3>1
<1> QED
  BY <1>2, <1>4, <1>5 DEF MEM_READ

\* Memories with the same pages, in any order, read the same.
SamePages(m, n) ==
    \A i \in Buckets :
        /\ Len(m.ptab[i]) = Len(n.ptab[i])
        /\ \A k \in DOMAIN m.ptab[i] : \E j \in DOMAIN n.ptab[i] : n.ptab[i][j] = m.ptab[i][k]
        /\ \A j \in DOMAIN n.ptab[i] : \E k \in DOMAIN m.ptab[i] : n.ptab[i][j] = m.ptab[i][k]

LEMMA SamePagesRead ==
    ASSUME NEW m, MemOK(m), NEW n, MemOK(n), SamePages(m, n), NEW a \in Nat
    PROVE  MEM_READ(m, a) = MEM_READ(n, a)
<1> DEFINE i == MEM_PTAB_SET(a)
<1>1. i \in Buckets /\ bucket(m, a) = m.ptab[i] /\ bucket(n, a) = n.ptab[i]
  BY FieldsType DEF Buckets, bucket
<1>2. CASE mapped(m, a) = {}
  <2>1. PICK s, t : s = m.ptab[i] /\ t = n.ptab[i]
    OBVIOUS
  <2>2. /\ {k \in DOMAIN s : s[k].tag = MEM_PTAB_TAG(a)} = {}
        /\ \A j \in DOMAIN t : \E k \in DOMAIN s : t[j] = s[k]
    BY <1>1, <1>2, <2>1 DEF SamePages, mapped
  <2>3. {k \in DOMAIN t : t[k].tag = MEM_PTAB_TAG(a)} = {}
    BY <2>2
  <2>4. mapped(n, a) = {}
    BY <1>1, <2>1, <2>3 DEF mapped
  <2> QED
    BY <1>2, <2>4 DEF MEM_READ
<1>3. CASE mapped(m, a) # {}
  <2>1. PICK k \in mapped(m, a) : TRUE
    BY <1>3
  <2>2. PICK j \in DOMAIN n.ptab[i] : n.ptab[i][j] = m.ptab[i][k]
    BY <1>1, <2>1 DEF SamePages, mapped
  <2>3. j \in mapped(n, a)
    BY <1>1, <2>1, <2>2 DEF mapped
  <2> QED
    BY <1>1, <2>1, <2>2, <2>3, ReadIs
<1> QED
  BY <1>2, <1>3

\* A lookup moves a page and changes none.
LEMMA TranslateIs ==
    ASSUME NEW m, MemOK(m), NEW a \in Nat
    PROVE  LET n == mem_translate(m, a) IN
           /\ MemOK(n) /\ SamePages(m, n) /\ n.page_count = m.page_count
           /\ mapped(m, a) # {} => 1 \in mapped(n, a)
<1> DEFINE i == MEM_PTAB_SET(a)
           s == m.ptab[i]
           n == mem_translate(m, a)
<1>1. i \in Buckets /\ m \in MemType /\ s \in Seq(PTE)
  BY FieldsType DEF Buckets, MemOK, MemType
<1>2. CASE mapped(m, a) = {}
  BY <1>2 DEF mem_translate, SamePages
<1>3. CASE mapped(m, a) # {}
  <2>1. PICK k \in mapped(m, a) : mapped(m, a) = {k}
    BY <1>1, <1>3 DEF MemOK, OnePage, mapped, bucket, MemType
  <2>2. k \in 1 .. Len(s) /\ s[k].tag = MEM_PTAB_TAG(a)
    BY <1>1, <2>1 DEF mapped, bucket
  <2> DEFINE t == MoveToFront(s, k)
  <2>3. n = [m EXCEPT !.ptab[i] = MoveToFront(@, k)]
    <3>1. (CHOOSE l \in mapped(m, a) : \A j \in mapped(m, a) : l <= j) = k
      BY <2>1, <2>2
    <3> QED
      BY <1>3, <3>1, Zenon DEF mem_translate
  <2>4. /\ t \in Seq(PTE) /\ Len(t) = Len(s)
        /\ \A j \in 1 .. Len(s) : Origin(j, k) \in 1 .. Len(s) /\ t[j] = s[Origin(j, k)]
        /\ \A j \in 1 .. Len(s) : \E l \in 1 .. Len(s) : Origin(l, k) = j
    BY <1>1, <2>2, MovedIs
  <2> HIDE DEF t
  <2>5. /\ n \in MemType /\ n.page_count = m.page_count
        /\ \A j \in Buckets : n.ptab[j] = IF j = i THEN t ELSE m.ptab[j]
    <3>1. n = [m EXCEPT !.ptab = [@ EXCEPT ![i] = t]]
      BY <1>1, <2>3 DEF MemType, t
    <3> HIDE DEF n, i
    <3> QED
      BY <1>1, <2>4, <3>1 DEF MemType
  <2> HIDE DEF n
  <2>6. OnePage(n)
    <3>1. \A j, l \in 1 .. Len(s) : s[j].tag = s[l].tag => j = l
      BY <1>1 DEF MemOK, OnePage, MemType
    <3>2. \A j, l \in DOMAIN t : t[j].tag = t[l].tag => j = l
      <4> TAKE j, l \in DOMAIN t
      <4> HAVE t[j].tag = t[l].tag
      <4>1. j \in 1 .. Len(s) /\ l \in 1 .. Len(s) /\ Len(s) \in Nat
        <5> HIDE DEF s
        <5>1. DOMAIN t = 1 .. Len(t) /\ Len(s) \in Nat
          BY <1>1, <2>4, LenProperties
        <5> QED
          BY <2>4, <5>1
      <4>2. Origin(j, k) = Origin(l, k)
        BY <2>4, <3>1, <4>1
      <4> QED
        BY <2>2, <4>1, <4>2, OriginsDiffer
    <3> QED
      BY <2>5, <3>2 DEF OnePage, MemOK, MemType
  <2>7. SamePages(m, n)
    <3> SUFFICES ASSUME NEW b \in Buckets
                 PROVE  /\ Len(m.ptab[b]) = Len(n.ptab[b])
                        /\ \A l \in DOMAIN m.ptab[b] : \E j \in DOMAIN n.ptab[b] :
                              n.ptab[b][j] = m.ptab[b][l]
                        /\ \A j \in DOMAIN n.ptab[b] : \E l \in DOMAIN m.ptab[b] :
                              n.ptab[b][j] = m.ptab[b][l]
      BY DEF SamePages
    <3>1. CASE b # i
      BY <2>5, <3>1
    <3>2. CASE b = i
      <4>1. DOMAIN s = 1 .. Len(s) /\ DOMAIN t = 1 .. Len(s) /\ m.ptab[b] = s /\ n.ptab[b] = t
        BY <1>1, <2>4, <2>5, <3>2
      <4> HIDE DEF s
      <4>2. \A l \in 1 .. Len(s) : \E j \in 1 .. Len(s) : t[j] = s[l]
        BY <2>4
      <4>3. \A j \in 1 .. Len(s) : \E l \in 1 .. Len(s) : t[j] = s[l]
        BY <2>4
      <4> QED
        BY <2>4, <4>1, <4>2, <4>3
    <3> QED
      BY <3>1, <3>2
  <2>8. 1 \in mapped(n, a)
    <3>1. 1 \in 1 .. Len(s) /\ Origin(1, k) = k /\ bucket(n, a) = t
      BY <1>1, <2>2, <2>5 DEF Origin, bucket
    <3> QED
      <4> HIDE DEF s
      <4>1. DOMAIN t = 1 .. Len(t) /\ t[1] = s[k]
        BY <2>4, <3>1, LenProperties
      <4> QED
        BY <2>2, <2>4, <3>1, <4>1 DEF mapped
  <2>9. Counted(n)
    <3>1. Counted(m) /\ ListTable(m.ptab, Buckets) /\ ListTable(n.ptab, Buckets)
      BY <1>1, <2>5, PtabTable DEF MemOK
    <3>2. SameLengths(m.ptab, n.ptab, Buckets)
      BY <2>7 DEF SamePages, SameLengths
    <3>3. Places(m.ptab) = Places(n.ptab)
      BY <3>1, <3>2, PlacesSame
    <3> QED
      BY <2>5, <3>1, <3>3 DEF Counted
  <2> QED
    BY <2>5, <2>6, <2>7, <2>8, <2>9 DEF MemOK, n
<1> QED
  BY <1>2, <1>3

\* A new page is empty: nothing reads differently.
LEMMA NewPageIs ==
    ASSUME NEW m, MemOK(m), NEW a \in Nat, mapped(m, a) = {}
    PROVE  LET n == mem_newpage(m, a) IN
           /\ MemOK(n) /\ 1 \in mapped(n, a)
           /\ \A b \in Nat : MEM_READ(n, b) = MEM_READ(m, b)
           /\ n.page_count = m.page_count + 1
           /\ \A i \in Buckets :
                 Len(n.ptab[i]) = Len(m.ptab[i]) + IF i = MEM_PTAB_SET(a) THEN 1 ELSE 0
<1> DEFINE n == mem_newpage(m, a)
           new == [tag |-> MEM_PTAB_TAG(a), page |-> [o \in 0 .. MD_PAGE_SIZE - 1 |-> 0]]
<1>1. PICK i, s, T : i = MEM_PTAB_SET(a) /\ s = m.ptab[i] /\ T = MEM_PTAB_TAG(a)
  OBVIOUS
<1>2. i \in Buckets /\ m \in MemType /\ s \in Seq(PTE) /\ bucket(m, a) = s /\ T \in Nat
  BY <1>1, FieldsType DEF Buckets, MemOK, MemType, bucket
<1>3. DOMAIN s = 1 .. Len(s) /\ Len(s) \in Nat /\ \A k \in 1 .. Len(s) : s[k].tag # T
  <2>1. DOMAIN s = 1 .. Len(s) /\ Len(s) \in Nat
    BY <1>2, LenProperties
  <2> QED
    BY <1>1, <1>2, <2>1 DEF mapped
<1>4. new \in PTE /\ new.tag = T
  BY <1>1, <1>2, SpecStateAssumption DEF PTE
<1> DEFINE t == <<new>> \o s
<1>5. /\ t \in Seq(PTE) /\ Len(t) = Len(s) + 1 /\ DOMAIN t = 1 .. Len(s) + 1
      /\ t[1] = new /\ \A k \in 1 .. Len(s) : t[k + 1] = s[k]
  <2> HIDE DEF new
  <2>1. <<new>> \in Seq(PTE) /\ Len(<<new>>) = 1 /\ <<new>>[1] = new
    BY <1>4
  <2> DEFINE u == <<new>>
  <2>2. u \in Seq(PTE) /\ Len(u) = 1 /\ u[1] = new
    BY <2>1
  <2> HIDE DEF u
  <2>3. /\ u \o s \in Seq(PTE) /\ Len(u \o s) = Len(u) + Len(s)
        /\ \A k \in 1 .. Len(u) + Len(s) :
              (u \o s)[k] = IF k <= Len(u) THEN u[k] ELSE s[k - Len(u)]
    BY <1>2, <2>2, ConcatProperties
  <2>4. DOMAIN (u \o s) = 1 .. Len(u \o s)
    BY <2>3, LenProperties
  <2>5. t = u \o s
    BY DEF u
  <2> QED
    BY <1>3, <2>2, <2>3, <2>4, <2>5
<1>6. n = [m EXCEPT !.ptab = [@ EXCEPT ![i] = t], !.page_count = @ + 1]
  BY <1>1, <1>2 DEF mem_newpage, MemType
<1> HIDE DEF new, t
<1>7. /\ n \in MemType /\ n.page_count = m.page_count + 1
      /\ \A j \in Buckets : n.ptab[j] = IF j = i THEN t ELSE m.ptab[j]
  <2> HIDE DEF n
  <2>1. PICK q : q = [m.ptab EXCEPT ![i] = t]
    OBVIOUS
  <2>2. q \in [Buckets -> Seq(PTE)] /\ \A j \in Buckets : q[j] = IF j = i THEN t ELSE m.ptab[j]
    BY <1>2, <1>5, <2>1 DEF MemType
  <2>3. n = [ptab |-> q, page_count |-> m.page_count + 1] /\ m.page_count \in Nat
    BY <1>2, <1>6, <2>1 DEF MemType
  <2> QED
    BY <2>2, <2>3 DEF MemType
<1> HIDE DEF n
<1>8. OnePage(n)
  <2>1. \A j, l \in 1 .. Len(s) : s[j].tag = s[l].tag => j = l
    BY <1>1, <1>2, <1>3 DEF MemOK, OnePage, MemType
  <2>2. \A j \in 1 .. Len(s) + 1 : j = 1 \/ (j - 1 \in 1 .. Len(s) /\ t[j] = s[j - 1])
    BY <1>3, <1>5
  <2>3. \A j, l \in 1 .. Len(s) + 1 : t[j].tag = t[l].tag => j = l
    BY <1>3, <1>4, <1>5, <2>1, <2>2
  <2>4. \A b \in Buckets : \A j, l \in DOMAIN n.ptab[b] :
            n.ptab[b][j].tag = n.ptab[b][l].tag => j = l
    <3> TAKE b \in Buckets
    <3>1. CASE b = i
      BY <1>5, <1>7, <2>3, <3>1
    <3>2. CASE b # i
      BY <1>2, <1>7, <3>2 DEF MemOK, OnePage, MemType
    <3> QED
      BY <3>1, <3>2
  <2> QED
    BY <1>7, <2>4 DEF OnePage, MemType
<1>9. \A j \in Buckets : Len(n.ptab[j]) = Len(m.ptab[j]) + IF j = MEM_PTAB_SET(a) THEN 1 ELSE 0
  <2> TAKE j \in Buckets
  <2>1. m.ptab[j] \in Seq(PTE)
    BY <1>2 DEF MemType
  <2>2. Len(m.ptab[j]) \in Nat
    BY <2>1, LenProperties
  <2>3. CASE j = i
    <3>1. n.ptab[j] = t /\ m.ptab[j] = s /\ MEM_PTAB_SET(a) = j
      BY <1>1, <1>7, <2>3
    <3> QED
      BY <1>5, <3>1, Zenon
  <2>4. CASE j # i
    <3>1. n.ptab[j] = m.ptab[j] /\ MEM_PTAB_SET(a) # j
      BY <1>1, <1>7, <2>4
    <3>2. \A x \in Nat : x = x + 0
      OBVIOUS
    <3>3. (IF j = MEM_PTAB_SET(a) THEN 1 ELSE 0) = 0
      BY <3>1
    <3> QED
      BY <2>2, <3>1, <3>2, <3>3, Zenon
  <2> QED
    BY <2>3, <2>4
<1>10. Counted(n)
  <2>1. ListTable(m.ptab, Buckets) /\ ListTable(n.ptab, Buckets) /\ Counted(m)
    BY <1>2, <1>7, PtabTable DEF MemOK
  <2>2. MEM_PTAB_SET(a) \in Buckets /\ IsFiniteSet(Buckets)
    BY <1>1, <1>2, FS_Interval, MemoryAssumption DEF Buckets
  <2>3. LongerAt(m.ptab, n.ptab, Buckets, MEM_PTAB_SET(a))
    BY <1>9 DEF LongerAt
  <2>4. Cardinality(Places(n.ptab)) = Cardinality(Places(m.ptab)) + 1
    BY <2>1, <2>2, <2>3, PlacesOneMore
  <2> QED
    BY <1>7, <2>1, <2>4 DEF Counted
<1>11. MemOK(n)
  BY <1>7, <1>8, <1>10 DEF MemOK
<1>12. ASSUME NEW b \in Nat PROVE MEM_READ(n, b) = MEM_READ(m, b)
  <2>1. MEM_PTAB_SET(b) \in Buckets /\ MEM_OFFSET(b) \in 0 .. MD_PAGE_SIZE - 1
    BY FieldsType DEF Buckets
  <2>2. CASE MEM_PTAB_SET(b) # i
    <3>1. bucket(n, b) = bucket(m, b)
      BY <1>7, <2>1, <2>2 DEF bucket
    <3>2. mapped(n, b) = mapped(m, b)
      BY <3>1 DEF mapped
    <3>3. CASE mapped(m, b) = {}
      BY <3>2, <3>3 DEF MEM_READ
    <3>4. CASE mapped(m, b) # {}
      BY <1>11, <3>1, <3>2, <3>4, ReadIs
    <3> QED
      BY <3>3, <3>4
  <2>3. CASE MEM_PTAB_SET(b) = i
    <3>1. bucket(n, b) = t /\ bucket(m, b) = s
      BY <1>1, <1>2, <1>7, <2>3 DEF bucket
    <3>2. CASE MEM_PTAB_TAG(b) = T
      <4>1. mapped(m, b) = {}
        BY <1>3, <3>1, <3>2 DEF mapped
      <4>2. 1 \in mapped(n, b)
        BY <1>3, <1>4, <1>5, <3>1, <3>2 DEF mapped
      <4>3. MEM_READ(n, b) = t[1].page[MEM_OFFSET(b)]
        BY <1>11, <3>1, <4>2, ReadIs
      <4>4. new.page[MEM_OFFSET(b)] = 0
        BY <2>1 DEF new
      <4> QED
        BY <1>5, <4>1, <4>3, <4>4 DEF MEM_READ
    <3>3. CASE MEM_PTAB_TAG(b) # T
      <4>1. CASE mapped(m, b) = {}
        <5>1. \A k \in 1 .. Len(s) : s[k].tag # MEM_PTAB_TAG(b)
          BY <1>3, <3>1, <4>1 DEF mapped
        <5>2. \A k \in 1 .. Len(s) + 1 : t[k].tag # MEM_PTAB_TAG(b)
          <6> TAKE k \in 1 .. Len(s) + 1
          <6>1. CASE k = 1
            BY <1>4, <1>5, <3>3, <6>1
          <6>2. CASE k # 1
            <7>1. k - 1 \in 1 .. Len(s) /\ (k - 1) + 1 = k
              BY <1>3, <6>2
            <7>2. t[k] = s[k - 1]
              BY <1>5, <7>1
            <7> QED
              BY <5>1, <7>1, <7>2
          <6> QED
            BY <6>1, <6>2
        <5>3. mapped(n, b) = {}
          BY <1>5, <3>1, <5>2 DEF mapped
        <5> QED
          BY <4>1, <5>3 DEF MEM_READ
      <4>2. CASE mapped(m, b) # {}
        <5>1. PICK k \in mapped(m, b) : TRUE
          BY <4>2
        <5>2. k \in 1 .. Len(s) /\ s[k].tag = MEM_PTAB_TAG(b)
          BY <1>3, <3>1, <5>1 DEF mapped
        <5>3. k + 1 \in 1 .. Len(s) + 1 /\ t[k + 1] = s[k]
          BY <1>3, <1>5, <5>2
        <5>4. k + 1 \in mapped(n, b)
          BY <1>5, <3>1, <5>2, <5>3 DEF mapped
        <5>5. MEM_READ(n, b) = t[k + 1].page[MEM_OFFSET(b)]
          BY <1>11, <3>1, <5>4, ReadIs
        <5>6. MEM_READ(m, b) = s[k].page[MEM_OFFSET(b)]
          BY <3>1, <5>1, ReadIs
        <5> QED
          BY <5>3, <5>5, <5>6
      <4> QED
        BY <4>1, <4>2
    <3> QED
      BY <3>2, <3>3
  <2> QED
    BY <2>2, <2>3
<1>13. 1 \in mapped(n, a)
  <2>1. bucket(n, a) = t
    BY <1>1, <1>2, <1>7 DEF bucket
  <2> QED
    BY <1>1, <1>3, <1>4, <1>5, <2>1 DEF mapped
<1> QED
  BY <1>7, <1>12, <1>13, <1>9, <1>11 DEF n

\* MEM_TICKLE has the page at hand and leaves the content as it was.
LEMMA TickleIs ==
    ASSUME NEW m, MemOK(m), NEW a \in Nat
    PROVE  LET n == MEM_TICKLE(m, a) IN
           /\ MemOK(n) /\ 1 \in mapped(n, a)
           /\ \A b \in Nat : MEM_READ(n, b) = MEM_READ(m, b)
<1>1. CASE mapped(m, a) = {}
  BY <1>1, NewPageIs DEF MEM_TICKLE
<1>2. CASE mapped(m, a) # {}
  <2> DEFINE n == mem_translate(m, a)
  <2>1. MEM_TICKLE(m, a) = n
    BY <1>2 DEF MEM_TICKLE
  <2>2. MemOK(n) /\ SamePages(m, n) /\ 1 \in mapped(n, a)
    BY <1>2, TranslateIs
  <2> HIDE DEF n
  <2> QED
    BY <2>1, <2>2, SamePagesRead
<1> QED
  BY <1>1, <1>2

\* A write changes one byte.
LEMMA WriteIs ==
    ASSUME NEW m, MemOK(m), NEW a \in Nat, NEW v \in Bytes
    PROVE  /\ MemOK(MEM_WRITE(m, a, v))
           /\ \A b \in Nat : MEM_READ(MEM_WRITE(m, a, v), b)
                                = IF b = a THEN v ELSE MEM_READ(m, b)
<1>1. PICK n, w, i, o : /\ n = MEM_TICKLE(m, a) /\ w = MEM_WRITE(m, a, v)
                        /\ i = MEM_PTAB_SET(a) /\ o = MEM_OFFSET(a)
  OBVIOUS
<1>2. /\ MemOK(n) /\ 1 \in mapped(n, a)
      /\ \A b \in Nat : MEM_READ(n, b) = MEM_READ(m, b)
  BY <1>1, TickleIs
<1>3. PICK s : s = n.ptab[i]
  OBVIOUS
<1>4. /\ i \in Buckets /\ o \in 0 .. MD_PAGE_SIZE - 1 /\ n \in MemType /\ s \in Seq(PTE)
      /\ bucket(n, a) = s
  BY <1>1, <1>2, <1>3, FieldsType DEF Buckets, MemOK, MemType, bucket
<1>5. /\ DOMAIN s = 1 .. Len(s) /\ Len(s) \in Nat /\ 1 \in 1 .. Len(s)
      /\ s[1].tag = MEM_PTAB_TAG(a)
  <2>1. DOMAIN s = 1 .. Len(s) /\ Len(s) \in Nat
    BY <1>4, LenProperties
  <2> QED
    BY <1>2, <1>4, <2>1 DEF mapped
<1>6. s[1] \in PTE
  BY <1>4, <1>5, ElementOfSeq
<1> DEFINE e == [s[1] EXCEPT !.page = [@ EXCEPT ![o] = v]]
           t == [s EXCEPT ![1] = e]
<1>7. /\ e \in PTE /\ e.tag = MEM_PTAB_TAG(a)
      /\ \A p \in 0 .. MD_PAGE_SIZE - 1 : e.page[p] = IF p = o THEN v ELSE s[1].page[p]
  BY <1>4, <1>5, <1>6 DEF PTE
<1>8. w = [n EXCEPT !.ptab = [@ EXCEPT ![i] = t]]
  BY <1>1, <1>3, <1>4, <1>5, <1>6 DEF MEM_WRITE, MemType, PTE
<1> HIDE DEF e
<1>9. /\ t \in Seq(PTE) /\ Len(t) = Len(s) /\ DOMAIN t = 1 .. Len(s)
      /\ \A k \in 1 .. Len(s) : t[k] = IF k = 1 THEN e ELSE s[k]
  <2>1. t \in Seq(PTE) /\ Len(t) = Len(s)
    BY <1>4, <1>5, <1>7, ExceptSeq
  <2> QED
    BY <1>5, <2>1
<1> HIDE DEF t
<1>10. /\ w \in MemType /\ w.page_count = n.page_count
       /\ \A j \in Buckets : w.ptab[j] = IF j = i THEN t ELSE n.ptab[j]
  BY <1>4, <1>8, <1>9 DEF MemType
<1>11. OnePage(w)
  <2>1. \A j, l \in 1 .. Len(s) : s[j].tag = s[l].tag => j = l
    BY <1>2, <1>3, <1>4, <1>5 DEF MemOK, OnePage, MemType
  <2>2. \A j \in 1 .. Len(s) : t[j].tag = s[j].tag
    BY <1>5, <1>7, <1>9
  <2>3. \A b \in Buckets : \A j, l \in DOMAIN w.ptab[b] :
            w.ptab[b][j].tag = w.ptab[b][l].tag => j = l
    <3> TAKE b \in Buckets
    <3>1. CASE b = i
      BY <1>9, <1>10, <2>1, <2>2, <3>1
    <3>2. CASE b # i
      BY <1>2, <1>4, <1>10, <3>2 DEF MemOK, OnePage, MemType
    <3> QED
      BY <3>1, <3>2
  <2> QED
    BY <1>10, <2>3 DEF OnePage, MemType
<1>12. MemOK(w)
  <2>1. Counted(n) /\ ListTable(n.ptab, Buckets) /\ ListTable(w.ptab, Buckets)
    BY <1>2, <1>10, PtabTable DEF MemOK
  <2>2. SameLengths(n.ptab, w.ptab, Buckets)
    BY <1>3, <1>9, <1>10 DEF SameLengths
  <2>3. Places(n.ptab) = Places(w.ptab)
    BY <2>1, <2>2, PlacesSame
  <2>4. Counted(w)
    BY <1>10, <2>1, <2>3 DEF Counted
  <2> QED
    BY <1>10, <1>11, <2>4 DEF MemOK
<1>13. ASSUME NEW b \in Nat PROVE MEM_READ(w, b) = IF b = a THEN v ELSE MEM_READ(n, b)
  <2>1. PICK j, p, T : /\ j = MEM_PTAB_SET(b) /\ p = MEM_OFFSET(b) /\ T = MEM_PTAB_TAG(b)
                       /\ j \in Buckets /\ p \in 0 .. MD_PAGE_SIZE - 1
    BY FieldsType DEF Buckets
  <2>2. CASE j # i
    <3>1. bucket(w, b) = bucket(n, b) /\ b # a
      BY <1>1, <1>10, <2>1, <2>2 DEF bucket
    <3>2. mapped(w, b) = mapped(n, b)
      BY <3>1 DEF mapped
    <3>3. CASE mapped(n, b) = {}
      BY <3>1, <3>2, <3>3 DEF MEM_READ
    <3>4. CASE mapped(n, b) # {}
      BY <1>2, <1>12, <3>1, <3>2, <3>4, ReadIs
    <3> QED
      BY <3>3, <3>4
  <2>3. CASE j = i
    <3>1. bucket(w, b) = t /\ bucket(n, b) = s
      BY <1>3, <1>10, <2>1, <2>3 DEF bucket
    <3>2. \A k \in 1 .. Len(s) : t[k].tag = s[k].tag
      BY <1>5, <1>7, <1>9
    <3>3. mapped(w, b) = mapped(n, b)
      BY <1>5, <1>9, <3>1, <3>2 DEF mapped
    <3>4. CASE mapped(n, b) = {}
      <4>1. b # a
        BY <1>2, <3>4
      <4> QED
        BY <3>3, <3>4, <4>1 DEF MEM_READ
    <3>5. CASE mapped(n, b) # {}
      <4>1. PICK k \in mapped(n, b) : TRUE
        BY <3>5
      <4>2. k \in 1 .. Len(s) /\ s[k].tag = T
        BY <1>5, <2>1, <3>1, <4>1 DEF mapped
      <4>3. MEM_READ(w, b) = t[k].page[p] /\ MEM_READ(n, b) = s[k].page[p]
        BY <1>2, <1>12, <2>1, <3>1, <3>3, <4>1, ReadIs
      <4>4. CASE k # 1
        <5>1. b # a
          <6> SUFFICES ASSUME b = a PROVE FALSE
            OBVIOUS
          <6>1. s[1].tag = s[k].tag
            BY <1>5, <2>1, <4>2
          <6> QED
            BY <1>2, <1>3, <1>4, <1>5, <4>2, <4>4, <6>1 DEF MemOK, OnePage, MemType
        <5> QED
          BY <1>9, <4>2, <4>3, <4>4, <5>1
      <4>5. CASE k = 1
        <5>1. t[k].page[p] = IF p = o THEN v ELSE s[k].page[p]
          BY <1>5, <1>7, <1>9, <2>1, <4>5
        <5>2. p = o <=> b = a
          <6>1. ASSUME p = o PROVE b = a
            BY <1>1, <1>5, <2>1, <2>3, <4>2, <4>5, <6>1, AddressIs
          <6> QED
            BY <1>1, <2>1, <6>1
        <5> QED
          BY <4>3, <5>1, <5>2
      <4> QED
        BY <4>4, <4>5
    <3> QED
      BY <3>4, <3>5
  <2> QED
    BY <2>2, <2>3
<1> QED
  BY <1>1, <1>2, <1>12, <1>13

-----------------------------------------------------------------------------
(* Accesses of several bytes *)

\* The steps of ReadOver and of Stored.
LEMMA ReadOverSteps ==
    ASSUME NEW m, NEW a, NEW n \in Nat
    PROVE  \E f : /\ ReadOver(m, a, n) = f[n]
                  /\ f[0] = m
                  /\ \A i \in 1 .. n : f[i] = mem_translate(f[i - 1], a + i - 1)
<1> DEFINE Do(r, i) == mem_translate(r, a + i - 1)
           P == {k \in Nat : \E g : g = [i \in 0 .. k |-> IF i = 0 THEN m ELSE Do(g[i - 1], i)]}
<1>1. 0 \in P
  <2> DEFINE g == [i \in 0 .. 0 |-> m]
  <2>1. g = [i \in 0 .. 0 |-> IF i = 0 THEN m ELSE Do(g[i - 1], i)]
    OBVIOUS
  <2> QED
    BY <2>1
<1>2. ASSUME NEW k \in Nat, k \in P PROVE k + 1 \in P
  <2>1. PICK g : g = [i \in 0 .. k |-> IF i = 0 THEN m ELSE Do(g[i - 1], i)]
    BY <1>2
  <2> DEFINE h == [i \in 0 .. k + 1 |-> IF i = k + 1 THEN Do(g[k], k + 1) ELSE g[i]]
  <2>2. \A i \in 0 .. k : g[i] = IF i = 0 THEN m ELSE Do(g[i - 1], i)
    BY <2>1
  <2> HIDE DEF Do
  <2>3. \A i \in 0 .. k + 1 : h[i] = IF i = 0 THEN m ELSE Do(h[i - 1], i)
    <3> TAKE i \in 0 .. k + 1
    <3>1. CASE i = k + 1
      BY <3>1
    <3>2. CASE i # k + 1
      BY <2>2, <3>2
    <3> QED
      BY <3>1, <3>2
  <2>4. h = [i \in 0 .. k + 1 |-> IF i = 0 THEN m ELSE Do(h[i - 1], i)]
    BY <2>3
  <2> HIDE DEF h
  <2>5. \E g2 : g2 = [i \in 0 .. k + 1 |-> IF i = 0 THEN m ELSE Do(g2[i - 1], i)]
    BY <2>4
  <2> QED
    BY <2>5
<1>3. n \in P
  <2> HIDE DEF P
  <2> QED
    BY <1>1, <1>2, NatSetInduction
<1> DEFINE f == CHOOSE g : g = [i \in 0 .. n |-> IF i = 0 THEN m ELSE Do(g[i - 1], i)]
<1>4. f = [i \in 0 .. n |-> IF i = 0 THEN m ELSE Do(f[i - 1], i)]
  BY <1>3
<1>5. ReadOver(m, a, n) = f[n]
  BY DEF ReadOver
<1> HIDE DEF f
<1> QED
  BY <1>4, <1>5

StoresFrom(f, m, a, p, n) ==
    f[0] = m /\ \A i \in 1 .. n : f[i] = MEM_WRITE(f[i - 1], a + i - 1, p[i - 1])

LEMMA StoredSteps ==
    ASSUME NEW m, NEW a, NEW p, NEW n \in Nat
    PROVE  \E f : Stored(m, a, p, n) = f[n] /\ StoresFrom(f, m, a, p, n)
<1> DEFINE Do(r, i) == MEM_WRITE(r, a + i - 1, p[i - 1])
           P == {k \in Nat : \E g : g = [i \in 0 .. k |-> IF i = 0 THEN m ELSE Do(g[i - 1], i)]}
<1>1. 0 \in P
  <2> DEFINE g == [i \in 0 .. 0 |-> m]
  <2>1. g = [i \in 0 .. 0 |-> IF i = 0 THEN m ELSE Do(g[i - 1], i)]
    OBVIOUS
  <2> QED
    BY <2>1
<1>2. ASSUME NEW k \in Nat, k \in P PROVE k + 1 \in P
  <2>1. PICK g : g = [i \in 0 .. k |-> IF i = 0 THEN m ELSE Do(g[i - 1], i)]
    BY <1>2
  <2> DEFINE h == [i \in 0 .. k + 1 |-> IF i = k + 1 THEN Do(g[k], k + 1) ELSE g[i]]
  <2>2. \A i \in 0 .. k : g[i] = IF i = 0 THEN m ELSE Do(g[i - 1], i)
    BY <2>1
  <2> HIDE DEF Do
  <2>3. \A i \in 0 .. k + 1 : h[i] = IF i = 0 THEN m ELSE Do(h[i - 1], i)
    <3> TAKE i \in 0 .. k + 1
    <3>1. CASE i = k + 1
      BY <3>1
    <3>2. CASE i # k + 1
      BY <2>2, <3>2
    <3> QED
      BY <3>1, <3>2
  <2>4. h = [i \in 0 .. k + 1 |-> IF i = 0 THEN m ELSE Do(h[i - 1], i)]
    BY <2>3
  <2> HIDE DEF h
  <2>5. \E g2 : g2 = [i \in 0 .. k + 1 |-> IF i = 0 THEN m ELSE Do(g2[i - 1], i)]
    BY <2>4
  <2> QED
    BY <2>5
<1>3. n \in P
  <2> HIDE DEF P
  <2> QED
    BY <1>1, <1>2, NatSetInduction
<1> DEFINE f == CHOOSE g : g = [i \in 0 .. n |-> IF i = 0 THEN m ELSE Do(g[i - 1], i)]
<1>4. f = [i \in 0 .. n |-> IF i = 0 THEN m ELSE Do(f[i - 1], i)]
  BY <1>3
<1>5. Stored(m, a, p, n) = f[n]
  BY DEF Stored
<1> HIDE DEF f
<1> QED
  BY <1>4, <1>5 DEF StoresFrom

\* Reading leaves the content of a memory as it was.
LEMMA ReadOverIs ==
    ASSUME NEW m, MemOK(m), NEW a \in Nat, NEW n \in Nat
    PROVE  /\ MemOK(ReadOver(m, a, n))
           /\ \A b \in Nat : MEM_READ(ReadOver(m, a, n), b) = MEM_READ(m, b)
<1>1. PICK f : /\ ReadOver(m, a, n) = f[n] /\ f[0] = m
               /\ \A i \in 1 .. n : f[i] = mem_translate(f[i - 1], a + i - 1)
  BY ReadOverSteps
<1> DEFINE good(r) == MemOK(r) /\ \A b \in Nat : MEM_READ(r, b) = MEM_READ(m, b)
           P == {i \in Nat : i <= n => good(f[i])}
<1>2. 0 \in P
  BY <1>1
<1>3. ASSUME NEW k \in Nat, k \in P PROVE k + 1 \in P
  <2> SUFFICES ASSUME k + 1 <= n PROVE good(f[k + 1])
    OBVIOUS
  <2>1. good(f[k])
    BY <1>3
  <2>2. PICK r, s : r = f[k] /\ s = f[k + 1] /\ s = mem_translate(r, a + k)
    <3>1. k + 1 \in 1 .. n /\ (k + 1) - 1 = k /\ a + (k + 1) - 1 = a + k
      OBVIOUS
    <3>2. f[k + 1] = mem_translate(f[(k + 1) - 1], a + (k + 1) - 1)
      BY <1>1, <3>1
    <3> QED
      BY <3>1, <3>2
  <2>3. a + k \in Nat
    OBVIOUS
  <2>4. MemOK(s) /\ SamePages(r, s)
    BY <2>1, <2>2, <2>3, TranslateIs
  <2>5. \A b \in Nat : MEM_READ(r, b) = MEM_READ(s, b)
    BY <2>1, <2>2, <2>4, SamePagesRead
  <2> QED
    BY <2>1, <2>2, <2>4, <2>5
<1>4. n \in P
  <2> HIDE DEF P
  <2> QED
    BY <1>2, <1>3, NatSetInduction
<1> QED
  BY <1>1, <1>4

\* A host buffer of n bytes.
Buffer(n) == [0 .. n - 1 -> Bytes]
\* Memory q reads as m does, but for the n bytes of p at a.
ReadsOver(q, m, a, n, p) ==
    \A b \in Nat : MEM_READ(q, b) = IF b \in a .. a + n - 1 THEN p[b - a] ELSE MEM_READ(m, b)

\* Storing changes the bytes that are stored and no other.
LEMMA StoredIs ==
    ASSUME NEW m, MemOK(m), NEW a \in Nat, NEW n \in Nat, NEW p \in Buffer(n)
    PROVE  MemOK(Stored(m, a, p, n)) /\ ReadsOver(Stored(m, a, p, n), m, a, n, p)
<1>0. PICK f : Stored(m, a, p, n) = f[n] /\ StoresFrom(f, m, a, p, n)
  BY StoredSteps, Zenon
<1>1. /\ Stored(m, a, p, n) = f[n] /\ f[0] = m
      /\ \A i \in 1 .. n : f[i] = MEM_WRITE(f[i - 1], a + i - 1, p[i - 1])
  BY <1>0 DEF StoresFrom
<1> DEFINE good(r, i) == /\ MemOK(r)
                         /\ \A b \in Nat : MEM_READ(r, b)
                               = IF b \in a .. a + i - 1 THEN p[b - a] ELSE MEM_READ(m, b)
           P == {i \in Nat : i <= n => good(f[i], i)}
<1>2. 0 \in P
  <2>1. \A b \in Nat : b \notin a .. a + 0 - 1
    OBVIOUS
  <2>2. good(m, 0)
    BY <2>1
  <2> QED
    BY <1>1, <2>2
<1>3. ASSUME NEW k \in Nat, k \in P PROVE k + 1 \in P
  <2> SUFFICES ASSUME k + 1 <= n PROVE good(f[k + 1], k + 1)
    OBVIOUS
  <2>1. good(f[k], k)
    BY <1>3
  <2>2. PICK r, s : r = f[k] /\ s = f[k + 1] /\ s = MEM_WRITE(r, a + k, p[k])
    <3>1. k + 1 \in 1 .. n /\ (k + 1) - 1 = k /\ a + (k + 1) - 1 = a + k
      OBVIOUS
    <3>2. f[k + 1] = MEM_WRITE(f[(k + 1) - 1], a + (k + 1) - 1, p[(k + 1) - 1])
      BY <1>1, <3>1
    <3> QED
      BY <3>1, <3>2
  <2>3. a + k \in Nat /\ p[k] \in Bytes
    BY DEF Buffer
  <2>4. /\ MemOK(s)
        /\ \A b \in Nat : MEM_READ(s, b) = IF b = a + k THEN p[k] ELSE MEM_READ(r, b)
    BY <2>1, <2>2, <2>3, WriteIs
  <2>5. ASSUME NEW b \in Nat
        PROVE  MEM_READ(s, b) = IF b \in a .. a + (k + 1) - 1 THEN p[b - a] ELSE MEM_READ(m, b)
    <3>1. MEM_READ(r, b) = IF b \in a .. a + k - 1 THEN p[b - a] ELSE MEM_READ(m, b)
      BY <2>1, <2>2
    <3>2. CASE b = a + k
      <4>1. b \in a .. a + (k + 1) - 1 /\ b - a = k
        BY <3>2
      <4> QED
        BY <2>4, <3>2, <4>1
    <3>3. CASE b # a + k
      <4>1. b \in a .. a + (k + 1) - 1 <=> b \in a .. a + k - 1
        BY <3>3
      <4> QED
        BY <2>4, <3>1, <3>3, <4>1
    <3> QED
      BY <3>2, <3>3
  <2> QED
    BY <2>2, <2>4, <2>5
<1>4. n \in P
  <2> HIDE DEF P
  <2> QED
    BY <1>2, <1>3, NatSetInduction
<1> QED
  BY <1>1, <1>4 DEF ReadsOver

-----------------------------------------------------------------------------
(* The store table of a wrong path *)

StoreEntry == [addr : Nat, data : [0 .. MAX_BYTES - 1 -> Bytes]]
Chains == 0 .. STORE_HASH_SIZE - 1
TableType == [Chains -> Seq(StoreEntry)]

\* An address a store of the program can have an entry for.
Storable(addr) == \E x \in Accesses : x[1] = addr /\ x[1] % x[2] = 0

\* Each entry is in the chain of its hash, each address has one.
InChain(t) == \A i \in Chains : \A k \in DOMAIN t[i] :
                  HASH_ADDR(t[i][k].addr) = i /\ Storable(t[i][k].addr)
OneEntry(t) == \A i \in Chains : \A j, k \in DOMAIN t[i] : t[i][j].addr = t[i][k].addr => j = k
TableOK(t) == t \in TableType /\ InChain(t) /\ OneEntry(t)


LEMMA HashType == \A a \in Nat : HASH_ADDR(a) \in Chains
<1>1. STORE_HASH_SIZE \in Nat \ {0}
  BY SpecStateAssumption
<1> QED
  BY <1>1 DEF HASH_ADDR, Chains

\* An access is a place and a size, and aligned ones are the same or disjoint.
LEMMA AccessIs ==
    ASSUME NEW x \in Accesses
    PROVE  x = <<x[1], x[2]>> /\ x[1] \in Nat /\ x[2] \in 1 .. MAX_BYTES /\ MAX_BYTES \in Nat
  BY SpecStateAssumption

LEMMA AccessesDisjoint ==
    ASSUME NEW x \in Accesses, NEW y \in Accesses, x[1] % x[2] = 0, y[1] % y[2] = 0, NEW a \in Nat,
           x[1] <= a, a < x[1] + x[2], y[1] <= a, a < y[1] + y[2]
    PROVE  x = y
<1>1. x = y \/ x[1] + x[2] <= y[1] \/ y[1] + y[2] <= x[1]
  BY SpecStateAssumption
<1>2. x[1] \in Nat /\ x[2] \in Nat /\ y[1] \in Nat /\ y[2] \in Nat
  BY AccessIs
<1> QED
  BY <1>1, <1>2

\* The size at an address is the one of its aligned access.
LEMMA SizeAtIs ==
    ASSUME NEW x \in Accesses, x[1] % x[2] = 0
    PROVE  SizeAt(x[1]) = x[2]
<1>1. ASSUME NEW y \in Accesses, y[1] = x[1], y[1] % y[2] = 0 PROVE y = x
  <2>1. /\ x[1] \in Nat /\ x[2] \in Nat /\ x[2] >= 1 /\ y[2] \in Nat /\ y[2] >= 1
        /\ y[1] \in Nat
    BY AccessIs
  <2>2. x[1] <= x[1] /\ x[1] < x[1] + x[2] /\ y[1] <= x[1] /\ x[1] < y[1] + y[2]
    BY <1>1, <2>1
  <2> QED
    BY <1>1, <2>1, <2>2, AccessesDisjoint
<1>2. (CHOOSE y \in Accesses : y[1] = x[1] /\ y[1] % y[2] = 0) = x
  BY <1>1
<1> QED
  BY <1>2 DEF SizeAt

LEMMA StorableIs ==
    ASSUME NEW addr, Storable(addr)
    PROVE  <<addr, SizeAt(addr)>> \in Accesses /\ addr % SizeAt(addr) = 0
<1>1. PICK x \in Accesses : x[1] = addr /\ x[1] % x[2] = 0
  BY DEF Storable
<1>2. SizeAt(addr) = x[2]
  BY <1>1, SizeAtIs
<1>3. x = <<x[1], x[2]>>
  BY AccessIs
<1> QED
  BY <1>1, <1>2, <1>3

\* What an entry of a table is.
LEMMA EntryIs ==
    ASSUME NEW t, TableOK(t), NEW e \in EntriesOf(t)
    PROVE  /\ e \in StoreEntry /\ Storable(e.addr) /\ HASH_ADDR(e.addr) \in Chains
           /\ \E k \in 1 .. Len(t[HASH_ADDR(e.addr)]) : t[HASH_ADDR(e.addr)][k] = e
<1>1. PICK i \in Chains : \E k \in DOMAIN t[i] : e = t[i][k]
  BY DEF EntriesOf, TableOK, TableType
<1>0. PICK k \in DOMAIN t[i] : e = t[i][k]
  BY <1>1
<1>2. t[i] \in Seq(StoreEntry)
  BY DEF TableOK, TableType
<1>3. k \in 1 .. Len(t[i])
  BY <1>2, LenProperties
<1>4. e \in StoreEntry
  BY <1>0, <1>2, <1>3, ElementOfSeq
<1>5. HASH_ADDR(e.addr) = i /\ Storable(e.addr)
  BY <1>0 DEF TableOK, InChain
<1> QED
  BY <1>0, <1>3, <1>4, <1>5

LEMMA EntryIn ==
    ASSUME NEW t, TableOK(t), NEW i \in Chains, NEW k \in 1 .. Len(t[i])
    PROVE  t[i][k] \in EntriesOf(t)
<1>1. t[i] \in Seq(StoreEntry) /\ DOMAIN t = Chains
  BY DEF TableOK, TableType
<1>2. k \in DOMAIN t[i]
  BY <1>1, LenProperties
<1> QED
  BY <1>1, <1>2 DEF EntriesOf

\* Entries of a table for the same address are the same.
LEMMA EntriesDiffer ==
    ASSUME NEW t, TableOK(t), NEW e \in EntriesOf(t), NEW f \in EntriesOf(t), e.addr = f.addr
    PROVE  e = f
<1> DEFINE i == HASH_ADDR(e.addr)
<1>1. i \in Chains /\ t[i] \in Seq(StoreEntry)
  BY EntryIs DEF TableOK, TableType
<1>2. PICK j \in 1 .. Len(t[i]) : t[i][j] = e
  BY EntryIs
<1>3. PICK k \in 1 .. Len(t[i]) : t[i][k] = f
  BY EntryIs
<1>4. j \in DOMAIN t[i] /\ k \in DOMAIN t[i]
  BY <1>1, LenProperties
<1>5. j = k
  BY <1>1, <1>2, <1>3, <1>4 DEF TableOK, OneEntry
<1> QED
  BY <1>2, <1>3, <1>5

LEMMA BytesDisjoint ==
    ASSUME NEW e \in StoreEntry, Storable(e.addr), NEW f \in StoreEntry, Storable(f.addr),
           NEW a \in BytesOf(e), a \in BytesOf(f)
    PROVE  e.addr = f.addr
<1> DEFINE x == <<e.addr, SizeAt(e.addr)>>
           y == <<f.addr, SizeAt(f.addr)>>
<1>1. x \in Accesses /\ x[1] % x[2] = 0 /\ y \in Accesses /\ y[1] % y[2] = 0
  BY StorableIs
<1>2. x[1] \in Nat /\ x[2] \in Nat /\ y[1] \in Nat /\ y[2] \in Nat
  BY <1>1, AccessIs
<1>3. a \in Nat /\ x[1] <= a /\ a < x[1] + x[2] /\ y[1] <= a /\ a < y[1] + y[2]
  BY <1>2 DEF BytesOf
<1>4. x = y
  <2> HIDE DEF x, y
  <2> QED
    BY <1>1, <1>3, AccessesDisjoint
<1> QED
  BY <1>4

LEMMA StoredOfIs ==
    ASSUME NEW t, TableOK(t)
    PROVE  /\ DOMAIN StoredOf(t) = StoredBytesOf(t)
           /\ \A a : a \in StoredBytesOf(t) <=> \E e \in EntriesOf(t) : a \in BytesOf(e)
           /\ \A e \in EntriesOf(t) : \A a \in BytesOf(e) : StoredOf(t)[a] = e.data[a - e.addr]
<1>1. DOMAIN StoredOf(t) = StoredBytesOf(t)
  BY DEF StoredOf
<1>2. \A a : a \in StoredBytesOf(t) <=> \E e \in EntriesOf(t) : a \in BytesOf(e)
  BY DEF StoredBytesOf
<1>3. ASSUME NEW e \in EntriesOf(t), NEW a \in BytesOf(e)
      PROVE  StoredOf(t)[a] = e.data[a - e.addr]
  <2>1. \A f \in EntriesOf(t) : f \in StoreEntry /\ Storable(f.addr)
    BY EntryIs
  <2>2. \A f \in EntriesOf(t) : f.addr \in Nat /\ SizeAt(f.addr) \in Nat
    <3> TAKE f \in EntriesOf(t)
    <3>1. <<f.addr, SizeAt(f.addr)>> \in Accesses
      BY <2>1, StorableIs
    <3> QED
      BY <3>1, AccessIs
  <2>3. a \in Nat
    BY <2>2 DEF BytesOf
  <2>4. \A f \in EntriesOf(t) : f.addr <= a /\ a < f.addr + SizeAt(f.addr) <=> a \in BytesOf(f)
    BY <2>2, <2>3 DEF BytesOf
  <2>5. \A f \in EntriesOf(t) : a \in BytesOf(f) => f = e
    BY <1>3, <2>1, BytesDisjoint, EntriesDiffer
  <2>6. HolderOf(t, a) = e
    BY <1>3, <2>4, <2>5 DEF HolderOf
  <2> QED
    BY <1>2, <1>3, <2>6 DEF StoredOf
<1> QED
  BY <1>1, <1>2, <1>3

\* A chain of a table.
GoodChain(s, i) ==
    /\ s \in Seq(StoreEntry)
    /\ \A k \in 1 .. Len(s) : HASH_ADDR(s[k].addr) = i /\ Storable(s[k].addr)
    /\ \A j, k \in 1 .. Len(s) : s[j].addr = s[k].addr => j = k

LEMMA ChainIs ==
    ASSUME NEW t, TableOK(t), NEW i \in Chains
    PROVE  GoodChain(t[i], i) /\ DOMAIN t[i] = 1 .. Len(t[i]) /\ Len(t[i]) \in Nat
<1>1. t[i] \in Seq(StoreEntry)
  BY DEF TableOK, TableType
<1>2. DOMAIN t[i] = 1 .. Len(t[i]) /\ Len(t[i]) \in Nat
  BY <1>1, LenProperties
<1>3. /\ \A k \in 1 .. Len(t[i]) : HASH_ADDR(t[i][k].addr) = i /\ Storable(t[i][k].addr)
      /\ \A j, k \in 1 .. Len(t[i]) : t[i][j].addr = t[i][k].addr => j = k
  BY <1>2 DEF TableOK, InChain, OneEntry
<1> QED
  BY <1>1, <1>2, <1>3 DEF GoodChain

\* A table with one chain replaced by another.
Replaced(t, u, i, s) ==
    /\ TableOK(u)
    /\ \A j \in Chains : u[j] = IF j = i THEN s ELSE t[j]
    /\ \A e : e \in EntriesOf(u) <=> \/ e \in EntriesOf(t) /\ HASH_ADDR(e.addr) # i
                                     \/ \E k \in 1 .. Len(s) : e = s[k]

LEMMA ChainReplaced ==
    ASSUME NEW t, TableOK(t), NEW i \in Chains, NEW s, GoodChain(s, i)
    PROVE  Replaced(t, [t EXCEPT ![i] = s], i, s)
<1> DEFINE u == [t EXCEPT ![i] = s]
<1>1. t \in TableType /\ s \in Seq(StoreEntry)
  BY DEF TableOK, GoodChain
<1>2. u \in TableType /\ \A j \in Chains : u[j] = IF j = i THEN s ELSE t[j]
  BY <1>1 DEF TableType
<1> HIDE DEF u
<1>3. \A j \in Chains : GoodChain(u[j], j)
  BY <1>2, ChainIs
<1>4. \A j \in Chains : DOMAIN u[j] = 1 .. Len(u[j])
  <2> TAKE j \in Chains
  <2>1. u[j] \in Seq(StoreEntry)
    BY <1>3 DEF GoodChain
  <2> QED
    BY <2>1, LenProperties
<1>5. TableOK(u)
  <2>1. InChain(u)
    BY <1>3, <1>4 DEF InChain, GoodChain
  <2>2. OneEntry(u)
    BY <1>3, <1>4 DEF OneEntry, GoodChain
  <2> QED
    BY <1>2, <2>1, <2>2 DEF TableOK
<1>6. ASSUME NEW e
      PROVE  e \in EntriesOf(u) <=> \/ e \in EntriesOf(t) /\ HASH_ADDR(e.addr) # i
                                    \/ \E k \in 1 .. Len(s) : e = s[k]
  <2>1. ASSUME e \in EntriesOf(u)
        PROVE  \/ e \in EntriesOf(t) /\ HASH_ADDR(e.addr) # i
               \/ \E k \in 1 .. Len(s) : e = s[k]
    <3>1. PICK j : /\ j = HASH_ADDR(e.addr) /\ j \in Chains
                   /\ \E k \in 1 .. Len(u[j]) : u[j][k] = e
      BY <1>5, <2>1, EntryIs
    <3>2. CASE j = i
      BY <1>2, <3>1, <3>2
    <3>3. CASE j # i
      <4>1. PICK k \in 1 .. Len(t[j]) : t[j][k] = e
        BY <1>2, <3>1, <3>3
      <4> QED
        BY <3>1, <3>3, <4>1, EntryIn
    <3> QED
      BY <3>2, <3>3
  <2>2. ASSUME e \in EntriesOf(t), HASH_ADDR(e.addr) # i PROVE e \in EntriesOf(u)
    <3>1. PICK j : /\ j = HASH_ADDR(e.addr) /\ j \in Chains
                   /\ \E k \in 1 .. Len(t[j]) : t[j][k] = e
      BY <2>2, EntryIs
    <3>2. PICK k \in 1 .. Len(u[j]) : u[j][k] = e
      BY <1>2, <2>2, <3>1
    <3> QED
      BY <1>5, <3>1, <3>2, EntryIn
  <2>3. ASSUME NEW k \in 1 .. Len(s), e = s[k] PROVE e \in EntriesOf(u)
    <3>1. k \in 1 .. Len(u[i]) /\ u[i][k] = e
      BY <1>2, <2>3
    <3> QED
      BY <1>5, <3>1, EntryIn
  <2> QED
    BY <2>1, <2>2, <2>3
<1> QED
  BY <1>2, <1>5, <1>6 DEF u, Replaced

\* The entries in a chain are those of the table with its hash.
LEMMA InThisChain ==
    ASSUME NEW t, TableOK(t), NEW i \in Chains, NEW e
    PROVE  (\E k \in 1 .. Len(t[i]) : e = t[i][k]) <=> e \in EntriesOf(t) /\ HASH_ADDR(e.addr) = i
<1>1. ASSUME NEW k \in 1 .. Len(t[i]), e = t[i][k] PROVE e \in EntriesOf(t) /\ HASH_ADDR(e.addr) = i
  <2>1. e \in EntriesOf(t)
    BY <1>1, EntryIn
  <2>2. GoodChain(t[i], i)
    BY ChainIs
  <2> QED
    BY <1>1, <2>1, <2>2 DEF GoodChain
<1>2. ASSUME e \in EntriesOf(t), HASH_ADDR(e.addr) = i PROVE \E k \in 1 .. Len(t[i]) : e = t[i][k]
  <2>1. \E k \in 1 .. Len(t[HASH_ADDR(e.addr)]) : t[HASH_ADDR(e.addr)][k] = e
    BY <1>2, EntryIs
  <2> QED
    BY <1>2, <2>1
<1> QED
  BY <1>1, <1>2

\* A lookup moves an entry and changes none.
LEMMA LookupIs ==
    ASSUME NEW t, TableOK(t), NEW i \in Chains, NEW k \in 1 .. Len(t[i])
    PROVE  LET s == MoveToFront(t[i], k)
               u == [t EXCEPT ![i] = s] IN
           /\ GoodChain(s, i) /\ s[1] = t[i][k] /\ Len(s) = Len(t[i])
           /\ TableOK(u) /\ EntriesOf(u) = EntriesOf(t) /\ SameLengths(t, u, Chains)
<1>1. PICK q : q = t[i]
  OBVIOUS
<1>2. GoodChain(q, i) /\ Len(q) \in Nat /\ k \in 1 .. Len(q)
  BY <1>1, ChainIs
<1>3. q \in Seq(StoreEntry)
  BY <1>2 DEF GoodChain
<1> DEFINE s == MoveToFront(q, k)
           u == [t EXCEPT ![i] = s]
<1>4. /\ s \in Seq(StoreEntry) /\ Len(s) = Len(q)
      /\ \A j \in 1 .. Len(q) : Origin(j, k) \in 1 .. Len(q) /\ s[j] = q[Origin(j, k)]
      /\ \A j \in 1 .. Len(q) : \E l \in 1 .. Len(q) : Origin(l, k) = j
  BY <1>2, <1>3, MovedIs
<1> HIDE DEF s
<1>5. GoodChain(s, i)
  <2>1. ASSUME NEW j \in 1 .. Len(s) PROVE HASH_ADDR(s[j].addr) = i /\ Storable(s[j].addr)
    <3>1. PICK o \in 1 .. Len(q) : s[j] = q[o]
      BY <1>4
    <3> QED
      BY <1>2, <3>1 DEF GoodChain
  <2>2. ASSUME NEW j \in 1 .. Len(s), NEW l \in 1 .. Len(s), s[j].addr = s[l].addr PROVE j = l
    <3>1. Origin(j, k) = Origin(l, k)
      BY <1>2, <1>4, <2>2 DEF GoodChain
    <3> QED
      BY <1>2, <1>4, <3>1, OriginsDiffer
  <2> QED
    BY <1>4, <2>1, <2>2 DEF GoodChain
<1>6. s[1] = q[k]
  <2>1. 1 \in 1 .. Len(q) /\ Origin(1, k) = k
    BY <1>2 DEF Origin
  <2> QED
    BY <1>4, <2>1
<1>r. Replaced(t, u, i, s)
  BY <1>5, ChainReplaced
<1> HIDE DEF u
<1>7. /\ TableOK(u)
      /\ \A j \in Chains : u[j] = IF j = i THEN s ELSE t[j]
      /\ \A e : e \in EntriesOf(u) <=> \/ e \in EntriesOf(t) /\ HASH_ADDR(e.addr) # i
                                       \/ \E l \in 1 .. Len(s) : e = s[l]
  BY <1>r DEF Replaced
<1>8. \A e : (\E l \in 1 .. Len(s) : e = s[l]) <=> (\E l \in 1 .. Len(q) : e = q[l])
  BY <1>4
<1>9. \A e : e \in EntriesOf(u) <=> e \in EntriesOf(t)
  <2> TAKE e
  <2>1. (\E l \in 1 .. Len(q) : e = q[l]) <=> e \in EntriesOf(t) /\ HASH_ADDR(e.addr) = i
    BY <1>1, InThisChain
  <2>2. e \in EntriesOf(u) <=> \/ e \in EntriesOf(t) /\ HASH_ADDR(e.addr) # i
                               \/ \E l \in 1 .. Len(s) : e = s[l]
    BY <1>7
  <2>3. (\E l \in 1 .. Len(s) : e = s[l]) <=> (\E l \in 1 .. Len(q) : e = q[l])
    BY <1>8
  <2> QED
    BY <2>1, <2>2, <2>3, Zenon
<1>10. EntriesOf(u) = EntriesOf(t)
  BY <1>9
<1>11. SameLengths(t, u, Chains)
  BY <1>1, <1>4, <1>7 DEF SameLengths
<1> QED
  BY <1>1, <1>4, <1>5, <1>6, <1>7, <1>10, <1>11 DEF s, u

\* Table u is table t after the n bytes of p have been stored at addr.
Patches(t, u, addr, n, p) ==
    /\ \A e : e.addr # addr => (e \in EntriesOf(t) <=> e \in EntriesOf(u))
    /\ \E e \in EntriesOf(u) : e.addr = addr /\ \A i \in 0 .. n - 1 : e.data[i] = p[i]

\* A store to an address that has an entry.
LEMMA StoreAgainIs ==
    ASSUME NEW t, TableOK(t), NEW i \in Chains, NEW k \in 1 .. Len(t[i]),
           NEW d \in [0 .. MAX_BYTES - 1 -> Bytes]
    PROVE  LET u == [t EXCEPT ![i] = [MoveToFront(@, k) EXCEPT ![1].data = d]] IN
           /\ TableOK(u) /\ SameLengths(t, u, Chains)
           /\ \A n, p : (\A j \in 0 .. n - 1 : d[j] = p[j]) => Patches(t, u, t[i][k].addr, n, p)
<1>1. PICK q, m : q = t[i] /\ m = MoveToFront(q, k)
  OBVIOUS
<1>2. /\ GoodChain(q, i) /\ GoodChain(m, i) /\ m[1] = q[k] /\ Len(m) = Len(q) /\ Len(q) \in Nat
      /\ k \in 1 .. Len(q)
  BY <1>1, LookupIs, ChainIs
<1>3. m \in Seq(StoreEntry) /\ 1 \in 1 .. Len(m) /\ DOMAIN m = 1 .. Len(m)
  BY <1>2, LenProperties DEF GoodChain
<1>4. m[1] \in StoreEntry
  BY <1>3, ElementOfSeq
<1> DEFINE new == [m[1] EXCEPT !.data = d]
           s == [m EXCEPT ![1] = new]
<1>5. new \in StoreEntry /\ new.addr = q[k].addr /\ new.data = d
  BY <1>2, <1>4 DEF StoreEntry
<1> HIDE DEF new
<1>6. /\ s \in Seq(StoreEntry) /\ Len(s) = Len(q)
      /\ \A j \in 1 .. Len(q) : s[j] = IF j = 1 THEN new ELSE m[j]
  BY <1>2, <1>3, <1>5, ExceptSeq
<1>7. [t EXCEPT ![i] = [MoveToFront(@, k) EXCEPT ![1].data = d]] = [t EXCEPT ![i] = s]
  BY <1>1 DEF new
<1> HIDE DEF s
<1>8. GoodChain(s, i)
  <2>1. \A j \in 1 .. Len(q) : s[j].addr = m[j].addr
    BY <1>2, <1>5, <1>6
  <2> QED
    BY <1>2, <1>6, <2>1 DEF GoodChain
<1> DEFINE u == [t EXCEPT ![i] = s]
<1>r. Replaced(t, u, i, s)
  BY <1>8, ChainReplaced
<1> HIDE DEF u
<1>9. /\ TableOK(u)
      /\ \A j \in Chains : u[j] = IF j = i THEN s ELSE t[j]
      /\ \A e : e \in EntriesOf(u) <=> \/ e \in EntriesOf(t) /\ HASH_ADDR(e.addr) # i
                                       \/ \E l \in 1 .. Len(s) : e = s[l]
  BY <1>r DEF Replaced
<1>10. SameLengths(t, u, Chains)
  BY <1>1, <1>6, <1>9 DEF SameLengths
<1>11. ASSUME NEW e, e.addr # q[k].addr PROVE e \in EntriesOf(t) <=> e \in EntriesOf(u)
  <2> DEFINE v == [t EXCEPT ![i] = m]
  <2>1. /\ EntriesOf(v) = EntriesOf(t)
    BY <1>1, LookupIs
  <2>2. e \in EntriesOf(v) <=> \/ e \in EntriesOf(t) /\ HASH_ADDR(e.addr) # i
                               \/ \E l \in 1 .. Len(m) : e = m[l]
    <3>1. Replaced(t, v, i, m)
      BY <1>2, ChainReplaced
    <3> HIDE DEF v
    <3> QED
      BY <3>1 DEF Replaced
  <2> HIDE DEF v
  <2>3. (\E l \in 1 .. Len(m) : e = m[l]) <=> (\E l \in 1 .. Len(s) : e = s[l])
    <3>1. e # m[1] /\ e # new
      BY <1>2, <1>5, <1>11
    <3> QED
      BY <1>2, <1>6, <3>1
  <2> QED
    BY <1>9, <2>1, <2>2, <2>3
<1>12. new \in EntriesOf(u)
  <2>1. s[1] = new /\ 1 \in 1 .. Len(s)
    BY <1>2, <1>3, <1>6
  <2> QED
    BY <1>9, <2>1
<1>13. ASSUME NEW n, NEW p, \A j \in 0 .. n - 1 : d[j] = p[j]
       PROVE  Patches(t, u, q[k].addr, n, p)
  BY <1>5, <1>11, <1>12, <1>13, Zenon DEF Patches
<1> QED
  BY <1>1, <1>7, <1>9, <1>10, <1>13, Zenon DEF u

\* A store to an address that has none.
LEMMA StoreNewIs ==
    ASSUME NEW t, TableOK(t), NEW new \in StoreEntry, Storable(new.addr),
           \A k \in DOMAIN t[HASH_ADDR(new.addr)] : t[HASH_ADDR(new.addr)][k].addr # new.addr
    PROVE  LET i == HASH_ADDR(new.addr)
               u == [t EXCEPT ![i] = <<new>> \o @] IN
           /\ TableOK(u) /\ LongerAt(t, u, Chains, i) /\ i \in Chains
           /\ \A n, p : (\A j \in 0 .. n - 1 : new.data[j] = p[j]) => Patches(t, u, new.addr, n, p)
<1>1. PICK i, q : i = HASH_ADDR(new.addr) /\ q = t[i]
  OBVIOUS
<1>2. i \in Chains
  BY <1>1, HashType DEF StoreEntry
<1>3. /\ GoodChain(q, i) /\ Len(q) \in Nat
      /\ \A k \in 1 .. Len(q) : q[k].addr # new.addr
  BY <1>1, <1>2, ChainIs
<1>4. q \in Seq(StoreEntry)
  BY <1>3 DEF GoodChain
<1> DEFINE s == <<new>> \o q
<1>5. /\ s \in Seq(StoreEntry) /\ Len(s) = Len(q) + 1
      /\ \A j \in 1 .. Len(q) + 1 : s[j] = IF j = 1 THEN new ELSE q[j - 1]
  <2> DEFINE o == <<new>>
  <2>1. o \in Seq(StoreEntry) /\ Len(o) = 1 /\ o[1] = new
    OBVIOUS
  <2> HIDE DEF o
  <2>2. /\ o \o q \in Seq(StoreEntry) /\ Len(o \o q) = Len(o) + Len(q)
        /\ \A j \in 1 .. Len(o) + Len(q) :
              (o \o q)[j] = IF j <= Len(o) THEN o[j] ELSE q[j - Len(o)]
    BY <1>4, <2>1, ConcatProperties
  <2> QED
    BY <1>3, <2>1, <2>2 DEF o
<1> HIDE DEF s
<1>6. \A j \in 1 .. Len(s) : j = 1 \/ (j - 1 \in 1 .. Len(q) /\ s[j] = q[j - 1])
  BY <1>3, <1>5
<1>7. s[1] = new /\ 1 \in 1 .. Len(s) /\ \A j \in 1 .. Len(q) : j + 1 \in 1 .. Len(s) /\ s[j + 1] = q[j]
  BY <1>3, <1>5
<1>8. GoodChain(s, i)
  <2>1. \A j \in 1 .. Len(s) : HASH_ADDR(s[j].addr) = i /\ Storable(s[j].addr)
    BY <1>1, <1>3, <1>6, <1>7 DEF GoodChain
  <2>2. ASSUME NEW j \in 1 .. Len(s), NEW l \in 1 .. Len(s), s[j].addr = s[l].addr PROVE j = l
    <3>1. CASE j = 1 \/ l = 1
      <4>1. s[1].addr = new.addr
        BY <1>7
      <4>2. \A x \in 1 .. Len(s) : x # 1 => s[x].addr # new.addr
        BY <1>3, <1>6
      <4> QED
        BY <2>2, <3>1, <4>1, <4>2
    <3>2. CASE j # 1 /\ l # 1
      <4>1. j - 1 = l - 1
        BY <1>3, <1>6, <2>2, <3>2 DEF GoodChain
      <4> QED
        BY <4>1
    <3> QED
      BY <3>1, <3>2
  <2> QED
    BY <1>5, <2>1, <2>2 DEF GoodChain
<1> DEFINE u == [t EXCEPT ![i] = s]
<1>9. [t EXCEPT ![i] = <<new>> \o @] = u
  BY <1>1 DEF s
<1>r. Replaced(t, u, i, s)
  BY <1>2, <1>8, ChainReplaced
<1> HIDE DEF u
<1>10. /\ TableOK(u)
       /\ \A j \in Chains : u[j] = IF j = i THEN s ELSE t[j]
       /\ \A e : e \in EntriesOf(u) <=> \/ e \in EntriesOf(t) /\ HASH_ADDR(e.addr) # i
                                        \/ \E l \in 1 .. Len(s) : e = s[l]
  BY <1>r DEF Replaced
<1>11. LongerAt(t, u, Chains, i)
  <2> SUFFICES ASSUME NEW j \in Chains PROVE Len(u[j]) = Len(t[j]) + IF j = i THEN 1 ELSE 0
    BY DEF LongerAt
  <2>1. PICK x, y : x = Len(u[j]) /\ y = Len(t[j]) /\ y \in Nat
    BY ChainIs
  <2>2. CASE j = i
    <3>1. x = y + 1
      BY <1>1, <1>5, <1>10, <2>1, <2>2
    <3> QED
      BY <2>1, <2>2, <3>1
  <2>3. CASE j # i
    <3>1. x = y
      BY <1>10, <2>1, <2>3
    <3> QED
      BY <2>1, <2>3, <3>1
  <2> QED
    BY <2>2, <2>3
<1>12. ASSUME NEW e, e.addr # new.addr PROVE e \in EntriesOf(t) <=> e \in EntriesOf(u)
  <2>1. (\E l \in 1 .. Len(q) : e = q[l]) <=> e \in EntriesOf(t) /\ HASH_ADDR(e.addr) = i
    BY <1>1, <1>2, InThisChain
  <2>2. (\E l \in 1 .. Len(q) : e = q[l]) <=> (\E l \in 1 .. Len(s) : e = s[l])
    <3>1. ASSUME NEW l \in 1 .. Len(q), e = q[l] PROVE \E x \in 1 .. Len(s) : e = s[x]
      BY <1>7, <3>1
    <3>2. ASSUME NEW l \in 1 .. Len(s), e = s[l] PROVE \E x \in 1 .. Len(q) : e = q[x]
      <4>1. l # 1
        BY <1>7, <1>12, <3>2
      <4> QED
        BY <1>6, <3>2, <4>1
    <3> QED
      BY <3>1, <3>2
  <2> QED
    BY <1>10, <2>1, <2>2
<1>13. new \in EntriesOf(u)
  BY <1>7, <1>10
<1>14. ASSUME NEW n, NEW p, \A j \in 0 .. n - 1 : new.data[j] = p[j]
       PROVE  Patches(t, u, new.addr, n, p)
  BY <1>12, <1>13, <1>14, Zenon DEF Patches
<1> QED
  BY <1>1, <1>2, <1>9, <1>10, <1>11, <1>14, Zenon DEF u

LEMMA StoredPatched ==
    ASSUME NEW t, TableOK(t), NEW u, TableOK(u), NEW addr, NEW n, NEW p,
           <<addr, n>> \in Accesses, addr % n = 0, Patches(t, u, addr, n, p)
    PROVE  StoredOf(u) = Precise!Over(StoredOf(t), Precise!At(addr, n, p))
<1> DEFINE f == StoredOf(t)
           h == StoredOf(u)
           g == [x \in addr .. addr + n - 1 |-> p[x - addr]]
<1>1. addr \in Nat /\ n \in Nat /\ SizeAt(addr) = n
  <2> DEFINE x == <<addr, n>>
  <2>1. x \in Accesses /\ x[1] = addr /\ x[2] = n /\ x[1] % x[2] = 0
    OBVIOUS
  <2> HIDE DEF x
  <2>2. x[1] \in Nat /\ x[2] \in Nat
    BY <2>1, AccessIs
  <2>3. SizeAt(x[1]) = x[2]
    BY <2>1, SizeAtIs
  <2> QED
    BY <2>1, <2>2, <2>3
<1>2. PICK new \in EntriesOf(u) : new.addr = addr /\ \A i \in 0 .. n - 1 : new.data[i] = p[i]
  BY DEF Patches
<1>3. \A e : e.addr # addr => (e \in EntriesOf(t) <=> e \in EntriesOf(u))
  BY DEF Patches
<1>4. \A e : e.addr = addr => BytesOf(e) = addr .. addr + n - 1
  BY <1>1 DEF BytesOf
<1>5. /\ DOMAIN f = StoredBytesOf(t) /\ DOMAIN h = StoredBytesOf(u)
      /\ \A a : a \in StoredBytesOf(t) <=> \E e \in EntriesOf(t) : a \in BytesOf(e)
      /\ \A a : a \in StoredBytesOf(u) <=> \E e \in EntriesOf(u) : a \in BytesOf(e)
      /\ \A e \in EntriesOf(t) : \A a \in BytesOf(e) : f[a] = e.data[a - e.addr]
      /\ \A e \in EntriesOf(u) : \A a \in BytesOf(e) : h[a] = e.data[a - e.addr]
  BY StoredOfIs
<1>6. DOMAIN g = addr .. addr + n - 1 /\ \A a \in addr .. addr + n - 1 : g[a] = p[a - addr]
  OBVIOUS
<1>f. h = [x \in DOMAIN h |-> h[x]]
  BY DEF StoredOf
<1> HIDE DEF f, g, h
<1>7. \A a : a \in DOMAIN h <=> a \in DOMAIN f \/ a \in DOMAIN g
  <2> TAKE a
  <2>1. ASSUME a \in DOMAIN h, a \notin DOMAIN g PROVE a \in DOMAIN f
    <3>1. PICK e \in EntriesOf(u) : a \in BytesOf(e)
      BY <1>5, <2>1
    <3>2. e.addr # addr
      BY <1>4, <1>6, <2>1, <3>1
    <3>3. e \in EntriesOf(t)
      BY <1>3, <3>2
    <3> QED
      BY <1>5, <3>1, <3>3
  <2>2. ASSUME a \in DOMAIN g PROVE a \in DOMAIN h
    <3>1. a \in BytesOf(new)
      BY <1>2, <1>4, <1>6, <2>2
    <3> QED
      BY <1>2, <1>5, <3>1
  <2>3. ASSUME a \in DOMAIN f, a \notin DOMAIN g PROVE a \in DOMAIN h
    <3>1. PICK e \in EntriesOf(t) : a \in BytesOf(e)
      BY <1>5, <2>3
    <3>2. e.addr # addr
      BY <1>4, <1>6, <2>3, <3>1
    <3>3. e \in EntriesOf(u)
      BY <1>3, <3>2
    <3> QED
      BY <1>5, <3>1, <3>3
  <2> QED
    BY <2>1, <2>2, <2>3
<1>8. \A a \in DOMAIN g : h[a] = g[a]
  <2> TAKE a \in DOMAIN g
  <2>1. a \in BytesOf(new) /\ a - addr \in 0 .. n - 1
    BY <1>1, <1>2, <1>4, <1>6
  <2> QED
    BY <1>2, <1>5, <1>6, <2>1
<1>9. \A a \in DOMAIN h : a \notin DOMAIN g => h[a] = f[a]
  <2> TAKE a \in DOMAIN h
  <2> HAVE a \notin DOMAIN g
  <2>1. PICK e \in EntriesOf(u) : a \in BytesOf(e)
    BY <1>5
  <2>2. e.addr # addr
    BY <1>4, <1>6, <2>1
  <2>3. e \in EntriesOf(t)
    BY <1>3, <2>2
  <2> QED
    BY <1>5, <2>1, <2>3
<1>10. h = [x \in DOMAIN f \cup DOMAIN g |-> IF x \in DOMAIN g THEN g[x] ELSE f[x]]
  <2>1. DOMAIN h = DOMAIN f \cup DOMAIN g
    BY <1>7
  <2> QED
    BY <1>f, <1>8, <1>9, <2>1
<1> QED
  BY <1>10 DEF f, g, h, Precise!Over, Precise!At

\* What a lookup finds is what is stored.
LEMMA CopiedIs ==
    ASSUME NEW t, TableOK(t), NEW addr, NEW n, <<addr, n>> \in Accesses, addr % n = 0,
           NEW e \in EntriesOf(t), e.addr = addr
    PROVE  \A i \in 0 .. n - 1 : /\ addr + i \in StoredBytesOf(t)
                                 /\ StoredOf(t)[addr + i] = e.data[i]
<1> TAKE i \in 0 .. n - 1
<1> DEFINE x == <<addr, n>>
<1>1. x \in Accesses /\ x[1] = addr /\ x[2] = n /\ x[1] % x[2] = 0
  OBVIOUS
<1> HIDE DEF x
<1>2. addr \in Nat /\ n \in Nat /\ SizeAt(addr) = n
  BY <1>1, AccessIs, SizeAtIs
<1>3. addr + i \in BytesOf(e) /\ (addr + i) - addr = i
  BY <1>2 DEF BytesOf
<1> QED
  BY <1>3, StoredOfIs

LEMMA NotCopiedIs ==
    ASSUME NEW t, TableOK(t), NEW addr, NEW n, <<addr, n>> \in Accesses, addr % n = 0,
           \A e \in EntriesOf(t) : e.addr # addr
    PROVE  \A i \in 0 .. n - 1 : addr + i \notin StoredBytesOf(t)
<1> SUFFICES ASSUME NEW i \in 0 .. n - 1, addr + i \in StoredBytesOf(t) PROVE FALSE
  OBVIOUS
<1> DEFINE x == <<addr, n>>
<1>1. x \in Accesses /\ x[1] = addr /\ x[2] = n /\ x[1] % x[2] = 0
  OBVIOUS
<1>2. PICK e \in EntriesOf(t) : addr + i \in BytesOf(e)
  BY StoredOfIs
<1>3. e.addr # addr /\ Storable(e.addr)
  BY <1>2, EntryIs
<1> DEFINE y == <<e.addr, SizeAt(e.addr)>>
<1>4. y \in Accesses /\ y[1] = e.addr /\ y[2] = SizeAt(e.addr) /\ y[1] % y[2] = 0
  BY <1>3, StorableIs
<1> HIDE DEF x, y
<1>5. x[1] \in Nat /\ x[2] \in Nat /\ y[1] \in Nat /\ y[2] \in Nat
  BY <1>1, <1>4, AccessIs
<1>6. /\ addr + i \in Nat /\ x[1] <= addr + i /\ addr + i < x[1] + x[2]
      /\ y[1] <= addr + i /\ addr + i < y[1] + y[2]
  BY <1>1, <1>2, <1>4, <1>5 DEF BytesOf
<1>7. x = y
  BY <1>1, <1>4, <1>6, AccessesDisjoint
<1> QED
  BY <1>1, <1>3, <1>4, <1>7

-----------------------------------------------------------------------------
(* The invariant *)

\* The entries of the store table and those on the free list.
Pool(t, free, all) ==
    /\ TableOK(t) /\ free \in Nat /\ all \in Nat /\ free <= all
    /\ ~ bugcompat_mode => all = free + Cardinality(Places(t))
    /\ bugcompat_mode => \A i \in Chains : t[i] = << >>

Emptied(t) == \A i \in Chains : t[i] = << >>

RegsOK ==
    /\ regs \in [Registers -> Values] /\ spec_regs \in [Registers -> Values]
    /\ wrote \subseteq Registers /\ use_spec = {SetBit(r) : r \in wrote}

\* The inductive invariant of SpecState.
SInv ==
    /\ uses \in Programs /\ spec_mode \in BOOLEAN
    /\ RegsOK /\ MemOK(mem) /\ Pool(store_htable, bucket_free_list, entries)
    /\ ~ spec_mode => wrote = {} /\ Emptied(store_htable)

LEMMA TableTable == \A t : TableOK(t) => ListTable(t, Chains) /\ IsFiniteSet(Chains)
<1> TAKE t
<1> HAVE TableOK(t)
<1>1. t \in [Chains -> Seq(StoreEntry)]
  BY DEF TableOK, TableType
<1>2. IsFiniteSet(Chains)
  BY FS_Interval, SpecStateAssumption DEF Chains
<1> QED
  BY <1>1, <1>2, ListTableIs

\* The same number of entries: as many on the free list as before.
LEMMA PoolSame ==
    ASSUME NEW t, NEW u, NEW free, NEW all, Pool(t, free, all), ~ bugcompat_mode,
           TableOK(u), SameLengths(t, u, Chains)
    PROVE  Pool(u, free, all)
<1>1. ListTable(t, Chains) /\ ListTable(u, Chains)
  BY TableTable DEF Pool
<1>2. Places(t) = Places(u)
  BY <1>1, PlacesSame
<1> QED
  BY <1>2 DEF Pool

\* A new entry in the table is from the free list, or new.
LEMMA PoolMore ==
    ASSUME NEW t, NEW u, NEW free, NEW all, Pool(t, free, all), ~ bugcompat_mode,
           TableOK(u), NEW i \in Chains, LongerAt(t, u, Chains, i)
    PROVE  /\ Pool(u, free, all + 1)
           /\ free # 0 => Pool(u, free - 1, all)
<1>1. ListTable(t, Chains) /\ ListTable(u, Chains) /\ IsFiniteSet(Chains)
  BY TableTable DEF Pool
<1>2. Cardinality(Places(t)) \in Nat /\ Cardinality(Places(u)) = Cardinality(Places(t)) + 1
  BY <1>1, PlacesOneMore
<1> QED
  BY <1>2 DEF Pool

\* tracer_recover: every entry to the free list.
LEMMA PoolRelease ==
    ASSUME NEW t, NEW free, NEW all, Pool(t, free, all)
    PROVE  LET u == [i \in DOMAIN t |-> << >>]
           IN  Pool(u, free + Cardinality(Places(t)), all) /\ Emptied(u)
<1> DEFINE u == [i \in DOMAIN t |-> << >>]
<1>1. DOMAIN t = Chains
  BY DEF Pool, TableOK, TableType
<1>2. DOMAIN u = Chains /\ Emptied(u)
  BY <1>1 DEF Emptied
<1>3. TableOK(u)
  <2>1. u \in [Chains -> Seq(StoreEntry)]
    BY <1>1
  <2>2. \A i \in Chains : DOMAIN u[i] = {}
    BY <1>2 DEF Emptied
  <2> QED
    BY <2>1, <2>2 DEF TableOK, TableType, InChain, OneEntry
<1>4. Cardinality(Places(u)) = 0
  <2>1. \A i \in DOMAIN u : u[i] = << >>
    OBVIOUS
  <2> HIDE DEF u
  <2> QED
    BY <2>1, PlacesNone
<1>5. Cardinality(Places(t)) \in Nat
  <2>1. ListTable(t, Chains) /\ IsFiniteSet(Chains)
    BY TableTable DEF Pool
  <2> QED
    BY <2>1, PlacesFinite, FS_CardinalityType
<1>6. bugcompat_mode => Cardinality(Places(t)) = 0
  <2> HAVE bugcompat_mode
  <2>1. \A i \in DOMAIN t : t[i] = << >>
    BY <1>1 DEF Pool
  <2> QED
    BY <2>1, PlacesNone
<1> HIDE DEF u
<1>7. Pool(u, free + Cardinality(Places(t)), all)
  BY <1>2, <1>3, <1>4, <1>5, <1>6, SpecStateAssumption DEF Pool, Emptied
<1> QED
  BY <1>2, <1>7 DEF u

\* The data of an entry after a store to it.
LEMMA PatchedIs ==
    ASSUME NEW d \in [0 .. MAX_BYTES - 1 -> Bytes], NEW n \in 1 .. MAX_BYTES,
           NEW p \in [0 .. n - 1 -> Bytes]
    PROVE  /\ Patched(d, p, n) \in [0 .. MAX_BYTES - 1 -> Bytes]
           /\ \A j \in 0 .. n - 1 : Patched(d, p, n)[j] = p[j]
<1>1. MAX_BYTES \in Nat
  BY SpecStateAssumption
<1> QED
  BY <1>1 DEF Patched

\* A read of spec_mem_access: what it leaves of the table and of the memory.
LEMMA SpecReadIs ==
    ASSUME SInv, NEW x \in Accesses, SpecRead(x[1], x[2])
    PROVE  /\ Pool(store_htable', bucket_free_list, entries)
           /\ EntriesOf(store_htable') = EntriesOf(store_htable)
           /\ MemOK(mem') /\ \A a \in Nat : MEM_READ(mem', a) = MEM_READ(mem, a)
<1>1. PICK t, f, n : t = store_htable /\ f = bucket_free_list /\ n = entries
  OBVIOUS
<1>2. Pool(t, f, n) /\ MemOK(mem)
  BY <1>1 DEF SInv
<1>3. x[1] \in Nat
  BY AccessIs
<1>4. CASE UNCHANGED <<store_htable, mem>>
  BY <1>1, <1>2, <1>4
<1>5. CASE UNCHANGED store_htable /\ mem' = mem_translate(mem, x[1])
  <2>1. PICK m : m = mem
    OBVIOUS
  <2>2. MemOK(m)
    BY <1>2, <2>1
  <2> DEFINE q == mem_translate(m, x[1])
  <2>3. MemOK(q) /\ SamePages(m, q)
    BY <1>3, <2>2, TranslateIs
  <2> HIDE DEF q
  <2>4. \A a \in Nat : MEM_READ(m, a) = MEM_READ(q, a)
    BY <2>2, <2>3, SamePagesRead
  <2>5. mem' = q
    BY <1>5, <2>1 DEF q
  <2> QED
    BY <1>1, <1>2, <1>5, <2>1, <2>3, <2>4, <2>5
<1>6. CASE /\ UNCHANGED mem
           /\ \E k \in Copied(x[1]) :
                 store_htable' = [store_htable EXCEPT ![HASH_ADDR(x[1])] = MoveToFront(@, k)]
  <2>1. PICK i \in Chains : i = HASH_ADDR(x[1])
    BY <1>3, HashType
  <2>2. PICK k : k \in Copied(x[1]) /\ store_htable' = [t EXCEPT ![i] = MoveToFront(@, k)]
    BY <1>1, <1>6, <2>1
  <2>3. TableOK(t) /\ t \in [Chains -> Seq(StoreEntry)]
    BY <1>2 DEF Pool, TableOK, TableType
  <2>4. k \in 1 .. Len(t[i])
    BY <1>1, <2>1, <2>2, <2>3, LenProperties DEF Copied, chain
  <2> DEFINE u == [t EXCEPT ![i] = MoveToFront(t[i], k)]
  <2>5. TableOK(u) /\ EntriesOf(u) = EntriesOf(t) /\ SameLengths(t, u, Chains)
    BY <2>3, <2>4, LookupIs
  <2>6. store_htable' = u
    BY <2>2, <2>3
  <2> HIDE DEF u
  <2>7. ~ bugcompat_mode
    <3> SUFFICES ASSUME bugcompat_mode PROVE FALSE
      OBVIOUS
    <3>1. t[i] = << >>
      BY <1>2 DEF Pool
    <3> QED
      BY <2>4, <3>1
  <2>8. Pool(u, f, n)
    BY <1>2, <2>5, <2>7, PoolSame
  <2> QED
    BY <1>1, <1>2, <1>6, <2>5, <2>6, <2>8
<1> QED
  BY <1>4, <1>5, <1>6 DEF SpecRead

\* A write of spec_mem_access: the table holds its bytes.
LEMMA InsertIs ==
    ASSUME SInv, NEW x \in Accesses, x[1] % x[2] = 0, NEW p \in [0 .. x[2] - 1 -> Bytes],
           Insert(x[1], p, x[2])
    PROVE  /\ Pool(store_htable', bucket_free_list', entries')
           /\ ~ bugcompat_mode => Patches(store_htable, store_htable', x[1], x[2], p)
<1>1. PICK t, f, n : t = store_htable /\ f = bucket_free_list /\ n = entries
  OBVIOUS
<1>2. Pool(t, f, n) /\ TableOK(t) /\ t \in [Chains -> Seq(StoreEntry)]
  BY <1>1 DEF SInv, Pool, TableOK, TableType
<1>3. x[1] \in Nat /\ x[2] \in 1 .. MAX_BYTES
  BY AccessIs
<1>4. PICK addr, w : addr = x[1] /\ w = x[2]
  OBVIOUS
<1>5. addr \in Nat /\ w \in 1 .. MAX_BYTES /\ Storable(addr) /\ p \in [0 .. w - 1 -> Bytes]
  BY <1>3, <1>4 DEF Storable
<1>6. PICK i \in Chains : i = HASH_ADDR(addr)
  BY <1>5, HashType
<1>7. t[i] \in Seq(StoreEntry) /\ DOMAIN t[i] = 1 .. Len(t[i])
  BY <1>2, LenProperties
<1>8. /\ chain(addr) = t[i]
      /\ \A k : k \in Copied(addr) <=> k \in 1 .. Len(t[i]) /\ t[i][k].addr = addr
  BY <1>1, <1>6, <1>7 DEF Copied, chain
<1>9. ASSUME NEW k \in Copied(addr), UNCHANGED <<bucket_free_list, entries>>,
             store_htable' = [store_htable EXCEPT ![i] =
                                 FirstPatched(MoveToFront(@, k), p, w)]
      PROVE  /\ Pool(store_htable', f, n)
             /\ Patches(t, store_htable', addr, w, p)
  <2>1. k \in 1 .. Len(t[i]) /\ t[i][k].addr = addr
    BY <1>8, <1>9
  <2>2. ~ bugcompat_mode
    <3> SUFFICES ASSUME bugcompat_mode PROVE FALSE
      OBVIOUS
    <3>1. t[i] = << >>
      BY <1>2 DEF Pool
    <3> QED
      BY <2>1, <3>1
  <2> DEFINE m == MoveToFront(t[i], k)
             d == Patched(m[1].data, p, w)
             u == [t EXCEPT ![i] = [MoveToFront(t[i], k) EXCEPT ![1].data = d]]
  <2>3. GoodChain(m, i) /\ m[1] = t[i][k]
    BY <1>2, <2>1, LookupIs
  <2>4. m[1].data \in [0 .. MAX_BYTES - 1 -> Bytes]
    <3>1. t[i][k] \in StoreEntry
      BY <1>7, <2>1, ElementOfSeq
    <3> QED
      BY <2>3, <3>1 DEF StoreEntry
  <2>5. u = store_htable'
    <3>1. FirstPatched(m, p, w) = [m EXCEPT ![1].data = d]
      BY DEF FirstPatched
    <3>2. store_htable' = [t EXCEPT ![i] = FirstPatched(m, p, w)]
      BY <1>1, <1>2, <1>9
    <3> QED
      BY <3>1, <3>2
  <2> HIDE DEF m
  <2>6. d \in [0 .. MAX_BYTES - 1 -> Bytes] /\ \A j \in 0 .. w - 1 : d[j] = p[j]
    BY <1>5, <2>4, PatchedIs
  <2> HIDE DEF d
  <2>7. /\ TableOK(u) /\ SameLengths(t, u, Chains)
        /\ \A v, q : (\A j \in 0 .. v - 1 : d[j] = q[j]) => Patches(t, u, t[i][k].addr, v, q)
    BY <1>2, <2>1, <2>6, StoreAgainIs
  <2> HIDE DEF u
  <2>8. Patches(t, u, addr, w, p)
    BY <2>1, <2>6, <2>7
  <2>9. Pool(u, f, n)
    BY <1>2, <2>2, <2>7, PoolSame
  <2> QED
    BY <2>5, <2>8, <2>9
<1>10. ASSUME Copied(addr) = {}, TakeEntry,
              store_htable' =
                 IF bugcompat_mode THEN store_htable
                 ELSE [store_htable EXCEPT ![i] =
                          <<[addr |-> addr, data |-> Patched(Zeros(MAX_BYTES), p, w)]>> \o @]
       PROVE  /\ Pool(store_htable', bucket_free_list', entries')
              /\ ~ bugcompat_mode => Patches(t, store_htable', addr, w, p)
  <2>1. \/ f = 0 /\ entries' = n + 1 /\ bucket_free_list' = f
        \/ f # 0 /\ entries' = n /\ bucket_free_list' = f - 1
    BY <1>1, <1>10 DEF TakeEntry
  <2>2. CASE bugcompat_mode
    BY <1>1, <1>2, <1>10, <2>1, <2>2 DEF Pool
  <2>3. CASE ~ bugcompat_mode
    <3> DEFINE d == Patched(Zeros(MAX_BYTES), p, w)
               new == [addr |-> addr, data |-> d]
               u == [t EXCEPT ![HASH_ADDR(new.addr)] = <<new>> \o @]
    <3>1. d \in [0 .. MAX_BYTES - 1 -> Bytes] /\ \A j \in 0 .. w - 1 : d[j] = p[j]
      <4>1. Zeros(MAX_BYTES) \in [0 .. MAX_BYTES - 1 -> Bytes]
        BY SpecStateAssumption DEF Zeros
      <4> QED
        BY <1>5, <4>1, PatchedIs
    <3>2. u = store_htable'
      BY <1>1, <1>2, <1>6, <1>10, <2>3
    <3> HIDE DEF d
    <3>3. new \in StoreEntry /\ new.addr = addr /\ new.data = d
      BY <1>5, <3>1 DEF StoreEntry
    <3> HIDE DEF new
    <3>4. \A k \in DOMAIN t[HASH_ADDR(new.addr)] : t[HASH_ADDR(new.addr)][k].addr # new.addr
      BY <1>6, <1>7, <1>8, <1>10, <3>3
    <3>5. Storable(new.addr)
      BY <1>5, <3>3
    <3>6. /\ TableOK(u) /\ LongerAt(t, u, Chains, HASH_ADDR(new.addr))
          /\ \A v, q : (\A j \in 0 .. v - 1 : new.data[j] = q[j]) => Patches(t, u, new.addr, v, q)
      BY <1>2, <3>3, <3>4, <3>5, StoreNewIs
    <3> HIDE DEF u
    <3>7. Patches(t, u, addr, w, p)
      BY <3>1, <3>3, <3>6
    <3>8. Pool(u, f, n + 1) /\ (f # 0 => Pool(u, f - 1, n))
      BY <1>2, <1>6, <2>3, <3>3, <3>6, PoolMore
    <3>9. Pool(u, bucket_free_list', entries')
      BY <2>1, <3>8
    <3> QED
      BY <3>2, <3>7, <3>9
  <2> QED
    BY <2>2, <2>3
<1> QED
  BY <1>1, <1>4, <1>6, <1>9, <1>10, <1>2 DEF Insert

\* An operand is a set of registers: of a pair both are there.
LEMMA OperandsIn ==
    ASSUME NEW U, NEW R \in OperandsOf(U)
    PROVE  R \subseteq Registers
<1>1. PICK k : R \in Named(k)
  BY DEF OperandsOf
<1>2. MD_NUM_IREGS \in Nat /\ MD_NUM_FREGS \in Nat
      /\ (TARGET = "PISA" => MD_NUM_FREGS % 2 = 0)
  BY SpecStateAssumption
<1>3. CASE k = "R"
  BY <1>1, <1>3 DEF Named, Registers
<1>4. CASE k = "F"
  BY <1>1, <1>4 DEF Named, Registers
<1>5. CASE k = "C"
  BY <1>1, <1>5 DEF Named, Registers
<1>6. CASE k = "D"
  <2>1. PICK n \in DoubleNames : R = Pair(n)
    BY <1>1, <1>6 DEF Named
  <2>2. n \in 0 .. MD_NUM_FREGS - 1 /\ (TARGET = "PISA" => n % 2 = 0)
    BY <2>1 DEF DoubleNames
  <2>3. TARGET = "PISA" => n + 1 \in 0 .. MD_NUM_FREGS - 1
    BY <1>2, <2>2
  <2> QED
    BY <2>1, <2>2, <2>3 DEF Pair, Registers
<1> QED
  BY <1>1, <1>3, <1>4, <1>5, <1>6 DEF Named

LEMMA SInvInit == Init => SInv
<1> SUFFICES ASSUME Init PROVE SInv
  OBVIOUS
<1> USE DEF Init
<1>1. uses \in Programs /\ spec_mode \in BOOLEAN
  OBVIOUS
<1>2. RegsOK
  BY SpecStateAssumption DEF RegsOK
<1>3. MemOK(mem)
  <2>1. mem.ptab = [i \in Buckets |-> << >>] /\ mem.page_count = 0
        /\ mem = [ptab |-> mem.ptab, page_count |-> mem.page_count]
    BY DEF mem_create, Buckets
  <2>2. mem.ptab \in [Buckets -> Seq(PTE)]
    BY <2>1
  <2>3. \A i \in DOMAIN mem.ptab : mem.ptab[i] = << >>
    BY <2>1
  <2>4. PICK t : t = mem.ptab
    OBVIOUS
  <2>5. Cardinality(Places(t)) = 0
    BY <2>3, <2>4, PlacesNone
  <2>6. \A i \in DOMAIN mem.ptab : DOMAIN mem.ptab[i] = {}
    BY <2>3
  <2>7. mem \in MemType
    <3> DEFINE empty == [i \in Buckets |-> << >>]
    <3>1. mem = [ptab |-> empty, page_count |-> 0] /\ empty \in [Buckets -> Seq(PTE)]
      BY DEF mem_create, Buckets
    <3> HIDE DEF empty, Init
    <3> QED
      BY <3>1 DEF MemType
  <2>8. OnePage(mem)
    BY <2>6 DEF OnePage
  <2>9. Counted(mem)
    BY <2>1, <2>4, <2>5, Zenon DEF Counted
  <2> QED
    BY <2>7, <2>8, <2>9 DEF MemOK
<1>4. Pool(store_htable, bucket_free_list, entries) /\ Emptied(store_htable)
  <2>1. PICK t : t = store_htable
    OBVIOUS
  <2>2. t \in [Chains -> Seq(StoreEntry)] /\ Emptied(t) /\ DOMAIN t = Chains
    BY <2>1 DEF Chains, Emptied
  <2>3. TableOK(t)
    <3>1. \A i \in Chains : DOMAIN t[i] = {}
      BY <2>2 DEF Emptied
    <3> QED
      BY <2>2, <3>1 DEF TableOK, TableType, InChain, OneEntry
  <2>4. Cardinality(Places(t)) = 0
    BY <2>2, PlacesNone DEF Emptied
  <2>5. bucket_free_list = 0 /\ entries = 0
    OBVIOUS
  <2>6. Pool(t, 0, 0)
    BY <2>2, <2>3, <2>4 DEF Pool, Emptied
  <2> QED
    BY <2>1, <2>2, <2>5, <2>6, Zenon
<1> QED
  BY <1>1, <1>2, <1>3, <1>4 DEF SInv

\* Recovery puts every entry on the free list and forgets the copies.
LEMMA SInvRecover == ASSUME SInv, Recover, UNCHANGED uses PROVE SInv'
<1>1. PICK t, f, n : t = store_htable /\ f = bucket_free_list /\ n = entries
  OBVIOUS
<1>2. Pool(t, f, n) /\ DOMAIN t = Chains
  BY <1>1 DEF SInv, Pool, TableOK, TableType
<1> DEFINE u == [i \in DOMAIN t |-> << >>]
<1>3. Pool(u, f + Cardinality(Places(t)), n) /\ Emptied(u)
  BY <1>2, PoolRelease
<1>4. store_htable' = u /\ bucket_free_list' = f + Cardinality(Places(t)) /\ entries' = n
  BY <1>1 DEF Recover, ReleaseEntries
<1> HIDE DEF u
<1>5. Pool(store_htable', bucket_free_list', entries') /\ Emptied(store_htable')
  BY <1>3, <1>4
<1>6. RegsOK'
  BY DEF SInv, RegsOK, Recover
<1> QED
  BY <1>5, <1>6 DEF SInv, Recover

LEMMA SInvSetRegs ==
    ASSUME SInv, UNCHANGED uses, NEW R \in OperandsOf(uses), NEW f \in [R -> Values],
           SetRegs(R, f)
    PROVE  SInv'
<1>1. R \subseteq Registers
  BY OperandsIn
<1>2. RegsOK'
  BY <1>1 DEF SInv, RegsOK, SetRegs
<1> QED
  BY <1>2 DEF SInv, SetRegs

\* READ_BYTE and its kin.
LEMMA SInvLoad ==
    ASSUME SInv, UNCHANGED uses, NEW x \in Accesses, Load(x[1], x[2])
    PROVE  SInv'
<1>1. x[1] \in Nat /\ x[2] \in Nat
  BY AccessIs
<1>2. CASE spec_mode
  <2>1. SpecRead(x[1], x[2])
    BY <1>2 DEF Load
  <2>2. Pool(store_htable', bucket_free_list, entries) /\ MemOK(mem')
    BY <2>1, SpecReadIs
  <2> QED
    BY <1>2, <2>2 DEF Load, SInv, RegsOK
<1>3. CASE ~ spec_mode
  <2>1. PICK m : m = mem /\ MemOK(m)
    BY DEF SInv
  <2>2. MemOK(ReadOver(m, x[1], x[2]))
    BY <1>1, <2>1, ReadOverIs
  <2>3. mem' = m \/ mem' = ReadOver(m, x[1], x[2])
    BY <1>3, <2>1 DEF Load, mem_access
  <2>4. MemOK(mem')
    BY <2>1, <2>2, <2>3
  <2> QED
    BY <1>3, <2>4 DEF Load, SInv, RegsOK
<1> QED
  BY <1>2, <1>3

\* WRITE_BYTE and its kin.
LEMMA SInvStore ==
    ASSUME SInv, UNCHANGED uses, NEW x \in Accesses, NEW p \in [0 .. x[2] - 1 -> Bytes],
           Store(x[1], x[2], p)
    PROVE  SInv'
<1>1. x[1] \in Nat /\ x[2] \in Nat
  BY AccessIs
<1>2. CASE spec_mode
  <2>1. SpecWrite(x[1], x[2], p)
    BY <1>2 DEF Store
  <2>2. Pool(store_htable', bucket_free_list', entries')
    <3>1. CASE UNCHANGED <<store_htable, bucket_free_list, entries>>
      BY <3>1 DEF SInv
    <3>2. CASE x[1] % x[2] = 0 /\ Insert(x[1], p, x[2])
      BY <3>2, InsertIs
    <3> QED
      BY <2>1, <3>1, <3>2 DEF SpecWrite, Aligned
  <2> QED
    BY <1>2, <2>2 DEF Store, SInv, RegsOK
<1>3. CASE ~ spec_mode
  <2>1. PICK m : m = mem /\ MemOK(m)
    BY DEF SInv
  <2>2. MemOK(Stored(m, x[1], p, x[2]))
    <3>1. p \in Buffer(x[2])
      BY DEF Buffer
    <3> QED
      BY <1>1, <2>1, <3>1, StoredIs
  <2>3. mem' = m \/ mem' = Stored(m, x[1], p, x[2])
    BY <1>3, <2>1 DEF Store, mem_access
  <2>4. MemOK(mem')
    BY <2>1, <2>2, <2>3
  <2> QED
    BY <1>3, <2>4 DEF Store, SInv, RegsOK
<1> QED
  BY <1>2, <1>3

LEMMA SInvNext == SInv /\ [Next]_vars => SInv'
<1> SUFFICES ASSUME SInv, [Next]_vars PROVE SInv'
  OBVIOUS
<1>1. CASE UNCHANGED vars
  BY <1>1 DEF vars, specVars, SInv, RegsOK
<1>2. CASE Next
  <2>1. UNCHANGED uses
    BY <1>2 DEF Next
  <2>2. CASE Misspeculate
    BY <2>1, <2>2 DEF Misspeculate, specVars, SInv, RegsOK
  <2>3. CASE Recover
    BY <2>1, <2>3, SInvRecover
  <2>4. ASSUME NEW R \in OperandsOf(uses), ReadRegs(R) PROVE SInv'
    BY <2>1, <2>4 DEF ReadRegs, specVars, SInv, RegsOK
  <2>5. ASSUME NEW R \in OperandsOf(uses), NEW f \in [R -> Values], SetRegs(R, f) PROVE SInv'
    BY <2>1, <2>5, SInvSetRegs
  <2>6. ASSUME NEW x \in Accesses, Load(x[1], x[2]) PROVE SInv'
    BY <2>1, <2>6, SInvLoad
  <2>7. ASSUME NEW x \in Accesses, NEW p \in [0 .. x[2] - 1 -> Bytes], Store(x[1], x[2], p)
        PROVE  SInv'
    BY <2>1, <2>7, SInvStore
  <2> QED
    BY <1>2, <2>2, <2>3, <2>4, <2>5, <2>6, <2>7 DEF Next
<1> QED
  BY <1>1, <1>2

\* The inductive invariant implies that the tables are sound.
LEMMA SInvSound == SInv => TablesSound
<1> SUFFICES ASSUME SInv PROVE TablesSound
  OBVIOUS
<1>1. PICK t, f, n : t = store_htable /\ f = bucket_free_list /\ n = entries
  OBVIOUS
<1>2. Pool(t, f, n) /\ TableOK(t) /\ DOMAIN t = Chains /\ t \in [Chains -> Seq(StoreEntry)]
  BY <1>1 DEF SInv, Pool, TableOK, TableType
<1>3. \A i \in Chains : DOMAIN t[i] = 1 .. Len(t[i])
                       /\ \A k \in DOMAIN t[i] : t[i][k] \in StoreEntry
  BY <1>2, LenProperties, ElementOfSeq
<1>4. TypeOK
  <2>1. use_spec \subseteq {SetBit(r) : r \in Registers}
    BY DEF SInv, RegsOK
  <2>2. \A i \in Chains : \A k \in DOMAIN t[i] : t[i][k].data \in [0 .. MAX_BYTES - 1 -> Bytes]
    BY <1>3 DEF StoreEntry
  <2>3. f \in 0 .. n
    BY <1>2 DEF Pool
  <2> QED
    BY <1>1, <1>2, <2>1, <2>2, <2>3 DEF TypeOK, SInv, RegsOK
<1>5. \A i \in DOMAIN t : \A j, k \in DOMAIN t[i] :
          HASH_ADDR(t[i][k].addr) = i /\ (t[i][j].addr = t[i][k].addr => j = k)
  BY <1>2 DEF TableOK, InChain, OneEntry
<1>6. ~ spec_mode => use_spec = {} /\ \A i \in DOMAIN t : t[i] = << >>
  BY <1>1, <1>2 DEF SInv, RegsOK, Emptied
<1>7. ~ bugcompat_mode => n = f + Cardinality(Places(t))
  BY <1>2 DEF Pool
<1>8. PagesSound(mem)
  BY DEF SInv, MemOK, OnePage, Counted, PagesSound
<1> QED
  BY <1>1, <1>4, <1>5, <1>6, <1>7, <1>8 DEF TablesSound

\* Whatever the wrong paths do, the store table has each address once and in
\* the chain of its hash, no page is mapped twice, no entry is lost, and
\* tracer_recover leaves the table and the maps of copied registers empty.
THEOREM TablesStaySound == Spec => []TablesSound
<1>1. Spec => []SInv
  BY SInvInit, SInvNext, PTL DEF Spec
<1> QED
  BY <1>1, SInvSound, PTL

-----------------------------------------------------------------------------
(* What a wrong path promises *)

\* The hypothesis of the refinement.  Without it the code does not implement
\* PreciseState: FPR_F and FPR_L of the PISA target copy half of a pair and
\* mark it all, the Alpha target marks FCC by another bit than it tests,
\* and -bugcompat loses the stores of a wrong path.
WholeCopies ==
    /\ ~ bugcompat_mode
    /\ \A U \in Programs : IF TARGET = "PISA" THEN "F" \notin U ELSE "C" \notin U

UsedRegs == UNION OperandsOf(uses)

\* The copies of a wrong path are of whole operands.
CopiesWhole ==
    /\ wrote \subseteq UsedRegs
    /\ \A r \in wrote : \A q \in UsedRegs : TestBit(q) = TestBit(r) => q \in wrote

PInv == SInv /\ CopiesWhole

LEMMA LimitIs == Limit \in Nat /\ \A x \in Accesses : x[1] + x[2] <= Limit
<1>1. Limit \in {x[1] + x[2] : x \in Accesses} /\ \A x \in Accesses : x[1] + x[2] <= Limit
  BY SpecStateAssumption DEF Limit
<1>2. PICK y \in Accesses : Limit = y[1] + y[2]
  BY <1>1
<1>3. y[1] \in Nat /\ y[2] \in Nat
  BY AccessIs
<1> QED
  BY <1>1, <1>2, <1>3

\* The registers that share a bit with one of an operand are in the operand,
\* and the bit that is set is the one that is tested.
LEMMA WholeOperand ==
    ASSUME WholeCopies, NEW U \in Programs, NEW R \in OperandsOf(U), NEW r \in R
    PROVE  /\ SetBit(r) = TestBit(r)
           /\ \A q \in UNION OperandsOf(U) : TestBit(q) = TestBit(r) => q \in R
<1>1. PICK k \in U : R \in Named(k)
  BY DEF OperandsOf
<1>2. /\ TARGET \in {"PISA", "ALPHA"} /\ MD_NUM_IREGS \in Nat /\ MD_NUM_FREGS \in Nat
      /\ IF TARGET = "PISA" THEN "F" \notin U ELSE "C" \notin U
  BY SpecStateAssumption DEF WholeCopies
<1>3. SetBit(r) = TestBit(r)
  <2>1. CASE r[1] # "C"
    BY <2>1 DEF SetBit
  <2>2. CASE r[1] = "C"
    <3>1. k = "C"
      BY <1>1, <2>2 DEF Named, Pair
    <3> QED
      BY <1>2, <2>2, <3>1 DEF SetBit, TestBit, SetBitC
  <2> QED
    BY <2>1, <2>2
<1>4. ASSUME NEW q \in UNION OperandsOf(U), TestBit(q) = TestBit(r) PROVE q \in R
  <2>1. PICK l \in U : \E Q \in Named(l) : q \in Q
    BY DEF OperandsOf
  <2>2. \A j \in U : \A P \in Named(j) : \A p \in P :
           \/ j = "R" /\ (\E n \in 0 .. MD_NUM_IREGS - 1 : p = <<"R", n>> /\ P = {p})
                  /\ TestBit(p) = p
           \/ j = "C" /\ (\E c \in CRegs : p = <<"C", c>> /\ P = {p})
                  /\ TestBit(p) = <<"C", BitC(p[2])>>
           \/ j \in {"F", "D"} /\ TARGET = "ALPHA"
                  /\ (\E n \in 0 .. MD_NUM_FREGS - 1 : p = <<"F", n>> /\ P = {p})
                  /\ TestBit(p) = p
           \/ j = "D" /\ TARGET = "PISA"
                  /\ \E n \in 0 .. MD_NUM_FREGS - 1 :
                        /\ n % 2 = 0 /\ P = {<<"F", n>>, <<"F", n + 1>>}
                        /\ TestBit(p) = <<"F", n>>
    <3> TAKE j \in U
    <3> TAKE P \in Named(j)
    <3> TAKE p \in P
    <3>1. CASE j = "R"
      BY <3>1 DEF Named, TestBit
    <3>2. CASE j = "C"
      BY <3>2 DEF Named, TestBit
    <3>3. CASE j \in {"F", "D"} /\ TARGET = "ALPHA"
      BY <3>3 DEF Named, TestBit, Pair, DoubleNames
    <3>4. CASE j = "D" /\ TARGET = "PISA"
      <4>1. PICK n \in 0 .. MD_NUM_FREGS - 1 :
               n % 2 = 0 /\ P = {<<"F", n>>, <<"F", n + 1>>}
        BY <3>4 DEF Named, Pair, DoubleNames
      <4>2. (n + 1) % 2 = 1
        BY <1>2, <4>1
      <4>3. TestBit(<<"F", n>>) = <<"F", n>> /\ TestBit(<<"F", n + 1>>) = <<"F", n>>
        BY <1>2, <3>4, <4>1, <4>2 DEF TestBit
      <4> QED
        BY <3>4, <4>1, <4>3
    <3> QED
      BY <1>2, <3>1, <3>2, <3>3, <3>4 DEF Named
  <2>3. \A c, d \in CRegs : BitC(c) = BitC(d) => c = d
    BY <1>2 DEF CRegs, BitC
  <2>4. CASE l = "C" \/ k = "C"
    BY <1>1, <1>4, <2>1, <2>2, <2>3, <2>4
  <2>5. CASE ~ (l = "C" \/ k = "C")
    BY <1>1, <1>4, <2>1, <2>2, <2>5
  <2> QED
    BY <2>4, <2>5
<1> QED
  BY <1>3, <1>4

LEMMA PInvNext ==
    ASSUME WholeCopies
    PROVE  /\ Init => PInv
           /\ PInv /\ [Next]_vars => PInv'
<1>1. Init => PInv
  BY SInvInit DEF Init, PInv, CopiesWhole
<1>2. ASSUME PInv, [Next]_vars PROVE PInv'
  <2>1. SInv'
    BY <1>2, SInvNext DEF PInv
  <2>2. UNCHANGED uses
    BY <1>2 DEF Next, vars
  <2>3. \/ UNCHANGED wrote
        \/ wrote' = {}
        \/ \E R \in OperandsOf(uses) : wrote' = wrote \cup R
    BY <1>2 DEF Next, vars, specVars, Misspeculate, Recover, ReadRegs, SetRegs, Load, Store
  <2>4. UsedRegs' = UsedRegs
    BY <2>2 DEF UsedRegs
  <2>5. ASSUME NEW R \in OperandsOf(uses), wrote' = wrote \cup R PROVE CopiesWhole'
    <3>1. R \subseteq UsedRegs
      BY DEF UsedRegs
    <3>2. uses \in Programs
      BY <1>2 DEF PInv, SInv
    <3>3. \A r \in R : \A q \in UsedRegs : TestBit(q) = TestBit(r) => q \in R
      BY <3>2, WholeOperand DEF UsedRegs
    <3>4. wrote \subseteq UsedRegs
          /\ \A r \in wrote : \A q \in UsedRegs : TestBit(q) = TestBit(r) => q \in wrote
      BY <1>2 DEF PInv, CopiesWhole
    <3>5. wrote' \subseteq UsedRegs
          /\ \A r \in wrote' : \A q \in UsedRegs : TestBit(q) = TestBit(r) => q \in wrote'
      BY <2>5, <3>1, <3>3, <3>4
    <3> QED
      BY <2>4, <3>5 DEF CopiesWhole
  <2>6. CopiesWhole'
    <3>1. CASE UNCHANGED wrote
      BY <1>2, <2>4, <3>1 DEF PInv, CopiesWhole
    <3>2. CASE wrote' = {}
      BY <3>2 DEF CopiesWhole
    <3> QED
      BY <2>3, <2>5, <3>1, <3>2
  <2> QED
    BY <2>1, <2>6 DEF PInv
<1> QED
  BY <1>1, <1>2

\* A register reads as its copy if the wrong path has written it.
LEMMA RegIs ==
    ASSUME WholeCopies, PInv, NEW R \in OperandsOf(uses), NEW r \in R
    PROVE  Reg(r) = Precise!Over(regs, [q \in wrote |-> spec_regs[q]])[r]
<1>1. r \in Registers /\ r \in UsedRegs /\ uses \in Programs
  BY OperandsIn DEF UsedRegs, PInv, SInv
<1>2. use_spec = {SetBit(q) : q \in wrote} /\ wrote \subseteq UsedRegs
      /\ regs \in [Registers -> Values]
  BY DEF PInv, SInv, RegsOK, CopiesWhole
<1>3. \A q \in wrote : SetBit(q) = TestBit(q)
  <2> TAKE q \in wrote
  <2>1. PICK P \in OperandsOf(uses) : q \in P
    BY <1>2 DEF UsedRegs
  <2> QED
    BY <1>1, <2>1, WholeOperand
<1>4. TestBit(r) \in use_spec <=> r \in wrote
  <2>1. ASSUME TestBit(r) \in use_spec PROVE r \in wrote
    <3>1. PICK q \in wrote : TestBit(r) = TestBit(q)
      BY <1>2, <1>3, <2>1
    <3> QED
      BY <1>1, <3>1 DEF PInv, CopiesWhole
  <2>2. ASSUME r \in wrote PROVE TestBit(r) \in use_spec
    BY <1>2, <1>3, <2>2
  <2> QED
    BY <2>1, <2>2
<1> QED
  BY <1>1, <1>2, <1>4 DEF Reg, Precise!Over

\* Memories that read the same have the same content.
LEMMA ContentSame ==
    ASSUME NEW m, NEW q, \A a \in Nat : MEM_READ(q, a) = MEM_READ(m, a)
    PROVE  Content(q, Limit) = Content(m, Limit)
  BY LimitIs DEF Content

LEMMA StoredSame ==
    ASSUME NEW t, NEW u, EntriesOf(u) = EntriesOf(t)
    PROVE  StoredOf(u) = StoredOf(t)
<1>1. StoredBytesOf(u) = StoredBytesOf(t) /\ \A a : HolderOf(u, a) = HolderOf(t, a)
  BY DEF StoredBytesOf, HolderOf
<1> QED
  BY <1>1 DEF StoredOf

LEMMA StoredNothing ==
    ASSUME NEW t, DOMAIN t = Chains, Emptied(t)
    PROVE  StoredOf(t) = Precise!Nothing /\ DOMAIN StoredOf(t) = {}
<1>1. EntriesOf(t) = {}
  BY DEF EntriesOf, Emptied
<1>2. StoredBytesOf(t) = {}
  BY <1>1 DEF StoredBytesOf
<1> QED
  BY <1>2 DEF StoredOf, Precise!Nothing

\* The bytes of an access are in the memory.
LEMMA BytesIn ==
    ASSUME NEW x \in Accesses, NEW i \in 0 .. x[2] - 1
    PROVE  x[1] + i \in Nat /\ x[1] + i \in 0 .. Limit - 1
<1>1. x[1] \in Nat /\ x[2] \in Nat /\ Limit \in Nat /\ x[1] + x[2] <= Limit
  BY AccessIs, LimitIs
<1> QED
  BY <1>1

LEMMA RefinesRegs ==
    ASSUME WholeCopies, PInv, NEW R \in OperandsOf(uses),
           ReadRegs(R) \/ \E f \in [R -> Values] : SetRegs(R, f)
    PROVE  Precise!Next
<1>1. R \in OperandsOf(UNION Programs)
  BY DEF PInv, SInv, OperandsOf
<1>2. CASE ReadRegs(R)
  <2>1. UNCHANGED <<regs, Content(mem, Limit), spec_mode, [q \in wrote |-> spec_regs[q]],
                    StoredOf(store_htable)>>
    BY <1>2 DEF ReadRegs, specVars
  <2>2. out' = <<"regs", [r \in R |-> Precise!Over(regs, [q \in wrote |-> spec_regs[q]])[r]]>>
    BY <1>2, RegIs DEF ReadRegs
  <2>3. Precise!ReadRegs(R)
    BY <2>1, <2>2 DEF Precise!ReadRegs
  <2> QED
    BY <1>1, <2>3 DEF Precise!Next
<1>3. ASSUME NEW f \in [R -> Values], SetRegs(R, f) PROVE Precise!Next
  <2>1. R \subseteq Registers /\ wrote \subseteq Registers /\ regs \in [Registers -> Values]
    BY OperandsIn DEF PInv, SInv, RegsOK
  <2>2. UNCHANGED <<Content(mem, Limit), spec_mode, out, StoredOf(store_htable)>>
    BY <1>3 DEF SetRegs
  <2>3. CASE spec_mode
    <3>1. /\ wrote' = wrote \cup R /\ UNCHANGED regs
          /\ spec_regs' = [r \in Registers |-> IF r \in R THEN f[r] ELSE spec_regs[r]]
      BY <1>3, <2>3 DEF SetRegs
    <3>2. [q \in wrote |-> spec_regs[q]]' = Precise!Over([q \in wrote |-> spec_regs[q]], f)
      <4>1. [q \in wrote |-> spec_regs[q]]' = [q \in wrote' |-> spec_regs'[q]]
        OBVIOUS
      <4>2. \A q \in wrote' : spec_regs'[q] = IF q \in R THEN f[q] ELSE spec_regs[q]
        BY <2>1, <3>1
      <4>3. \A q \in wrote' : q \notin R => q \in wrote
        BY <3>1
      <4> QED
        BY <3>1, <4>1, <4>2, <4>3 DEF Precise!Over
    <3>3. Precise!WriteRegs(f)
      BY <2>2, <2>3, <3>1, <3>2 DEF Precise!WriteRegs
    <3> QED
      BY <1>1, <3>3 DEF Precise!Next
  <2>4. CASE ~ spec_mode
    <3>1. regs' = [r \in Registers |-> IF r \in R THEN f[r] ELSE regs[r]]
      BY <1>3, <2>4 DEF SetRegs
    <3>2. UNCHANGED [q \in wrote |-> spec_regs[q]]
      BY <1>3, <2>4 DEF SetRegs
    <3>3. regs' = Precise!Over(regs, f)
      BY <2>1, <3>1 DEF Precise!Over
    <3>4. Precise!WriteRegs(f)
      BY <2>2, <2>4, <3>2, <3>3 DEF Precise!WriteRegs
    <3> QED
      BY <1>1, <3>4 DEF Precise!Next
  <2> QED
    BY <2>3, <2>4
<1> QED
  BY <1>2, <1>3

LEMMA RefinesPaths ==
    ASSUME PInv, Misspeculate \/ Recover
    PROVE  Precise!Next
<1>1. CASE Misspeculate
  BY <1>1 DEF Misspeculate, specVars, Precise!Next, Precise!Misspeculate
<1>2. CASE Recover
  <2>1. PICK t : t = store_htable
    OBVIOUS
  <2>2. DOMAIN t = Chains
    BY <2>1 DEF PInv, SInv, Pool, TableOK, TableType
  <2> DEFINE u == [i \in DOMAIN t |-> << >>]
  <2>3. DOMAIN u = Chains /\ Emptied(u)
    BY <2>2 DEF Emptied
  <2>4. store_htable' = u
    BY <1>2, <2>1 DEF Recover, ReleaseEntries
  <2> HIDE DEF u
  <2>5. StoredOf(u) = Precise!Nothing
    BY <2>3, StoredNothing
  <2>6. StoredOf(store_htable)' = Precise!Nothing
    BY <2>4, <2>5
  <2>7. [q \in wrote |-> spec_regs[q]]' = Precise!Nothing
    BY <1>2 DEF Recover, Precise!Nothing
  <2>8. Precise!Recover
    BY <1>2, <2>6, <2>7 DEF Recover, Precise!Recover
  <2> QED
    BY <2>8 DEF Precise!Next
<1> QED
  BY <1>1, <1>2

LEMMA RefinesInit == Init => Precise!Init
<1> SUFFICES ASSUME Init PROVE Precise!Init
  OBVIOUS
<1>1. DOMAIN store_htable = Chains /\ Emptied(store_htable)
  BY DEF Init, Chains, Emptied
<1>2. PICK t : t = store_htable
  OBVIOUS
<1>3. StoredOf(t) = Precise!Nothing
  BY <1>1, <1>2, StoredNothing
<1>4. [q \in wrote |-> spec_regs[q]] = Precise!Nothing
  BY DEF Init, Precise!Nothing
<1> QED
  BY <1>2, <1>3, <1>4 DEF Init, Precise!Init

\* A load of a wrong path: from its own stores, else from memory.
LEMMA RefinesSpecLoad ==
    ASSUME WholeCopies, PInv, NEW x \in Accesses, spec_mode, Load(x[1], x[2])
    PROVE  Precise!Load(x[1], x[2])
<1>1. SpecRead(x[1], x[2])
  BY DEF Load
<1>2. /\ EntriesOf(store_htable') = EntriesOf(store_htable)
      /\ \A a \in Nat : MEM_READ(mem', a) = MEM_READ(mem, a)
  BY <1>1, SpecReadIs DEF PInv
<1>3. UNCHANGED <<regs, Content(mem, Limit), spec_mode, [q \in wrote |-> spec_regs[q]],
                  StoredOf(store_htable)>>
  <2>1. UNCHANGED <<regs, spec_mode, wrote, spec_regs>>
    BY DEF Load
  <2>2. Content(mem', Limit) = Content(mem, Limit)
    BY <1>2, ContentSame
  <2>3. StoredOf(store_htable') = StoredOf(store_htable)
    BY <1>2, StoredSame
  <2> QED
    BY <2>1, <2>2, <2>3
<1>4. PICK m, t : m = Content(mem, Limit) /\ t = store_htable
  OBVIOUS
<1>5. PICK addr, n : addr = x[1] /\ n = x[2] /\ x = <<addr, n>>
  BY AccessIs
<1> DEFINE Read == {y \in Accesses : Aligned(y[1], y[2]) /\ Permitted("Read", y[1])}
<1>6. <<addr, n>> \in Read <=> Aligned(addr, n) /\ Permitted("Read", addr)
  BY <1>5
<1>7. out' = <<"bytes", [i \in 0 .. n - 1 |->
                  IF <<addr, n>> \notin Read THEN 0 ELSE Precise!Over(m, StoredOf(t))[addr + i]]>>
  <2>1. CASE <<addr, n>> \notin Read
    BY <1>1, <1>5, <1>6, <2>1 DEF SpecRead, Zeros
  <2>2. CASE <<addr, n>> \in Read
    <3>1. TableOK(t) /\ t \in [Chains -> Seq(StoreEntry)]
      BY <1>4 DEF PInv, SInv, Pool, TableOK, TableType
    <3>2. PICK h \in Chains : h = HASH_ADDR(addr)
      BY <1>5, AccessIs, HashType
    <3>3. t[h] \in Seq(StoreEntry) /\ DOMAIN t[h] = 1 .. Len(t[h])
      BY <3>1, LenProperties
    <3>4. \A k : k \in Copied(addr) <=> k \in 1 .. Len(t[h]) /\ t[h][k].addr = addr
      BY <1>4, <3>2, <3>3 DEF Copied, chain
    <3>5. addr % n = 0 /\ <<addr, n>> \in Accesses
      BY <1>5, <1>6, <2>2 DEF Aligned
    <3>6. DOMAIN m = 0 .. Limit - 1 /\ \A a \in 0 .. Limit - 1 : m[a] = MEM_READ(mem, a)
      BY <1>4 DEF Content
    <3>7. \A i \in 0 .. n - 1 : addr + i \in 0 .. Limit - 1
      BY <1>5, BytesIn
    <3>8. DOMAIN StoredOf(t) = StoredBytesOf(t)
      BY <3>1, StoredOfIs
    <3>9. ASSUME NEW k \in Copied(addr),
                 out' = <<"bytes", [i \in 0 .. n - 1 |-> chain(addr)[k].data[i]]>>
          PROVE  out' = <<"bytes", [i \in 0 .. n - 1 |-> Precise!Over(m, StoredOf(t))[addr + i]]>>
      <4>1. k \in 1 .. Len(t[h]) /\ t[h][k].addr = addr /\ chain(addr) = t[h]
        BY <1>4, <3>2, <3>4, <3>9 DEF chain
      <4>2. t[h][k] \in EntriesOf(t)
        BY <3>1, <4>1, EntryIn
      <4>3. PICK e : e = t[h][k]
        OBVIOUS
      <4>4. \A i \in 0 .. n - 1 : addr + i \in StoredBytesOf(t) /\ StoredOf(t)[addr + i] = e.data[i]
        BY <3>1, <3>5, <4>1, <4>2, <4>3, CopiedIs
      <4>5. \A i \in 0 .. n - 1 : Precise!Over(m, StoredOf(t))[addr + i] = e.data[i]
        BY <3>8, <4>4 DEF Precise!Over
      <4>6. out' = <<"bytes", [i \in 0 .. n - 1 |-> e.data[i]]>>
        BY <3>9, <4>1, <4>3
      <4> QED
        BY <4>5, <4>6
    <3>10. ASSUME Copied(addr) = {},
                  out' = <<"bytes", [i \in 0 .. n - 1 |-> MEM_READ(mem, addr + i)]>>
           PROVE  out' = <<"bytes", [i \in 0 .. n - 1 |-> Precise!Over(m, StoredOf(t))[addr + i]]>>
      <4>1. \A e \in EntriesOf(t) : e.addr # addr
        <5> SUFFICES ASSUME NEW e \in EntriesOf(t), e.addr = addr PROVE FALSE
          OBVIOUS
        <5>1. PICK k \in 1 .. Len(t[h]) : t[h][k] = e
          BY <3>1, <3>2, EntryIs
        <5> QED
          BY <3>4, <3>10, <5>1
      <4>2. \A i \in 0 .. n - 1 : addr + i \notin StoredBytesOf(t)
        BY <3>1, <3>5, <4>1, NotCopiedIs
      <4>3. \A i \in 0 .. n - 1 : Precise!Over(m, StoredOf(t))[addr + i] = MEM_READ(mem, addr + i)
        BY <3>6, <3>7, <3>8, <4>2 DEF Precise!Over
      <4> QED
        BY <3>10, <4>3
    <3>11. Aligned(addr, n) /\ Permitted("Read", addr)
      BY <1>6, <2>2
    <3>12. out' = <<"bytes", [i \in 0 .. n - 1 |-> Precise!Over(m, StoredOf(t))[addr + i]]>>
      BY <1>1, <1>5, <3>9, <3>10, <3>11 DEF SpecRead
    <3> QED
      BY <2>2, <3>12
  <2> QED
    BY <2>1, <2>2
<1> QED
  BY <1>3, <1>4, <1>5, <1>7 DEF Precise!Load

\* A load of the program: from memory.
LEMMA RefinesLoad ==
    ASSUME PInv, NEW x \in Accesses, ~ spec_mode, Load(x[1], x[2])
    PROVE  Precise!Load(x[1], x[2]) \/ UNCHANGED Precise!vars
<1>1. PICK m : m = mem /\ MemOK(m)
  BY DEF PInv, SInv
<1>2. PICK addr, n : addr = x[1] /\ n = x[2] /\ addr \in Nat /\ n \in Nat
  BY AccessIs
<1>3. UNCHANGED <<regs, spec_mode, wrote, spec_regs, store_htable>>
  BY DEF Load
<1>4. /\ MemOK(ReadOver(m, addr, n))
      /\ \A b \in Nat : MEM_READ(ReadOver(m, addr, n), b) = MEM_READ(m, b)
  <2>1. MemOK(m) /\ addr \in Nat /\ n \in Nat
    BY <1>1, <1>2
  <2> QED
    BY <2>1, ReadOverIs
<1>5. \/ mem' = m /\ out' = out
      \/ mem' = ReadOver(m, addr, n)
         /\ out' = <<"bytes", [i \in 0 .. n - 1 |-> MEM_READ(m, addr + i)]>>
  BY <1>1, <1>2 DEF Load, mem_access
<1>6. CASE mem' = m /\ out' = out
  BY <1>1, <1>3, <1>6 DEF Precise!vars
<1>7. CASE mem' = ReadOver(m, addr, n)
           /\ out' = <<"bytes", [i \in 0 .. n - 1 |-> MEM_READ(m, addr + i)]>>
  <2>1. Content(mem', Limit) = Content(mem, Limit)
    BY <1>1, <1>4, <1>7, ContentSame
  <2>2. PICK c, s : c = Content(mem, Limit) /\ s = StoredOf(store_htable)
    OBVIOUS
  <2>3. DOMAIN s = {}
    <3>1. DOMAIN store_htable = Chains /\ Emptied(store_htable)
      BY DEF PInv, SInv, Pool, TableOK, TableType
    <3> QED
      BY <2>2, <3>1, StoredNothing
  <2>4. DOMAIN c = 0 .. Limit - 1 /\ \A a \in 0 .. Limit - 1 : c[a] = MEM_READ(m, a)
    BY <1>1, <2>2 DEF Content
  <2>5. \A i \in 0 .. n - 1 : addr + i \in 0 .. Limit - 1
    BY <1>2, BytesIn
  <2>6. \A i \in 0 .. n - 1 : Precise!Over(c, s)[addr + i] = MEM_READ(m, addr + i)
    BY <2>3, <2>4, <2>5 DEF Precise!Over
  <2>7. out' = <<"bytes", [i \in 0 .. n - 1 |-> Precise!Over(c, s)[addr + i]]>>
    BY <1>7, <2>6
  <2>8. Precise!Load(addr, n)
    BY <1>3, <2>1, <2>2, <2>7 DEF Precise!Load
  <2> QED
    BY <1>2, <2>8
<1> QED
  BY <1>5, <1>6, <1>7

\* A store of a wrong path: into its own table.
LEMMA RefinesSpecStore ==
    ASSUME WholeCopies, PInv, NEW x \in Accesses, NEW p \in [0 .. x[2] - 1 -> Bytes], spec_mode,
           Store(x[1], x[2], p), PInv'
    PROVE  Precise!Store(x[1], x[2], p)
<1>1. SpecWrite(x[1], x[2], p)
  BY DEF Store
<1>2. UNCHANGED <<regs, mem, spec_mode, wrote, spec_regs, out>>
  BY DEF Store
<1>3. PICK addr, n : addr = x[1] /\ n = x[2] /\ x = <<addr, n>>
  BY AccessIs
<1> DEFINE Write == {y \in Accesses : Aligned(y[1], y[2]) /\ Permitted("Write", y[1])}
<1>4. <<addr, n>> \in Write <=> Aligned(addr, n) /\ Permitted("Write", addr)
  BY <1>3
<1>5. StoredOf(store_htable') = IF <<addr, n>> \in Write
                                THEN Precise!Over(StoredOf(store_htable), Precise!At(addr, n, p))
                                ELSE StoredOf(store_htable)
  <2>1. CASE <<addr, n>> \notin Write
    BY <1>1, <1>3, <1>4, <2>1 DEF SpecWrite
  <2>2. CASE <<addr, n>> \in Write
    <3>1. Insert(x[1], p, x[2]) /\ x[1] % x[2] = 0
      BY <1>1, <1>3, <1>4, <2>2 DEF SpecWrite, Aligned
    <3>2. Patches(store_htable, store_htable', x[1], x[2], p)
      BY <3>1, InsertIs DEF PInv, WholeCopies
    <3>3. PICK t, u : t = store_htable /\ u = store_htable'
      OBVIOUS
    <3>4. TableOK(t) /\ TableOK(u)
      BY <3>3 DEF PInv, SInv, Pool
    <3>5. <<addr, n>> \in Accesses /\ addr % n = 0 /\ Patches(t, u, addr, n, p)
      BY <1>3, <3>1, <3>2, <3>3
    <3>6. StoredOf(u) = Precise!Over(StoredOf(t), Precise!At(addr, n, p))
      BY <3>4, <3>5, StoredPatched
    <3> QED
      BY <2>2, <3>3, <3>6
  <2> QED
    BY <2>1, <2>2
<1>6. UNCHANGED <<regs, Content(mem, Limit), spec_mode, [q \in wrote |-> spec_regs[q]], out>>
  BY <1>2
<1> QED
  BY <1>3, <1>5, <1>6 DEF Precise!Store

\* A store of the program: into memory.
LEMMA RefinesStore ==
    ASSUME PInv, NEW x \in Accesses, NEW p \in [0 .. x[2] - 1 -> Bytes], ~ spec_mode,
           Store(x[1], x[2], p)
    PROVE  Precise!Store(x[1], x[2], p) \/ UNCHANGED Precise!vars
<1>1. PICK m : m = mem /\ MemOK(m)
  BY DEF PInv, SInv
<1>2. PICK addr, n : addr = x[1] /\ n = x[2] /\ addr \in Nat /\ n \in Nat
  BY AccessIs
<1>3. UNCHANGED <<regs, spec_mode, wrote, spec_regs, store_htable, out>>
  BY DEF Store
<1>4. mem' = m \/ mem' = Stored(m, addr, p, n)
  BY <1>1, <1>2 DEF Store, mem_access
<1>5. CASE mem' = m
  BY <1>1, <1>3, <1>5 DEF Precise!vars
<1>6. CASE mem' = Stored(m, addr, p, n)
  <2> DEFINE q == Stored(m, addr, p, n)
             c == Content(m, Limit)
  <2>1. \A b \in Nat : MEM_READ(q, b)
                         = IF b \in addr .. addr + n - 1 THEN p[b - addr] ELSE MEM_READ(m, b)
    <3>1. MemOK(m) /\ addr \in Nat /\ n \in Nat /\ p \in Buffer(n)
      BY <1>1, <1>2 DEF Buffer
    <3>2. ReadsOver(Stored(m, addr, p, n), m, addr, n, p)
      BY <3>1, StoredIs
    <3> QED
      BY <3>2 DEF ReadsOver
  <2> HIDE DEF q
  <2>2. addr + n <= Limit /\ Limit \in Nat
    BY <1>2, LimitIs
  <2>3. DOMAIN c = 0 .. Limit - 1 /\ \A a \in 0 .. Limit - 1 : c[a] = MEM_READ(m, a)
    BY DEF Content
  <2>4. Content(q, Limit) = Precise!Over(c, Precise!At(addr, n, p))
    <3> DEFINE g == Precise!At(addr, n, p)
    <3>1. DOMAIN g = addr .. addr + n - 1 /\ \A a \in addr .. addr + n - 1 : g[a] = p[a - addr]
      BY DEF Precise!At
    <3> HIDE DEF g, c
    <3>2. DOMAIN c \cup DOMAIN g = 0 .. Limit - 1
      BY <1>2, <2>2, <2>3, <3>1
    <3>3. \A a \in 0 .. Limit - 1 : MEM_READ(q, a) = IF a \in DOMAIN g THEN g[a] ELSE c[a]
      BY <2>1, <2>3, <3>1
    <3>4. Content(q, Limit) = Precise!Over(c, g)
      BY <3>2, <3>3 DEF Content, Precise!Over
    <3> QED
      BY <3>4 DEF g
  <2>5. Content(mem', Limit) = Precise!Over(Content(mem, Limit), Precise!At(addr, n, p))
    BY <1>1, <1>6, <2>4 DEF q
  <2>6. Precise!Store(addr, n, p)
    BY <1>3, <2>5 DEF Precise!Store
  <2> QED
    BY <1>2, <2>6
<1> QED
  BY <1>4, <1>5, <1>6

LEMMA RefinesNext ==
    WholeCopies => (PInv /\ PInv' /\ [Next]_vars => [Precise!Next]_(Precise!vars))
<1> SUFFICES ASSUME WholeCopies, PInv, PInv', [Next]_vars
             PROVE  [Precise!Next]_(Precise!vars)
  OBVIOUS
<1>1. CASE UNCHANGED vars
  BY <1>1 DEF vars, specVars, Precise!vars
<1>2. CASE Next
  <2>1. CASE Misspeculate \/ Recover
    BY <2>1, RefinesPaths
  <2>2. ASSUME NEW R \in OperandsOf(uses),
               ReadRegs(R) \/ \E f \in [R -> Values] : SetRegs(R, f)
        PROVE  Precise!Next
    BY <2>2, RefinesRegs
  <2>3. ASSUME NEW x \in Accesses, Load(x[1], x[2]) PROVE [Precise!Next]_(Precise!vars)
    <3>1. Precise!Load(x[1], x[2]) \/ UNCHANGED Precise!vars
      BY <2>3, RefinesSpecLoad, RefinesLoad
    <3> QED
      BY <3>1 DEF Precise!Next
  <2>4. ASSUME NEW x \in Accesses, NEW p \in [0 .. x[2] - 1 -> Bytes], Store(x[1], x[2], p)
        PROVE  [Precise!Next]_(Precise!vars)
    <3>1. Precise!Store(x[1], x[2], p) \/ UNCHANGED Precise!vars
      BY <2>4, RefinesSpecStore, RefinesStore
    <3> QED
      BY <3>1 DEF Precise!Next
  <2> QED
    BY <1>2, <2>1, <2>2, <2>3, <2>4 DEF Next
<1> QED
  BY <1>1, <1>2

\* Where the copies of the registers are of whole operands, wrong paths read
\* their own writes over the program's registers and memory, never change
\* them, and leave nothing behind: GPR, SET_GPR, spec_mem_access and
\* tracer_recover implement PreciseState.
THEOREM SpeculationIsPrecise ==
    ASSUME WholeCopies
    PROVE  Spec => ImplementsPrecise
<1>1. Init => PInv /\ Precise!Init
  BY PInvNext, RefinesInit
<1>2. PInv /\ [Next]_vars => PInv'
  BY PInvNext
<1>3. PInv /\ PInv' /\ [Next]_vars => [Precise!Next]_(Precise!vars)
  BY RefinesNext
<1> QED
  BY <1>1, <1>2, <1>3, PTL DEF Spec, ImplementsPrecise, Precise!Spec
=============================================================================
