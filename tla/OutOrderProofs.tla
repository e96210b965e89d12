-------------------------- MODULE OutOrderProofs ---------------------------
(***************************************************************************)
(* Theorems about module OutOrder, for every program and every machine,    *)
(* behind lemmas on what the operators of module Ruu do to the lists of    *)
(* the scheduler.  A list of nodes is followed by the number of its nodes  *)
(* for a station with a tag, whatever their order.                         *)
(***************************************************************************)
EXTENDS OutOrderProps, FiniteSetTheorems, FunctionTheorems, SequenceTheorems,
        WellFoundedInduction, TLAPS

-----------------------------------------------------------------------------
(* Numbers and finite sets *)

\* Induction over the natural numbers, for a set instead of a predicate.
LEMMA NatSetInduction ==
    ASSUME NEW S, 0 \in S, \A k \in Nat : k \in S => k + 1 \in S
    PROVE  Nat \subseteq S
<1> SUFFICES ASSUME Nat \ S # {} PROVE FALSE
  OBVIOUS
<1>1. PICK x \in Nat \ S : \A y \in Nat \ S : ~(<<y, x>> \in OpToRel(<, Nat))
  BY NatLessThanWellFounded, WFMin
<1>2. \A y \in Nat \ S : ~(y < x)
  BY <1>1 DEF OpToRel
<1>3. x # 0
  OBVIOUS
<1>4. x - 1 \in Nat /\ x - 1 < x
  BY <1>3
<1>5. x - 1 \in S
  BY <1>2, <1>4
<1> QED
  BY <1>4, <1>5

\* Every set of natural numbers that is not empty has a least element.
LEMMA LeastNat ==
    ASSUME NEW T, T \subseteq Nat, T # {}
    PROVE  \E x \in T : \A y \in T : x <= y
<1>1. PICK x \in T : \A y \in T : ~(<<y, x>> \in OpToRel(<, Nat))
  BY NatLessThanWellFounded, WFMin
<1>2. \A y \in T : ~(y < x)
  BY <1>1 DEF OpToRel
<1> QED
  BY <1>2

LEMMA SubsetOfInterval ==
    ASSUME NEW m \in Nat, NEW T \in SUBSET (1 .. m)
    PROVE  IsFiniteSet(T) /\ Cardinality(T) \in 0 .. m
<1>1. IsFiniteSet(1 .. m) /\ Cardinality(1 .. m) = m
  BY FS_Interval
<1>2. IsFiniteSet(T) /\ Cardinality(T) <= m
  BY <1>1, FS_Subset
<1> QED
  BY <1>2, FS_CardinalityType

\* f pairs the elements of S with those of T.
Pairs(f, S, T) ==
    /\ f \in [S -> T]
    /\ \A a, b \in S : f[a] = f[b] => a = b
    /\ \A t \in T : \E s \in S : f[s] = t

LEMMA PairsCardinality ==
    ASSUME NEW S, NEW T, NEW f, IsFiniteSet(S), Pairs(f, S, T)
    PROVE  IsFiniteSet(T) /\ Cardinality(T) = Cardinality(S)
<1>1. f \in Surjection(S, T)
  BY Fun_IsSurj DEF Pairs
<1>2. f \in Bijection(S, T)
  BY <1>1, Fun_IsBij DEF Pairs
<1> QED
  BY <1>2, FS_Bijection DEF ExistsBijection



\* InOrder lists every element of K once.
LEMMA InOrderIs ==
    ASSUME NEW K \in SUBSET Int, IsFiniteSet(K)
    PROVE  /\ Cardinality(K) \in Nat
           /\ InOrder(K) \in [1 .. Cardinality(K) -> K]
           /\ \A a, b \in 1 .. Cardinality(K) :
                 InOrder(K)[a] = InOrder(K)[b] => a = b
           /\ \A i \in K : \E k \in 1 .. Cardinality(K) : InOrder(K)[k] = i
<1> DEFINE N == Cardinality(K)
           below(i) == {j \in K : j < i}
           rank == [i \in K |-> Cardinality(below(i))]
<1>1. N \in Nat
  BY FS_CardinalityType
<1>2. \A i \in K : /\ IsFiniteSet(below(i)) /\ rank[i] \in 0 .. N - 1
  <2> TAKE i \in K
  <2>1. below(i) \in SUBSET (K \ {i}) /\ K \ {i} \in SUBSET K
    OBVIOUS
  <2>2. IsFiniteSet(K \ {i}) /\ Cardinality(K \ {i}) = N - 1
    BY FS_RemoveElement
  <2>3. IsFiniteSet(below(i)) /\ Cardinality(below(i)) <= N - 1
    BY <2>1, <2>2, FS_Subset
  <2>4. Cardinality(below(i)) \in Nat
    BY <2>3, FS_CardinalityType
  <2> QED
    BY <1>1, <2>3, <2>4
<1>3. \A i, j \in K : i < j => rank[i] < rank[j]
  <2> SUFFICES ASSUME NEW i \in K, NEW j \in K, i < j PROVE rank[i] < rank[j]
    OBVIOUS
  <2>0. i \in below(j) /\ \A k \in below(i) : k \in below(j) /\ k # i
    OBVIOUS
  <2>1. below(i) \in SUBSET (below(j) \ {i}) /\ i \in below(j)
    BY <2>0
  <2>2. /\ IsFiniteSet(below(j) \ {i})
        /\ Cardinality(below(j) \ {i}) = Cardinality(below(j)) - 1
    BY <1>2, <2>1, FS_RemoveElement
  <2>3. Cardinality(below(i)) <= Cardinality(below(j)) - 1
    BY <2>1, <2>2, FS_Subset
  <2>4. rank[i] \in Int /\ rank[j] \in Int
    BY <1>2
  <2> QED
    BY <2>3, <2>4
<1>4. \A i, j \in K : rank[i] = rank[j] => i = j
  BY <1>2, <1>3
<1>5. rank \in [K -> 0 .. N - 1]
  BY <1>2
<1>6. IsFiniteSet(0 .. N - 1) /\ Cardinality(0 .. N - 1) = N
  BY <1>1, FS_Interval
<1>7. \A m \in 0 .. N - 1 : \E i \in K : rank[i] = m
  <2> DEFINE M == 0 .. N - 1
  <2>1. /\ Cardinality(K) = Cardinality(M) /\ IsFiniteSet(M)
        /\ rank \in [K -> M]
    BY <1>5, <1>6
  <2> HIDE DEF rank, M
  <2>2. rank \in Injection(K, M)
    BY <1>4, <2>1, Fun_IsInj
  <2>3. rank \in Surjection(K, M)
    BY <2>1, <2>2, FS_Injection
  <2>4. \A m \in M : \E i \in K : rank[i] = m
    BY <2>3, Fun_SurjectionProperties
  <2> QED
    BY <2>4 DEF M
<1>8. \A k \in 1 .. N : InOrder(K)[k] \in K /\ rank[InOrder(K)[k]] = k - 1
  <2> TAKE k \in 1 .. N
  <2>1. k - 1 \in 0 .. N - 1
    BY <1>1
  <2>2. InOrder(K)[k] = CHOOSE i \in K : Cardinality(below(i)) = k - 1
    BY DEF InOrder
  <2>3. \E i \in K : Cardinality(below(i)) = k - 1
    BY <1>7, <2>1
  <2> QED
    BY <2>2, <2>3
<1>9. InOrder(K) \in [1 .. N -> K]
  BY <1>8 DEF InOrder
<1>10. \A a, b \in 1 .. N : InOrder(K)[a] = InOrder(K)[b] => a = b
  <2> HIDE DEF rank
  <2> SUFFICES ASSUME NEW a \in 1 .. N, NEW b \in 1 .. N,
                      InOrder(K)[a] = InOrder(K)[b]
               PROVE  a = b
    OBVIOUS
  <2>1. a - 1 = b - 1
    BY <1>8
  <2> QED
    BY <1>1, <2>1
<1>11. \A i \in K : \E k \in 1 .. N : InOrder(K)[k] = i
  <2> TAKE i \in K
  <2>1. rank[i] + 1 \in 1 .. N
    BY <1>1, <1>5
  <2>2. rank[InOrder(K)[rank[i] + 1]] = rank[i]
    <3> HIDE DEF rank
    <3> QED
      BY <1>5, <1>8, <2>1
  <2>3. InOrder(K)[rank[i] + 1] = i
    <3> HIDE DEF rank
    <3> QED
      BY <1>4, <1>8, <2>1, <2>2
  <2> QED
    BY <2>1, <2>3
<1> QED
  BY <1>1, <1>9, <1>10, <1>11

-----------------------------------------------------------------------------
(* Lists of nodes *)

\* r is q with e put at position p.
Inserted(q, r, p, e) ==
    /\ p \in 1 .. Len(q) + 1
    /\ Len(r) = Len(q) + 1
    /\ \A i \in 1 .. Len(q) + 1 :
          r[i] = IF i < p THEN q[i] ELSE IF i = p THEN e ELSE q[i - 1]

LEMMA InsertAtIs ==
    ASSUME NEW X, NEW q \in Seq(X), NEW e \in X, NEW p \in 1 .. Len(q) + 1
    PROVE  InsertAt(q, p, e) \in Seq(X) /\ Inserted(q, InsertAt(q, p, e), p, e)
<1> DEFINE a == SubSeq(q, 1, p - 1)
           b == SubSeq(q, p, Len(q))
           r == InsertAt(q, p, e)
<1>1. /\ Len(q) \in Nat /\ p \in Int /\ p - 1 \in Int
      /\ \A i \in 1 .. Len(q) : q[i] \in X
  BY ElementOfSeq
<1>2. /\ a \in Seq(X) /\ Len(a) = p - 1
      /\ \A i \in 1 .. p - 1 : a[i] = q[i]
  <2>1. \A i \in 1 .. p - 1 : q[i] \in X
    BY <1>1
  <2>2. /\ a \in Seq(X)
        /\ Len(a) = IF 1 <= p - 1 THEN (p - 1) - 1 + 1 ELSE 0
        /\ \A i \in 1 .. (p - 1) - 1 + 1 : a[i] = q[1 + i - 1]
    BY <1>1, <2>1, SubSeqProperties
  <2> QED
    BY <1>1, <2>2
<1>3. /\ b \in Seq(X) /\ Len(b) = Len(q) - p + 1
      /\ \A i \in 1 .. Len(q) - p + 1 : b[i] = q[p + i - 1]
  <2>1. \A i \in p .. Len(q) : q[i] \in X
    BY <1>1
  <2>2. /\ b \in Seq(X)
        /\ Len(b) = IF p <= Len(q) THEN Len(q) - p + 1 ELSE 0
        /\ \A i \in 1 .. Len(q) - p + 1 : b[i] = q[p + i - 1]
    BY <1>1, <2>1, SubSeqProperties
  <2> QED
    BY <1>1, <2>2
<1>4. <<e>> \in Seq(X) /\ Len(<<e>>) = 1 /\ <<e>>[1] = e
  OBVIOUS
<1>5. r = (a \o <<e>>) \o b
  BY DEF InsertAt
<1> HIDE DEF a, b, r
<1>6. /\ a \o <<e>> \in Seq(X) /\ Len(a \o <<e>>) = p
      /\ \A i \in 1 .. p : (a \o <<e>>)[i] = IF i < p THEN q[i] ELSE e
  BY <1>1, <1>2, <1>4, ConcatProperties
<1> DEFINE c == a \o <<e>>
<1>c. /\ c \in Seq(X) /\ Len(c) = p /\ r = c \o b
      /\ \A i \in 1 .. p : c[i] = IF i < p THEN q[i] ELSE e
  BY <1>5, <1>6
<1> HIDE DEF c
<1>7. /\ r \in Seq(X) /\ Len(r) = Len(q) + 1
      /\ \A i \in 1 .. Len(q) + 1 : r[i] = IF i <= p THEN c[i] ELSE b[i - p]
  <2>1. /\ c \o b \in Seq(X) /\ Len(c \o b) = Len(c) + Len(b)
        /\ \A i \in 1 .. Len(c) + Len(b) :
              (c \o b)[i] = IF i <= Len(c) THEN c[i] ELSE b[i - Len(c)]
    BY <1>c, <1>3, ConcatProperties
  <2>2. Len(c) + Len(b) = Len(q) + 1
    BY <1>c, <1>1, <1>3
  <2> QED
    BY <1>c, <2>1, <2>2
<1>8. \A i \in 1 .. Len(q) + 1 :
          r[i] = IF i < p THEN q[i] ELSE IF i = p THEN e ELSE q[i - 1]
  <2> TAKE i \in 1 .. Len(q) + 1
  <2>1. CASE i <= p
    BY <1>c, <1>1, <1>7, <2>1
  <2>2. CASE i > p
    <3>1. i - p \in 1 .. Len(q) - p + 1 /\ p + (i - p) - 1 = i - 1
      BY <1>1, <2>2
    <3> QED
      BY <1>1, <1>3, <1>7, <2>2, <3>1
  <2> QED
    BY <1>1, <2>1, <2>2
<1> QED
  BY <1>7, <1>8 DEF Inserted, r

\* The head of a list is what was inserted last.
LEMMA HeadInserted ==
    ASSUME NEW X, NEW q \in Seq(X), NEW e \in X
    PROVE  <<e>> \o q \in Seq(X) /\ Inserted(q, <<e>> \o q, 1, e)
<1>1. <<e>> \in Seq(X) /\ Len(<<e>>) = 1 /\ <<e>>[1] = e /\ Len(q) \in Nat
  OBVIOUS
<1>2. /\ <<e>> \o q \in Seq(X) /\ Len(<<e>> \o q) = Len(q) + 1
      /\ \A i \in 1 .. Len(q) + 1 :
            (<<e>> \o q)[i] = IF i <= 1 THEN e ELSE q[i - 1]
  BY <1>1, ConcatProperties
<1> QED
  BY <1>1, <1>2 DEF Inserted

LEMMA TailInserted ==
    ASSUME NEW X, NEW q \in Seq(X), q # <<>>
    PROVE  Tail(q) \in Seq(X) /\ Inserted(Tail(q), q, 1, Head(q))
<1>1. /\ Tail(q) \in Seq(X) /\ Len(q) \in Nat \ {0} /\ Len(Tail(q)) = Len(q) - 1
      /\ \A i \in 1 .. Len(Tail(q)) : Tail(q)[i] = q[i + 1]
      /\ Head(q) = q[1]
  BY HeadTailProperties, EmptySeq
<1> QED
  BY <1>1 DEF Inserted

\* The nodes of q for station s with tag t, and their number.
NodesFor(q, s, t) == {i \in DOMAIN q : q[i].rs = s /\ q[i].tag = t}
Count(q, s, t) == Cardinality(NodesFor(q, s, t))
IsFor(e, s, t) == IF e.rs = s /\ e.tag = t THEN 1 ELSE 0

LEMMA CountType ==
    ASSUME NEW X, NEW q \in Seq(X), NEW s, NEW t
    PROVE  /\ IsFiniteSet(NodesFor(q, s, t)) /\ Count(q, s, t) \in Nat
           /\ Count(q, s, t) = 0 <=> NodesFor(q, s, t) = {}
<1>1. NodesFor(q, s, t) \in SUBSET (1 .. Len(q)) /\ Len(q) \in Int
  BY DEF NodesFor
<1>2. IsFiniteSet(NodesFor(q, s, t))
  BY <1>1, FS_Interval, FS_Subset
<1> QED
  BY <1>2, FS_CardinalityType, FS_EmptySet DEF Count

\* The positions of the elements of q that are in M.
Positions(q, M) == {i \in DOMAIN q : q[i] \in M}

LEMMA PositionsType ==
    ASSUME NEW X, NEW q \in Seq(X), NEW M
    PROVE  IsFiniteSet(Positions(q, M)) /\ Cardinality(Positions(q, M)) \in Nat
<1>1. Positions(q, M) \in SUBSET (1 .. Len(q)) /\ Len(q) \in Nat
  BY DEF Positions
<1> QED
  BY <1>1, SubsetOfInterval

LEMMA PositionsInserted ==
    ASSUME NEW X, NEW q \in Seq(X), NEW r \in Seq(X), NEW p, NEW e,
           Inserted(q, r, p, e), NEW M
    PROVE  Cardinality(Positions(r, M))
              = Cardinality(Positions(q, M)) + IF e \in M THEN 1 ELSE 0
<1> DEFINE A == Positions(q, M)
           B == Positions(r, M)
           f == [i \in A |-> IF i < p THEN i ELSE i + 1]
<1>1. /\ Len(q) \in Nat /\ DOMAIN q = 1 .. Len(q) /\ DOMAIN r = 1 .. Len(q) + 1
      /\ p \in 1 .. Len(q) + 1
      /\ \A i \in 1 .. Len(q) + 1 :
            r[i] = IF i < p THEN q[i] ELSE IF i = p THEN e ELSE q[i - 1]
  BY DEF Inserted
<1>2. Pairs(f, A, B \ {p})
  <2>1. A \subseteq 1 .. Len(q)
    BY <1>1 DEF Positions
  <2>2. f \in [A -> B \ {p}]
    BY <1>1 DEF Positions
  <2>3. \A a, b \in A : f[a] = f[b] => a = b
    BY <1>1, <2>1
  <2>4. \A b \in B \ {p} : \E a \in A : f[a] = b
    <3> TAKE b \in B \ {p}
    <3>1. b \in 1 .. Len(q) + 1 /\ b # p
      BY <1>1 DEF Positions
    <3>2. CASE b < p
      BY <1>1, <3>1, <3>2 DEF Positions
    <3>3. CASE b > p
      <4>1. b - 1 \in A
        BY <1>1, <3>1, <3>3 DEF Positions
      <4>2. f[b - 1] = b
        BY <1>1, <3>1, <3>3, <4>1
      <4> QED
        BY <4>1, <4>2
    <3> QED
      BY <1>1, <3>1, <3>2, <3>3
  <2> QED
    BY <2>2, <2>3, <2>4 DEF Pairs
<1>3. IsFiniteSet(A) /\ Cardinality(A) \in Nat /\ IsFiniteSet(B)
  BY PositionsType
<1>4. Cardinality(B \ {p}) = Cardinality(A)
  <2> HIDE DEF A, B, f
  <2> QED
    BY <1>2, <1>3, PairsCardinality
<1>5. Cardinality(B \ {p}) = IF p \in B THEN Cardinality(B) - 1 ELSE Cardinality(B)
  BY <1>3, FS_RemoveElement
<1>6. p \in B <=> e \in M
  BY <1>1 DEF Positions
<1>7. Cardinality(B) \in Nat
  BY <1>3, FS_CardinalityType
<1> HIDE DEF A, B
<1>8. Cardinality(B) = Cardinality(A) + IF e \in M THEN 1 ELSE 0
  BY <1>3, <1>4, <1>5, <1>6, <1>7
<1> QED
  BY <1>8 DEF A, B

LEMMA CountInserted ==
    ASSUME NEW X, NEW q \in Seq(X), NEW r \in Seq(X), NEW p, NEW e,
           Inserted(q, r, p, e), NEW s, NEW t
    PROVE  Count(r, s, t) = Count(q, s, t) + IsFor(e, s, t)
<1> DEFINE M == {x \in X : x.rs = s /\ x.tag = t}
<1>1. /\ \A i \in DOMAIN q : q[i] \in X
      /\ \A i \in DOMAIN r : r[i] \in X
  OBVIOUS
<1>2. NodesFor(q, s, t) = Positions(q, M) /\ NodesFor(r, s, t) = Positions(r, M)
  BY <1>1 DEF NodesFor, Positions
<1>3. e \in X
  BY DEF Inserted
<1>4. (e \in M) <=> (e.rs = s /\ e.tag = t)
  BY <1>3
<1> HIDE DEF M
<1>5. Cardinality(Positions(r, M))
         = Cardinality(Positions(q, M)) + IF e \in M THEN 1 ELSE 0
  BY PositionsInserted
<1> QED
  BY <1>2, <1>4, <1>5 DEF Count, IsFor

-----------------------------------------------------------------------------
(* The ready queue and the event queue *)

Node(s, S) == [rs |-> s, tag |-> S[s].tag, seq |-> S[s].seq]

LEMMA ReadyqInsertIs ==
    ASSUME NEW X, NEW q \in Seq(X), NEW s, NEW S, Node(s, S) \in X
    PROVE  /\ ReadyqInsert(q, s, S) \in Seq(X)
           /\ \E p : Inserted(q, ReadyqInsert(q, s, S), p, Node(s, S))
<1> DEFINE r == ReadyqInsert(q, s, S)
<1>1. CASE r = <<Node(s, S)>> \o q
  BY <1>1, HeadInserted
<1>2. CASE \E p \in 1 .. Len(q) + 1 : r = InsertAt(q, p, Node(s, S))
  BY <1>2, InsertAtIs
<1>3. r = <<Node(s, S)>> \o q
      \/ \E p \in 1 .. Len(q) + 1 : r = InsertAt(q, p, Node(s, S))
  <2> DEFINE lead == {i \in DOMAIN q : \A j \in 1 .. i : q[j].seq < Node(s, S).seq}
  <2>1. r = <<Node(s, S)>> \o q \/ r = InsertAt(q, Cardinality(lead) + 1, Node(s, S))
    BY DEF ReadyqInsert, InsertBehind, Node
  <2>2. lead \in SUBSET (1 .. Len(q)) /\ Len(q) \in Nat
    OBVIOUS
  <2>3. Cardinality(lead) \in 0 .. Len(q)
    <3> HIDE DEF lead
    <3> QED
      BY <2>2, SubsetOfInterval
  <2>4. Cardinality(lead) + 1 \in 1 .. Len(q) + 1
    BY <2>2, <2>3
  <2> QED
    BY <2>1, <2>4
<1> QED
  BY <1>1, <1>2, <1>3

LEMMA EventqInsertIs ==
    ASSUME NEW X, NEW q \in Seq(X), NEW s, NEW S, NEW when,
           [rs |-> s, tag |-> S[s].tag, when |-> when] \in X
    PROVE  /\ EventqInsert(q, s, S, when) \in Seq(X)
           /\ \E p : Inserted(q, EventqInsert(q, s, S, when), p,
                              [rs |-> s, tag |-> S[s].tag, when |-> when])
<1> DEFINE node == [rs |-> s, tag |-> S[s].tag, when |-> when]
           lead == {i \in DOMAIN q : \A j \in 1 .. i : q[j].when < when}
<1>1. EventqInsert(q, s, S, when) = InsertAt(q, Cardinality(lead) + 1, node)
  BY DEF EventqInsert, InsertBehind
<1>2. lead \in SUBSET (1 .. Len(q)) /\ Len(q) \in Nat
  OBVIOUS
<1>3. Cardinality(lead) \in 0 .. Len(q)
  <2> HIDE DEF lead
  <2> QED
    BY <1>2, SubsetOfInterval
<1>4. Cardinality(lead) + 1 \in 1 .. Len(q) + 1
  BY <1>2, <1>3
<1> QED
  BY <1>1, <1>4, InsertAtIs

\* The steps of ReadyqEnqueue.
LEMMA EnqueueSteps ==
    ASSUME NEW q, NEW slots, NEW S, Len(slots) \in Nat
    PROVE  \E enq : /\ ReadyqEnqueue(q, slots, S) = enq[Len(slots)]
                    /\ enq[0] = q
                    /\ \A i \in 1 .. Len(slots) :
                          enq[i] = ReadyqInsert(enq[i - 1], slots[i], S)
<1> DEFINE N == Len(slots)
           Ins(r, i) == ReadyqInsert(r, slots[i], S)
           P == {m \in Nat : \E g : g = [i \in 0 .. m |->
                    IF i = 0 THEN q ELSE Ins(g[i - 1], i)]}
<1>1. 0 \in P
  <2> DEFINE g == [i \in 0 .. 0 |-> q]
  <2>1. g = [i \in 0 .. 0 |-> IF i = 0 THEN q ELSE Ins(g[i - 1], i)]
    OBVIOUS
  <2> QED
    BY <2>1
<1>2. ASSUME NEW m \in Nat, m \in P PROVE m + 1 \in P
  <2>1. PICK g : g = [i \in 0 .. m |-> IF i = 0 THEN q ELSE Ins(g[i - 1], i)]
    BY <1>2
  <2> DEFINE h == [i \in 0 .. m + 1 |-> IF i = m + 1 THEN Ins(g[m], m + 1) ELSE g[i]]
  <2>2. \A i \in 0 .. m : g[i] = IF i = 0 THEN q ELSE Ins(g[i - 1], i)
    BY <2>1
  <2> HIDE DEF Ins
  <2>3. \A i \in 0 .. m + 1 : h[i] = IF i = 0 THEN q ELSE Ins(h[i - 1], i)
    <3> TAKE i \in 0 .. m + 1
    <3>1. CASE i = m + 1
      BY <3>1
    <3>2. CASE i # m + 1
      BY <2>2, <3>2
    <3> QED
      BY <3>1, <3>2
  <2>4. h = [i \in 0 .. m + 1 |-> IF i = 0 THEN q ELSE Ins(h[i - 1], i)]
    BY <2>3
  <2> HIDE DEF h
  <2>5. \E g2 : g2 = [i \in 0 .. m + 1 |-> IF i = 0 THEN q ELSE Ins(g2[i - 1], i)]
    BY <2>4
  <2> QED
    BY <2>5
<1>3. N \in P
  <2> HIDE DEF P
  <2> QED
    BY <1>1, <1>2, NatSetInduction
<1> DEFINE enq == CHOOSE g : g = [i \in 0 .. N |-> IF i = 0 THEN q ELSE Ins(g[i - 1], i)]
<1>4. enq = [i \in 0 .. N |-> IF i = 0 THEN q ELSE Ins(enq[i - 1], i)]
  BY <1>3
<1>5. ReadyqEnqueue(q, slots, S) = enq[N]
  BY DEF ReadyqEnqueue
<1> HIDE DEF enq
<1> QED
  BY <1>4, <1>5

Times(slots, s) == Cardinality({i \in DOMAIN slots : slots[i] = s})

\* Every station that is enqueued gets one node more for its tag, and nothing
\* else changes.
LEMMA EnqueueIs ==
    ASSUME NEW X, NEW q \in Seq(X), NEW slots \in Seq(Slots), NEW S,
           \A s \in Slots : Node(s, S) \in X
    PROVE  /\ ReadyqEnqueue(q, slots, S) \in Seq(X)
           /\ Len(ReadyqEnqueue(q, slots, S)) = Len(q) + Len(slots)
           /\ \A s \in Slots : \A t :
                 Count(ReadyqEnqueue(q, slots, S), s, t)
                    = Count(q, s, t) + IF t = S[s].tag THEN Times(slots, s) ELSE 0
<1> DEFINE N == Len(slots)
           upTo(m, s) == {i \in 1 .. m : slots[i] = s}
<1>1. N \in Nat /\ DOMAIN slots = 1 .. N /\ \A i \in 1 .. N : slots[i] \in Slots
  BY ElementOfSeq
<1>2. PICK enq : /\ ReadyqEnqueue(q, slots, S) = enq[N]
                 /\ enq[0] = q
                 /\ \A i \in 1 .. N : enq[i] = ReadyqInsert(enq[i - 1], slots[i], S)
  BY <1>1, EnqueueSteps
<1> DEFINE counts(m) == \A s \in Slots : \A t :
               Count(enq[m], s, t)
                  = Count(q, s, t) + IF t = S[s].tag THEN Cardinality(upTo(m, s)) ELSE 0
           P == {m \in Nat : m <= N => /\ enq[m] \in Seq(X)
                                       /\ Len(enq[m]) = Len(q) + m
                                       /\ counts(m)}
<1>3. 0 \in P
  <2>1. \A s : upTo(0, s) = {}
    OBVIOUS
  <2>2. \A s : Cardinality(upTo(0, s)) = 0
    BY <2>1, FS_EmptySet
  <2>3. \A s, t : Count(q, s, t) \in Nat
    BY CountType
  <2> QED
    BY <1>1, <1>2, <2>2, <2>3
<1>4. ASSUME NEW m \in Nat, m \in P, m + 1 <= N PROVE m + 1 \in P
  <2>1. enq[m] \in Seq(X) /\ Len(enq[m]) = Len(q) + m /\ counts(m)
    <3> HIDE DEF counts
    <3>1. m <= N
      BY <1>1, <1>4
    <3> QED
      BY <1>4, <3>1
  <2> DEFINE x == slots[m + 1]
             e == Node(x, S)
  <2>2. x \in Slots /\ e \in X /\ enq[m + 1] = ReadyqInsert(enq[m], x, S)
    BY <1>1, <1>2, <1>4
  <2>3. /\ enq[m + 1] \in Seq(X)
        /\ \E p : Inserted(enq[m], enq[m + 1], p, e)
    <3>1. Node(x, S) \in X /\ enq[m] \in Seq(X)
      BY <2>1, <2>2
    <3> HIDE DEF x
    <3> QED
      BY <2>2, <3>1, ReadyqInsertIs
  <2>4. \A s, t : Count(enq[m + 1], s, t) = Count(enq[m], s, t) + IsFor(e, s, t)
    BY <2>1, <2>3, CountInserted
  <2>5. Len(enq[m + 1]) = Len(q) + m + 1
    BY <2>1, <2>3 DEF Inserted
  <2>6. \A s : /\ IsFiniteSet(upTo(m, s)) /\ Cardinality(upTo(m, s)) \in Nat
               /\ Cardinality(upTo(m + 1, s))
                     = Cardinality(upTo(m, s)) + IF x = s THEN 1 ELSE 0
    <3> TAKE s
    <3>1. upTo(m, s) \in SUBSET (1 .. m)
      OBVIOUS
    <3>2. IsFiniteSet(upTo(m, s)) /\ Cardinality(upTo(m, s)) \in Nat
      <4> HIDE DEF upTo
      <4> QED
        BY <3>1, SubsetOfInterval
    <3>3. m + 1 \notin upTo(m, s)
      OBVIOUS
    <3>4. upTo(m + 1, s) = IF x = s THEN upTo(m, s) \cup {m + 1} ELSE upTo(m, s)
      OBVIOUS
    <3> HIDE DEF upTo
    <3>5. /\ IsFiniteSet(upTo(m, s) \cup {m + 1})
          /\ Cardinality(upTo(m, s) \cup {m + 1}) = Cardinality(upTo(m, s)) + 1
      BY <3>2, <3>3, FS_AddElement
    <3> QED
      BY <3>2, <3>4, <3>5
  <2>7. counts(m + 1)
    <3> SUFFICES ASSUME NEW s \in Slots, NEW t
                 PROVE  Count(enq[m + 1], s, t) = Count(q, s, t)
                            + IF t = S[s].tag THEN Cardinality(upTo(m + 1, s)) ELSE 0
      OBVIOUS
    <3>1. Count(enq[m], s, t) = Count(q, s, t)
                            + IF t = S[s].tag THEN Cardinality(upTo(m, s)) ELSE 0
      BY <2>1
    <3>2. Count(enq[m + 1], s, t) = Count(enq[m], s, t) + IsFor(e, s, t)
      BY <2>4
    <3>3. IsFor(e, s, t) = IF x = s /\ t = S[s].tag THEN 1 ELSE 0
      BY DEF IsFor, Node
    <3>4. Count(q, s, t) \in Nat
      BY CountType
    <3> HIDE DEF upTo
    <3> QED
      BY <2>6, <3>1, <3>2, <3>3, <3>4
  <2> HIDE DEF counts
  <2> QED
    BY <2>3, <2>5, <2>7
<1>5. \A m \in Nat : m \in P => m + 1 \in P
  <2> SUFFICES ASSUME NEW m \in Nat, m \in P, ~(m + 1 <= N) PROVE m + 1 \in P
    BY <1>4
  <2> HIDE DEF counts
  <2> QED
    OBVIOUS
<1>6. N \in P
  <2> HIDE DEF P
  <2> QED
    BY <1>1, <1>3, <1>5, NatSetInduction
<1>7. enq[N] \in Seq(X) /\ Len(enq[N]) = Len(q) + N /\ counts(N)
  <2> HIDE DEF counts
  <2> QED
    BY <1>1, <1>6
<1>8. \A s : upTo(N, s) = {i \in DOMAIN slots : slots[i] = s}
  BY <1>1
<1> QED
  BY <1>2, <1>7, <1>8 DEF Times

\* Times pass on the event queue without a change of its nodes.
LEMMA CountSame ==
    ASSUME NEW q, NEW r, DOMAIN r = DOMAIN q,
           \A i \in DOMAIN q : r[i].rs = q[i].rs /\ r[i].tag = q[i].tag,
           NEW s, NEW t
    PROVE  Count(r, s, t) = Count(q, s, t)
<1>1. NodesFor(r, s, t) = NodesFor(q, s, t)
  BY DEF NodesFor
<1> QED
  BY <1>1 DEF Count

LEMMA CountEmpty == \A s, t : Count(<<>>, s, t) = 0
  BY FS_EmptySet DEF Count, NodesFor

LEMMA TimesType ==
    ASSUME NEW slots \in Seq(Slots), NEW s
    PROVE  /\ IsFiniteSet({i \in DOMAIN slots : slots[i] = s})
           /\ Times(slots, s) \in Nat
<1>1. {i \in DOMAIN slots : slots[i] = s} \in SUBSET (1 .. Len(slots))
  OBVIOUS
<1>2. Len(slots) \in Nat
  OBVIOUS
<1> DEFINE T == {i \in DOMAIN slots : slots[i] = s}
<1> HIDE DEF T
<1>3. T \in SUBSET (1 .. Len(slots)) => IsFiniteSet(T) /\ Cardinality(T) \in Nat
  BY <1>2, SubsetOfInterval
<1> QED
  BY <1>1, <1>3 DEF T, Times

-----------------------------------------------------------------------------
(* The output lists *)

LinkType == [rs : Slots, tag : Nat, opnum : 1 .. 3]

\* The stations in S are records with the fields of a station, and two lists.
Stations(S) ==
    /\ S = [s \in Slots |-> S[s]]
    /\ \A s \in Slots : /\ S[s] = [f \in DOMAIN S[s] |-> S[s][f]]
                        /\ DOMAIN S[s] = DOMAIN EmptyStation

Lists(S) == \A s \in Slots : S[s].odep_list \in [1 .. 2 -> Seq(LinkType)]

\* What a station holds of its instruction, and how far the instruction is.
SameInst(r, q) ==
    /\ q.op = r.op /\ q.PC = r.PC /\ q.next_PC = r.next_PC
    /\ q.ea_comp = r.ea_comp /\ q.recover_inst = r.recover_inst
    /\ q.spec_mode = r.spec_mode /\ q.addr = r.addr /\ q.seq = r.seq
    /\ q.onames = r.onames

SameProgress(r, q) ==
    q.queued = r.queued /\ q.issued = r.issued /\ q.completed = r.completed

\* T is S with other output lists.
ListsOnly(S, T) ==
    \A s \in Slots : /\ SameInst(S[s], T[s]) /\ SameProgress(S[s], T[s])
                     /\ T[s].tag = S[s].tag /\ T[s].idep_ready = S[s].idep_ready

LinkOf(S, d) == [rs |-> d.rs, tag |-> S[d.rs].tag, opnum |-> d.opnum]

DependsType ==
    [rs : Slots, opnum : 1 .. 3, creator : [rs : Slots, odep_num : 1 .. 2]]

LEMMA LinkIdepIs ==
    ASSUME NEW S, Stations(S), Lists(S), NEW d \in DependsType, S[d.rs].tag \in Nat
    PROVE  LET T == LinkIdep(S, d)
               c == d.creator.rs
               k == d.creator.odep_num
           IN  /\ Stations(T) /\ Lists(T) /\ ListsOnly(S, T)
               /\ \A s \in Slots, o \in 1 .. 2 :
                     T[s].odep_list[o] =
                        IF s = c /\ o = k THEN <<LinkOf(S, d)>> \o S[s].odep_list[o]
                        ELSE S[s].odep_list[o]
<1> DEFINE c == d.creator.rs
           k == d.creator.odep_num
           l == <<LinkOf(S, d)>> \o S[c].odep_list[k]
           v == [S[c].odep_list EXCEPT ![k] = l]
           q == [S[c] EXCEPT !.odep_list = v]
           T == LinkIdep(S, d)
<1>1. c \in Slots /\ k \in 1 .. 2 /\ d.rs \in Slots /\ d.opnum \in 1 .. 3
  BY DEF DependsType
<1>2. LinkOf(S, d) \in LinkType /\ S[c].odep_list \in [1 .. 2 -> Seq(LinkType)]
  BY <1>1 DEF LinkOf, LinkType, Lists
<1>3. l \in Seq(LinkType)
  <2>1. S[c].odep_list[k] \in Seq(LinkType)
    BY <1>1, <1>2
  <2> QED
    BY <1>2, <2>1, HeadInserted
<1>4. T = [S EXCEPT ![c] = q]
  BY DEF LinkIdep, LinkOf
<1>5. v \in [1 .. 2 -> Seq(LinkType)] /\ v[k] = l
      /\ \A o \in 1 .. 2 : o # k => v[o] = S[c].odep_list[o]
  BY <1>1, <1>2, <1>3
<1> HIDE DEF l, v, T
<1>6. /\ q = [f \in DOMAIN q |-> q[f]] /\ DOMAIN q = DOMAIN EmptyStation
      /\ q.odep_list = v
      /\ SameInst(S[c], q) /\ SameProgress(S[c], q)
      /\ q.tag = S[c].tag /\ q.idep_ready = S[c].idep_ready
  BY <1>1 DEF Stations, EmptyStation, SameInst, SameProgress
<1> HIDE DEF q
<1>7. /\ T = [s \in Slots |-> T[s]] /\ T[c] = q
      /\ \A s \in Slots : s # c => T[s] = S[s]
  BY <1>1, <1>4 DEF Stations
<1>8. Stations(T)
  BY <1>6, <1>7 DEF Stations
<1>9. Lists(T)
  BY <1>5, <1>6, <1>7 DEF Lists
<1>10. ListsOnly(S, T)
  BY <1>6, <1>7 DEF ListsOnly, SameInst, SameProgress
<1>11. \A s \in Slots, o \in 1 .. 2 :
          T[s].odep_list[o] =
             IF s = c /\ o = k THEN <<LinkOf(S, d)>> \o S[s].odep_list[o]
             ELSE S[s].odep_list[o]
  BY <1>1, <1>5, <1>6, <1>7 DEF l
<1> QED
  BY <1>8, <1>9, <1>10, <1>11 DEF T

LEMMA SlotsFinite == IsFiniteSet(RuuSlots) /\ IsFiniteSet(LsqSlots) /\ IsFiniteSet(Slots)
<1>1. ASSUME NEW m \in Nat, NEW name PROVE IsFiniteSet({<<name, i>> : i \in 0 .. m - 1})
  <2> DEFINE T == {<<name, i>> : i \in 0 .. m - 1}
             f == [i \in 0 .. m - 1 |-> <<name, i>>]
  <2>1. f \in Surjection(0 .. m - 1, T)
    BY Fun_IsSurj
  <2>2. IsFiniteSet(0 .. m - 1)
    BY FS_Interval
  <2> HIDE DEF f, T
  <2>3. IsFiniteSet(T)
    BY <2>1, <2>2, FS_Surjection
  <2> QED
    BY <2>3 DEF T
<1>2. RUU_size \in Nat /\ LSQ_size \in Nat
  BY RuuAssumption
<1>3. IsFiniteSet(RuuSlots) /\ IsFiniteSet(LsqSlots)
  BY <1>1, <1>2 DEF RuuSlots, LsqSlots, RuuSlot, LsqSlot
<1> QED
  BY <1>3, FS_Union DEF Slots

LEMMA PlaceIn ==
    ASSUME NEW S, NEW W
    PROVE  /\ \A s \in W, o \in 1 .. 2 : \A i \in DOMAIN S[s].odep_list[o] :
                 <<s, o, i>> \in OdepPlaces(S, W)
           /\ \A x \in OdepPlaces(S, W) :
                 /\ x = <<x[1], x[2], x[3]>>
                 /\ x[1] \in W /\ x[2] \in 1 .. 2
                 /\ x[3] \in DOMAIN S[x[1]].odep_list[x[2]]
<1>1. ASSUME NEW s \in W, NEW o \in 1 .. 2, NEW i \in DOMAIN S[s].odep_list[o]
      PROVE  <<s, o, i>> \in OdepPlaces(S, W)
  <2> DEFINE G == {s} \X {o} \X DOMAIN S[s].odep_list[o]
             Q == {{r} \X {p} \X DOMAIN S[r].odep_list[p] : r \in W, p \in 1 .. 2}
  <2>1. <<s, o, i>> \in G
    OBVIOUS
  <2>2. G \in Q
    OBVIOUS
  <2>3. OdepPlaces(S, W) = UNION Q
    BY DEF OdepPlaces
  <2> HIDE DEF G, Q
  <2> QED
    BY <2>1, <2>2, <2>3
<1>2. ASSUME NEW x \in OdepPlaces(S, W)
      PROVE  /\ x = <<x[1], x[2], x[3]>>
             /\ x[1] \in W /\ x[2] \in 1 .. 2
             /\ x[3] \in DOMAIN S[x[1]].odep_list[x[2]]
  <2>1. PICK s \in W, o \in 1 .. 2 : x \in {s} \X {o} \X DOMAIN S[s].odep_list[o]
    BY DEF OdepPlaces
  <2>2. x = <<x[1], x[2], x[3]>> /\ x[1] = s /\ x[2] = o
        /\ x[3] \in DOMAIN S[s].odep_list[o]
    BY <2>1
  <2> QED
    BY <2>2
<1> QED
  BY <1>1, <1>2

LEMMA PlacesFinite ==
    ASSUME NEW S, Lists(S), NEW W \in SUBSET Slots
    PROVE  IsFiniteSet(OdepPlaces(S, W)) /\ Cardinality(OdepPlaces(S, W)) \in Nat
<1> DEFINE A == W \X (1 .. 2)
           G(s, o) == {s} \X {o} \X DOMAIN S[s].odep_list[o]
           f == [p \in A |-> G(p[1], p[2])]
           Q == {{s} \X {o} \X DOMAIN S[s].odep_list[o] : s \in W, o \in 1 .. 2}
<1>1. IsFiniteSet(A)
  <2>1. IsFiniteSet(W) /\ IsFiniteSet(1 .. 2)
    BY SlotsFinite, FS_Subset, FS_Interval
  <2> QED
    BY <2>1, FS_Product
<1>2. f \in Surjection(A, Q)
  <2>1. f \in [A -> Q]
    OBVIOUS
  <2>2. \A T \in Q : \E p \in A : f[p] = T
    <3>1. \A T \in Q : \E s \in W, o \in 1 .. 2 : T = G(s, o)
      OBVIOUS
    <3> HIDE DEF G, Q
    <3>2. ASSUME NEW T \in Q PROVE \E p \in A : f[p] = T
      <4>1. PICK s \in W, o \in 1 .. 2 : T = G(s, o)
        BY <3>1
      <4>2. <<s, o>> \in A /\ f[<<s, o>>] = T
        BY <4>1
      <4> QED
        BY <4>2
    <3> QED
      BY <3>2
  <2> HIDE DEF A, f, Q
  <2> QED
    BY <2>1, <2>2, Fun_IsSurj
<1>3. IsFiniteSet(Q)
  <2> HIDE DEF A, f, Q
  <2> QED
    BY <1>1, <1>2, FS_Surjection
<1>4. \A T \in Q : IsFiniteSet(T)
  <2> TAKE T \in Q
  <2>1. PICK s \in W, o \in 1 .. 2 : T = {s} \X {o} \X DOMAIN S[s].odep_list[o]
    OBVIOUS
  <2>2. PICK m \in Nat : DOMAIN S[s].odep_list[o] = 1 .. m
    <3>1. S[s].odep_list[o] \in Seq(LinkType)
      BY DEF Lists
    <3> QED
      BY <3>1, LenProperties
  <2> DEFINE g == [i \in 1 .. m |-> <<s, o, i>>]
  <2>3. g \in [1 .. m -> T] /\ \A x \in T : \E i \in 1 .. m : g[i] = x
    BY <2>1, <2>2
  <2>4. g \in Surjection(1 .. m, T)
    <3> HIDE DEF g, Q
    <3> QED
      BY <2>3, Fun_IsSurj
  <2>5. IsFiniteSet(1 .. m)
    BY FS_Interval
  <2> HIDE DEF g, Q
  <2> QED
    BY <2>4, <2>5, FS_Surjection
<1>5. OdepPlaces(S, W) = UNION Q
  BY DEF OdepPlaces
<1> HIDE DEF Q
<1> QED
  BY <1>3, <1>4, <1>5, FS_UNION, FS_CardinalityType

\* How many times the list holds the link l, and how often the first m of deps
\* ask for it.
Links(S, s, o, l) == Cardinality(Positions(S[s].odep_list[o], {l}))
Asks(S, deps, m, s, o, l) ==
    {i \in 1 .. m : deps[i].creator = CVLINK_INIT(s, o) /\ LinkOf(S, deps[i]) = l}

LEMMA LinkIdepCounts ==
    ASSUME NEW S, Stations(S), Lists(S), NEW d \in DependsType, S[d.rs].tag \in Nat
    PROVE  LET T == LinkIdep(S, d)
           IN  /\ Cardinality(OdepPlaces(T, Slots)) = Cardinality(OdepPlaces(S, Slots)) + 1
               /\ \A s \in Slots, o \in 1 .. 2 : \A l :
                     Links(T, s, o, l) = Links(S, s, o, l)
                        + IF d.creator = CVLINK_INIT(s, o) /\ LinkOf(S, d) = l
                          THEN 1 ELSE 0
<1> DEFINE c == d.creator.rs
           k == d.creator.odep_num
           T == LinkIdep(S, d)
           e == LinkOf(S, d)
           old == S[c].odep_list[k]
<1>1. c \in Slots /\ k \in 1 .. 2 /\ d.creator = CVLINK_INIT(c, k)
  BY DEF DependsType, CVLINK_INIT
<1>2. /\ Lists(T)
      /\ \A s \in Slots, o \in 1 .. 2 :
            T[s].odep_list[o] = IF s = c /\ o = k THEN <<e>> \o S[s].odep_list[o]
                                ELSE S[s].odep_list[o]
  BY LinkIdepIs
<1>3. /\ e \in LinkType /\ old \in Seq(LinkType)
      /\ Len(old) \in Nat /\ DOMAIN old = 1 .. Len(old)
  <2>1. e \in LinkType
    BY <1>1 DEF LinkOf, LinkType, DependsType
  <2>2. old \in Seq(LinkType)
    BY <1>1 DEF Lists
  <2> HIDE DEF old, e
  <2> QED
    BY <2>1, <2>2
<1>o. old = S[c].odep_list[k]
  OBVIOUS
<1>4. /\ T[c].odep_list[k] = <<e>> \o old
      /\ <<e>> \o old \in Seq(LinkType) /\ Inserted(old, <<e>> \o old, 1, e)
  BY <1>1, <1>2, <1>3, HeadInserted
<1> HIDE DEF T, e, old, c, k
<1>5. OdepPlaces(T, Slots) = OdepPlaces(S, Slots) \cup {<<c, k, Len(old) + 1>>}
  <2>1. /\ DOMAIN old = 1 .. Len(old) /\ DOMAIN T[c].odep_list[k] = 1 .. Len(old) + 1
        /\ Len(old) \in Nat
    <3>1. DOMAIN (<<e>> \o old) = 1 .. Len(old) + 1
      BY <1>4 DEF Inserted
    <3> QED
      BY <1>3, <1>4, <3>1
  <2>2. \A s \in Slots, o \in 1 .. 2 :
           DOMAIN T[s].odep_list[o] = IF s = c /\ o = k THEN 1 .. Len(old) + 1
                                      ELSE DOMAIN S[s].odep_list[o]
    BY <1>2, <2>1
  <2>3. ASSUME NEW x \in OdepPlaces(T, Slots)
        PROVE  x \in OdepPlaces(S, Slots) \cup {<<c, k, Len(old) + 1>>}
    <3>1. /\ x = <<x[1], x[2], x[3]>> /\ x[1] \in Slots /\ x[2] \in 1 .. 2
          /\ x[3] \in DOMAIN T[x[1]].odep_list[x[2]]
      BY PlaceIn
    <3>2. CASE x[3] \in DOMAIN S[x[1]].odep_list[x[2]]
      BY <3>1, <3>2, PlaceIn
    <3>3. CASE x[3] \notin DOMAIN S[x[1]].odep_list[x[2]]
      <4>1. x[1] = c /\ x[2] = k
        BY <2>2, <3>1, <3>3
      <4>2. x[3] \in 1 .. Len(old) + 1 /\ x[3] \notin 1 .. Len(old)
        BY <1>o, <2>1, <3>1, <3>3, <4>1
      <4>3. x[3] = Len(old) + 1
        BY <2>1, <4>2
      <4> QED
        BY <3>1, <4>1, <4>3
    <3> QED
      BY <3>2, <3>3
  <2>4. ASSUME NEW x \in OdepPlaces(S, Slots) PROVE x \in OdepPlaces(T, Slots)
    <3>1. /\ x = <<x[1], x[2], x[3]>> /\ x[1] \in Slots /\ x[2] \in 1 .. 2
          /\ x[3] \in DOMAIN S[x[1]].odep_list[x[2]]
      BY PlaceIn
    <3>2. x[3] \in DOMAIN T[x[1]].odep_list[x[2]]
      <4>1. CASE x[1] = c /\ x[2] = k
        <5>1. x[3] \in 1 .. Len(old)
          BY <1>o, <2>1, <3>1, <4>1
        <5>2. x[3] \in 1 .. Len(old) + 1
          BY <2>1, <5>1
        <5> QED
          BY <2>1, <4>1, <5>2
      <4>2. CASE ~(x[1] = c /\ x[2] = k)
        BY <2>2, <3>1, <4>2
      <4> QED
        BY <4>1, <4>2
    <3> QED
      BY <3>1, <3>2, PlaceIn
  <2>5. <<c, k, Len(old) + 1>> \in OdepPlaces(T, Slots)
    <3>1. Len(old) + 1 \in DOMAIN T[c].odep_list[k]
      BY <2>1
    <3> QED
      BY <1>1, <3>1, PlaceIn
  <2> QED
    BY <2>3, <2>4, <2>5
<1>6. <<c, k, Len(old) + 1>> \notin OdepPlaces(S, Slots)
  <2>1. Len(old) + 1 \notin DOMAIN old
    BY <1>3
  <2> SUFFICES ASSUME <<c, k, Len(old) + 1>> \in OdepPlaces(S, Slots) PROVE FALSE
    OBVIOUS
  <2>2. Len(old) + 1 \in DOMAIN S[c].odep_list[k]
    BY PlaceIn
  <2> QED
    BY <1>o, <2>1, <2>2
<1>7. Cardinality(OdepPlaces(T, Slots)) = Cardinality(OdepPlaces(S, Slots)) + 1
  <2> DEFINE P == OdepPlaces(S, Slots)
             x == <<c, k, Len(old) + 1>>
  <2>1. IsFiniteSet(P)
    BY PlacesFinite
  <2>2. x \notin P /\ OdepPlaces(T, Slots) = P \cup {x}
    BY <1>5, <1>6
  <2> HIDE DEF P, x
  <2>3. Cardinality(P \cup {x}) = Cardinality(P) + 1
    BY <2>1, <2>2, FS_AddElement
  <2> QED
    BY <2>2, <2>3 DEF P
<1>8. ASSUME NEW s \in Slots, NEW o \in 1 .. 2, NEW l
      PROVE  Links(T, s, o, l) = Links(S, s, o, l)
                + IF d.creator = CVLINK_INIT(s, o) /\ e = l THEN 1 ELSE 0
  <2>1. Cardinality(Positions(S[s].odep_list[o], {l})) \in Nat
    BY PositionsType DEF Lists
  <2>2. CASE s = c /\ o = k
    <3>1. Cardinality(Positions(<<e>> \o old, {l}))
            = Cardinality(Positions(old, {l})) + IF e \in {l} THEN 1 ELSE 0
      <4> DEFINE new == <<e>> \o old
                 M == {l}
      <4> HIDE DEF new, M
      <4>1. new \in Seq(LinkType) /\ Inserted(old, new, 1, e)
        BY <1>4 DEF new
      <4>2. Cardinality(Positions(new, M))
               = Cardinality(Positions(old, M)) + IF e \in M THEN 1 ELSE 0
        BY <1>3, <4>1, PositionsInserted
      <4> QED
        BY <4>2 DEF new, M
    <3>2. Cardinality(Positions(old, {l})) \in Nat
      BY <1>3, PositionsType
    <3> QED
      BY <1>1, <1>4, <1>o, <2>2, <3>1, <3>2 DEF Links
  <2>3. CASE ~(s = c /\ o = k)
    <3>1. d.creator # CVLINK_INIT(s, o)
      BY <1>1, <2>3 DEF CVLINK_INIT
    <3> QED
      BY <1>2, <2>1, <2>3, <3>1 DEF Links
  <2> QED
    BY <2>2, <2>3
<1> QED
  BY <1>7, <1>8 DEF T, e

-----------------------------------------------------------------------------
(* All the dependences of an instruction *)

\* The steps of LinkIdeps.
LEMMA LinkSteps ==
    ASSUME NEW S, NEW deps, Len(deps) \in Nat
    PROVE  \E linked : /\ LinkIdeps(S, deps) = linked[Len(deps)]
                       /\ linked[0] = S
                       /\ \A i \in 1 .. Len(deps) :
                             linked[i] = LinkIdep(linked[i - 1], deps[i])
<1> DEFINE N == Len(deps)
           Lnk(R, i) == LinkIdep(R, deps[i])
           P == {m \in Nat : \E g : g = [i \in 0 .. m |->
                    IF i = 0 THEN S ELSE Lnk(g[i - 1], i)]}
<1>1. 0 \in P
  <2> DEFINE g == [i \in 0 .. 0 |-> S]
  <2>1. g = [i \in 0 .. 0 |-> IF i = 0 THEN S ELSE Lnk(g[i - 1], i)]
    OBVIOUS
  <2> QED
    BY <2>1
<1>2. ASSUME NEW m \in Nat, m \in P PROVE m + 1 \in P
  <2>1. PICK g : g = [i \in 0 .. m |-> IF i = 0 THEN S ELSE Lnk(g[i - 1], i)]
    BY <1>2
  <2> DEFINE h == [i \in 0 .. m + 1 |-> IF i = m + 1 THEN Lnk(g[m], m + 1) ELSE g[i]]
  <2>2. \A i \in 0 .. m : g[i] = IF i = 0 THEN S ELSE Lnk(g[i - 1], i)
    BY <2>1
  <2> HIDE DEF Lnk
  <2>3. \A i \in 0 .. m + 1 : h[i] = IF i = 0 THEN S ELSE Lnk(h[i - 1], i)
    <3> TAKE i \in 0 .. m + 1
    <3>1. CASE i = m + 1
      BY <3>1
    <3>2. CASE i # m + 1
      BY <2>2, <3>2
    <3> QED
      BY <3>1, <3>2
  <2>4. h = [i \in 0 .. m + 1 |-> IF i = 0 THEN S ELSE Lnk(h[i - 1], i)]
    BY <2>3
  <2> HIDE DEF h
  <2>5. \E g2 : g2 = [i \in 0 .. m + 1 |-> IF i = 0 THEN S ELSE Lnk(g2[i - 1], i)]
    BY <2>4
  <2> QED
    BY <2>5
<1>3. N \in P
  <2> HIDE DEF P
  <2> QED
    BY <1>1, <1>2, NatSetInduction
<1> DEFINE linked == CHOOSE g : g = [i \in 0 .. N |-> IF i = 0 THEN S ELSE Lnk(g[i - 1], i)]
<1>4. linked = [i \in 0 .. N |-> IF i = 0 THEN S ELSE Lnk(linked[i - 1], i)]
  BY <1>3
<1>5. LinkIdeps(S, deps) = linked[N]
  BY DEF LinkIdeps
<1> HIDE DEF linked
<1> QED
  BY <1>4, <1>5

LEMMA ListsOnlyTransitive ==
    ASSUME NEW R, NEW S, NEW T, ListsOnly(R, S), ListsOnly(S, T)
    PROVE  ListsOnly(R, T)
  BY DEF ListsOnly, SameInst, SameProgress

\* ruu_link_idep makes one link for every dependence, on the list of its
\* creator, and changes nothing but the lists.
LEMMA LinkIdepsIs ==
    ASSUME NEW S, Stations(S), Lists(S), \A s \in Slots : S[s].tag \in Nat,
           NEW deps \in Seq(DependsType)
    PROVE  LET T == LinkIdeps(S, deps)
               N == Len(deps)
           IN  /\ Stations(T) /\ Lists(T) /\ ListsOnly(S, T)
               /\ Cardinality(OdepPlaces(T, Slots)) = Cardinality(OdepPlaces(S, Slots)) + N
               /\ \A s \in Slots, o \in 1 .. 2 : \A l :
                     Links(T, s, o, l) = Links(S, s, o, l)
                        + Cardinality(Asks(S, deps, N, s, o, l))
<1> DEFINE N == Len(deps)
<1>1. N \in Nat /\ \A i \in 1 .. N : deps[i] \in DependsType
  BY ElementOfSeq
<1>2. PICK linked : /\ LinkIdeps(S, deps) = linked[N]
                    /\ linked[0] = S
                    /\ \A i \in 1 .. N : linked[i] = LinkIdep(linked[i - 1], deps[i])
  BY <1>1, LinkSteps
<1> DEFINE good(m) == Stations(linked[m]) /\ Lists(linked[m]) /\ ListsOnly(S, linked[m])
           places(m) == Cardinality(OdepPlaces(linked[m], Slots))
                           = Cardinality(OdepPlaces(S, Slots)) + m
           counts(m) == \A s \in Slots, o \in 1 .. 2 : \A l :
                           Links(linked[m], s, o, l) = Links(S, s, o, l)
                              + Cardinality(Asks(S, deps, m, s, o, l))
           P == {m \in Nat : m <= N => good(m) /\ places(m) /\ counts(m)}
<1>3. /\ Cardinality(OdepPlaces(S, Slots)) \in Nat
      /\ \A s \in Slots, o \in 1 .. 2 : \A l : Links(S, s, o, l) \in Nat
  BY PlacesFinite, PositionsType DEF Lists, Links
<1>4. 0 \in P
  <2>1. good(0)
    BY <1>2 DEF ListsOnly, SameInst, SameProgress
  <2>2. places(0)
    BY <1>2, <1>3
  <2>3. counts(0)
    <3>1. \A s, o, l : Asks(S, deps, 0, s, o, l) = {}
      BY DEF Asks
    <3>2. \A s, o, l : Cardinality(Asks(S, deps, 0, s, o, l)) = 0
      BY <3>1, FS_EmptySet
    <3>3. ASSUME NEW s \in Slots, NEW o \in 1 .. 2, NEW l
          PROVE  Links(linked[0], s, o, l) = Links(S, s, o, l)
                    + Cardinality(Asks(S, deps, 0, s, o, l))
      <4>1. Cardinality(Asks(S, deps, 0, s, o, l)) = 0
        BY <3>2
      <4>2. Links(S, s, o, l) \in Nat
        BY <1>3
      <4> QED
        BY <1>2, <4>1, <4>2
    <3> QED
      BY <3>3
  <2> HIDE DEF good, places, counts
  <2> QED
    BY <2>1, <2>2, <2>3
<1>5. ASSUME NEW m \in Nat, m \in P, m + 1 <= N PROVE m + 1 \in P
  <2>1. good(m) /\ places(m) /\ counts(m)
    <3> HIDE DEF good, places, counts
    <3>1. m <= N
      BY <1>1, <1>5
    <3> QED
      BY <1>5, <3>1
  <2> DEFINE R == linked[m]
             d == deps[m + 1]
  <2>2. d \in DependsType /\ linked[m + 1] = LinkIdep(R, d)
    BY <1>1, <1>2, <1>5
  <2>3. /\ d.rs \in Slots /\ \A s \in Slots : R[s].tag = S[s].tag
        /\ LinkOf(R, d) = LinkOf(S, d)
    BY <2>1, <2>2 DEF ListsOnly, LinkOf, DependsType
  <2>4. R[d.rs].tag \in Nat
    BY <2>3
  <2>5. Stations(R) /\ Lists(R)
    BY <2>1
  <2> HIDE DEF R, d
  <2>6. /\ Stations(linked[m + 1]) /\ Lists(linked[m + 1])
        /\ ListsOnly(R, linked[m + 1])
    <3>1. /\ Stations(LinkIdep(R, d)) /\ Lists(LinkIdep(R, d))
          /\ ListsOnly(R, LinkIdep(R, d))
      BY <2>2, <2>4, <2>5, LinkIdepIs
    <3> QED
      BY <2>2, <3>1
  <2>7. good(m + 1)
    BY <2>1, <2>6, ListsOnlyTransitive DEF R
  <2>8. /\ Cardinality(OdepPlaces(linked[m + 1], Slots))
              = Cardinality(OdepPlaces(R, Slots)) + 1
        /\ \A s \in Slots, o \in 1 .. 2 : \A l :
              Links(linked[m + 1], s, o, l) = Links(R, s, o, l)
                 + IF d.creator = CVLINK_INIT(s, o) /\ LinkOf(S, d) = l THEN 1 ELSE 0
    BY <2>2, <2>3, <2>4, <2>5, LinkIdepCounts
  <2>9. places(m + 1)
    BY <1>3, <2>1, <2>8 DEF R
  <2>10. counts(m + 1)
    <3> SUFFICES ASSUME NEW s \in Slots, NEW o \in 1 .. 2, NEW l
                 PROVE  Links(linked[m + 1], s, o, l) = Links(S, s, o, l)
                           + Cardinality(Asks(S, deps, m + 1, s, o, l))
      OBVIOUS
    <3> DEFINE A == Asks(S, deps, m, s, o, l)
               B == Asks(S, deps, m + 1, s, o, l)
               hit == d.creator = CVLINK_INIT(s, o) /\ LinkOf(S, d) = l
    <3>1. A \in SUBSET (1 .. m) /\ m + 1 \notin A
          /\ B = IF hit THEN A \cup {m + 1} ELSE A
      BY DEF Asks, d
    <3>2. Links(R, s, o, l) = Links(S, s, o, l) + Cardinality(A)
      BY <2>1 DEF R
    <3>3. Links(linked[m + 1], s, o, l) = Links(R, s, o, l) + IF hit THEN 1 ELSE 0
      BY <2>8
    <3>4. Links(S, s, o, l) \in Nat
      BY <1>3
    <3> HIDE DEF A, B, hit
    <3>5. IsFiniteSet(A) /\ Cardinality(A) \in Nat
      BY <3>1, SubsetOfInterval
    <3>6. Cardinality(A \cup {m + 1}) = Cardinality(A) + 1
      BY <3>1, <3>5, FS_AddElement
    <3>7. Links(linked[m + 1], s, o, l) = Links(S, s, o, l) + Cardinality(B)
      BY <3>1, <3>2, <3>3, <3>4, <3>5, <3>6
    <3> QED
      BY <3>7 DEF B
  <2> HIDE DEF good, places, counts
  <2> QED
    BY <2>7, <2>9, <2>10
<1>6. \A m \in Nat : m \in P => m + 1 \in P
  <2> SUFFICES ASSUME NEW m \in Nat, m \in P, ~(m + 1 <= N) PROVE m + 1 \in P
    BY <1>5
  <2> HIDE DEF good, places, counts
  <2> QED
    OBVIOUS
<1>7. N \in P
  <2> HIDE DEF P
  <2> QED
    BY <1>1, <1>4, <1>6, NatSetInduction
<1>8. good(N) /\ places(N) /\ counts(N)
  <2> HIDE DEF good, places, counts
  <2> QED
    BY <1>1, <1>7
<1> QED
  BY <1>2, <1>8

-----------------------------------------------------------------------------
(* Places that come and go *)

LEMMA PlacesSame ==
    ASSUME NEW S, NEW T, NEW W,
           \A s \in W, o \in 1 .. 2 : T[s].odep_list[o] = S[s].odep_list[o]
    PROVE  OdepPlaces(T, W) = OdepPlaces(S, W)
<1>1. ASSUME NEW x \in OdepPlaces(S, W) PROVE x \in OdepPlaces(T, W)
  <2>1. /\ x = <<x[1], x[2], x[3]>> /\ x[1] \in W /\ x[2] \in 1 .. 2
        /\ x[3] \in DOMAIN S[x[1]].odep_list[x[2]]
    BY PlaceIn
  <2>2. x[3] \in DOMAIN T[x[1]].odep_list[x[2]]
    BY <2>1
  <2> QED
    BY <2>1, <2>2, PlaceIn
<1>2. ASSUME NEW x \in OdepPlaces(T, W) PROVE x \in OdepPlaces(S, W)
  <2>1. /\ x = <<x[1], x[2], x[3]>> /\ x[1] \in W /\ x[2] \in 1 .. 2
        /\ x[3] \in DOMAIN T[x[1]].odep_list[x[2]]
    BY PlaceIn
  <2>2. x[3] \in DOMAIN S[x[1]].odep_list[x[2]]
    BY <2>1
  <2> QED
    BY <2>1, <2>2, PlaceIn
<1> QED
  BY <1>1, <1>2

LEMMA PlacesNone ==
    ASSUME NEW S, NEW W, \A s \in W, o \in 1 .. 2 : S[s].odep_list[o] = <<>>
    PROVE  OdepPlaces(S, W) = {}
<1> SUFFICES ASSUME NEW x \in OdepPlaces(S, W) PROVE FALSE
  OBVIOUS
<1>1. /\ x[1] \in W /\ x[2] \in 1 .. 2 /\ x[3] \in DOMAIN S[x[1]].odep_list[x[2]]
  BY PlaceIn
<1> QED
  BY <1>1

LEMMA PlacesSplit ==
    ASSUME NEW S, Lists(S), NEW V \in SUBSET Slots, NEW W \in SUBSET Slots,
           V \cap W = {}, V \cup W = Slots
    PROVE  Cardinality(OdepPlaces(S, Slots))
              = Cardinality(OdepPlaces(S, V)) + Cardinality(OdepPlaces(S, W))
<1> DEFINE A == OdepPlaces(S, V)
           B == OdepPlaces(S, W)
<1>1. OdepPlaces(S, Slots) = A \cup B
  <2>1. ASSUME NEW x \in OdepPlaces(S, Slots) PROVE x \in A \cup B
    <3>1. /\ x = <<x[1], x[2], x[3]>> /\ x[1] \in Slots /\ x[2] \in 1 .. 2
          /\ x[3] \in DOMAIN S[x[1]].odep_list[x[2]]
      BY PlaceIn
    <3>2. CASE x[1] \in V
      BY <3>1, <3>2, PlaceIn
    <3>3. CASE x[1] \in W
      BY <3>1, <3>3, PlaceIn
    <3> QED
      BY <3>1, <3>2, <3>3
  <2>2. ASSUME NEW x \in A \cup B PROVE x \in OdepPlaces(S, Slots)
    <3>1. /\ x = <<x[1], x[2], x[3]>> /\ x[1] \in V \cup W /\ x[2] \in 1 .. 2
          /\ x[3] \in DOMAIN S[x[1]].odep_list[x[2]]
      BY PlaceIn
    <3> QED
      BY <3>1, PlaceIn
  <2> QED
    BY <2>1, <2>2
<1>2. A \cap B = {}
  <2> SUFFICES ASSUME NEW x \in A, x \in B PROVE FALSE
    OBVIOUS
  <2>1. x[1] \in V /\ x[1] \in W
    BY PlaceIn
  <2> QED
    BY <2>1
<1>3. IsFiniteSet(A) /\ IsFiniteSet(B)
  BY PlacesFinite
<1>4. Cardinality(A \cap B) = 0
  BY <1>2, FS_EmptySet
<1>5. Cardinality(A) \in Nat /\ Cardinality(B) \in Nat
  BY <1>3, FS_CardinalityType
<1> HIDE DEF A, B
<1>6. Cardinality(A \cup B) = Cardinality(A) + Cardinality(B) - Cardinality(A \cap B)
  BY <1>3, FS_Union
<1>7. Cardinality(A \cup B) = Cardinality(A) + Cardinality(B)
  BY <1>4, <1>5, <1>6
<1> QED
  BY <1>1, <1>7 DEF A, B

\* The places of one station are the positions of its two lists.
LEMMA PlacesOne ==
    ASSUME NEW S, Lists(S), NEW c \in Slots
    PROVE  Cardinality(OdepPlaces(S, {c})) = OdepLinks(S[c])
<1> DEFINE n1 == Len(S[c].odep_list[1])
           n2 == Len(S[c].odep_list[2])
           f == [i \in 1 .. n1 + n2 |->
                    IF i <= n1 THEN <<c, 1, i>> ELSE <<c, 2, i - n1>>]
           Q == OdepPlaces(S, {c})
           D == 1 .. n1 + n2
<1>1. /\ n1 \in Nat /\ DOMAIN S[c].odep_list[1] = 1 .. n1
      /\ n2 \in Nat /\ DOMAIN S[c].odep_list[2] = 1 .. n2
  <2>1. S[c].odep_list[1] \in Seq(LinkType) /\ S[c].odep_list[2] \in Seq(LinkType)
    BY DEF Lists
  <2>2. \A q \in Seq(LinkType) : Len(q) \in Nat /\ DOMAIN q = 1 .. Len(q)
    OBVIOUS
  <2> QED
    BY <2>1, <2>2
<1> HIDE DEF n1, n2
<1>2. \A i \in D : f[i] \in Q
  <2> TAKE i \in D
  <2>1. CASE i <= n1
    <3>1. i \in DOMAIN S[c].odep_list[1]
      BY <1>1, <2>1
    <3>2. <<c, 1, i>> \in Q
      BY <3>1, PlaceIn
    <3> QED
      BY <2>1, <3>2
  <2>2. CASE ~(i <= n1)
    <3>1. i - n1 \in DOMAIN S[c].odep_list[2]
      BY <1>1, <2>2
    <3>2. <<c, 2, i - n1>> \in Q
      BY <3>1, PlaceIn
    <3> QED
      BY <2>2, <3>2
  <2> QED
    BY <2>1, <2>2
<1>3. \A x \in Q : \E i \in D : f[i] = x
  <2> TAKE x \in Q
  <2>1. /\ x = <<x[1], x[2], x[3]>> /\ x[1] = c /\ x[2] \in 1 .. 2
        /\ x[3] \in DOMAIN S[c].odep_list[x[2]]
    BY PlaceIn
  <2>2. CASE x[2] = 1
    <3>1. x[3] \in D /\ x[3] <= n1 /\ x = <<c, 1, x[3]>>
      BY <1>1, <2>1, <2>2
    <3>2. f[x[3]] = x
      BY <3>1
    <3> QED
      BY <3>1, <3>2
  <2>3. CASE x[2] = 2
    <3>1. /\ x[3] + n1 \in D /\ ~(x[3] + n1 <= n1) /\ x = <<c, 2, x[3]>>
          /\ (x[3] + n1) - n1 = x[3]
      BY <1>1, <2>1, <2>3
    <3>2. f[x[3] + n1] = x
      BY <3>1
    <3> QED
      BY <3>1, <3>2
  <2> QED
    BY <2>1, <2>2, <2>3
<1>4. \A a, b \in D : f[a] = f[b] => a = b
  BY <1>1
<1>5. f \in [D -> Q]
  BY <1>2
<1>6. IsFiniteSet(D) /\ Cardinality(D) = n1 + n2
  <2>1. n1 + n2 \in Nat
    BY <1>1
  <2>2. IsFiniteSet(1 .. n1 + n2) /\ Cardinality(1 .. n1 + n2) = n1 + n2
    BY <2>1, FS_Interval
  <2> QED
    BY <2>2
<1>7. Cardinality(Q) = Cardinality(D)
  <2> HIDE DEF f, Q, D
  <2> QED
    BY <1>3, <1>4, <1>5, <1>6, PairsCardinality DEF Pairs
<1> QED
  BY <1>6, <1>7 DEF OdepLinks, n1, n2

LEMMA LinksEmpty ==
    ASSUME NEW S, NEW s, NEW o, S[s].odep_list[o] = <<>>, NEW l
    PROVE  Links(S, s, o, l) = 0
<1>1. Positions(<<>>, {l}) = {}
  BY DEF Positions
<1> QED
  BY <1>1, FS_EmptySet DEF Links

LEMMA LinksType ==
    ASSUME NEW S, Lists(S), NEW s \in Slots, NEW o \in 1 .. 2, NEW l
    PROVE  Links(S, s, o, l) \in Nat
  BY PositionsType DEF Lists, Links

\* A list holds a link exactly if one of its places does.
LEMMA LinksZero ==
    ASSUME NEW S, Lists(S), NEW s \in Slots, NEW o \in 1 .. 2, NEW l
    PROVE  Links(S, s, o, l) = 0
              <=> \A i \in DOMAIN S[s].odep_list[o] : S[s].odep_list[o][i] # l
<1> DEFINE q == S[s].odep_list[o]
           A == Positions(q, {l})
<1>1. A = {i \in DOMAIN q : q[i] = l}
  BY DEF Positions
<1>2. q \in Seq(LinkType)
  BY DEF Lists
<1>3. IsFiniteSet(A)
  <2> HIDE DEF q
  <2> QED
    BY <1>2, PositionsType
<1> HIDE DEF A
<1>4. Cardinality(A) = 0 <=> A = {}
  BY <1>3, FS_EmptySet
<1>5. Links(S, s, o, l) = Cardinality(A)
  BY DEF Links, A
<1> HIDE DEF q
<1>6. A = {} <=> \A i \in DOMAIN q : q[i] # l
  BY <1>1
<1> QED
  BY <1>4, <1>5, <1>6 DEF q

-----------------------------------------------------------------------------
(* Stations *)

LEMMA SameInstTransitive ==
    ASSUME NEW p, NEW q, NEW r, SameInst(p, q), SameInst(q, r) PROVE SameInst(p, r)
  BY DEF SameInst

IsStation(q) == q = [f \in DOMAIN q |-> q[f]] /\ DOMAIN q = DOMAIN EmptyStation

\* T is S with another station s.
Replaced(S, T, s, q) == T = [S EXCEPT ![s] = q]

LEMMA StationReplaced ==
    ASSUME NEW S, Stations(S), NEW s \in Slots, NEW q, IsStation(q),
           NEW T, Replaced(S, T, s, q)
    PROVE  Stations(T) /\ T[s] = q /\ \A x \in Slots : x # s => T[x] = S[x]
<1>1. /\ T = [x \in Slots |-> T[x]] /\ T[s] = q
      /\ \A x \in Slots : x # s => T[x] = S[x]
  BY DEF Stations, Replaced
<1>2. \A x \in Slots : IsStation(T[x])
  BY <1>1 DEF Stations, IsStation
<1>3. Stations(T)
  BY <1>1, <1>2 DEF Stations, IsStation
<1> QED
  BY <1>1, <1>3

\* The stations on a list are marked, and keep all else.
Marked(S, T, slots) ==
    /\ Stations(T)
    /\ \A s \in Slots :
          /\ SameInst(S[s], T[s])
          /\ T[s].tag = S[s].tag /\ T[s].idep_ready = S[s].idep_ready
          /\ T[s].odep_list = S[s].odep_list
          /\ T[s].issued = S[s].issued /\ T[s].completed = S[s].completed
          /\ T[s].queued = IF \E i \in DOMAIN slots : slots[i] = s THEN TRUE
                           ELSE S[s].queued

LEMMA MarkQueuedIs ==
    ASSUME NEW S, NEW slots, Stations(S)
    PROVE  Marked(S, MarkQueued(S, slots), slots)
<1> DEFINE T == MarkQueued(S, slots)
           on(s) == \E i \in DOMAIN slots : slots[i] = s
<1>1. /\ T = [s \in Slots |-> T[s]]
      /\ \A s \in Slots : T[s] = IF on(s) THEN [S[s] EXCEPT !.queued = TRUE] ELSE S[s]
  BY DEF MarkQueued
<1> HIDE DEF T, on
<1>2. \A s \in Slots : /\ T[s] = [f \in DOMAIN T[s] |-> T[s][f]]
                       /\ DOMAIN T[s] = DOMAIN EmptyStation
                       /\ SameInst(S[s], T[s])
                       /\ T[s].tag = S[s].tag /\ T[s].idep_ready = S[s].idep_ready
                       /\ T[s].odep_list = S[s].odep_list
                       /\ T[s].issued = S[s].issued /\ T[s].completed = S[s].completed
                       /\ T[s].queued = IF on(s) THEN TRUE ELSE S[s].queued
  BY <1>1 DEF Stations, SameInst, EmptyStation
<1>3. Stations(T)
  BY <1>1, <1>2 DEF Stations
<1> QED
  BY <1>2, <1>3 DEF Marked, T, on

\* An operation starts, and is done at once if it is a store.
Started(S, T, s, done) ==
    /\ Stations(T)
    /\ \A x \in Slots :
          /\ SameInst(S[x], T[x]) /\ T[x].tag = S[x].tag
          /\ T[x].idep_ready = S[x].idep_ready /\ T[x].odep_list = S[x].odep_list
          /\ T[x].queued = IF x = s THEN FALSE ELSE S[x].queued
          /\ T[x].issued = IF x = s THEN TRUE ELSE S[x].issued
          /\ T[x].completed = IF x = s /\ done THEN TRUE ELSE S[x].completed

LEMMA StartedIs ==
    ASSUME NEW S, Stations(S), NEW s \in Slots, NEW done \in BOOLEAN,
           NEW q, IsStation(q), SameInst(S[s], q), q.tag = S[s].tag,
           q.idep_ready = S[s].idep_ready, q.odep_list = S[s].odep_list,
           q.queued = FALSE, q.issued = TRUE,
           q.completed = IF done THEN TRUE ELSE S[s].completed,
           NEW T, Replaced(S, T, s, q)
    PROVE  Started(S, T, s, done)
<1>1. Stations(T) /\ T[s] = q /\ \A x \in Slots : x # s => T[x] = S[x]
  BY StationReplaced
<1> QED
  BY <1>1 DEF Started, SameInst

-----------------------------------------------------------------------------
(* The functional units *)

\* res_get returns one of the free units, if there is one.
LEMMA ResGetIs ==
    ASSUME NEW class, NEW busy, Units \subseteq Nat, FreeUnits(class, busy) # {}
    PROVE  /\ res_get(class, busy) \in FreeUnits(class, busy)
           /\ \A u \in FreeUnits(class, busy) : res_get(class, busy) <= u
<1> DEFINE F == FreeUnits(class, busy)
<1>1. F \subseteq Nat /\ F # {}
  BY DEF FreeUnits
<1> HIDE DEF F
<1>2. \E x \in F : \A y \in F : x <= y
  BY <1>1, LeastNat
<1>3. Min(F) \in F /\ \A y \in F : Min(F) <= y
  BY <1>2 DEF Min
<1> QED
  BY <1>3 DEF F, res_get

-----------------------------------------------------------------------------
(* Stations gathered in the order of their numbers *)

\* w lists the stations g names for the numbers in K, in increasing order of these.
Gathers(w, K, g) ==
    /\ K \subseteq Int /\ IsFiniteSet(K)
    /\ \A i \in K : g[i] \in Slots
    /\ w = [k \in DOMAIN InOrder(K) |-> g[InOrder(K)[k]]]

\* The numbers for which g names x.
Naming(K, g, x) == {i \in K : g[i] = x}

LEMMA GathersIs ==
    ASSUME NEW w, NEW K, NEW g, Gathers(w, K, g)
    PROVE  /\ w \in Seq(Slots) /\ Len(w) = Cardinality(K)
           /\ \A x : (\E j \in DOMAIN w : w[j] = x) <=> (\E i \in K : g[i] = x)
           /\ \A x : Times(w, x) = Cardinality(Naming(K, g, x))
<1> DEFINE N == Cardinality(K)
<1>0. K \in SUBSET Int /\ IsFiniteSet(K) /\ \A i \in K : g[i] \in Slots
  BY DEF Gathers
<1>1. PICK f : f = InOrder(K)
  OBVIOUS
<1>2. /\ N \in Nat /\ f \in [1 .. N -> K]
      /\ \A a, b \in 1 .. N : f[a] = f[b] => a = b
      /\ \A i \in K : \E k \in 1 .. N : f[k] = i
  BY <1>0, <1>1, InOrderIs
<1>3. DOMAIN w = 1 .. N /\ \A k \in 1 .. N : w[k] = g[f[k]]
  BY <1>1, <1>2 DEF Gathers
<1> HIDE DEF N
<1>4. w \in [1 .. N -> Slots]
  BY <1>0, <1>1, <1>2, <1>3 DEF Gathers
<1>5. w \in Seq(Slots) /\ Len(w) = N
  BY <1>2, <1>4
<1>6. \A x : (\E j \in DOMAIN w : w[j] = x) <=> (\E i \in K : g[i] = x)
  <2>1. \A j \in DOMAIN w : f[j] \in K /\ w[j] = g[f[j]]
    BY <1>2, <1>3
  <2>2. \A i \in K : \E j \in DOMAIN w : f[j] = i
    BY <1>2, <1>3
  <2>3. ASSUME NEW i \in K PROVE \E j \in DOMAIN w : w[j] = g[i]
    <3>1. PICK j \in DOMAIN w : f[j] = i
      BY <2>2
    <3> QED
      BY <2>1, <3>1
  <2> QED
    BY <2>1, <2>3
<1>7. ASSUME NEW x PROVE Times(w, x) = Cardinality(Naming(K, g, x))
  <2> DEFINE A == {j \in DOMAIN w : w[j] = x}
             B == {i \in K : g[i] = x}
             h == [j \in A |-> f[j]]
  <2>1. Pairs(h, A, B)
    <3>1. h \in [A -> B]
      BY <1>2, <1>3
    <3>2. \A a, b \in A : h[a] = h[b] => a = b
      BY <1>2, <1>3
    <3>3. \A t \in B : \E s \in A : h[s] = t
      BY <1>2, <1>3
    <3> QED
      BY <3>1, <3>2, <3>3 DEF Pairs
  <2>2. IsFiniteSet(A)
    BY <1>5, TimesType
  <2> HIDE DEF A, B, h
  <2>3. Cardinality(B) = Cardinality(A)
    BY <2>1, <2>2, PairsCardinality
  <2> QED
    BY <2>3 DEF Times, Naming, A, B
<1> QED
  BY <1>5, <1>6, <1>7 DEF N

LEMMA TimesOnce ==
    ASSUME NEW K, NEW g, \A i, j \in K : g[i] = g[j] => i = j, NEW x
    PROVE  Cardinality(Naming(K, g, x)) = IF \E i \in K : g[i] = x THEN 1 ELSE 0
<1>1. CASE \E i \in K : g[i] = x
  <2>1. PICK i \in K : g[i] = x
    BY <1>1
  <2>2. Naming(K, g, x) = {i}
    BY <2>1 DEF Naming
  <2> QED
    BY <1>1, <2>2, FS_Singleton
<1>2. CASE ~\E i \in K : g[i] = x
  <2>1. Naming(K, g, x) = {}
    BY <1>2 DEF Naming
  <2> QED
    BY <1>2, <2>1, FS_EmptySet
<1> QED
  BY <1>1, <1>2

LEMMA GreatestNat ==
    ASSUME NEW m \in Nat, NEW T, T \subseteq 1 .. m, T # {}
    PROVE  \E x \in T : \A y \in T : y <= x
<1> DEFINE U == {k \in 0 .. m : m - k \in T}
<1>1. U \subseteq Nat
  OBVIOUS
<1>2. U # {}
  <2>1. PICK t \in T : TRUE
    OBVIOUS
  <2>2. m - t \in 0 .. m /\ m - (m - t) = t
    BY <2>1
  <2> QED
    BY <2>1, <2>2
<1>3. PICK k \in U : \A j \in U : k <= j
  <2> HIDE DEF U
  <2> QED
    BY <1>1, <1>2, LeastNat
<1>4. \A y \in T : m - y \in U
  OBVIOUS
<1>5. ASSUME NEW y \in T PROVE y <= m - k
  <2>1. m - y \in U /\ y \in Int /\ k \in Int
    BY <1>4
  <2>2. k <= m - y
    BY <1>3, <2>1
  <2> QED
    BY <2>1, <2>2
<1> QED
  BY <1>3, <1>5

-----------------------------------------------------------------------------
(* The front end *)

\* The fetch queue holds a path: every entry was fetched where the one before
\* it was predicted to go, and the fetch goes on where the last one does.
IfqPath ==
    /\ \A i \in 1 .. Len(ifq) - 1 : ifq[i + 1].regs_PC = ifq[i].pred_PC
    /\ ifq # <<>> => ifq[Len(ifq)].pred_PC = fetch_pred_PC

FetchInv == FetchType /\ IfqPath

USE DEF BogusPC

LEMMA SeqPCType == \A pc \in PCs : SeqPC(pc) \in PCs
  BY DEF SeqPC, PCs, Text

LEMMA TargetsType == \A pc : Inst(pc).targets \subseteq PCs
  BY IsaAssumption DEF Inst, NOPInst, PCs, Text

LEMMA NextPCsType == \A pc \in PCs : NextPCs(pc) \subseteq PCs
  BY SeqPCType, TargetsType DEF NextPCs

LEMMA TakenType == \A pc \in PCs : Taken(pc) \subseteq PCs
  BY SeqPCType, TargetsType DEF Taken, PCs

LEMMA WidthTypes ==
    /\ ruu_ifq_size \in Nat \ {0} /\ ruu_decode_width \in Nat \ {0}
    /\ fetch_speed \in Nat \ {0} /\ ruu_branch_penalty \in Nat \ {0}
    /\ FetchMissLats \subseteq Nat \ {0}
  BY OutOrderAssumption

LEMMA InitFetchInv == Init => FetchInv
<1> SUFFICES ASSUME Init PROVE FetchInv
  OBVIOUS
<1>1. Entry \in PCs /\ BogusPC \in PCs
  BY IsaAssumption DEF PCs
<1>2. FetchType
  <2>1. /\ ifq = <<>> /\ fetch_pred_PC = Entry
        /\ ruu_fetch_issue_delay = 0 /\ branch_cnt = 0 /\ il1_PC = BogusPC
        /\ spec_mode = FALSE /\ recover_PC = BogusPC /\ sim_num_insn = 0
    BY DEF Init
  <2>2. spec_mode \in BOOLEAN
    BY <2>1
  <2>3. /\ ifq \in Seq([regs_PC : PCs, pred_PC : PCs])
        /\ Len(ifq) <= ruu_ifq_size
    BY <2>1, WidthTypes
  <2> QED
    BY <1>1, <2>1, <2>2, <2>3, WidthTypes DEF FetchType
<1>3. IfqPath
  BY DEF Init, IfqPath
<1> QED
  BY <1>2, <1>3 DEF FetchInv

LEMMA PushFetchInv ==
    ASSUME FetchInv, CanFetch, NEW pred \in PCs, PushFetch(pred)
    PROVE  /\ ifq' \in Seq([regs_PC : PCs, pred_PC : PCs])
           /\ Len(ifq') <= ruu_ifq_size
           /\ fetch_pred_PC' \in PCs
           /\ IfqPath'
<1> DEFINE e == [regs_PC |-> fetch_pred_PC, pred_PC |-> pred]
<1>1. e \in [regs_PC : PCs, pred_PC : PCs]
  BY DEF FetchInv, FetchType
<1>2. /\ ifq \in Seq([regs_PC : PCs, pred_PC : PCs])
      /\ ifq' = Append(ifq, e) /\ fetch_pred_PC' = pred
  BY DEF PushFetch, FetchInv, FetchType
<1>3. /\ ifq' \in Seq([regs_PC : PCs, pred_PC : PCs])
      /\ Len(ifq') = Len(ifq) + 1
      /\ ifq'[Len(ifq) + 1] = e
      /\ \A i \in 1 .. Len(ifq) : ifq'[i] = ifq[i]
  BY <1>1, <1>2
<1>4. Len(ifq') <= ruu_ifq_size
  BY <1>2, <1>3, WidthTypes DEF CanFetch
<1>5. IfqPath'
  <2>1. ifq'[Len(ifq')].pred_PC = fetch_pred_PC'
    BY <1>2, <1>3
  <2>2. ASSUME NEW i \in 1 .. Len(ifq') - 1
        PROVE  ifq'[i + 1].regs_PC = ifq'[i].pred_PC
    <3>1. CASE i = Len(ifq)
      BY <1>2, <1>3, <3>1 DEF FetchInv, IfqPath
    <3>2. CASE i # Len(ifq)
      <4>1. i \in 1 .. Len(ifq) - 1 /\ i + 1 \in 1 .. Len(ifq)
        BY <1>2, <1>3, <3>2
      <4> QED
        BY <1>3, <4>1 DEF FetchInv, IfqPath
    <3> QED
      BY <3>1, <3>2
  <2> QED
    BY <2>1, <2>2 DEF IfqPath
<1> QED
  BY <1>2, <1>3, <1>4, <1>5

\* A dispatch takes the head off the queue or empties it.
LEMMA DispatchFetchInv ==
    ASSUME FetchInv, CanDispatch, NEW npc \in NextPCs(DispPC), DispatchOracle(npc)
    PROVE  FetchInv'
<1>1. /\ ifq \in Seq([regs_PC : PCs, pred_PC : PCs]) /\ ifq # <<>>
      /\ Len(ifq) <= ruu_ifq_size
      /\ fetch_pred_PC \in PCs /\ recover_PC \in PCs /\ il1_PC \in PCs
      /\ ruu_fetch_issue_delay \in Nat /\ branch_cnt \in 0 .. fetch_speed
      /\ sim_num_insn \in Nat
  BY DEF FetchInv, FetchType, CanDispatch
<1>2. npc \in PCs
  <2>1. DispPC \in PCs
    <3>1. Head(ifq) \in [regs_PC : PCs, pred_PC : PCs]
      BY <1>1, HeadTailProperties
    <3> QED
      BY <3>1 DEF DispPC
  <2> QED
    BY <2>1, NextPCsType
<1>3. /\ recover_PC' \in PCs /\ fetch_pred_PC' \in PCs /\ il1_PC' \in PCs
      /\ ruu_fetch_issue_delay' \in Nat /\ branch_cnt' \in 0 .. fetch_speed
      /\ sim_num_insn' \in Nat
  BY <1>1, <1>2, WidthTypes DEF DispatchOracle
<1>4. spec_mode' \in BOOLEAN
  BY DEF DispatchOracle
<1>5. CASE ifq' = <<>>
  <2>1. /\ ifq' \in Seq([regs_PC : PCs, pred_PC : PCs])
        /\ Len(ifq') <= ruu_ifq_size
    BY <1>5, WidthTypes
  <2>2. IfqPath'
    BY <1>5 DEF IfqPath
  <2> QED
    BY <1>3, <1>4, <2>1, <2>2 DEF FetchInv, FetchType
<1>6. CASE ifq' # <<>>
  <2>1. ifq' = Tail(ifq) /\ fetch_pred_PC' = fetch_pred_PC
    BY <1>6 DEF DispatchOracle
  <2>2. /\ ifq' \in Seq([regs_PC : PCs, pred_PC : PCs])
        /\ Len(ifq') = Len(ifq) - 1
        /\ \A i \in 1 .. Len(ifq) - 1 : ifq'[i] = ifq[i + 1]
    BY <1>1, <2>1
  <2>3. ifq'[Len(ifq')] = ifq[Len(ifq)]
    BY <1>1, <1>6, <2>2
  <2>4. IfqPath'
    <3>1. ASSUME NEW i \in 1 .. Len(ifq') - 1
          PROVE  ifq'[i + 1].regs_PC = ifq'[i].pred_PC
      <4>1. /\ i \in 1 .. Len(ifq) - 1 /\ i + 1 \in 1 .. Len(ifq) - 1
            /\ ifq'[i] = ifq[i + 1] /\ ifq'[i + 1] = ifq[(i + 1) + 1]
        BY <1>1, <2>2
      <4> QED
        BY <4>1 DEF FetchInv, IfqPath
    <3> QED
      BY <1>1, <2>1, <2>3, <3>1 DEF FetchInv, IfqPath
  <2> QED
    BY <1>1, <1>3, <1>4, <2>2, <2>4, WidthTypes DEF FetchInv, FetchType
<1> QED
  BY <1>5, <1>6

LEMMA FetchInvStep == ASSUME FetchInv, [Next]_vars PROVE FetchInv'
<1> USE WidthTypes
<1>1. ASSUME UNCHANGED frontVars PROVE FetchInv'
  BY <1>1 DEF frontVars, fetchVars, oracleVars, FetchInv, FetchType, IfqPath
<1>2. CASE UNCHANGED vars
  BY <1>1, <1>2 DEF vars
<1>3. CASE Exited
  BY <1>1, <1>3 DEF Exited, vars
<1>4. CASE Commit
  BY <1>1, <1>4 DEF Commit, RuuCommit, RuuCommitDone
<1>5. CASE RuuReleaseFu
  BY <1>1, <1>5 DEF RuuReleaseFu
<1>6. CASE Writeback
  <2>1. CASE WritebackRecover
    <3>1. /\ spec_mode' \in BOOLEAN /\ ifq' = <<>> /\ fetch_pred_PC' = recover_PC
          /\ ruu_fetch_issue_delay' = ruu_branch_penalty
          /\ UNCHANGED <<recover_PC, sim_num_insn, branch_cnt, il1_PC>>
      BY <2>1 DEF WritebackRecover, TracerRecover
    <3>2. /\ ifq' \in Seq([regs_PC : PCs, pred_PC : PCs])
          /\ Len(ifq') <= ruu_ifq_size
      BY <3>1
    <3> QED
      BY <3>1, <3>2 DEF FetchInv, FetchType, IfqPath
  <2>2. CASE WritebackStale \/ WritebackOp \/ WritebackDone
    BY <1>1, <2>2 DEF WritebackStale, WritebackOp, WritebackDone
  <2> QED
    BY <1>6, <2>1, <2>2 DEF Writeback
<1>7. CASE LsqRefresh
  BY <1>1, <1>7 DEF LsqRefresh
<1>8. CASE Issue
  BY <1>1, <1>8 DEF Issue, IssueStale, IssueStore, IssueToUnit, IssueNoUnit,
                    IssueNoClass, IssueDone, Start
<1>9. CASE Dispatch
  <2>1. CASE DispatchNop
    BY <2>1, DispatchFetchInv DEF DispatchNop
  <2>2. CASE DispatchInst
    BY <2>2, DispatchFetchInv DEF DispatchInst
  <2>3. CASE DispatchExit
    <3>1. UNCHANGED fetchVars /\ UNCHANGED <<spec_mode, recover_PC>>
          /\ sim_num_insn' = sim_num_insn + 1
      BY <2>3 DEF DispatchExit
    <3> QED
      BY <3>1 DEF FetchInv, FetchType, IfqPath, fetchVars
  <2>4. CASE DispatchDone
    BY <1>1, <2>4 DEF DispatchDone
  <2> QED
    BY <1>9, <2>1, <2>2, <2>3, <2>4 DEF Dispatch
<1>10. CASE Fetch
  <2>0. fetch_pred_PC \in PCs
    BY DEF FetchInv, FetchType
  <2>1. CASE FetchStalled
    <3>1. ruu_fetch_issue_delay' \in Nat
      BY <2>1 DEF FetchStalled, FetchInv, FetchType
    <3> QED
      BY <2>1, <3>1 DEF FetchStalled, FetchInv, FetchType, IfqPath, oracleVars
  <2>2. CASE FetchMiss
    BY <2>2 DEF FetchMiss, FetchInv, FetchType, IfqPath, oracleVars, PCs
  <2>3. CASE FetchNotTaken
    <3>1. PICK pred \in PCs : PushFetch(pred)
      BY <2>0, <2>3, SeqPCType DEF FetchNotTaken
    <3>2. CanFetch /\ UNCHANGED <<ruu_fetch_issue_delay, branch_cnt, il1_PC, oracleVars>>
      BY <2>3 DEF FetchNotTaken
    <3> QED
      BY <3>1, <3>2, PushFetchInv DEF FetchInv, FetchType, oracleVars
  <2>4. CASE FetchTaken
    <3>1. PICK pred \in PCs : PushFetch(pred)
      BY <2>0, <2>4, TakenType DEF FetchTaken
    <3>2. branch_cnt' \in 0 .. fetch_speed
      BY <2>4 DEF FetchTaken, CanFetch, FetchInv, FetchType
    <3> QED
      BY <2>4, <3>1, <3>2, PushFetchInv
         DEF FetchTaken, FetchInv, FetchType, oracleVars
  <2>5. CASE FetchDone
    BY <1>1, <2>5 DEF FetchDone, frontVars
  <2> QED
    BY <1>10, <2>1, <2>2, <2>3, <2>4, <2>5 DEF Fetch
<1>11. CASE EndCycle
  BY <1>11 DEF EndCycle, FetchInv, FetchType, IfqPath, oracleVars
<1> QED
  BY <1>2, <1>3, <1>4, <1>5, <1>6, <1>7, <1>8, <1>9, <1>10, <1>11 DEF Next, Step

\* The front end stays within its types and bounds, and the fetch queue holds a
\* path of predictions: ruu_fetch, ruu_dispatch and tracer_recover agree on where
\* the fetch is, however redirections, recoveries and misses interleave.
THEOREM FetchQueueIsPath == Spec => []FetchInv
<1>1. Init => FetchInv
  BY InitFetchInv
<1>2. FetchInv /\ [Next]_vars => FetchInv'
  BY FetchInvStep
<1> QED
  BY <1>1, <1>2, PTL DEF Spec

-----------------------------------------------------------------------------
(* The pipeline implements the functional simulator *)

LEMMA HaltedStep == ASSUME halted \in BOOLEAN, [Next]_vars PROVE halted' \in BOOLEAN
<1>1. CASE UNCHANGED halted
  BY <1>1
<1>2. CASE DispatchExit \/ EndCycle
  <2>1. halted' = TRUE \/ halted' = (max_insts # 0 /\ sim_num_insn >= max_insts)
    BY <1>2 DEF DispatchExit, EndCycle
  <2> QED
    BY <2>1
<1>3. UNCHANGED halted \/ DispatchExit \/ EndCycle
  BY DEF Next, Step, Exited, vars, Commit, RuuCommit, RuuCommitDone, RuuReleaseFu,
         Writeback, WritebackStale, WritebackOp, WritebackRecover, WritebackDone,
         LsqRefresh, Issue, IssueStale, IssueStore, IssueToUnit, IssueNoUnit,
         IssueNoClass, IssueDone, Start, Dispatch, DispatchNop, DispatchInst,
         DispatchDone, Fetch, FetchStalled, FetchMiss, FetchNotTaken, FetchTaken,
         FetchDone, backVars
<1> QED
  BY <1>1, <1>2, <1>3

LEMMA TailEmpty ==
    ASSUME NEW S, NEW s \in Seq(S), s # <<>>, Tail(s) = <<>>
    PROVE  Len(s) = 1
<1>1. Len(Tail(s)) = Len(s) - 1 /\ Len(s) \in Nat
  BY HeadTailProperties, LenProperties
<1>2. Len(Tail(s)) = 0
  BY EmptySeq
<1> QED
  BY <1>1, <1>2

LEMMA HeadTail ==
    ASSUME NEW S, NEW s \in Seq(S), s # <<>>, Tail(s) # <<>>
    PROVE  Len(s) >= 2 /\ Head(Tail(s)) = s[1 + 1]
<1>1. Tail(s) \in Seq(S) /\ Len(Tail(s)) = Len(s) - 1 /\ Len(s) \in Nat
  BY HeadTailProperties, LenProperties
<1>2. Len(Tail(s)) \in Nat \ {0}
  BY <1>1, EmptySeq
<1>3. Tail(s)[1] = s[1 + 1]
  BY <1>2, HeadTailProperties
<1> QED
  BY <1>1, <1>2, <1>3

\* Where the functional simulator is after a dispatch on the program's path.
LEMMA DispatchFrontPC ==
    ASSUME FetchInv, CanDispatch, NEW npc, DispatchOracle(npc), ~spec_mode
    PROVE  FrontPC = DispPC /\ FrontPC' = npc
<1> DEFINE E == [regs_PC : PCs, pred_PC : PCs]
<1>0. ifq \in Seq(E) /\ ifq # <<>>
  BY DEF FetchInv, FetchType, CanDispatch
<1>1. /\ DispPC = ifq[1].regs_PC /\ Head(ifq) = ifq[1]
      /\ Tail(ifq) \in Seq(E) /\ Len(Tail(ifq)) = Len(ifq) - 1
      /\ \A i \in 1 .. Len(Tail(ifq)) : Tail(ifq)[i] = ifq[i + 1]
      /\ Len(ifq) \in Nat
  <2> HIDE DEF E
  <2> QED
    BY <1>0, HeadTailProperties DEF DispPC
<1>2. FrontPC = DispPC
  BY <1>1 DEF FrontPC, DispPC
<1>3. CASE Mispredicted(npc)
  <2>1. spec_mode' /\ recover_PC' = npc
    BY <1>3 DEF DispatchOracle
  <2> QED
    BY <1>2, <2>1 DEF FrontPC
<1>4. CASE ~Mispredicted(npc) /\ Redirected(npc)
  <2>1. ~spec_mode' /\ ifq' = <<>> /\ fetch_pred_PC' = npc
    BY <1>4 DEF DispatchOracle
  <2> QED
    BY <1>2, <2>1 DEF FrontPC
<1>5. CASE ~Mispredicted(npc) /\ ~Redirected(npc)
  <2>1. /\ ~spec_mode' /\ ifq' = Tail(ifq) /\ fetch_pred_PC' = fetch_pred_PC
        /\ ifq[1].pred_PC = npc
    BY <1>1, <1>5 DEF DispatchOracle, Mispredicted
  <2>2. CASE ifq' = <<>>
    <3>1. Len(ifq) = 1
      <4> HIDE DEF E
      <4> QED
        BY <1>0, <2>1, <2>2, TailEmpty
    <3> QED
      BY <1>0, <1>1, <1>2, <2>1, <2>2, <3>1 DEF FrontPC, FetchInv, IfqPath
  <2>3. CASE ifq' # <<>>
    <3>1. Len(ifq) >= 2 /\ Head(ifq') = ifq[1 + 1]
      <4> HIDE DEF E
      <4> QED
        BY <1>0, <2>1, <2>3, HeadTail
    <3>2. ifq[1 + 1].regs_PC = ifq[1].pred_PC
      BY <1>1, <3>1 DEF FetchInv, IfqPath
    <3> QED
      BY <1>2, <2>1, <2>3, <3>1, <3>2 DEF FrontPC
  <2> QED
    BY <2>2, <2>3
<1> QED
  BY <1>3, <1>4, <1>5

\* A dispatch on the program's path is an instruction of the program; one on a
\* wrong path is nothing to the functional simulator.
LEMMA SameProgram ==
    \A pc : FuncSim!Inst(pc) = Inst(pc) /\ FuncSim!NextPCs(pc) = NextPCs(pc)
<1>1. \A pc : FuncSim!Inst(pc) = Inst(pc)
  BY DEF FuncSim!Inst, Inst, FuncSim!NOPInst, NOPInst, FuncSim!Text, Text, FuncSim!NA, NA
<1>2. \A pc : FuncSim!SeqPC(pc) = SeqPC(pc)
  BY DEF FuncSim!SeqPC, SeqPC, FuncSim!BogusPC, FuncSim!Text, Text
<1> QED
  BY <1>1, <1>2 DEF FuncSim!NextPCs, NextPCs, FuncSim!Jumps, Jumps

LEMMA DispatchImplements ==
    ASSUME FetchInv, max_insts = 0, halted = FALSE, halted' = FALSE, CanDispatch,
           DispOp # "EXIT",
           NEW npc \in NextPCs(DispPC), DispatchOracle(npc)
    PROVE  [FuncSim!Next]_(FuncSim!funcVars)
<1>1. CASE spec_mode
  <2>1. spec_mode' /\ recover_PC' = recover_PC /\ sim_num_insn' = sim_num_insn
    BY <1>1 DEF DispatchOracle, Mispredicted
  <2> QED
    BY <1>1, <2>1 DEF FuncSim!funcVars, FrontPC
<1>2. CASE ~spec_mode
  <2>1. FrontPC = DispPC /\ FrontPC' = npc
    BY <1>2, DispatchFrontPC
  <2>2. sim_num_insn' = sim_num_insn + 1
    BY <1>2 DEF DispatchOracle
  <2>3. halted' = FuncSim!MaxReached(sim_num_insn')
    BY DEF FuncSim!MaxReached
  <2>4. FuncSim!Inst(FrontPC).op # "EXIT"
    BY <2>1, SameProgram DEF DispOp, DispInst
  <2>5. FrontPC' \in FuncSim!NextPCs(FrontPC)
    BY <2>1, SameProgram
  <2> QED
    BY <2>2, <2>3, <2>4, <2>5 DEF FuncSim!Next, FuncSim!Execute
<1> QED
  BY <1>1, <1>2

LEMMA StepImplements ==
    ASSUME FetchInv, halted \in BOOLEAN, max_insts = 0, [Next]_vars
    PROVE  [FuncSim!Next]_(FuncSim!funcVars)
<1>1. ASSUME UNCHANGED frontVars, UNCHANGED halted
      PROVE  UNCHANGED FuncSim!funcVars
  BY <1>1 DEF frontVars, fetchVars, oracleVars, FuncSim!funcVars, FrontPC
<1>2. CASE UNCHANGED vars
  BY <1>1, <1>2 DEF vars
<1>3. CASE Exited
  BY <1>1, <1>3 DEF Exited, vars
<1> SUFFICES ASSUME Step PROVE [FuncSim!Next]_(FuncSim!funcVars)
  BY <1>2, <1>3 DEF Next
<1>0. halted = FALSE /\ ~Panics
  BY DEF Step
<1>4. CASE Commit
  BY <1>1, <1>4 DEF Commit, RuuCommit, RuuCommitDone
<1>5. CASE RuuReleaseFu
  BY <1>1, <1>5 DEF RuuReleaseFu
<1>6. CASE Writeback
  <2>1. CASE WritebackRecover
    <3>1. spec_mode
      BY <1>0, <2>1 DEF WritebackRecover, Panics, WritebackPanics
    <3>2. /\ ~spec_mode' /\ ifq' = <<>> /\ fetch_pred_PC' = recover_PC
          /\ UNCHANGED <<sim_num_insn, halted>>
      BY <2>1 DEF WritebackRecover, TracerRecover
    <3> QED
      BY <3>1, <3>2 DEF FuncSim!funcVars, FrontPC
  <2>2. CASE WritebackStale \/ WritebackOp \/ WritebackDone
    BY <1>1, <2>2 DEF WritebackStale, WritebackOp, WritebackDone
  <2> QED
    BY <1>6, <2>1, <2>2 DEF Writeback
<1>7. CASE LsqRefresh
  BY <1>1, <1>7 DEF LsqRefresh
<1>8. CASE Issue
  BY <1>1, <1>8 DEF Issue, IssueStale, IssueStore, IssueToUnit, IssueNoUnit,
                    IssueNoClass, IssueDone, Start
<1>9. CASE Dispatch
  <2>1. CASE DispatchNop
    BY <1>0, <2>1, DispatchImplements DEF DispatchNop
  <2>2. CASE DispatchInst
    BY <1>0, <2>2, DispatchImplements DEF DispatchInst
  <2>3. CASE DispatchExit
    <3>1. /\ ~spec_mode /\ ifq # <<>> /\ DispOp = "EXIT"
          /\ sim_num_insn' = sim_num_insn + 1 /\ halted' = TRUE
          /\ UNCHANGED fetchVars /\ UNCHANGED <<spec_mode, recover_PC>>
      BY <2>3 DEF DispatchExit, CanDispatch
    <3>2. FrontPC = DispPC /\ FrontPC' = FrontPC
      BY <3>1 DEF FrontPC, DispPC, fetchVars
    <3> QED
      BY <1>0, <3>1, <3>2, SameProgram
         DEF FuncSim!Next, FuncSim!Exit, DispOp, DispInst
  <2>4. CASE DispatchDone
    BY <1>1, <2>4 DEF DispatchDone
  <2> QED
    BY <1>9, <2>1, <2>2, <2>3, <2>4 DEF Dispatch
<1>10. CASE Fetch
  <2>1. UNCHANGED oracleVars /\ UNCHANGED halted
    BY <1>10 DEF Fetch, FetchStalled, FetchMiss, FetchNotTaken, FetchTaken,
                 FetchDone, backVars
  <2>2. CASE UNCHANGED <<ifq, fetch_pred_PC>>
    BY <2>1, <2>2 DEF oracleVars, FuncSim!funcVars, FrontPC
  <2>3. CASE \E pred : PushFetch(pred)
    <3>1. PICK pred : ifq' = Append(ifq, [regs_PC |-> fetch_pred_PC, pred_PC |-> pred])
      BY <2>3 DEF PushFetch
    <3>2. /\ ifq \in Seq([regs_PC : PCs, pred_PC : PCs])
          /\ ifq' # <<>>
          /\ Head(ifq') = IF ifq = <<>> THEN [regs_PC |-> fetch_pred_PC, pred_PC |-> pred]
                          ELSE Head(ifq)
      BY <3>1 DEF FetchInv, FetchType
    <3>3. FrontPC' = FrontPC
      BY <2>1, <3>2 DEF FrontPC, oracleVars
    <3> QED
      BY <2>1, <3>3 DEF oracleVars, FuncSim!funcVars
  <2> QED
    BY <1>10, <2>2, <2>3 DEF Fetch, FetchStalled, FetchMiss, FetchNotTaken,
                             FetchTaken, FetchDone, fetchVars
<1>11. CASE EndCycle
  <2>1. UNCHANGED halted
    BY <1>0, <1>11 DEF EndCycle
  <2> QED
    BY <1>11, <2>1 DEF EndCycle, oracleVars, FuncSim!funcVars, FrontPC
<1> QED
  BY <1>4, <1>5, <1>6, <1>7, <1>8, <1>9, <1>10, <1>11 DEF Step

\* On every machine and for every program the instructions that sim-outorder
\* executes outside of wrong paths are those the functional simulator executes.
\* With an instruction limit the pipeline may run past it, so the theorem is
\* about runs to the end of the program.
THEOREM PipelineExecutesProgram ==
    ASSUME max_insts = 0
    PROVE  Spec => ExecutesProgram
<1>1. Init => FuncSim!Init
  BY DEF Init, FuncSim!Init, FrontPC
<1>2. FetchInv /\ halted \in BOOLEAN /\ [Next]_vars
        => [FuncSim!Next]_(FuncSim!funcVars)
  BY StepImplements
<1>3. Init => halted \in BOOLEAN
  BY DEF Init
<1>4. halted \in BOOLEAN /\ [Next]_vars => (halted \in BOOLEAN)'
  BY HaltedStep
<1> QED
  BY <1>1, <1>2, <1>3, <1>4, FetchQueueIsPath, PTL
     DEF Spec, ExecutesProgram, FuncSim!Spec

-----------------------------------------------------------------------------
(***************************************************************************)
(* The window is followed by the indices of the RUU and of the LSQ, with   *)
(* the wrap-around written as a case distinction.                          *)
(***************************************************************************)
Indices  == 0 .. RUU_size - 1
LIndices == 0 .. LSQ_size - 1

\* The next index: (i + 1) % RUU_size, and (i + 1) % LSQ_size.
Succ(i)  == IF i = RUU_size - 1 THEN 0 ELSE i + 1
LSucc(i) == IF i = LSQ_size - 1 THEN 0 ELSE i + 1

\* ruu_commit, ruu_dispatch and ruu_recover keep RUU_tail RUU_num behind
\* RUU_head, and LSQ_tail LSQ_num behind LSQ_head.
RuuShape ==
    /\ RUU_head \in Indices /\ RUU_tail \in Indices /\ RUU_num \in 0 .. RUU_size
    /\ RUU_tail = IF RUU_head + RUU_num < RUU_size THEN RUU_head + RUU_num
                  ELSE RUU_head + RUU_num - RUU_size

LsqShape ==
    /\ LSQ_head \in LIndices /\ LSQ_tail \in LIndices /\ LSQ_num \in 0 .. LSQ_size
    /\ LSQ_tail = IF LSQ_head + LSQ_num < LSQ_size THEN LSQ_head + LSQ_num
                  ELSE LSQ_head + LSQ_num - LSQ_size

InRuu(i) == RuuAge(i) < RUU_num
InLsq(i) == LsqAge(i) < LSQ_num

LEMMA SizeType == RUU_size \in Nat \ {0} /\ LSQ_size \in Nat \ {0}
  BY RuuAssumption

LEMMA SuccIs == \A i \in Indices : (i + 1) % RUU_size = Succ(i)
  BY SizeType DEF Indices, Succ

LEMMA LSuccIs == \A i \in LIndices : (i + 1) % LSQ_size = LSucc(i)
  BY SizeType DEF LIndices, LSucc

LEMMA ModIs ==
    ASSUME NEW m \in Nat \ {0}, NEW x \in 0 .. 2 * m - 1
    PROVE  x % m = IF x < m THEN x ELSE x - m
<1>1. CASE x < m
  BY <1>1
<1>2. CASE ~(x < m)
  <2>1. x = m * 1 + (x - m) /\ x - m \in 0 .. m - 1
    BY <1>2
  <2> QED
    BY <1>2, <2>1
<1> QED
  BY <1>1, <1>2

LEMMA RuuSlotOf ==
    /\ \A s \in RuuSlots : s[2] \in Indices /\ s = RuuSlot(s[2]) /\ ~in_LSQ(s)
    /\ \A i \in Indices : RuuSlot(i) \in RuuSlots /\ RuuSlot(i)[2] = i
    /\ RuuSlots \subseteq Slots
    /\ \A s \in Slots : in_LSQ(s) => s \notin RuuSlots
    /\ \A s \in Slots : ~in_LSQ(s) => s \in RuuSlots
  BY DEF RuuSlots, RuuSlot, LsqSlots, LsqSlot, Slots, in_LSQ, Indices

LEMMA LsqSlotOf ==
    /\ \A s \in LsqSlots : s[2] \in LIndices /\ s = LsqSlot(s[2]) /\ in_LSQ(s)
    /\ \A i \in LIndices : LsqSlot(i) \in LsqSlots /\ LsqSlot(i)[2] = i
    /\ LsqSlots \subseteq Slots
    /\ \A s \in Slots : in_LSQ(s) => s \in LsqSlots
    /\ \A s \in LsqSlots : s \notin RuuSlots
  BY DEF RuuSlots, RuuSlot, LsqSlots, LsqSlot, Slots, in_LSQ, LIndices

LEMMA AgeOf ==
    /\ \A s \in RuuSlots : Age(s) = RuuAge(s[2]) /\ (InWindow(s) <=> InRuu(s[2]))
    /\ \A s \in LsqSlots : Age(s) = LsqAge(s[2]) /\ (InWindow(s) <=> InLsq(s[2]))
  BY RuuSlotOf, LsqSlotOf DEF Age, InWindow, InRuu, InLsq

LEMMA AgeOfPrime ==
    /\ \A s \in RuuSlots : Age(s)' = RuuAge(s[2])' /\ (InWindow(s)' <=> InRuu(s[2])')
    /\ \A s \in LsqSlots : Age(s)' = LsqAge(s[2])' /\ (InWindow(s)' <=> InLsq(s[2])')
  BY RuuSlotOf, LsqSlotOf DEF Age, InWindow, InRuu, InLsq

-----------------------------------------------------------------------------
(* What the steps do to the fields of a station *)

Told(S, links, s, k) ==
    \E i \in DOMAIN links :
        RSLINK_VALID(links[i], S) /\ links[i].rs = s /\ links[i].opnum = k

\* T is S after the consumers on links were told.
Woke(S, T, links) ==
    /\ Stations(T)
    /\ \A s \in Slots :
          /\ SameInst(S[s], T[s]) /\ SameProgress(S[s], T[s])
          /\ T[s].tag = S[s].tag /\ T[s].odep_list = S[s].odep_list
          /\ T[s].idep_ready =
                [k \in 1 .. 3 |-> S[s].idep_ready[k] \/ Told(S, links, s, k)]

LEMMA WakeIs ==
    ASSUME NEW S, NEW links, Stations(S) PROVE Woke(S, Wake(S, links), links)
<1> DEFINE T == Wake(S, links)
           v(s) == [k \in 1 .. 3 |-> S[s].idep_ready[k] \/ Told(S, links, s, k)]
<1>1. /\ T = [s \in Slots |-> T[s]]
      /\ \A s \in Slots : T[s] = [S[s] EXCEPT !.idep_ready = v(s)]
  <2>1. \A s \in Slots : DOMAIN S[s] = DOMAIN EmptyStation
    BY DEF Stations
  <2>2. T = [x \in Slots |-> [S[x] EXCEPT !.idep_ready =
                     [k \in 1 .. 3 |-> @[k] \/ Told(S, links, x, k)]]]
    BY DEF Wake, Told
  <2> HIDE DEF T
  <2> QED
    BY <2>1, <2>2 DEF EmptyStation
<1> HIDE DEF T, v
<1>2. \A s \in Slots : /\ T[s] = [f \in DOMAIN T[s] |-> T[s][f]]
                       /\ DOMAIN T[s] = DOMAIN EmptyStation
                       /\ SameInst(S[s], T[s]) /\ SameProgress(S[s], T[s])
                       /\ T[s].tag = S[s].tag /\ T[s].odep_list = S[s].odep_list
                       /\ T[s].idep_ready = v(s)
  BY <1>1 DEF Stations, SameInst, SameProgress, EmptyStation
<1>3. Stations(T)
  BY <1>1, <1>2 DEF Stations
<1> QED
  BY <1>2, <1>3 DEF Woke, T, v

\* T is S after the writeback of s has told the consumers on links, of which
\* woken go to the ready queue.
Completed(S, T, s, links, woken) ==
    /\ Stations(T)
    /\ \A x \in Slots :
          /\ SameInst(S[x], T[x])
          /\ T[x].tag = S[x].tag /\ T[x].issued = S[x].issued
          /\ T[x].completed = IF x = s THEN TRUE ELSE S[x].completed
          /\ T[x].queued = IF \E i \in DOMAIN woken : woken[i] = x THEN TRUE
                           ELSE S[x].queued
          /\ T[x].idep_ready =
                [k \in 1 .. 3 |-> S[x].idep_ready[k] \/ Told(S, links, x, k)]
          /\ x # s => T[x].odep_list = S[x].odep_list
    /\ T[s].odep_list = [o \in 1 .. 2 |-> IF st[s].onames[o] = NA
                                          THEN S[s].odep_list[o] ELSE <<>>]

LEMMA CompleteIs ==
    ASSUME NEW s \in Slots, NEW S, NEW freed, Stations(S), Complete(s, S, freed)
    PROVE  Completed(S, st', s, OutputLinks(S[s]), Woken(S, OutputLinks(S[s])))
<1> DEFINE links == OutputLinks(S[s])
           woken == Woken(S, links)
           A == Wake(S, links)
           B == MarkQueued(A, woken)
           v == [o \in 1 .. 2 |-> IF st[s].onames[o] = NA THEN B[s].odep_list[o] ELSE <<>>]
           q == [B[s] EXCEPT !.completed = TRUE, !.odep_list = v]
<1>1. st' = [B EXCEPT ![s].completed = TRUE, ![s].odep_list = [o \in 1 .. 2 |->
                        IF st[s].onames[o] = NA THEN @[o] ELSE <<>>]]
  BY DEF Complete
<1> HIDE DEF links, woken
<1>2. Woke(S, A, links)
  BY WakeIs
<1> HIDE DEF A
<1>3. Marked(A, B, woken)
  <2>1. Stations(A)
    BY <1>2 DEF Woke
  <2> QED
    BY <2>1, MarkQueuedIs
<1> HIDE DEF B
<1>4. Stations(B)
  BY <1>3 DEF Marked
<1>5. st' = [B EXCEPT ![s] = q]
  BY <1>1, <1>4 DEF Stations, EmptyStation
<1>6. \A o \in 1 .. 2 : v[o] = IF st[s].onames[o] = NA THEN S[s].odep_list[o] ELSE <<>>
  BY <1>2, <1>3 DEF Woke, Marked
<1>7. v = [o \in 1 .. 2 |-> IF st[s].onames[o] = NA THEN S[s].odep_list[o] ELSE <<>>]
  BY <1>6
<1> HIDE DEF v
<1>8. /\ q = [f \in DOMAIN q |-> q[f]] /\ DOMAIN q = DOMAIN EmptyStation
      /\ SameInst(B[s], q) /\ q.tag = B[s].tag /\ q.issued = B[s].issued
      /\ q.queued = B[s].queued /\ q.idep_ready = B[s].idep_ready
      /\ q.completed = TRUE /\ q.odep_list = v
  <2>1. B[s] = [f \in DOMAIN B[s] |-> B[s][f]] /\ DOMAIN B[s] = DOMAIN EmptyStation
    BY <1>4 DEF Stations
  <2> QED
    BY <2>1 DEF SameInst, EmptyStation
<1> HIDE DEF q
<1>9. Stations(st') /\ st'[s] = q /\ \A x \in Slots : x # s => st'[x] = B[x]
  <2>1. PICK T : T = st'
    OBVIOUS
  <2>2. Replaced(B, T, s, q) /\ IsStation(q)
    BY <1>5, <1>8, <2>1 DEF Replaced, IsStation
  <2>3. Stations(T) /\ T[s] = q /\ \A x \in Slots : x # s => T[x] = B[x]
    BY <1>4, <2>2, StationReplaced
  <2> QED
    BY <2>1, <2>3
<1>10. ASSUME NEW x \in Slots
       PROVE  /\ SameInst(S[x], st'[x])
              /\ st'[x].tag = S[x].tag /\ st'[x].issued = S[x].issued
              /\ st'[x].completed = IF x = s THEN TRUE ELSE S[x].completed
              /\ st'[x].queued = IF \E i \in DOMAIN woken : woken[i] = x THEN TRUE
                                 ELSE S[x].queued
              /\ st'[x].idep_ready =
                    [k \in 1 .. 3 |-> S[x].idep_ready[k] \/ Told(S, links, x, k)]
              /\ x # s => st'[x].odep_list = S[x].odep_list
  <2>1. /\ SameInst(S[x], A[x]) /\ SameProgress(S[x], A[x])
        /\ A[x].tag = S[x].tag /\ A[x].odep_list = S[x].odep_list
        /\ A[x].idep_ready =
              [k \in 1 .. 3 |-> S[x].idep_ready[k] \/ Told(S, links, x, k)]
    BY <1>2 DEF Woke
  <2>2. /\ SameInst(A[x], B[x])
        /\ B[x].tag = A[x].tag /\ B[x].idep_ready = A[x].idep_ready
        /\ B[x].odep_list = A[x].odep_list
        /\ B[x].issued = A[x].issued /\ B[x].completed = A[x].completed
        /\ B[x].queued = IF \E i \in DOMAIN woken : woken[i] = x THEN TRUE
                         ELSE A[x].queued
    BY <1>3 DEF Marked
  <2>3. /\ SameInst(B[x], st'[x])
        /\ st'[x].tag = B[x].tag /\ st'[x].issued = B[x].issued
        /\ st'[x].queued = B[x].queued /\ st'[x].idep_ready = B[x].idep_ready
        /\ st'[x].completed = IF x = s THEN TRUE ELSE B[x].completed
        /\ x # s => st'[x].odep_list = B[x].odep_list
    BY <1>8, <1>9 DEF SameInst
  <2>4. SameInst(S[x], st'[x])
    BY <2>1, <2>2, <2>3, SameInstTransitive
  <2> QED
    BY <2>1, <2>2, <2>3, <2>4 DEF SameProgress
<1>11. st'[s].odep_list = [o \in 1 .. 2 |-> IF st[s].onames[o] = NA
                                            THEN S[s].odep_list[o] ELSE <<>>]
  BY <1>7, <1>8, <1>9
<1> QED
  BY <1>9, <1>10, <1>11 DEF Completed, links, woken

\* The squash of ruu_recover.
SquashOf(b) ==
    [s \in Slots |-> IF s \in Squashed(b) THEN SquashStation(st[s]) ELSE st[s]]

LEMMA SquashIs ==
    ASSUME Stations(st), NEW b
    PROVE  LET T == SquashOf(b)
           IN  /\ Stations(T)
               /\ \A s \in Slots :
                     /\ SameInst(st[s], T[s]) /\ SameProgress(st[s], T[s])
                     /\ T[s].idep_ready = st[s].idep_ready
                     /\ T[s].tag = IF s \in Squashed(b) THEN st[s].tag + 1 ELSE st[s].tag
                     /\ T[s].odep_list = IF s \in Squashed(b) THEN << <<>>, <<>> >>
                                         ELSE st[s].odep_list
<1> DEFINE T == SquashOf(b)
<1>1. /\ T = [s \in Slots |-> T[s]]
      /\ \A s \in Slots : T[s] = IF s \in Squashed(b)
              THEN [st[s] EXCEPT !.tag = @ + 1, !.odep_list = << <<>>, <<>> >>]
              ELSE st[s]
  BY DEF SquashOf, SquashStation
<1> HIDE DEF T
<1>2. \A s \in Slots :
        /\ T[s] = [f \in DOMAIN T[s] |-> T[s][f]]
        /\ DOMAIN T[s] = DOMAIN EmptyStation
        /\ SameInst(st[s], T[s]) /\ SameProgress(st[s], T[s])
        /\ T[s].idep_ready = st[s].idep_ready
        /\ T[s].tag = IF s \in Squashed(b) THEN st[s].tag + 1 ELSE st[s].tag
        /\ T[s].odep_list = IF s \in Squashed(b) THEN << <<>>, <<>> >> ELSE st[s].odep_list
  <2> SUFFICES ASSUME NEW s \in Slots
               PROVE  /\ T[s] = [f \in DOMAIN T[s] |-> T[s][f]]
                      /\ DOMAIN T[s] = DOMAIN EmptyStation
                      /\ SameInst(st[s], T[s]) /\ SameProgress(st[s], T[s])
                      /\ T[s].idep_ready = st[s].idep_ready
                      /\ T[s].tag = IF s \in Squashed(b) THEN st[s].tag + 1 ELSE st[s].tag
                      /\ T[s].odep_list = IF s \in Squashed(b) THEN << <<>>, <<>> >>
                                          ELSE st[s].odep_list
    OBVIOUS
  <2>0. st[s] = [f \in DOMAIN st[s] |-> st[s][f]] /\ DOMAIN st[s] = DOMAIN EmptyStation
    BY DEF Stations
  <2>1. CASE s \in Squashed(b)
    <3>1. T[s] = [st[s] EXCEPT !.tag = @ + 1, !.odep_list = << <<>>, <<>> >>]
      BY <1>1, <2>1
    <3>2. {"tag", "odep_list"} \subseteq DOMAIN st[s]
      BY <2>0 DEF EmptyStation
    <3>3. /\ T[s] = [f \in DOMAIN T[s] |-> T[s][f]] /\ DOMAIN T[s] = DOMAIN st[s]
          /\ \A f \in DOMAIN st[s] \ {"tag", "odep_list"} : T[s][f] = st[s][f]
      BY <3>1
    <3>4. T[s].tag = st[s].tag + 1 /\ T[s].odep_list = << <<>>, <<>> >>
      BY <3>1, <3>2
    <3>5. /\ SameInst(st[s], T[s]) /\ SameProgress(st[s], T[s])
          /\ T[s].idep_ready = st[s].idep_ready
      BY <2>0, <3>3 DEF SameInst, SameProgress, EmptyStation
    <3> QED
      BY <2>0, <2>1, <3>3, <3>4, <3>5
  <2>2. CASE s \notin Squashed(b)
    BY <1>1, <2>0, <2>2 DEF SameInst, SameProgress
  <2> QED
    BY <2>1, <2>2
<1>3. Stations(T)
  BY <1>1, <1>2 DEF Stations
<1> QED
  BY <1>2, <1>3 DEF T

\* Retired(R): what ruu_commit does to the stations in R.
Retired(R) ==
    /\ Stations(st')
    /\ \A s \in Slots :
          /\ SameInst(st[s], st'[s]) /\ SameProgress(st[s], st'[s])
          /\ st'[s].idep_ready = st[s].idep_ready /\ st'[s].odep_list = st[s].odep_list
          /\ st'[s].tag = IF s \in R THEN st[s].tag + 1 ELSE st[s].tag

RetiredNow == {RuuHead} \cup (IF st[RuuHead].ea_comp THEN {LsqHead} ELSE {})

LEMMA RetireIs == ASSUME Stations(st), RuuCommit PROVE Retired(RetiredNow)
<1>1. /\ st' = [s \in Slots |-> st'[s]]
      /\ \A s \in Slots : st'[s] = IF s \in RetiredNow THEN [st[s] EXCEPT !.tag = @ + 1]
                                   ELSE st[s]
  BY DEF RuuCommit, RetiredNow
<1>2. \A s \in Slots :
        /\ st'[s] = [f \in DOMAIN st'[s] |-> st'[s][f]]
        /\ DOMAIN st'[s] = DOMAIN EmptyStation
        /\ SameInst(st[s], st'[s]) /\ SameProgress(st[s], st'[s])
        /\ st'[s].idep_ready = st[s].idep_ready /\ st'[s].odep_list = st[s].odep_list
        /\ st'[s].tag = IF s \in RetiredNow THEN st[s].tag + 1 ELSE st[s].tag
  BY <1>1 DEF Stations, SameInst, SameProgress, EmptyStation
<1>3. Stations(st')
  BY <1>1, <1>2 DEF Stations
<1> QED
  BY <1>2, <1>3 DEF Retired

LEMMA IssueStoreIs ==
    ASSUME Stations(st), IssueStore
    PROVE  Issuing \in Slots /\ Started(st, st', Issuing, TRUE)
<1>1. Issuing \in Slots
  BY DEF IssueStore, IssueLive, RSLINK_VALID, Issuing
<1>2. PICK S, T, s, q : /\ S = st /\ T = st' /\ s = Issuing
                        /\ q = [S[s] EXCEPT !.queued = FALSE, !.issued = TRUE,
                                            !.completed = TRUE]
  OBVIOUS
<1>3. Replaced(S, T, s, q)
  BY <1>1, <1>2 DEF IssueStore, Stations, EmptyStation, Replaced
<1>4. /\ IsStation(q) /\ SameInst(S[s], q) /\ q.tag = S[s].tag
      /\ q.idep_ready = S[s].idep_ready /\ q.odep_list = S[s].odep_list
      /\ q.queued = FALSE /\ q.issued = TRUE
      /\ q.completed = IF TRUE THEN TRUE ELSE S[s].completed
  BY <1>1, <1>2 DEF Stations, SameInst, IsStation, EmptyStation
<1>5. Started(S, T, s, TRUE)
  BY <1>1, <1>2, <1>3, <1>4, StartedIs
<1> QED
  BY <1>1, <1>2, <1>5

LEMMA StartActionIs ==
    ASSUME Stations(st), IssueLive, NEW lat, Start(lat)
    PROVE  Issuing \in Slots /\ Started(st, st', Issuing, FALSE)
<1>1. Issuing \in Slots
  BY DEF IssueLive, RSLINK_VALID, Issuing
<1>2. PICK S, T, s, q : /\ S = st /\ T = st' /\ s = Issuing
                        /\ q = [S[s] EXCEPT !.queued = FALSE, !.issued = TRUE]
  OBVIOUS
<1>3. Replaced(S, T, s, q)
  BY <1>1, <1>2 DEF Start, Stations, EmptyStation, Replaced
<1>4. /\ IsStation(q) /\ SameInst(S[s], q) /\ q.tag = S[s].tag
      /\ q.idep_ready = S[s].idep_ready /\ q.odep_list = S[s].odep_list
      /\ q.queued = FALSE /\ q.issued = TRUE
      /\ q.completed = IF FALSE THEN TRUE ELSE S[s].completed
  BY <1>1, <1>2 DEF Stations, SameInst, IsStation, EmptyStation
<1>5. Started(S, T, s, FALSE)
  BY <1>1, <1>2, <1>3, <1>4, StartedIs
<1> QED
  BY <1>1, <1>2, <1>5

-----------------------------------------------------------------------------
(* Types: the window *)

LEMMA RuuShapeCommit ==
    ASSUME RuuShape, LsqShape, RuuCommit, ~Panics PROVE RuuShape' /\ LsqShape'
<1> USE SizeType
<1>1. /\ RUU_num > 0 /\ RUU_head' = Succ(RUU_head) /\ RUU_num' = RUU_num - 1
      /\ RUU_tail' = RUU_tail /\ LSQ_tail' = LSQ_tail
      /\ LSQ_head' = IF st[RuuHead].ea_comp THEN LSucc(LSQ_head) ELSE LSQ_head
      /\ LSQ_num' = IF st[RuuHead].ea_comp THEN LSQ_num - 1 ELSE LSQ_num
  BY SuccIs, LSuccIs DEF RuuCommit, CanCommit, RuuShape, LsqShape
<1>2. st[RuuHead].ea_comp => LSQ_num > 0
  BY DEF RuuCommit, CanCommit, HeadCompleted, Panics, CommitPanics, LsqShape
<1>3. RuuShape'
  BY <1>1 DEF RuuShape, Succ, Indices
<1>4. LsqShape'
  BY <1>1, <1>2 DEF LsqShape, LSucc, LIndices
<1> QED
  BY <1>3, <1>4

LEMMA SquashedMemType == \A b : SquashedMem(b) \in Nat
<1> TAKE b
<1>1. {s \in SquashedRuu(b) : st[s].ea_comp} \in SUBSET RuuSlots
  BY DEF SquashedRuu
<1>2. IsFiniteSet({s \in SquashedRuu(b) : st[s].ea_comp})
  BY <1>1, SlotsFinite, FS_Subset
<1> QED
  BY <1>2, FS_CardinalityType DEF SquashedMem

LEMMA RuuShapeRecover ==
    ASSUME RuuShape, LsqShape, WritebackRecover, ~Panics PROVE RuuShape' /\ LsqShape'
<1> USE SizeType
<1>0. PICK c \in Slots : c = Completing
  BY DEF WritebackRecover, EventLive, RSLINK_VALID, Completing
<1>1. PICK b, m : b = c[2] /\ m = SquashedMem(c)
  OBVIOUS
<1>2. ~in_LSQ(c) /\ InWindow(c) /\ m <= LSQ_num /\ m \in Nat
  <2>1. m \in Nat
    BY <1>1, SquashedMemType
  <2>2. /\ ~in_LSQ(Completing) /\ InWindow(Completing)
        /\ ~(SquashedMem(Completing) > LSQ_num)
    BY DEF WritebackRecover, Panics, WritebackPanics
  <2>3. /\ ~in_LSQ(c) /\ InWindow(c) /\ ~(m > LSQ_num)
    BY <1>0, <1>1, <2>2
  <2> QED
    BY <2>1, <2>3 DEF LsqShape
<1>3. b \in Indices /\ c = RuuSlot(b) /\ InRuu(b)
  BY <1>1, <1>2, RuuSlotOf, AgeOf
<1>4. /\ RUU_num' = RUU_num - Walked(c)
      /\ RUU_tail' = IF Walked(c) = 0 THEN RUU_tail ELSE (b + 1) % RUU_size
      /\ RUU_head' = RUU_head
      /\ LSQ_num' = LSQ_num - m
      /\ LSQ_tail' = (LSQ_tail + LSQ_size - m) % LSQ_size
      /\ LSQ_head' = LSQ_head
  BY <1>0, <1>1 DEF WritebackRecover
<1>5. Walked(c) = RUU_num - 1 - RuuAge(b)
  BY <1>1, <1>3 DEF Walked, RuuShape, RuuAge, InRuu, Indices
<1>6. RuuShape'
  BY <1>3, <1>4, <1>5, SuccIs DEF RuuShape, RuuAge, InRuu, Succ, Indices
<1>7. LSQ_tail' = IF LSQ_tail + LSQ_size - m < LSQ_size THEN LSQ_tail + LSQ_size - m
                  ELSE LSQ_tail - m
  <2> DEFINE x == LSQ_tail + LSQ_size - m
  <2>1. x \in 0 .. 2 * LSQ_size - 1 /\ LSQ_size \in Nat \ {0} /\ LSQ_tail \in Int
        /\ x - LSQ_size = LSQ_tail - m
    BY <1>2 DEF LsqShape, LIndices
  <2> HIDE DEF x
  <2>2. x % LSQ_size = IF x < LSQ_size THEN x ELSE x - LSQ_size
    BY <2>1, ModIs
  <2> QED
    BY <1>4, <2>1, <2>2 DEF x
<1>8. LsqShape'
  BY <1>2, <1>4, <1>7 DEF LsqShape, LIndices
<1> QED
  BY <1>6, <1>8

LEMMA RuuShapeInstall ==
    ASSUME RuuShape, LsqShape, CanDispatch, NEW npc, NEW addr, Install(npc, addr),
           RUU_head' = RUU_head, LSQ_head' = LSQ_head
    PROVE  RuuShape' /\ LsqShape'
<1> USE SizeType
<1>1. PICK mem : mem = Is(DispOp, "F_MEM")
  OBVIOUS
<1>2. /\ RUU_num < RUU_size /\ LSQ_num < LSQ_size
      /\ RUU_tail' = Succ(RUU_tail) /\ RUU_num' = RUU_num + 1
      /\ LSQ_tail' = IF mem THEN LSucc(LSQ_tail) ELSE LSQ_tail
      /\ LSQ_num' = IF mem THEN LSQ_num + 1 ELSE LSQ_num
  BY <1>1, SuccIs, LSuccIs DEF CanDispatch, Install, RuuShape, LsqShape
<1>3. RuuShape'
  BY <1>2 DEF RuuShape, Succ, Indices
<1>4. LsqShape'
  BY <1>2 DEF LsqShape, LSucc, LIndices
<1> QED
  BY <1>3, <1>4

LEMMA ShapeStep == ASSUME RuuShape, LsqShape, [Next]_vars PROVE RuuShape' /\ LsqShape'
<1>1. CASE UNCHANGED queueVars
  BY <1>1 DEF queueVars, RuuShape, LsqShape
<1>2. CASE Step /\ RuuCommit
  BY <1>2, RuuShapeCommit DEF Step
<1>3. CASE Step /\ WritebackRecover
  BY <1>3, RuuShapeRecover DEF Step
<1>4. CASE DispatchInst
  BY <1>4, RuuShapeInstall DEF DispatchInst
<1>5. UNCHANGED queueVars \/ (Step /\ RuuCommit) \/ (Step /\ WritebackRecover)
      \/ DispatchInst
  BY DEF Next, Step, Exited, vars, Commit, RuuCommitDone, RuuReleaseFu,
         Writeback, WritebackStale, WritebackOp, WritebackDone,
         LsqRefresh, Issue, IssueStale, IssueStore, IssueToUnit, IssueNoUnit,
         IssueNoClass, IssueDone, Start, Dispatch, DispatchNop, DispatchExit,
         DispatchDone, Fetch, FetchStalled, FetchMiss, FetchNotTaken, FetchTaken,
         FetchDone, backVars, EndCycle
<1> QED
  BY <1>1, <1>2, <1>3, <1>4, <1>5

-----------------------------------------------------------------------------
(* Types: the create vectors *)

CvRange == {CVLINK_NULL} \cup [rs : Slots, odep_num : 1 .. 2]

CvTyped ==
    /\ create_vector \in [RegNames -> CvRange]
    /\ spec_create_vector \in [RegNames -> CvRange]
    /\ use_spec_cv \subseteq RegNames

LEMMA NewSlots ==
    RuuShape /\ LsqShape => /\ NewRuu \in RuuSlots /\ NewLsq \in LsqSlots
                            /\ NewRuu \in Slots /\ NewLsq \in Slots /\ NewRuu # NewLsq
                            /\ ~in_LSQ(NewRuu) /\ in_LSQ(NewLsq)
  BY RuuSlotOf, LsqSlotOf DEF RuuShape, LsqShape, NewRuu, NewLsq

LEMMA CvIs == \A s \in Slots, o \in 1 .. 2 :
                 /\ CVLINK_INIT(s, o) \in CvRange /\ CVLINK_INIT(s, o) # CVLINK_NULL
                 /\ CVLINK_INIT(s, o).rs = s /\ CVLINK_INIT(s, o).odep_num = o
<1>1. NoSlot \notin Slots
  BY DEF NoSlot, Slots, RuuSlots, LsqSlots, RuuSlot, LsqSlot
<1> QED
  BY <1>1 DEF CVLINK_INIT, CVLINK_NULL, CvRange

LEMMA CreatedTyped ==
    ASSUME NEW cv \in [RegNames -> CvRange], NEW s
    PROVE  Created(cv, s) \in [RegNames -> CvRange]
  BY DEF Created, CvRange

LEMMA SetTyped ==
    ASSUME RuuShape, LsqShape, NEW cv \in [RegNames -> CvRange]
    PROVE  SET_CREATE_VECTOR(cv) \in [RegNames -> CvRange]
<1>1. \A c \in InstCreates : c[2] \in CvRange
  BY NewSlots, CvIs DEF InstCreates
<1>2. ASSUME NEW r \in RegNames
      PROVE  SET_CREATE_VECTOR(cv)[r] \in CvRange
  <2> DEFINE new == {c \in InstCreates : c[1] = r}
  <2>1. SET_CREATE_VECTOR(cv)[r] = IF new = {} THEN cv[r] ELSE (CHOOSE c \in new : TRUE)[2]
    BY DEF SET_CREATE_VECTOR
  <2>2. new # {} => (CHOOSE c \in new : TRUE) \in new
    OBVIOUS
  <2> HIDE DEF new
  <2>3. \A c \in new : c \in InstCreates
    BY DEF new
  <2> QED
    BY <1>1, <2>1, <2>2, <2>3
<1>3. SET_CREATE_VECTOR(cv) = [r \in RegNames |-> SET_CREATE_VECTOR(cv)[r]]
  BY DEF SET_CREATE_VECTOR
<1> QED
  BY <1>2, <1>3

LEMMA DispPCType == ASSUME FetchInv, CanDispatch PROVE DispPC \in PCs
<1>1. ifq \in Seq([regs_PC : PCs, pred_PC : PCs]) /\ ifq # <<>>
  BY DEF FetchInv, FetchType, CanDispatch
<1>2. Head(ifq) \in [regs_PC : PCs, pred_PC : PCs]
  BY <1>1, HeadTailProperties
<1> QED
  BY <1>2 DEF DispPC

LEMMA CvTypedStep ==
    ASSUME CvTyped, RuuShape, LsqShape, FetchInv, [Next]_vars PROVE CvTyped'
<1>1. CASE UNCHANGED cvVars
  BY <1>1 DEF cvVars, CvTyped
<1>2. ASSUME NEW s, NEW S, NEW freed, Complete(s, S, freed), use_spec_cv' \subseteq use_spec_cv
      PROVE  CvTyped'
  BY <1>2, CreatedTyped DEF Complete, CvTyped
<1>3. CASE WritebackOp \/ WritebackRecover
  BY <1>2, <1>3 DEF WritebackOp, WritebackRecover
<1>4. CASE DispatchInst
  <2>1. PICK npc, addr : Install(npc, addr)
    BY <1>4 DEF DispatchInst
  <2>2. {c[1] : c \in InstCreates} \ {NA} \subseteq RegNames
    <3>1. DispPC \in PCs
      BY <1>4, DispPCType DEF DispatchInst
    <3>2. \A o \in 1 .. 2 : DispInst.outs[o] \in Regs \cup {NA}
      BY <3>1, RuuAssumption DEF DispInst, Inst, NOPInst, PCs
    <3>3. \A c \in InstCreates : c[1] \in Regs \cup {NA, DTMP}
      BY <3>2 DEF InstCreates
    <3> QED
      BY <3>3 DEF RegNames
  <2> QED
    BY <2>1, <2>2, SetTyped DEF Install, CvTyped
<1>5. UNCHANGED cvVars \/ WritebackOp \/ WritebackRecover \/ DispatchInst
  BY DEF Next, Step, Exited, vars, Commit, RuuCommit, RuuCommitDone, RuuReleaseFu,
         Writeback, WritebackStale, WritebackDone,
         LsqRefresh, Issue, IssueStale, IssueStore, IssueToUnit, IssueNoUnit,
         IssueNoClass, IssueDone, Start, Dispatch, DispatchNop, DispatchExit,
         DispatchDone, Fetch, FetchStalled, FetchMiss, FetchNotTaken, FetchTaken,
         FetchDone, backVars, EndCycle
<1> QED
  BY <1>1, <1>3, <1>4, <1>5

-----------------------------------------------------------------------------
(* Types: what a dispatch installs *)

LEMMA DispTyped ==
    ASSUME FetchInv, CanDispatch
    PROVE  /\ DispPC \in PCs /\ DispOp \in Ops
           /\ DispInst.ins \in [1 .. 3 -> Regs \cup {NA}]
           /\ DispInst.outs \in [1 .. 2 -> Regs \cup {NA}]
<1>1. DispPC \in PCs
  BY DispPCType
<1>2. CASE DispPC \in Text
  BY <1>1, <1>2, IsaAssumption, RuuAssumption DEF DispInst, DispOp, Inst
<1>3. CASE DispPC \notin Text
  <2>1. DispInst = NOPInst
    BY <1>3 DEF DispInst, Inst
  <2>2. NOPInst.op \in Ops
    BY DEF NOPInst, Ops, MD_OP_FLAGS
  <2>3. /\ NOPInst.ins \in [1 .. 3 -> Regs \cup {NA}]
        /\ NOPInst.outs \in [1 .. 2 -> Regs \cup {NA}]
    BY DEF NOPInst
  <2> QED
    BY <1>1, <2>1, <2>2, <2>3 DEF DispOp
<1> QED
  BY <1>2, <1>3

LEMMA WaitsTyped ==
    ASSUME CvTyped, NEW s \in Slots, NEW k \in 1 .. 3, NEW r \in Regs \cup {NA}
    PROVE  Waits(s, k, r) \in Seq(DependsType)
<1>1. CASE r = NA \/ CREATE_VECTOR(r) = CVLINK_NULL
  BY <1>1 DEF Waits
<1>2. CASE ~(r = NA \/ CREATE_VECTOR(r) = CVLINK_NULL)
  <2>1. CREATE_VECTOR(r) \in [rs : Slots, odep_num : 1 .. 2]
    BY <1>2 DEF CvTyped, CvRange, CREATE_VECTOR, RegNames
  <2>2. Depends(s, k, CREATE_VECTOR(r)) \in DependsType
    BY <2>1 DEF Depends, DependsType
  <2> QED
    BY <1>2, <2>2 DEF Waits
<1> QED
  BY <1>1, <1>2

LEMMA ConcatTyped ==
    \A X : \A q, r \in Seq(X) : q \o r \in Seq(X) /\ Len(q \o r) = Len(q) + Len(r)
  OBVIOUS

LEMMA DepsTyped ==
    ASSUME CvTyped, RuuShape, LsqShape, FetchInv, CanDispatch
    PROVE  InstDeps \in Seq(DependsType)
<1> DEFINE in == DispInst.ins
<1>1. \A k \in 1 .. 3 : in[k] \in Regs \cup {NA}
  BY DispTyped
<1>2. \A k, j \in 1 .. 3 : /\ Waits(NewRuu, k, in[j]) \in Seq(DependsType)
                           /\ Waits(NewLsq, k, in[j]) \in Seq(DependsType)
  BY <1>1, NewSlots, WaitsTyped
<1>3. <<Depends(NewLsq, STORE_ADDR_INDEX, CVLINK_INIT(NewRuu, 1))>> \in Seq(DependsType)
  <2>1. CVLINK_INIT(NewRuu, 1) \in [rs : Slots, odep_num : 1 .. 2]
    BY NewSlots DEF CVLINK_INIT
  <2>2. Depends(NewLsq, STORE_ADDR_INDEX, CVLINK_INIT(NewRuu, 1)) \in DependsType
    BY <2>1, NewSlots DEF Depends, DependsType, STORE_ADDR_INDEX
  <2> QED
    BY <2>2
<1> HIDE DEF in
<1>4. InstDeps = IF Is(DispOp, "F_MEM")
        THEN Waits(NewRuu, 2, in[2]) \o Waits(NewRuu, 3, in[3]) \o
             Waits(NewLsq, 1, in[1]) \o
             <<Depends(NewLsq, STORE_ADDR_INDEX, CVLINK_INIT(NewRuu, 1))>>
        ELSE Waits(NewRuu, 1, in[1]) \o Waits(NewRuu, 2, in[2]) \o
             Waits(NewRuu, 3, in[3])
  BY DEF InstDeps, in
<1> QED
  BY <1>2, <1>3, <1>4, ConcatTyped

\* q is a station filled for an instruction.
Filled(q, s, op, seq, npc, recover, addr, outs, deps) ==
    /\ IsStation(q)
    /\ q.op = op /\ q.PC = DispPC /\ q.next_PC = npc
    /\ q.ea_comp = (Is(DispOp, "F_MEM") /\ ~in_LSQ(s))
    /\ q.recover_inst = recover /\ q.spec_mode = spec_mode /\ q.addr = addr
    /\ q.tag = st[s].tag /\ q.seq = seq
    /\ q.queued = FALSE /\ q.issued = FALSE /\ q.completed = FALSE
    /\ q.onames = outs
    /\ q.odep_list = [o \in 1 .. 2 |-> IF outs[o] = NA THEN st[s].odep_list[o]
                                       ELSE <<>>]
    /\ q.idep_ready = [k \in 1 .. 3 |->
            \A i \in DOMAIN deps : ~(deps[i].rs = s /\ deps[i].opnum = k)]

LEMMA FillIs ==
    ASSUME Stations(st), NEW s \in Slots
    PROVE  \A op, seq, npc, recover, addr, outs, deps :
              Filled(Fill(s, op, seq, npc, recover, addr, outs, deps),
                     s, op, seq, npc, recover, addr, outs, deps)
<1> SUFFICES ASSUME NEW op, NEW seq, NEW npc, NEW recover, NEW addr, NEW outs,
                    NEW deps, NEW q,
                    q = Fill(s, op, seq, npc, recover, addr, outs, deps)
             PROVE  Filled(q, s, op, seq, npc, recover, addr, outs, deps)
  OBVIOUS
<1>1. PICK v1, v2, v3 :
        /\ v1 = (Is(DispOp, "F_MEM") /\ ~in_LSQ(s))
        /\ v2 = [o \in 1 .. 2 |-> IF outs[o] = NA THEN st[s].odep_list[o] ELSE <<>>]
        /\ v3 = [k \in 1 .. 3 |->
                   \A i \in DOMAIN deps : ~(deps[i].rs = s /\ deps[i].opnum = k)]
  OBVIOUS
<1>2. DOMAIN st[s] = DOMAIN EmptyStation /\ st[s] = [f \in DOMAIN st[s] |-> st[s][f]]
  BY DEF Stations
<1>3. q = [st[s] EXCEPT
                !.op = op, !.PC = DispPC, !.next_PC = npc,
                !.ea_comp = v1, !.recover_inst = recover, !.spec_mode = spec_mode,
                !.addr = addr, !.seq = seq, !.queued = FALSE, !.issued = FALSE,
                !.completed = FALSE, !.onames = outs, !.odep_list = v2,
                !.idep_ready = v3]
  BY <1>1, <1>2 DEF Fill, EmptyStation
<1>d. DOMAIN q = DOMAIN st[s] /\ q = [f \in DOMAIN q |-> q[f]]
  BY <1>2, <1>3
<1>4. /\ IsStation(q)
      /\ q.op = op /\ q.PC = DispPC /\ q.next_PC = npc /\ q.ea_comp = v1
      /\ q.recover_inst = recover /\ q.spec_mode = spec_mode /\ q.addr = addr
      /\ q.tag = st[s].tag /\ q.seq = seq
      /\ q.queued = FALSE /\ q.issued = FALSE /\ q.completed = FALSE
      /\ q.onames = outs /\ q.odep_list = v2 /\ q.idep_ready = v3
  <2>1. IsStation(q)
    BY <1>2, <1>d DEF IsStation
  <2>2. /\ q.op = op /\ q.PC = DispPC /\ q.next_PC = npc /\ q.ea_comp = v1
        /\ q.recover_inst = recover /\ q.spec_mode = spec_mode /\ q.addr = addr
    BY <1>2, <1>3 DEF EmptyStation
  <2>3. /\ q.tag = st[s].tag /\ q.seq = seq
        /\ q.queued = FALSE /\ q.issued = FALSE /\ q.completed = FALSE
        /\ q.onames = outs /\ q.odep_list = v2 /\ q.idep_ready = v3
    BY <1>2, <1>3 DEF EmptyStation
  <2> QED
    BY <2>1, <2>2, <2>3
<1>5. /\ q.ea_comp = (Is(DispOp, "F_MEM") /\ ~in_LSQ(s))
      /\ q.odep_list = [o \in 1 .. 2 |-> IF outs[o] = NA THEN st[s].odep_list[o]
                                         ELSE <<>>]
      /\ q.idep_ready = [k \in 1 .. 3 |->
            \A i \in DOMAIN deps : ~(deps[i].rs = s /\ deps[i].opnum = k)]
  BY <1>1, <1>4, Zenon
<1> QED
  BY <1>4, <1>5 DEF Filled

\* The operation a dispatch puts in the RUU, and its results.
RuuOp   == IF Is(DispOp, "F_MEM") THEN "ADD" ELSE DispOp
RuuOuts == IF Is(DispOp, "F_MEM") THEN <<DTMP, NA>> ELSE DispInst.outs

\* The stations a dispatch fills.
NewOnes == {NewRuu} \cup IF Is(DispOp, "F_MEM") THEN {NewLsq} ELSE {}

\* F is st with the new stations filled.
FilledIn(F, npc, addr) ==
    /\ Stations(F)
    /\ Filled(F[NewRuu], NewRuu, RuuOp, inst_seq + 1, npc, Mispredicted(npc), 0,
              RuuOuts, InstDeps)
    /\ Is(DispOp, "F_MEM") =>
          Filled(F[NewLsq], NewLsq, DispOp, inst_seq + 2, npc, FALSE, addr,
                 DispInst.outs, InstDeps)
    /\ \A s \in Slots \ NewOnes : F[s] = st[s]

\* L is F with the links of the dependences.
LinkedIn(F, L) ==
    /\ Stations(L) /\ Lists(L) /\ ListsOnly(F, L)
    /\ Cardinality(OdepPlaces(L, Slots))
          = Cardinality(OdepPlaces(F, Slots)) + Len(InstDeps)
    /\ \A s \in Slots, o \in 1 .. 2 : \A l :
          Links(L, s, o, l) = Links(F, s, o, l)
                              + Cardinality(Asks(F, InstDeps, Len(InstDeps), s, o, l))

\* What is queued at once.
ReadyNow(F) == IF OPERANDS_READY(F[NewRuu]) THEN <<NewRuu>> ELSE <<>>

\* The rest of the state a dispatch installs.
InstalledRest(F, L) ==
    /\ ready_queue' = ReadyqEnqueue(ready_queue, ReadyNow(F), L)
    /\ rslink_free' = rslink_free - Len(InstDeps) - Len(ReadyNow(F))
    /\ inst_seq' = inst_seq + (IF Is(DispOp, "F_MEM") THEN 2 ELSE 1)
    /\ last_op' = IF Is(DispOp, "F_MEM") THEN RSLINK_INIT(NewLsq, st)
                  ELSE IF ReadyNow(F) # <<>> THEN RSLINK_NULL
                  ELSE RSLINK_INIT(NewRuu, st)

LEMMA InstallFills ==
    ASSUME Stations(st), RuuShape, LsqShape, NEW npc, NEW addr, Install(npc, addr)
    PROVE  \E F : /\ FilledIn(F, npc, addr)
                  /\ st' = MarkQueued(LinkIdeps(F, InstDeps), ReadyNow(F))
                  /\ InstalledRest(F, LinkIdeps(F, InstDeps))
<1> USE NewSlots
<1>1. PICK rs, lsq, rec, mem :
        /\ mem = Is(DispOp, "F_MEM") /\ rec = Mispredicted(npc)
        /\ rs = Fill(NewRuu, RuuOp, inst_seq + 1, npc, rec, 0, RuuOuts, InstDeps)
        /\ lsq = Fill(NewLsq, DispOp, inst_seq + 2, npc, FALSE, addr, DispInst.outs,
                      InstDeps)
  OBVIOUS
<1>2. PICK F : F = IF mem THEN [st EXCEPT ![NewRuu] = rs, ![NewLsq] = lsq]
                   ELSE [st EXCEPT ![NewRuu] = rs]
  OBVIOUS
<1>3. /\ Filled(rs, NewRuu, RuuOp, inst_seq + 1, npc, rec, 0, RuuOuts, InstDeps)
      /\ Filled(lsq, NewLsq, DispOp, inst_seq + 2, npc, FALSE, addr, DispInst.outs,
                InstDeps)
  BY <1>1, FillIs
<1>4. Stations(F) /\ F[NewRuu] = rs /\ (mem => F[NewLsq] = lsq)
      /\ \A s \in Slots \ NewOnes : F[s] = st[s]
  <2>1. PICK S, T, a, b : /\ S = st /\ T = [S EXCEPT ![a] = rs]
                          /\ a = NewRuu /\ b = NewLsq
    OBVIOUS
  <2>2. IsStation(rs) /\ IsStation(lsq)
    BY <1>3 DEF Filled
  <2>3. Stations(T) /\ T[a] = rs /\ \A x \in Slots : x # a => T[x] = S[x]
    <3>1. Replaced(S, T, a, rs) /\ Stations(S) /\ a \in Slots
      BY <2>1 DEF Replaced
    <3> QED
      BY <2>2, <3>1, StationReplaced
  <2>4. CASE mem
    <3>1. Replaced(T, F, b, lsq) /\ b \in Slots
      BY <1>2, <2>1, <2>4 DEF Replaced
    <3>2. Stations(F) /\ F[b] = lsq /\ \A x \in Slots : x # b => F[x] = T[x]
      BY <2>2, <2>3, <3>1, StationReplaced
    <3> QED
      BY <1>1, <2>1, <2>3, <2>4, <3>2 DEF NewOnes
  <2>5. CASE ~mem
    BY <1>1, <1>2, <2>1, <2>3, <2>5 DEF NewOnes
  <2> QED
    BY <1>1, <2>4, <2>5
<1>5. FilledIn(F, npc, addr)
  <2>1. Filled(F[NewRuu], NewRuu, RuuOp, inst_seq + 1, npc, Mispredicted(npc), 0,
               RuuOuts, InstDeps)
    BY <1>1, <1>3, <1>4
  <2> QED
    BY <1>1, <1>3, <1>4, <2>1 DEF FilledIn
<1>6. /\ rs = IF mem THEN Fill(NewRuu, "ADD", inst_seq + 1, npc, rec, 0, <<DTMP, NA>>,
                               InstDeps)
              ELSE Fill(NewRuu, DispOp, inst_seq + 1, npc, rec, 0, DispInst.outs,
                        InstDeps)
      /\ ReadyNow(F) = IF OPERANDS_READY(rs) THEN <<NewRuu>> ELSE <<>>
  BY <1>1, <1>4 DEF RuuOp, RuuOuts, ReadyNow
<1>7. st' = MarkQueued(LinkIdeps(F, InstDeps), ReadyNow(F))
  BY <1>1, <1>2, <1>6 DEF Install
<1>8. InstalledRest(F, LinkIdeps(F, InstDeps))
  BY <1>1, <1>2, <1>6 DEF Install, InstalledRest
<1> QED
  BY <1>5, <1>7, <1>8

-----------------------------------------------------------------------------
(* Types: the stations *)

InstTyped(r) ==
    /\ r.op \in Ops /\ r.PC \in PCs /\ r.next_PC \in PCs
    /\ r.ea_comp \in BOOLEAN /\ r.recover_inst \in BOOLEAN /\ r.spec_mode \in BOOLEAN
    /\ r.addr \in Addrs \cup {0} /\ r.seq \in Nat
    /\ r.onames \in [1 .. 2 -> RegNames \cup {NA}]

ProgressTyped(r) ==
    /\ r.queued \in BOOLEAN /\ r.issued \in BOOLEAN /\ r.completed \in BOOLEAN
    /\ r.idep_ready \in [1 .. 3 -> BOOLEAN]

Typed(S) ==
    /\ Stations(S) /\ Lists(S)
    /\ \A s \in Slots : InstTyped(S[s]) /\ ProgressTyped(S[s]) /\ S[s].tag \in Nat

LEMMA SameInstTyped ==
    ASSUME NEW r, NEW q, SameInst(r, q), InstTyped(r) PROVE InstTyped(q)
  BY DEF SameInst, InstTyped

LEMMA TypedIs == ASSUME NEW S, Typed(S) PROVE S \in [Slots -> StationType]
<1>1. ASSUME NEW s \in Slots, NEW r, r = S[s] PROVE r \in StationType
  <2>1. /\ InstTyped(r) /\ ProgressTyped(r) /\ r.tag \in Nat
        /\ r.odep_list \in [1 .. 2 -> Seq(LinkType)]
        /\ r = [f \in DOMAIN r |-> r[f]] /\ DOMAIN r = DOMAIN EmptyStation
    BY <1>1 DEF Typed, Lists, Stations
  <2>2. /\ r.onames \in Seq(RegNames \cup {NA}) /\ r.odep_list \in Seq(Seq(LinkType))
        /\ r.idep_ready \in Seq(BOOLEAN)
    <3>1. \A X : [1 .. 2 -> X] \subseteq Seq(X) /\ [1 .. 3 -> X] \subseteq Seq(X)
      <4>1. \A X : \A m \in Nat : [1 .. m -> X] \subseteq Seq(X)
        BY SeqDef
      <4> QED
        BY <4>1
    <3> QED
      BY <2>1, <3>1 DEF InstTyped, ProgressTyped
  <2> QED
    BY <2>1, <2>2 DEF StationType, InstTyped, ProgressTyped, LinkType, EmptyStation
<1> QED
  BY <1>1 DEF Typed, Stations

-----------------------------------------------------------------------------
(* The consumers a writeback wakes *)

LEMMA OutputLinksTyped ==
    ASSUME NEW S, Lists(S), NEW s \in Slots
    PROVE  OutputLinks(S[s]) \in Seq(LinkType)
<1>1. S[s].odep_list[1] \in Seq(LinkType) /\ S[s].odep_list[2] \in Seq(LinkType)
  BY DEF Lists
<1> QED
  BY <1>1, ConcatTyped DEF OutputLinks

\* The consumer of the last of its links that go to the ready queue.
WokenAt(S, links) ==
    {i \in DOMAIN links :
        /\ RSLINK_VALID(links[i], S)
        /\ \A j \in DOMAIN links : j > i /\ RSLINK_VALID(links[j], S)
                                     => links[j].rs # links[i].rs
        /\ Readies(links[i].rs, Wake(S, links)[links[i].rs])}

LEMMA WokenIs ==
    ASSUME NEW S, NEW links \in Seq(LinkType)
    PROVE  LET w == Woken(S, links)
           IN  /\ w \in Seq(Slots) /\ Len(w) <= Len(links) /\ Len(w) \in Nat
               /\ \A x : Times(w, x) = IF \E i \in DOMAIN w : w[i] = x THEN 1 ELSE 0
               /\ \A x : (\E i \in DOMAIN w : w[i] = x)
                           <=> /\ \E k : Told(S, links, x, k)
                               /\ Readies(x, Wake(S, links)[x])
<1> DEFINE N == Len(links)
<1>1. N \in Nat /\ DOMAIN links = 1 .. N /\ \A i \in 1 .. N : links[i] \in LinkType
  OBVIOUS
<1>2. PICK K, g, w : /\ K = WokenAt(S, links) /\ g = [i \in 1 .. N |-> links[i].rs]
                     /\ w = Woken(S, links)
  OBVIOUS
<1>3. K \in SUBSET (1 .. N)
  BY <1>1, <1>2 DEF WokenAt
<1>4. IsFiniteSet(K) /\ Cardinality(K) \in 0 .. N
  BY <1>1, <1>3, SubsetOfInterval
<1>5. \A i \in K : g[i] \in Slots
  BY <1>1, <1>2, <1>3 DEF LinkType
<1>6. Gathers(w, K, g)
  <2>1. w = [k \in DOMAIN InOrder(K) |-> links[InOrder(K)[k]].rs]
    BY <1>2 DEF Woken, WokenAt
  <2>2. K \in SUBSET Int /\ DOMAIN InOrder(K) = 1 .. Cardinality(K)
    BY <1>3 DEF InOrder
  <2>3. \A k \in DOMAIN InOrder(K) : InOrder(K)[k] \in 1 .. N
    BY <1>3, <1>4, <2>2, InOrderIs
  <2>4. \A k \in DOMAIN InOrder(K) : g[InOrder(K)[k]] = links[InOrder(K)[k]].rs
    BY <1>2, <2>3
  <2> QED
    BY <1>4, <1>5, <2>1, <2>2, <2>4 DEF Gathers
<1>7. /\ w \in Seq(Slots) /\ Len(w) = Cardinality(K)
      /\ \A x : (\E j \in DOMAIN w : w[j] = x) <=> (\E i \in K : g[i] = x)
      /\ \A x : Times(w, x) = Cardinality(Naming(K, g, x))
  BY <1>6, GathersIs
<1>8. \A i, j \in K : g[i] = g[j] => i = j
  BY <1>1, <1>2, <1>3 DEF WokenAt
<1>9. \A x : Times(w, x) = IF \E j \in DOMAIN w : w[j] = x THEN 1 ELSE 0
  <2> TAKE x
  <2>1. Cardinality(Naming(K, g, x)) = IF \E i \in K : g[i] = x THEN 1 ELSE 0
    BY <1>8, TimesOnce
  <2> QED
    BY <1>7, <2>1
<1>10. ASSUME NEW x
       PROVE  (\E i \in K : g[i] = x)
                 <=> /\ \E k : Told(S, links, x, k)
                     /\ Readies(x, Wake(S, links)[x])
  <2>1. ASSUME NEW i \in K, g[i] = x
        PROVE  Told(S, links, x, links[i].opnum) /\ Readies(x, Wake(S, links)[x])
    BY <1>1, <1>2, <1>3, <2>1 DEF WokenAt, Told
  <2>2. ASSUME NEW k, Told(S, links, x, k), Readies(x, Wake(S, links)[x])
        PROVE  \E i \in K : g[i] = x
    <3> DEFINE T == {i \in 1 .. N : RSLINK_VALID(links[i], S) /\ links[i].rs = x}
    <3>1. T # {} /\ T \subseteq 1 .. N
      BY <1>1, <2>2 DEF Told
    <3>2. PICK i \in T : \A j \in T : j <= i
      <4> HIDE DEF T
      <4> QED
        BY <1>1, <3>1, GreatestNat
    <3>3. /\ i \in DOMAIN links /\ RSLINK_VALID(links[i], S) /\ links[i].rs = x
          /\ i \in 1 .. N
      BY <1>1, <3>2
    <3>4. \A j \in DOMAIN links : j > i /\ RSLINK_VALID(links[j], S)
                                    => links[j].rs # links[i].rs
      BY <1>1, <3>2, <3>3
    <3>5. i \in K
      BY <1>2, <2>2, <3>3, <3>4 DEF WokenAt
    <3> QED
      BY <1>2, <3>3, <3>5
  <2> QED
    BY <2>1, <2>2
<1>11. /\ w \in Seq(Slots) /\ Len(w) <= N /\ Len(w) \in Nat
       /\ \A x : Times(w, x) = IF \E i \in DOMAIN w : w[i] = x THEN 1 ELSE 0
       /\ \A x : (\E i \in DOMAIN w : w[i] = x)
                   <=> /\ \E k : Told(S, links, x, k)
                       /\ Readies(x, Wake(S, links)[x])
  <2>1. w \in Seq(Slots) /\ Len(w) <= N /\ Len(w) \in Nat
    BY <1>1, <1>4, <1>7
  <2>2. ASSUME NEW x
        PROVE  (\E i \in DOMAIN w : w[i] = x)
                  <=> /\ \E k : Told(S, links, x, k)
                      /\ Readies(x, Wake(S, links)[x])
    BY <1>7, <1>10
  <2> QED
    BY <1>9, <2>1, <2>2
<1> QED
  BY <1>2, <1>11, Zenon

-----------------------------------------------------------------------------
(* The loads that lsq_refresh finds, and what ruu_issue gives back *)

LEMMA LsqAtIs ==
    ASSUME LsqShape, NEW k \in 0 .. LSQ_size - 1
    PROVE  /\ LsqAt(k) \in LsqSlots /\ LsqAt(k) \in Slots /\ in_LSQ(LsqAt(k))
           /\ Age(LsqAt(k)) = k
<1> DEFINE i == IF LSQ_head + k < LSQ_size THEN LSQ_head + k ELSE LSQ_head + k - LSQ_size
<1>1. i \in LIndices /\ LsqAge(i) = k
  BY SizeType DEF LsqShape, LIndices, LsqAge
<1>2. (LSQ_head + k) % LSQ_size = i
  <2> DEFINE x == LSQ_head + k
  <2>1. x \in 0 .. 2 * LSQ_size - 1 /\ LSQ_size \in Nat \ {0} /\ LSQ_head \in Int
    BY SizeType DEF LsqShape, LIndices
  <2> HIDE DEF x
  <2>2. x % LSQ_size = IF x < LSQ_size THEN x ELSE x - LSQ_size
    BY <2>1, ModIs
  <2> QED
    BY <2>1, <2>2 DEF x
<1> HIDE DEF i
<1>3. LsqAt(k) = LsqSlot(i)
  BY <1>2 DEF LsqAt
<1> QED
  BY <1>1, <1>3, LsqSlotOf, AgeOf

LEMMA LsqAtAge ==
    ASSUME LsqShape, NEW s \in LsqSlots
    PROVE  /\ Age(s) \in 0 .. LSQ_size - 1 /\ LsqAt(Age(s)) = s
           /\ InWindow(s) <=> Age(s) < LSQ_num
<1>1. s[2] \in LIndices /\ s = LsqSlot(s[2]) /\ Age(s) = LsqAge(s[2])
      /\ (InWindow(s) <=> Age(s) < LSQ_num)
  BY LsqSlotOf, AgeOf DEF InLsq
<1>2. PICK k, i : k = Age(s) /\ i = s[2]
  OBVIOUS
<1>3. k \in 0 .. LSQ_size - 1
      /\ i = IF LSQ_head + k < LSQ_size THEN LSQ_head + k ELSE LSQ_head + k - LSQ_size
  BY <1>1, <1>2, SizeType DEF LsqShape, LIndices, LsqAge
<1>4. (LSQ_head + k) % LSQ_size = i
  <2> DEFINE x == LSQ_head + k
  <2>1. x \in 0 .. 2 * LSQ_size - 1 /\ LSQ_size \in Nat \ {0} /\ LSQ_head \in Int
    BY <1>3, SizeType DEF LsqShape, LIndices
  <2> HIDE DEF x
  <2>2. x % LSQ_size = IF x < LSQ_size THEN x ELSE x - LSQ_size
    BY <2>1, ModIs
  <2> QED
    BY <1>3, <2>1, <2>2 DEF x
<1> QED
  BY <1>1, <1>2, <1>3, <1>4 DEF LsqAt

\* The stores that end the scan of lsq_refresh.
Stops(k) == IsStore(st[LsqAt(k)]) /\ ~STORE_ADDR_READY(st[LsqAt(k)])

LEMMA ScanIs ==
    ASSUME LsqShape
    PROVE  /\ ScanLength \in 0 .. LSQ_num
           /\ \A k \in 0 .. ScanLength - 1 : ~Stops(k)
<1> DEFINE T == {LSQ_num} \cup {k \in 0 .. LSQ_num - 1 : Stops(k)}
<1>1. T \subseteq 0 .. LSQ_num /\ LSQ_num \in T /\ LSQ_num \in Nat
  BY DEF LsqShape
<1>2. ScanLength = CHOOSE x \in T : \A y \in T : x <= y
  BY DEF ScanLength, Min, Stops
<1>3. \E x \in T : \A y \in T : x <= y
  <2> T \subseteq Nat /\ T # {}
    BY <1>1
  <2> HIDE DEF T
  <2> QED
    BY LeastNat
<1>4. ScanLength \in T /\ \A y \in T : ScanLength <= y
  <2> HIDE DEF T
  <2> QED
    BY <1>2, <1>3
<1>5. ASSUME NEW k \in 0 .. ScanLength - 1, Stops(k) PROVE FALSE
  <2>1. k \in T
    BY <1>1, <1>4, <1>5
  <2> QED
    BY <1>1, <1>4, <1>5, <2>1
<1> QED
  BY <1>1, <1>4, <1>5

LEMMA ReadyLoadsIs ==
    ASSUME LsqShape
    PROVE  LET w == ReadyLoads
           IN  /\ w \in Seq(Slots) /\ Len(w) \in Nat
               /\ \A x : Times(w, x) = IF \E i \in DOMAIN w : w[i] = x THEN 1 ELSE 0
               /\ \A x : (\E i \in DOMAIN w : w[i] = x)
                           <=> \E k \in 0 .. ScanLength - 1 : LoadReady(k) /\ LsqAt(k) = x
<1> DEFINE L == ScanLength
<1>1. L \in Nat /\ 0 .. L - 1 \subseteq 0 .. LSQ_size - 1
  BY ScanIs, SizeType DEF LsqShape
<1>2. PICK K, g, w : /\ K = {k \in 0 .. L - 1 : LoadReady(k)}
                     /\ g = [k \in 0 .. L - 1 |-> LsqAt(k)]
                     /\ w = ReadyLoads
  OBVIOUS
<1> HIDE DEF L
<1>3. K \subseteq 0 .. L - 1 /\ IsFiniteSet(K)
  <2>1. K \in SUBSET (0 .. L - 1)
    BY <1>2
  <2>2. IsFiniteSet(0 .. L - 1)
    BY <1>1, FS_Interval
  <2> QED
    BY <2>1, <2>2, FS_Subset
<1>4. \A k \in 0 .. L - 1 : g[k] = LsqAt(k) /\ g[k] \in Slots /\ Age(g[k]) = k
  BY <1>1, <1>2, LsqAtIs
<1>5. Gathers(w, K, g)
  <2>1. w = [k \in DOMAIN InOrder(K) |-> LsqAt(InOrder(K)[k])]
    BY <1>2 DEF ReadyLoads, L
  <2>2. K \in SUBSET Int /\ DOMAIN InOrder(K) = 1 .. Cardinality(K)
    BY <1>3 DEF InOrder
  <2>3. \A k \in DOMAIN InOrder(K) : InOrder(K)[k] \in 0 .. L - 1
    BY <1>3, <2>2, InOrderIs
  <2>4. \A k \in DOMAIN InOrder(K) : g[InOrder(K)[k]] = LsqAt(InOrder(K)[k])
    BY <1>4, <2>3
  <2> QED
    BY <1>3, <1>4, <2>1, <2>2, <2>4 DEF Gathers
<1>6. /\ w \in Seq(Slots) /\ Len(w) = Cardinality(K)
      /\ \A x : (\E j \in DOMAIN w : w[j] = x) <=> (\E i \in K : g[i] = x)
      /\ \A x : Times(w, x) = Cardinality(Naming(K, g, x))
  BY <1>5, GathersIs
<1>7. \A i, j \in K : g[i] = g[j] => i = j
  BY <1>3, <1>4
<1>8. \A x : Times(w, x) = IF \E j \in DOMAIN w : w[j] = x THEN 1 ELSE 0
  <2> TAKE x
  <2>1. Cardinality(Naming(K, g, x)) = IF \E i \in K : g[i] = x THEN 1 ELSE 0
    BY <1>7, TimesOnce
  <2> QED
    BY <1>6, <2>1
<1>9. \A x : (\E i \in K : g[i] = x)
               <=> \E k \in 0 .. L - 1 : LoadReady(k) /\ LsqAt(k) = x
  BY <1>2, <1>4
<1>10. /\ w \in Seq(Slots) /\ Len(w) \in Nat
       /\ \A x : (\E i \in DOMAIN w : w[i] = x)
                   <=> \E k \in 0 .. L - 1 : LoadReady(k) /\ LsqAt(k) = x
  BY <1>3, <1>6, <1>9, FS_CardinalityType
<1> QED
  BY <1>2, <1>8, <1>10, Zenon DEF L

\* The nodes of todo that are still valid.
LiveAt == {i \in DOMAIN todo : RSLINK_VALID(todo[i], st)}

NodeType == [rs : Slots, tag : Nat, seq : Nat]

\* The stations that ruu_issue puts back in the ready queue.
GivenBack == [k \in DOMAIN InOrder(LiveAt) |-> todo[InOrder(LiveAt)[k]].rs]

LEMMA GivenBackIs ==
    ASSUME todo \in Seq(NodeType)
    PROVE  /\ GivenBack \in Seq(Slots) /\ Len(GivenBack) = Len(InOrder(LiveAt))
           /\ Len(GivenBack) \in 0 .. Len(todo)
           /\ \A s \in Slots : Times(GivenBack, s) = Count(todo, s, st[s].tag)
<1>1. PICK N, K, g, w : /\ N = Len(todo) /\ K = LiveAt /\ w = GivenBack
                        /\ g = [i \in DOMAIN todo |-> todo[i].rs]
  OBVIOUS
<1>2. N \in Nat /\ DOMAIN todo = 1 .. N /\ \A i \in 1 .. N : todo[i] \in NodeType
  BY <1>1
<1>3. K \in SUBSET (1 .. N)
  BY <1>1, <1>2 DEF LiveAt
<1>4. IsFiniteSet(K) /\ Cardinality(K) \in 0 .. N
  BY <1>2, <1>3, SubsetOfInterval
<1>5. \A i \in 1 .. N : g[i] = todo[i].rs /\ g[i] \in Slots
  BY <1>1, <1>2 DEF NodeType
<1>6. K \in SUBSET Int /\ DOMAIN InOrder(K) = 1 .. Cardinality(K)
  BY <1>3 DEF InOrder
<1>7. Gathers(w, K, g)
  <2>1. w = [k \in DOMAIN InOrder(K) |-> todo[InOrder(K)[k]].rs]
    BY <1>1 DEF GivenBack
  <2>3. \A k \in DOMAIN InOrder(K) : InOrder(K)[k] \in 1 .. N
    BY <1>3, <1>4, <1>6, InOrderIs
  <2>4. \A k \in DOMAIN InOrder(K) : g[InOrder(K)[k]] = todo[InOrder(K)[k]].rs
    BY <1>5, <2>3
  <2> QED
    BY <1>3, <1>4, <1>5, <1>6, <2>1, <2>4 DEF Gathers
<1>8. /\ w \in Seq(Slots) /\ Len(w) = Cardinality(K)
      /\ \A x : Times(w, x) = Cardinality(Naming(K, g, x))
  BY <1>7, GathersIs
<1>9. \A s \in Slots : Naming(K, g, s) = NodesFor(todo, s, st[s].tag)
  BY <1>1, <1>2, <1>3, <1>5 DEF Naming, NodesFor, LiveAt, RSLINK_VALID
<1>10. \A s \in Slots : Times(w, s) = Count(todo, s, st[s].tag)
  BY <1>8, <1>9 DEF Count
<1>11. Len(InOrder(K)) = Cardinality(K)
  BY <1>4, <1>6, InOrderIs
<1> QED
  BY <1>1, <1>4, <1>8, <1>10, <1>11

-----------------------------------------------------------------------------
(* Types: the steps *)

LEMMA TypedFrom ==
    ASSUME NEW S, Typed(S), NEW T, Stations(T),
           \A s \in Slots : /\ SameInst(S[s], T[s]) /\ ProgressTyped(T[s])
                            /\ T[s].tag \in Nat
                            /\ T[s].odep_list \in [1 .. 2 -> Seq(LinkType)]
    PROVE  Typed(T)
<1>1. \A s \in Slots : InstTyped(T[s])
  BY SameInstTyped DEF Typed
<1> QED
  BY <1>1 DEF Typed, Lists

LEMMA TypedSquash == ASSUME Typed(st), NEW b PROVE Typed(SquashOf(b))
<1>1. PICK T : T = SquashOf(b)
  OBVIOUS
<1>2. /\ Stations(T)
      /\ \A s \in Slots :
            /\ SameInst(st[s], T[s]) /\ SameProgress(st[s], T[s])
            /\ T[s].idep_ready = st[s].idep_ready
            /\ T[s].tag = IF s \in Squashed(b) THEN st[s].tag + 1 ELSE st[s].tag
            /\ T[s].odep_list = IF s \in Squashed(b) THEN << <<>>, <<>> >>
                                ELSE st[s].odep_list
  BY <1>1, SquashIs DEF Typed
<1>3. << <<>>, <<>> >> \in [1 .. 2 -> Seq(LinkType)]
  <2>1. << <<>>, <<>> >> = [o \in 1 .. 2 |-> <<>>]
    OBVIOUS
  <2>2. <<>> \in Seq(LinkType)
    OBVIOUS
  <2> QED
    BY <2>1, <2>2
<1>4. \A s \in Slots : /\ SameInst(st[s], T[s]) /\ ProgressTyped(T[s])
                       /\ T[s].tag \in Nat
                       /\ T[s].odep_list \in [1 .. 2 -> Seq(LinkType)]
  BY <1>2, <1>3 DEF Typed, SameProgress, ProgressTyped, Lists
<1> QED
  BY <1>1, <1>2, <1>4, TypedFrom

LEMMA TypedCompleted ==
    ASSUME NEW S, Typed(S), NEW T, NEW s \in Slots, NEW links, NEW woken,
           Completed(S, T, s, links, woken)
    PROVE  Typed(T)
<1>1. ASSUME NEW x \in Slots
      PROVE  /\ SameInst(S[x], T[x]) /\ T[x].tag \in Nat
             /\ T[x].issued \in BOOLEAN
             /\ T[x].idep_ready \in [1 .. 3 -> BOOLEAN]
             /\ T[x].completed \in BOOLEAN /\ T[x].queued \in BOOLEAN
  <2>1. ProgressTyped(S[x]) /\ S[x].tag \in Nat
    BY DEF Typed
  <2>2. /\ SameInst(S[x], T[x]) /\ T[x].tag = S[x].tag /\ T[x].issued = S[x].issued
        /\ T[x].completed = IF x = s THEN TRUE ELSE S[x].completed
        /\ T[x].queued = IF \E i \in DOMAIN woken : woken[i] = x THEN TRUE
                         ELSE S[x].queued
        /\ T[x].idep_ready =
              [k \in 1 .. 3 |-> S[x].idep_ready[k] \/ Told(S, links, x, k)]
    BY DEF Completed
  <2>3. \A k \in 1 .. 3 : (S[x].idep_ready[k] \/ Told(S, links, x, k)) \in BOOLEAN
    OBVIOUS
  <2>4. T[x].idep_ready \in [1 .. 3 -> BOOLEAN]
    BY <2>2, <2>3
  <2>5. T[x].completed \in BOOLEAN /\ T[x].queued \in BOOLEAN /\ T[x].issued \in BOOLEAN
    BY <2>1, <2>2 DEF ProgressTyped
  <2> QED
    BY <2>1, <2>2, <2>4, <2>5
<1>2. ASSUME NEW x \in Slots PROVE T[x].odep_list \in [1 .. 2 -> Seq(LinkType)]
  <2>1. CASE x # s
    BY <2>1 DEF Completed, Typed, Lists
  <2>2. CASE x = s
    <3>1. T[s].odep_list = [o \in 1 .. 2 |-> IF st[s].onames[o] = NA
                                             THEN S[s].odep_list[o] ELSE <<>>]
      BY DEF Completed
    <3>2. S[s].odep_list \in [1 .. 2 -> Seq(LinkType)]
      BY DEF Typed, Lists
    <3> QED
      BY <2>2, <3>1, <3>2
  <2> QED
    BY <2>1, <2>2
<1>3. Stations(T)
  BY DEF Completed
<1>4. \A x \in Slots : ProgressTyped(T[x])
  BY <1>1 DEF ProgressTyped
<1> QED
  BY <1>1, <1>2, <1>3, <1>4, TypedFrom

LEMMA TypedMarked ==
    ASSUME NEW S, Typed(S), NEW T, NEW slots, Marked(S, T, slots) PROVE Typed(T)
<1>1. \A s \in Slots : /\ SameInst(S[s], T[s]) /\ ProgressTyped(T[s])
                       /\ T[s].tag \in Nat
                       /\ T[s].odep_list \in [1 .. 2 -> Seq(LinkType)]
  BY DEF Marked, Typed, ProgressTyped, Lists
<1> QED
  BY <1>1, TypedFrom DEF Marked

LEMMA TypedStarted ==
    ASSUME NEW S, Typed(S), NEW T, NEW s, NEW done, Started(S, T, s, done)
    PROVE  Typed(T)
<1>1. \A x \in Slots : /\ SameInst(S[x], T[x]) /\ ProgressTyped(T[x])
                       /\ T[x].tag \in Nat
                       /\ T[x].odep_list \in [1 .. 2 -> Seq(LinkType)]
  BY DEF Started, Typed, ProgressTyped, Lists
<1> QED
  BY <1>1, TypedFrom DEF Started

LEMMA TypedRetired == ASSUME Typed(st), NEW R, Retired(R) PROVE Typed(st')
<1>1. PICK T : T = st'
  OBVIOUS
<1>2. \A s \in Slots : /\ SameInst(st[s], T[s]) /\ ProgressTyped(T[s])
                       /\ T[s].tag \in Nat
                       /\ T[s].odep_list \in [1 .. 2 -> Seq(LinkType)]
  BY <1>1 DEF Retired, Typed, SameProgress, ProgressTyped, Lists
<1>3. Stations(T)
  BY <1>1 DEF Retired
<1> QED
  BY <1>1, <1>2, <1>3, TypedFrom

\* What a dispatch does to the stations and to the scheduler.
Installed(F, L, npc, addr) ==
    /\ FilledIn(F, npc, addr) /\ Typed(F)
    /\ LinkedIn(F, L)
    /\ Marked(L, st', ReadyNow(F))
    /\ InstalledRest(F, L)

LEMMA FilledTyped ==
    ASSUME NEW q, NEW s \in Slots, NEW op \in Ops, NEW seq \in Nat, NEW npc \in PCs,
           NEW recover, q.recover_inst \in BOOLEAN, NEW addr \in Addrs \cup {0},
           NEW outs \in [1 .. 2 -> RegNames \cup {NA}], NEW deps,
           Filled(q, s, op, seq, npc, recover, addr, outs, deps),
           Typed(st), DispPC \in PCs, spec_mode \in BOOLEAN
    PROVE  /\ InstTyped(q) /\ ProgressTyped(q) /\ q.tag \in Nat
           /\ q.odep_list \in [1 .. 2 -> Seq(LinkType)]
<1>1. InstTyped(q)
  BY DEF Filled, InstTyped
<1>2. q.idep_ready \in [1 .. 3 -> BOOLEAN]
  <2>1. \A k \in 1 .. 3 :
           (\A i \in DOMAIN deps : ~(deps[i].rs = s /\ deps[i].opnum = k)) \in BOOLEAN
    OBVIOUS
  <2> QED
    BY <2>1 DEF Filled
<1>3. ProgressTyped(q) /\ q.tag \in Nat
  BY <1>2 DEF Filled, ProgressTyped, Typed
<1>4. q.odep_list \in [1 .. 2 -> Seq(LinkType)]
  <2>1. st[s].odep_list \in [1 .. 2 -> Seq(LinkType)]
    BY DEF Typed, Lists
  <2>2. q.odep_list = [o \in 1 .. 2 |-> IF outs[o] = NA THEN st[s].odep_list[o]
                                        ELSE <<>>]
    BY DEF Filled
  <2> QED
    BY <2>1, <2>2
<1> QED
  BY <1>1, <1>3, <1>4

LEMMA OutsTyped ==
    ASSUME FetchInv, CanDispatch
    PROVE  /\ RuuOuts \in [1 .. 2 -> RegNames \cup {NA}]
           /\ DispInst.outs \in [1 .. 2 -> RegNames \cup {NA}]
           /\ RuuOp \in Ops
<1>1. DispInst.outs \in [1 .. 2 -> Regs \cup {NA}] /\ DispOp \in Ops
  BY DispTyped
<1>2. DispInst.outs \in [1 .. 2 -> RegNames \cup {NA}]
  BY <1>1 DEF RegNames
<1>3. <<DTMP, NA>> \in [1 .. 2 -> RegNames \cup {NA}]
  BY DEF RegNames
<1>4. "ADD" \in Ops
  BY DEF Ops, MD_OP_FLAGS
<1> QED
  BY <1>1, <1>2, <1>3, <1>4 DEF RuuOuts, RuuOp

LEMMA InstallIs ==
    ASSUME Typed(st), RuuShape, LsqShape, CvTyped, FetchInv, inst_seq \in Nat,
           CanDispatch, NEW npc \in PCs, NEW addr \in Addrs \cup {0},
           Install(npc, addr)
    PROVE  /\ \E F, L : Installed(F, L, npc, addr)
           /\ Typed(st')
<1>1. PICK F : /\ FilledIn(F, npc, addr)
               /\ st' = MarkQueued(LinkIdeps(F, InstDeps), ReadyNow(F))
               /\ InstalledRest(F, LinkIdeps(F, InstDeps))
  BY InstallFills DEF Typed
<1>2. Typed(F)
  <2>1. /\ DispPC \in PCs /\ spec_mode \in BOOLEAN /\ Mispredicted(npc) \in BOOLEAN
        /\ DispOp \in Ops /\ inst_seq + 1 \in Nat /\ inst_seq + 2 \in Nat
        /\ 0 \in Addrs \cup {0} /\ FALSE \in BOOLEAN
    BY DispTyped DEF FetchInv, FetchType, Mispredicted
  <2>2. ASSUME NEW q, q = F[NewRuu]
        PROVE  /\ InstTyped(q) /\ ProgressTyped(q) /\ q.tag \in Nat
               /\ q.odep_list \in [1 .. 2 -> Seq(LinkType)]
    <3>1. PICK s, op, m, rec, a, outs, deps :
                 /\ s = NewRuu /\ op = RuuOp /\ m = inst_seq + 1
                 /\ rec = Mispredicted(npc) /\ a = 0 /\ outs = RuuOuts /\ deps = InstDeps
      OBVIOUS
    <3>2. Filled(q, s, op, m, npc, rec, a, outs, deps)
      BY <1>1, <2>2, <3>1 DEF FilledIn
    <3>3. q.recover_inst \in BOOLEAN /\ a \in Addrs \cup {0} /\ m \in Nat
      BY <2>1, <3>1, <3>2 DEF Filled
    <3>4. outs \in [1 .. 2 -> RegNames \cup {NA}] /\ op \in Ops /\ s \in Slots
      BY <3>1, OutsTyped, NewSlots
    <3>5. DispPC \in PCs /\ spec_mode \in BOOLEAN
      BY <2>1
    <3> QED
      BY <3>2, <3>3, <3>4, <3>5, FilledTyped
  <2>3. ASSUME NEW q, q = F[NewLsq], Is(DispOp, "F_MEM")
        PROVE  /\ InstTyped(q) /\ ProgressTyped(q) /\ q.tag \in Nat
               /\ q.odep_list \in [1 .. 2 -> Seq(LinkType)]
    <3>1. Filled(q, NewLsq, DispOp, inst_seq + 2, npc, FALSE, addr,
                 DispInst.outs, InstDeps)
          /\ q.recover_inst \in BOOLEAN
      BY <1>1, <2>3 DEF FilledIn, Filled
    <3> QED
      BY <2>1, <3>1, OutsTyped, NewSlots, FilledTyped
  <2>4. ASSUME NEW s \in Slots
        PROVE  /\ InstTyped(F[s]) /\ ProgressTyped(F[s]) /\ F[s].tag \in Nat
               /\ F[s].odep_list \in [1 .. 2 -> Seq(LinkType)]
    <3>1. CASE s \notin NewOnes
      BY <1>1, <3>1 DEF FilledIn, Typed, Lists
    <3>2. CASE s \in NewOnes
      BY <2>2, <2>3, <3>2 DEF NewOnes
    <3> QED
      BY <3>1, <3>2
  <2> QED
    BY <1>1, <2>4 DEF FilledIn, Typed, Lists
<1>3. PICK L : L = LinkIdeps(F, InstDeps)
  OBVIOUS
<1>4. LinkedIn(F, L)
  <2>1. InstDeps \in Seq(DependsType)
    BY DepsTyped
  <2>2. /\ Stations(F) /\ Lists(F) /\ \A s \in Slots : F[s].tag \in Nat
    BY <1>2 DEF Typed
  <2> QED
    BY <1>3, <2>1, <2>2, LinkIdepsIs DEF LinkedIn
<1>5. Typed(L)
  <2>1. \A s \in Slots : /\ SameInst(F[s], L[s]) /\ ProgressTyped(L[s])
                         /\ L[s].tag \in Nat
                         /\ L[s].odep_list \in [1 .. 2 -> Seq(LinkType)]
    BY <1>2, <1>4 DEF LinkedIn, ListsOnly, Typed, SameProgress, ProgressTyped, Lists
  <2>2. Stations(L)
    BY <1>4 DEF LinkedIn
  <2> QED
    BY <1>2, <2>1, <2>2, TypedFrom
<1>6. Marked(L, st', ReadyNow(F))
  <2>1. Stations(L)
    BY <1>4 DEF LinkedIn
  <2>2. Marked(L, MarkQueued(L, ReadyNow(F)), ReadyNow(F))
    BY <2>1, MarkQueuedIs
  <2> QED
    BY <1>1, <1>3, <2>2
<1>7. Typed(st')
  <2>1. PICK T, q : T = st' /\ q = ReadyNow(F)
    OBVIOUS
  <2>2. Marked(L, T, q)
    BY <1>6, <2>1
  <2>3. Typed(T)
    BY <1>5, <2>2, TypedMarked
  <2> QED
    BY <2>1, <2>3
<1>8. InstalledRest(F, L)
  BY <1>1, <1>3
<1> QED
  BY <1>1, <1>2, <1>4, <1>6, <1>7, <1>8 DEF Installed

EventType == [rs : Slots, tag : Nat, when : Int]

QueuesTyped ==
    /\ ready_queue \in Seq(NodeType) /\ todo \in Seq(NodeType)
    /\ event_queue \in Seq(EventType) /\ rslink_free \in Nat

OrderTyped ==
    inst_seq \in Nat /\ last_op \in [rs : Slots \cup {NoSlot}, tag : Nat]

UnitsTyped == fu_busy \in [Units -> Nat] /\ fu_accepted \subseteq Units

\* The variables that only say where sim_main is.
LoopTyped ==
    /\ stage \in {"commit", "release", "writeback", "refresh", "issue",
                  "dispatch", "fetch", "end"}
    /\ n \in Nat /\ halted \in BOOLEAN

TypeInv ==
    /\ FetchInv /\ RuuShape /\ LsqShape /\ CvTyped /\ Typed(st)
    /\ QueuesTyped /\ OrderTyped /\ UnitsTyped /\ LoopTyped

LEMMA TypeInvIsTypeOK == TypeInv => TypeOK
<1> SUFFICES ASSUME TypeInv PROVE TypeOK
  OBVIOUS
<1>1. st \in [Slots -> StationType]
  BY TypedIs DEF TypeInv
<1>2. create_vector \in CvType /\ spec_create_vector \in CvType
  <2>1. CvRange \subseteq [rs : Slots \cup {NoSlot}, odep_num : 0 .. 2]
    BY DEF CvRange, CVLINK_NULL
  <2> QED
    BY <2>1 DEF TypeInv, CvTyped, CvType
<1>3. QueueType
  BY DEF TypeInv, RuuShape, LsqShape, Indices, LIndices, QueueType
<1> QED
  BY <1>1, <1>2, <1>3
     DEF TypeInv, TypeOK, FetchInv, CvTyped, QueuesTyped, OrderTyped, UnitsTyped,
         LoopTyped, NodeType, EventType

LEMMA InitTypeInv == Init => TypeInv
<1> SUFFICES ASSUME Init PROVE TypeInv
  OBVIOUS
<1> USE SizeType
<1>1. FetchInv
  BY InitFetchInv
<1>2. RuuShape /\ LsqShape
  BY DEF Init, RuuShape, LsqShape, Indices, LIndices
<1>3. CvTyped
  BY DEF Init, CvTyped, CvRange
<1>4. Typed(st)
  <2>1. st = [s \in Slots |-> EmptyStation]
    BY DEF Init
  <2>2. "NOP" \in Ops /\ BogusPC \in PCs
    BY DEF Ops, MD_OP_FLAGS, PCs
  <2>3. <<NA, NA>> \in [1 .. 2 -> RegNames \cup {NA}]
    OBVIOUS
  <2>4. << <<>>, <<>> >> \in [1 .. 2 -> Seq(LinkType)]
    <3>1. << <<>>, <<>> >> = [o \in 1 .. 2 |-> <<>>]
      OBVIOUS
    <3>2. <<>> \in Seq(LinkType)
      OBVIOUS
    <3> QED
      BY <3>1, <3>2
  <2>5. <<FALSE, FALSE, FALSE>> \in [1 .. 3 -> BOOLEAN]
    <3>1. \A X : \A f \in X : <<f, f, f>> \in [1 .. 3 -> X]
      OBVIOUS
    <3>2. FALSE \in BOOLEAN
      OBVIOUS
    <3> QED
      BY <3>1, <3>2, Zenon
  <2>6. PICK a, b, c : /\ a = <<NA, NA>> /\ b = << <<>>, <<>> >>
                       /\ c = <<FALSE, FALSE, FALSE>>
    OBVIOUS
  <2>7. EmptyStation =
          [op |-> "NOP", PC |-> BogusPC, next_PC |-> BogusPC,
           ea_comp |-> FALSE, recover_inst |-> FALSE, spec_mode |-> FALSE,
           addr |-> 0, tag |-> 0, seq |-> 0,
           queued |-> FALSE, issued |-> FALSE, completed |-> FALSE,
           onames |-> a, odep_list |-> b, idep_ready |-> c]
    BY <2>6 DEF EmptyStation
  <2>8. InstTyped(EmptyStation)
    BY <2>2, <2>3, <2>6, <2>7 DEF InstTyped
  <2>9. ProgressTyped(EmptyStation) /\ EmptyStation.tag \in Nat
    BY <2>5, <2>6, <2>7 DEF ProgressTyped
  <2>10. EmptyStation.odep_list \in [1 .. 2 -> Seq(LinkType)]
    BY <2>4, <2>6, <2>7
  <2>11. Stations(st)
    BY <2>1 DEF Stations, EmptyStation
  <2> QED
    BY <2>1, <2>8, <2>9, <2>10, <2>11 DEF Typed, Lists
<1>5. QueuesTyped
  BY OutOrderAssumption DEF Init, QueuesTyped
<1>6. OrderTyped
  BY DEF Init, OrderTyped, RSLINK_NULL
<1>7. UnitsTyped
  BY DEF Init, UnitsTyped
<1>8. LoopTyped
  BY DEF Init, LoopTyped
<1> QED
  BY <1>1, <1>2, <1>3, <1>4, <1>5, <1>6, <1>7, <1>8 DEF TypeInv

LEMMA NodeTyped ==
    ASSUME NEW S, Typed(S)
    PROVE  \A s \in Slots : Node(s, S) \in NodeType
  BY DEF Typed, InstTyped, Node, NodeType

\* The address of a dispatched instruction, and where it may go.
LEMMA DispatchInstIs ==
    ASSUME FetchInv, DispatchInst
    PROVE  /\ CanDispatch /\ stage = "dispatch"
           /\ \E npc \in PCs, addr \in Addrs \cup {0} :
                 /\ npc \in NextPCs(DispPC)
                 /\ DispatchOracle(npc) /\ Install(npc, addr)
<1>1. CanDispatch /\ stage = "dispatch"
  BY DEF DispatchInst
<1>2. DispPC \in PCs
  BY <1>1, DispPCType
<1>3. PICK npc \in NextPCs(DispPC),
           addr \in IF Is(DispOp, "F_MEM") THEN Addrs ELSE {0} :
         DispatchOracle(npc) /\ Install(npc, addr)
  BY DEF DispatchInst
<1>4. npc \in PCs /\ addr \in Addrs \cup {0}
  BY <1>2, <1>3, NextPCsType
<1> QED
  BY <1>1, <1>3, <1>4

\* What the writeback of an operation does, with or without a recovery.
LEMMA WritebackIs ==
    ASSUME Typed(st), WritebackOp \/ WritebackRecover
    PROVE  \E S, freed :
              /\ Typed(S) /\ Complete(Completing, S, freed) /\ Completing \in Slots
              /\ st[Completing].tag = Head(event_queue).tag
              /\ \/ WritebackOp /\ S = st /\ freed = 0
                 \/ /\ WritebackRecover /\ S = SquashOf(Completing)
                    /\ freed = FreedLinks(Completing)
<1>1. Completing \in Slots /\ st[Completing].tag = Head(event_queue).tag
  BY DEF WritebackOp, WritebackRecover, EventLive, RSLINK_VALID, Completing
<1>2. CASE WritebackOp
  BY <1>1, <1>2 DEF WritebackOp
<1>3. CASE WritebackRecover
  <2>1. Complete(Completing, SquashOf(Completing), FreedLinks(Completing))
    BY <1>3 DEF WritebackRecover, SquashOf
  <2>2. Typed(SquashOf(Completing))
    BY TypedSquash
  <2> QED
    BY <1>1, <1>3, <2>1, <2>2
<1> QED
  BY <1>2, <1>3

LEMMA TypedStep == ASSUME TypeInv, [Next]_vars PROVE Typed(st)'
<1>1. CASE UNCHANGED st
  BY <1>1 DEF TypeInv
<1>2. CASE RuuCommit
  <2>1. Retired(RetiredNow) /\ Typed(st)
    BY <1>2, RetireIs DEF TypeInv, Typed
  <2> QED
    BY <2>1, TypedRetired
<1>3. CASE WritebackOp \/ WritebackRecover
  <2>1. PICK S, freed, c : /\ Typed(S) /\ Complete(c, S, freed)
                           /\ c \in Slots
    BY <1>3, WritebackIs DEF TypeInv
  <2>2. Completed(S, st', c, OutputLinks(S[c]), Woken(S, OutputLinks(S[c])))
    BY <2>1, CompleteIs DEF Typed
  <2>3. PICK T, links, woken : T = st' /\ Completed(S, T, c, links, woken)
    BY <2>2
  <2>4. Typed(T)
    BY <2>1, <2>3, TypedCompleted
  <2> QED
    BY <2>3, <2>4
<1>4. CASE LsqRefresh
  <2>1. PICK S, T, w : S = st /\ T = st' /\ w = ReadyLoads
    OBVIOUS
  <2>2. Marked(S, T, w)
    BY <1>4, <2>1, MarkQueuedIs DEF LsqRefresh, TypeInv, Typed
  <2>3. Typed(T)
    BY <2>1, <2>2, TypedMarked DEF TypeInv
  <2> QED
    BY <2>1, <2>3
<1>5. CASE Issue /\ st' # st
  <2>1. IssueStore \/ (IssueLive /\ \E lat : Start(lat))
    BY <1>5 DEF Issue, IssueStale, IssueToUnit, IssueNoUnit, IssueNoClass, IssueDone
  <2>2. \E done : Started(st, st', Issuing, done)
    BY <2>1, IssueStoreIs, StartActionIs DEF TypeInv, Typed
  <2>3. PICK S, T, s, done : S = st /\ T = st' /\ Started(S, T, s, done)
    BY <2>2
  <2>4. Typed(T)
    BY <2>3, TypedStarted DEF TypeInv
  <2> QED
    BY <2>3, <2>4
<1>6. CASE DispatchInst
  <2>1. PICK npc \in PCs, addr \in Addrs \cup {0} :
           CanDispatch /\ Install(npc, addr)
    BY <1>6, DispatchInstIs DEF TypeInv
  <2> QED
    BY <2>1, InstallIs DEF TypeInv, OrderTyped
<1>7. \/ UNCHANGED st \/ RuuCommit \/ WritebackOp \/ WritebackRecover \/ LsqRefresh
      \/ (Issue /\ st' # st) \/ DispatchInst
  BY DEF Next, Step, Exited, vars, Commit, RuuCommitDone, RuuReleaseFu,
         Writeback, WritebackStale, WritebackDone, Dispatch, DispatchNop,
         DispatchExit, DispatchDone, Fetch, FetchStalled, FetchMiss, FetchNotTaken,
         FetchTaken, FetchDone, backVars, EndCycle
<1> QED
  BY <1>1, <1>2, <1>3, <1>4, <1>5, <1>6, <1>7

LEMMA EnqueueTyped ==
    ASSUME NEW S, Typed(S), NEW q \in Seq(NodeType), NEW slots \in Seq(Slots)
    PROVE  ReadyqEnqueue(q, slots, S) \in Seq(NodeType)
<1>1. \A s \in Slots : Node(s, S) \in NodeType
  BY NodeTyped
<1> QED
  BY <1>1, EnqueueIs

LEMMA TailTyped ==
    \A X : \A q \in Seq(X) : q # <<>> => Tail(q) \in Seq(X) /\ Head(q) \in X
  BY HeadTailProperties

\* The numbers of nodes and links that go to the ready queue and leave the lists.
LEMMA CompleteQueues ==
    ASSUME QueuesTyped, NEW S, Typed(S), NEW s \in Slots, NEW freed \in Nat,
           Complete(s, S, freed), event_queue # <<>>
    PROVE  QueuesTyped' \/ todo' # todo
<1>1. PICK links, woken : links = OutputLinks(S[s]) /\ woken = Woken(S, links)
  OBVIOUS
<1>2. links \in Seq(LinkType)
  BY <1>1, OutputLinksTyped DEF Typed
<1>3. woken \in Seq(Slots) /\ Len(woken) <= Len(links) /\ Len(woken) \in Nat
  BY <1>1, <1>2, WokenIs
<1>4. /\ ready_queue' = ReadyqEnqueue(ready_queue, woken, S)
      /\ event_queue' = Tail(event_queue)
      /\ rslink_free' = rslink_free + 1 + freed + Len(links) - Len(woken)
  BY <1>1 DEF Complete
<1>5. ready_queue' \in Seq(NodeType)
  BY <1>3, <1>4, EnqueueTyped DEF QueuesTyped
<1>6. event_queue' \in Seq(EventType)
  BY <1>4, TailTyped DEF QueuesTyped
<1>7. rslink_free' \in Nat
  BY <1>2, <1>3, <1>4 DEF QueuesTyped
<1> QED
  BY <1>5, <1>6, <1>7 DEF QueuesTyped

LEMMA QueuesTypedStep == ASSUME TypeInv, [Next]_vars PROVE QueuesTyped'
<1>0. /\ QueuesTyped /\ Typed(st) /\ RuuShape /\ LsqShape /\ CvTyped /\ FetchInv
      /\ inst_seq \in Nat
      /\ ready_queue \in Seq(NodeType) /\ todo \in Seq(NodeType)
      /\ event_queue \in Seq(EventType) /\ rslink_free \in Nat
  BY DEF TypeInv, QueuesTyped, OrderTyped
<1>1. CASE UNCHANGED schedVars
  BY <1>1 DEF TypeInv, QueuesTyped, schedVars
<1>2. CASE WritebackStale
  BY <1>0, <1>2, TailTyped DEF WritebackStale, EventDue, QueuesTyped
<1>3. CASE WritebackOp \/ WritebackRecover
  <2>1. PICK S, freed : /\ Typed(S) /\ Complete(Completing, S, freed)
                        /\ Completing \in Slots
                        /\ freed = 0 \/ freed = FreedLinks(Completing)
    BY <1>0, <1>3, WritebackIs
  <2>2. FreedLinks(Completing) \in Nat
    <3>1. Squashed(Completing) \in SUBSET Slots
      BY DEF Squashed, SquashedRuu, SquashedLsq, Slots
    <3> QED
      BY <1>0, <3>1, PlacesFinite DEF FreedLinks, Typed
  <2>3. event_queue # <<>> /\ todo' = todo
    BY <1>3 DEF WritebackOp, WritebackRecover, EventDue
  <2> QED
    BY <1>0, <2>1, <2>2, <2>3, CompleteQueues
<1>4. CASE Step /\ LsqRefresh
  <2>1. ReadyLoads \in Seq(Slots) /\ Len(ReadyLoads) \in Nat
    BY <1>0, ReadyLoadsIs
  <2>2. todo' \in Seq(NodeType)
    BY <1>0, <1>4, <2>1, EnqueueTyped DEF LsqRefresh
  <2>3. rslink_free' \in Nat
    <3>1. Len(ReadyLoads) <= rslink_free
      <4>1. stage = "refresh" /\ ~OutOfLinks
        BY <1>4 DEF Step, LsqRefresh, Panics
      <4>2. LinksWanted = Len(ReadyLoads)
        BY <4>1 DEF LinksWanted, CanIssue
      <4> QED
        BY <1>0, <2>1, <4>1, <4>2 DEF OutOfLinks
    <3> QED
      BY <1>0, <1>4, <2>1, <3>1 DEF LsqRefresh
  <2>4. ready_queue' = <<>> /\ event_queue' = event_queue
    BY <1>4 DEF LsqRefresh
  <2> QED
    BY <1>0, <2>2, <2>3, <2>4 DEF QueuesTyped
<1>5. CASE IssueStale \/ IssueStore
  <2>1. /\ todo # <<>> /\ todo' = Tail(todo) /\ rslink_free' = rslink_free + 1
        /\ UNCHANGED <<ready_queue, event_queue>>
    BY <1>5 DEF IssueStale, IssueStore, CanIssue
  <2> QED
    BY <1>0, <2>1, TailTyped DEF QueuesTyped
<1>6. CASE (IssueToUnit \/ IssueNoClass)
  <2>1. PICK lat \in Nat : Start(lat) /\ IssueLive /\ CanIssue
    <3>1. CASE IssueNoClass
      BY <3>1 DEF IssueNoClass
    <3>2. CASE IssueToUnit
      <4>1. PICK class, fu : /\ class = MD_OP_FUCLASS[IssueOp]
                             /\ fu = res_get(class, fu_busy)
        OBVIOUS
      <4>2. fu \in FreeUnits(class, fu_busy)
        BY <3>2, <4>1, ResGetIs, RuuAssumption DEF IssueToUnit, IssueFree, Units
      <4>3. fu_config[fu][class].oplat \in Nat
        BY <4>2, RuuAssumption DEF FreeUnits, Units
      <4>4. LoadLats \subseteq Nat /\ ForwardLats \subseteq Nat
        BY OutOrderAssumption
      <4> QED
        BY <3>2, <4>1, <4>3, <4>4 DEF IssueToUnit
    <3> QED
      BY <1>6, <3>1, <3>2
  <2>2. Issuing \in Slots
    BY <2>1 DEF IssueLive, RSLINK_VALID, Issuing
  <2>3. [rs |-> Issuing, tag |-> st[Issuing].tag, when |-> lat] \in EventType
    BY <1>0, <2>2 DEF EventType, Typed
  <2>4. event_queue' \in Seq(EventType)
    BY <1>0, <2>1, <2>3, EventqInsertIs DEF Start
  <2>5. todo' \in Seq(NodeType)
    BY <1>0, <2>1, TailTyped DEF Start, CanIssue
  <2> QED
    BY <1>0, <2>1, <2>4, <2>5 DEF Start, QueuesTyped
<1>7. CASE IssueNoUnit
  <2>1. Issuing \in Slots
    BY <1>7 DEF IssueNoUnit, IssueLive, RSLINK_VALID, Issuing
  <2>2. Node(Issuing, st) \in NodeType
    BY <1>0, <2>1, NodeTyped
  <2>3. ready_queue' \in Seq(NodeType)
    BY <1>0, <1>7, <2>2, ReadyqInsertIs DEF IssueNoUnit
  <2>4. todo' \in Seq(NodeType)
    BY <1>0, <1>7, TailTyped DEF IssueNoUnit, CanIssue
  <2> QED
    BY <1>0, <1>7, <2>3, <2>4 DEF IssueNoUnit, QueuesTyped
<1>8. CASE IssueDone
  <2>1. /\ GivenBack \in Seq(Slots) /\ Len(GivenBack) = Len(InOrder(LiveAt))
        /\ Len(GivenBack) \in 0 .. Len(todo)
    BY <1>0, GivenBackIs
  <2>2. /\ ready_queue' = ReadyqEnqueue(ready_queue, GivenBack, st)
        /\ rslink_free' = rslink_free + Len(todo) - Len(GivenBack)
        /\ todo' = <<>> /\ event_queue' = event_queue
    BY <1>8, <2>1 DEF IssueDone, GivenBack, LiveAt
  <2>3. ready_queue' \in Seq(NodeType)
    BY <1>0, <2>1, <2>2, EnqueueTyped
  <2>4. rslink_free' \in Nat
    BY <1>0, <2>1, <2>2
  <2> QED
    BY <1>0, <2>2, <2>3, <2>4 DEF QueuesTyped
<1>9. CASE Step /\ DispatchInst
  <2>1. PICK npc \in PCs, addr \in Addrs \cup {0} :
           CanDispatch /\ Install(npc, addr)
    BY <1>0, <1>9, DispatchInstIs
  <2>2. stage = "dispatch" /\ UNCHANGED <<todo, event_queue>>
    BY <1>9 DEF DispatchInst
  <2>3. PICK F, L : Installed(F, L, npc, addr)
    BY <1>0, <2>1, InstallIs
  <2>4. Typed(L)
    <3>1. /\ Stations(L) /\ Lists(L) /\ ListsOnly(F, L) /\ Typed(F)
      BY <2>3 DEF Installed, LinkedIn
    <3>2. \A s \in Slots : /\ SameInst(F[s], L[s]) /\ ProgressTyped(L[s])
                           /\ L[s].tag \in Nat
                           /\ L[s].odep_list \in [1 .. 2 -> Seq(LinkType)]
      BY <3>1 DEF ListsOnly, Typed, SameProgress, ProgressTyped, Lists
    <3> QED
      BY <3>1, <3>2, TypedFrom
  <2>5. ReadyNow(F) \in Seq(Slots) /\ Len(ReadyNow(F)) \in 0 .. 1
    BY <1>0, NewSlots DEF ReadyNow
  <2>6. ready_queue' \in Seq(NodeType)
    BY <1>0, <2>3, <2>4, <2>5, EnqueueTyped DEF Installed, InstalledRest
  <2>7. rslink_free' \in Nat
    <3>1. InstDeps \in Seq(DependsType)
      BY <1>0, <2>1, DepsTyped
    <3>2. Len(InstDeps) \in Nat
      BY <3>1
    <3>3. LinksWanted = Len(InstDeps) + 1
      BY <2>1, <2>2 DEF LinksWanted, CanIssue
    <3>4. ~(LinksWanted > rslink_free)
      BY <1>9 DEF Step, Panics, OutOfLinks
    <3>5. rslink_free' = rslink_free - Len(InstDeps) - Len(ReadyNow(F))
      BY <2>3 DEF Installed, InstalledRest
    <3>6. PICK a, b : a = Len(InstDeps) /\ b = Len(ReadyNow(F))
      OBVIOUS
    <3>7. a \in Nat /\ b \in 0 .. 1 /\ ~(a + 1 > rslink_free)
          /\ rslink_free' = rslink_free - a - b
      BY <2>5, <3>2, <3>3, <3>4, <3>5, <3>6
    <3> QED
      BY <1>0, <3>7
  <2> QED
    BY <1>0, <2>2, <2>6, <2>7 DEF QueuesTyped
<1>10. CASE EndCycle
  <2>1. event_queue' = [i \in DOMAIN event_queue |->
                          [event_queue[i] EXCEPT !.when = @ - 1]]
        /\ UNCHANGED <<ready_queue, todo, rslink_free>>
    BY <1>10 DEF EndCycle
  <2>2. \A i \in DOMAIN event_queue : event_queue[i] \in EventType
    BY <1>0
  <2>3. \A i \in DOMAIN event_queue :
          [event_queue[i] EXCEPT !.when = @ - 1] \in EventType
    BY <2>2 DEF EventType
  <2>4. event_queue' \in Seq(EventType)
    <3>1. PICK m \in Nat : DOMAIN event_queue = 1 .. m
      BY <1>0
    <3>2. event_queue' \in [1 .. m -> EventType]
      BY <2>1, <2>3, <3>1
    <3> QED
      BY <3>2
  <2> QED
    BY <1>0, <2>1, <2>4 DEF QueuesTyped
<1>11. \/ UNCHANGED schedVars \/ WritebackStale \/ WritebackOp \/ WritebackRecover
       \/ (Step /\ LsqRefresh) \/ IssueStale \/ IssueStore \/ IssueToUnit
       \/ IssueNoClass \/ IssueNoUnit \/ IssueDone \/ (Step /\ DispatchInst) \/ EndCycle
  BY DEF Next, Step, Exited, vars, Commit, RuuCommit, RuuCommitDone, RuuReleaseFu,
         Writeback, WritebackDone, Issue, Dispatch, DispatchNop,
         DispatchExit, DispatchDone, Fetch, FetchStalled, FetchMiss, FetchNotTaken,
         FetchTaken, FetchDone, backVars
<1> QED
  BY <1>1, <1>2, <1>3, <1>4, <1>5, <1>6, <1>7, <1>8, <1>9, <1>10, <1>11

LEMMA OrderTypedStep == ASSUME TypeInv, [Next]_vars PROVE OrderTyped'
<1>0. OrderTyped /\ Typed(st) /\ RuuShape /\ LsqShape /\ CvTyped /\ FetchInv
      /\ inst_seq \in Nat
  BY DEF TypeInv, OrderTyped
<1>1. CASE UNCHANGED orderVars
  BY <1>0, <1>1 DEF OrderTyped, orderVars
<1>2. CASE DispatchInst
  <2>1. PICK npc \in PCs, addr \in Addrs \cup {0} :
           CanDispatch /\ Install(npc, addr)
    BY <1>0, <1>2, DispatchInstIs
  <2>2. PICK F, L : InstalledRest(F, L)
    BY <1>0, <2>1, InstallIs DEF Installed
  <2>3. /\ RSLINK_INIT(NewLsq, st) \in [rs : Slots \cup {NoSlot}, tag : Nat]
        /\ RSLINK_INIT(NewRuu, st) \in [rs : Slots \cup {NoSlot}, tag : Nat]
        /\ RSLINK_NULL \in [rs : Slots \cup {NoSlot}, tag : Nat]
    BY <1>0, NewSlots DEF RSLINK_INIT, RSLINK_NULL, Typed
  <2>4. last_op' \in [rs : Slots \cup {NoSlot}, tag : Nat]
    BY <2>2, <2>3 DEF InstalledRest
  <2>5. inst_seq' \in Nat
    BY <1>0, <2>2 DEF InstalledRest
  <2> QED
    BY <2>4, <2>5 DEF OrderTyped
<1>3. UNCHANGED orderVars \/ DispatchInst
  BY DEF Next, Step, Exited, vars, Commit, RuuCommit, RuuCommitDone, RuuReleaseFu,
         Writeback, WritebackStale, WritebackOp, WritebackRecover, WritebackDone,
         LsqRefresh, Issue, IssueStale, IssueStore, IssueToUnit, IssueNoUnit,
         IssueNoClass, IssueDone, Start, Dispatch, DispatchNop, DispatchExit,
         DispatchDone, Fetch, FetchStalled, FetchMiss, FetchNotTaken, FetchTaken,
         FetchDone, backVars, EndCycle
<1> QED
  BY <1>1, <1>2, <1>3

LEMMA UnitsTypedStep == ASSUME TypeInv, [Next]_vars PROVE UnitsTyped'
<1>0. fu_busy \in [Units -> Nat] /\ fu_accepted \subseteq Units
  BY DEF TypeInv, UnitsTyped
<1>1. CASE UNCHANGED fuVars
  BY <1>0, <1>1 DEF fuVars, UnitsTyped
<1>2. ASSUME NEW class, FreeUnits(class, fu_busy) # {},
             Accept(res_get(class, fu_busy),
                    fu_config[res_get(class, fu_busy)][class].issuelat)
      PROVE  UnitsTyped'
  <2>1. PICK u, lat : u = res_get(class, fu_busy) /\ lat = fu_config[u][class].issuelat
    OBVIOUS
  <2>2. u \in FreeUnits(class, fu_busy)
    BY <1>2, <2>1, ResGetIs, RuuAssumption DEF Units
  <2>3. u \in Units /\ lat \in Nat
    BY <2>1, <2>2, RuuAssumption DEF FreeUnits, Units
  <2>4. Accept(u, lat)
    BY <1>2, <2>1
  <2> QED
    BY <1>0, <2>3, <2>4 DEF Accept, UnitsTyped
<1>3. CASE RuuCommit
  <2>1. CASE StoreAtHead
    BY <1>2, <1>3, <2>1 DEF RuuCommit, CanCommit
  <2>2. CASE ~StoreAtHead
    BY <1>1, <1>3, <2>2 DEF RuuCommit
  <2> QED
    BY <2>1, <2>2
<1>4. CASE IssueToUnit
  BY <1>2, <1>4 DEF IssueToUnit, IssueFree
<1>5. CASE RuuReleaseFu
  <2>1. fu_busy' = ReleaseUnits(fu_busy) /\ fu_accepted' = fu_accepted
    BY <1>5 DEF RuuReleaseFu
  <2>2. ReleaseUnits(fu_busy) \in [Units -> Nat]
    BY <1>0 DEF ReleaseUnits
  <2> QED
    BY <1>0, <2>1, <2>2 DEF UnitsTyped
<1>6. CASE EndCycle
  BY <1>0, <1>6 DEF EndCycle, UnitsTyped
<1>7. UNCHANGED fuVars \/ RuuCommit \/ IssueToUnit \/ RuuReleaseFu \/ EndCycle
  BY DEF Next, Step, Exited, vars, Commit, RuuCommitDone,
         Writeback, WritebackStale, WritebackOp, WritebackRecover, WritebackDone,
         LsqRefresh, Issue, IssueStale, IssueStore, IssueNoUnit,
         IssueNoClass, IssueDone, Dispatch, DispatchNop, DispatchInst, DispatchExit,
         DispatchDone, Fetch, FetchStalled, FetchMiss, FetchNotTaken, FetchTaken,
         FetchDone, backVars
<1> QED
  BY <1>1, <1>3, <1>4, <1>5, <1>6, <1>7

LEMMA LoopTypedStep == ASSUME TypeInv, [Next]_vars PROVE LoopTyped'
<1>1. halted' \in BOOLEAN
  BY HaltedStep DEF TypeInv, LoopTyped
<1>2. n' \in Nat
  BY DEF TypeInv, LoopTyped,
         Next, Step, Exited, vars, Enter, Commit, RuuCommit, RuuCommitDone, RuuReleaseFu,
         Writeback, WritebackStale, WritebackOp, WritebackRecover, WritebackDone,
         LsqRefresh, Issue, IssueStale, IssueStore, IssueToUnit, IssueNoUnit,
         IssueNoClass, IssueDone, Start, Dispatch, DispatchNop, DispatchInst,
         DispatchExit, DispatchDone, Fetch, FetchStalled, FetchMiss, FetchNotTaken,
         FetchTaken, FetchDone, EndCycle
<1>3. stage' \in {"commit", "release", "writeback", "refresh", "issue",
                  "dispatch", "fetch", "end"}
  BY DEF TypeInv, LoopTyped, AfterWriteback, AfterIssue, AfterDispatch,
         Next, Step, Exited, vars, Enter, Commit, RuuCommit, RuuCommitDone, RuuReleaseFu,
         Writeback, WritebackStale, WritebackOp, WritebackRecover, WritebackDone,
         LsqRefresh, Issue, IssueStale, IssueStore, IssueToUnit, IssueNoUnit,
         IssueNoClass, IssueDone, Start, Dispatch, DispatchNop, DispatchInst,
         DispatchExit, DispatchDone, Fetch, FetchStalled, FetchMiss, FetchNotTaken,
         FetchTaken, FetchDone, EndCycle
<1> QED
  BY <1>1, <1>2, <1>3 DEF LoopTyped

LEMMA TypeInvStep == ASSUME TypeInv, [Next]_vars PROVE TypeInv'
<1>1. FetchInv'
  BY FetchInvStep DEF TypeInv
<1>2. RuuShape' /\ LsqShape'
  BY ShapeStep DEF TypeInv
<1>3. CvTyped'
  BY CvTypedStep DEF TypeInv
<1> QED
  BY <1>1, <1>2, <1>3, TypedStep, QueuesTypedStep, OrderTypedStep, UnitsTypedStep,
     LoopTypedStep DEF TypeInv

LEMMA TypeInvAlways == Spec => []TypeInv
<1>1. Init => TypeInv
  BY InitTypeInv
<1>2. TypeInv /\ [Next]_vars => TypeInv'
  BY TypeInvStep
<1> QED
  BY <1>1, <1>2, PTL DEF Spec

\* Every variable of the pipeline keeps its type in every run of every machine:
\* the stations stay records of their types through every partial update, the
\* queues of ruu_commit, ruu_dispatch and ruu_recover stay within the RUU and
\* the LSQ with head, tail and number consistent, no unit gets a latency that
\* is none, and no operation takes an RS_LINK when none is left.
THEOREM TypeCorrect == Spec => []TypeOK
<1>1. TypeInv => TypeOK
  BY TypeInvIsTypeOK
<1> QED
  BY <1>1, TypeInvAlways, PTL
-----------------------------------------------------------------------------
(* The speculative part of the window *)

Waiting(i) == st[RuuSlot(i)].recover_inst /\ ~st[RuuSlot(i)].completed

\* The wrong path begins behind the branch at i.
BeginsAt(i) ==
    /\ InRuu(i) /\ Waiting(i)
    /\ recover_PC = st[RuuSlot(i)].next_PC
    /\ \A j \in Indices : InRuu(j) =>
          /\ st[RuuSlot(j)].spec_mode <=> RuuAge(j) > RuuAge(i)
          /\ Waiting(j) => j = i

NoWrongPath ==
    \A j \in Indices : InRuu(j) => ~st[RuuSlot(j)].spec_mode /\ ~Waiting(j)

\* SpecWindow, by indices.
SpecIndex == IF spec_mode THEN \E i \in Indices : BeginsAt(i) ELSE NoWrongPath

SpecInv == RuuShape /\ SpecIndex

-----------------------------------------------------------------------------
\* The index form is the property.
LEMMA SpecIndexIsSpecWindow == SpecIndex => SpecWindow
<1> SUFFICES ASSUME SpecIndex PROVE SpecWindow
  OBVIOUS
<1>1. CASE spec_mode
  <2>1. PICK i \in Indices : BeginsAt(i)
    BY <1>1 DEF SpecIndex
  <2> DEFINE b == RuuSlot(i)
  <2>2. b \in RuuSlots /\ b[2] = i
    BY RuuSlotOf
  <2>3. Unresolved = {b}
    BY <2>1, <2>2, RuuSlotOf, AgeOf DEF Unresolved, BeginsAt, Waiting
  <2>4. recover_PC = st[b].next_PC
    BY <2>1 DEF BeginsAt
  <2>5. \A s \in RuuSlots : InWindow(s) => (st[s].spec_mode <=> Age(s) > Age(b))
    BY <2>1, <2>2, RuuSlotOf, AgeOf DEF BeginsAt
  <2> QED
    BY <1>1, <2>3, <2>4, <2>5 DEF SpecWindow
<1>2. CASE ~spec_mode
  BY <1>2, RuuSlotOf, AgeOf DEF SpecIndex, NoWrongPath, SpecWindow, Unresolved, Waiting
<1> QED
  BY <1>1, <1>2
-----------------------------------------------------------------------------
(* Steps that leave the shape of the window alone *)

\* q is r as far as the property is concerned.
Kept(r, q) ==
    /\ q.recover_inst = r.recover_inst /\ q.spec_mode = r.spec_mode
    /\ q.next_PC = r.next_PC
    /\ r.recover_inst => q.completed = r.completed

KeptIn(S, Q) == \A i \in Indices : Kept(S[RuuSlot(i)], Q[RuuSlot(i)])

LEMMA KeptSpecInv ==
    ASSUME SpecInv, KeptIn(st, st'),
           UNCHANGED <<spec_mode, recover_PC, RUU_head, RUU_tail, RUU_num>>
    PROVE  SpecInv'
<1>1. RuuShape'
  BY DEF SpecInv, RuuShape
<1>2. \A i \in Indices : InRuu(i)' <=> InRuu(i)
  BY DEF InRuu, RuuAge
<1>3. \A i \in Indices : Waiting(i)' <=> Waiting(i)
  BY DEF Waiting, KeptIn, Kept
<1>4. ASSUME NEW i \in Indices, BeginsAt(i) PROVE BeginsAt(i)'
  BY <1>2, <1>3, <1>4 DEF BeginsAt, KeptIn, Kept, RuuAge
<1>5. NoWrongPath => NoWrongPath'
  BY <1>2, <1>3 DEF NoWrongPath, KeptIn, Kept
<1>6. SpecIndex'
  BY <1>4, <1>5 DEF SpecInv, SpecIndex
<1> QED
  BY <1>1, <1>6 DEF SpecInv

LEMMA KeptTransitive ==
    ASSUME NEW S, NEW Q, NEW R, KeptIn(S, Q), KeptIn(Q, R) PROVE KeptIn(S, R)
  BY DEF KeptIn, Kept

\* What the writeback of s does, after a recovery that left the stations in S:
\* every station is kept, s excepted if it is the branch that recovers.
LEMMA CompleteKept ==
    ASSUME NEW s \in Slots, NEW S, NEW freed, Stations(S), Complete(s, S, freed)
    PROVE  /\ \A i \in Indices : RuuSlot(i) # s => Kept(S[RuuSlot(i)], st'[RuuSlot(i)])
           /\ st'[s].completed = TRUE
           /\ st'[s].recover_inst = S[s].recover_inst
           /\ st'[s].spec_mode = S[s].spec_mode
           /\ st'[s].next_PC = S[s].next_PC
<1>1. PICK T, links, woken : T = st' /\ Completed(S, T, s, links, woken)
  BY CompleteIs
<1>2. \A x \in Slots : /\ SameInst(S[x], T[x])
                       /\ T[x].completed = IF x = s THEN TRUE ELSE S[x].completed
  BY <1>1 DEF Completed
<1> QED
  BY <1>1, <1>2, RuuSlotOf DEF SameInst, Kept

-----------------------------------------------------------------------------
(* The steps that move the ends of the window *)

\* A retired instruction is completed, so it is not the branch of the wrong
\* path, and being the oldest it is not behind it.
LEMMA CommitSpecInv ==
    ASSUME TypeInv, SpecInv, RuuCommit PROVE SpecInv' /\ ~st[RuuHead].spec_mode
<1> USE SizeType
<1>1. /\ RUU_num > 0 /\ st[RuuHead].completed
      /\ RUU_head' = Succ(RUU_head) /\ RUU_num' = RUU_num - 1
      /\ UNCHANGED <<spec_mode, recover_PC, RUU_tail>>
  BY SuccIs DEF RuuCommit, CanCommit, HeadCompleted, SpecInv, RuuShape, frontVars, oracleVars
<1>2. KeptIn(st, st')
  <2>1. Retired(RetiredNow)
    BY RetireIs DEF TypeInv, Typed
  <2> QED
    BY <2>1, RuuSlotOf DEF Retired, SameInst, SameProgress, KeptIn, Kept
<1>3. RuuShape'
  BY <1>1 DEF SpecInv, RuuShape, Succ, Indices
<1>4. \A j \in Indices : InRuu(j)' => /\ InRuu(j)
                                      /\ RuuAge(j)' = RuuAge(j) - 1
  BY <1>1 DEF SpecInv, RuuShape, InRuu, RuuAge, Succ, Indices
<1>5. \A j \in Indices : InRuu(j) /\ j # RUU_head => InRuu(j)'
  BY <1>1 DEF SpecInv, RuuShape, InRuu, RuuAge, Succ, Indices
<1>6. \A j \in Indices : RuuAge(j) \in Nat
  BY DEF SpecInv, RuuShape, RuuAge, Indices
<1>7. \A j \in Indices : Waiting(j)' <=> Waiting(j)
  BY <1>2 DEF KeptIn, Kept, Waiting
<1>8. InRuu(RUU_head) /\ ~Waiting(RUU_head) /\ RuuAge(RUU_head) = 0
      /\ RUU_head \in Indices
  BY <1>1 DEF SpecInv, RuuShape, InRuu, RuuAge, Waiting, RuuHead, Indices
<1>9. CASE spec_mode
  <2>1. PICK b \in Indices : BeginsAt(b)
    BY <1>9 DEF SpecInv, SpecIndex
  <2>2. ~st[RuuHead].spec_mode
    BY <1>6, <1>8, <2>1 DEF BeginsAt, RuuHead
  <2>3. InRuu(b)' /\ RuuAge(b)' = RuuAge(b) - 1
    BY <1>4, <1>5, <1>8, <2>1 DEF BeginsAt
  <2>4. \A j \in Indices : InRuu(j)' =>
            /\ st'[RuuSlot(j)].spec_mode <=> RuuAge(j)' > RuuAge(b)'
            /\ Waiting(j)' => j = b
    BY <1>2, <1>4, <1>6, <1>7, <2>1, <2>3 DEF BeginsAt, KeptIn, Kept
  <2>5. BeginsAt(b)'
    BY <1>1, <1>2, <1>7, <2>1, <2>3, <2>4 DEF BeginsAt, KeptIn, Kept
  <2> QED
    BY <1>1, <1>2, <1>3, <1>9, <2>2, <2>5 DEF SpecInv, SpecIndex, KeptIn
<1>10. CASE ~spec_mode
  <2>1. ~st[RuuHead].spec_mode
    BY <1>8, <1>10 DEF SpecInv, SpecIndex, NoWrongPath, RuuHead
  <2>2. NoWrongPath'
    BY <1>2, <1>4, <1>7, <1>10 DEF SpecInv, SpecIndex, NoWrongPath, KeptIn, Kept
  <2> QED
    BY <1>1, <1>2, <1>3, <1>10, <2>1, <2>2 DEF SpecInv, SpecIndex, KeptIn
<1> QED
  BY <1>9, <1>10

\* The walk of ruu_recover ends at the branch: what remains of the window is
\* the branch and what is older.
LEMMA RecoverSpecInv ==
    ASSUME TypeInv, SpecInv, WritebackRecover, ~Panics PROVE SpecInv'
<1> USE SizeType
<1>0. PICK c \in Slots : c = Completing
  BY DEF WritebackRecover, EventLive, RSLINK_VALID, Completing
<1>b. PICK b : b = c[2]
  OBVIOUS
<1>S. PICK S : S = SquashOf(c)
  OBVIOUS
<1>1. /\ st[c].recover_inst /\ spec_mode
      /\ ~in_LSQ(c) /\ InWindow(c) /\ ~st[c].completed
  BY <1>0 DEF WritebackRecover, Panics, WritebackPanics
<1>2. b \in Indices /\ c = RuuSlot(b) /\ InRuu(b) /\ Waiting(b)
  BY <1>1, <1>b, RuuSlotOf, AgeOf DEF Waiting
<1>3. BeginsAt(b)
  <2>1. PICK i \in Indices : BeginsAt(i)
    BY <1>1 DEF SpecInv, SpecIndex
  <2> QED
    BY <1>2, <2>1 DEF BeginsAt
<1>4. /\ RUU_num' = RUU_num - Walked(c)
      /\ RUU_tail' = IF Walked(c) = 0 THEN RUU_tail ELSE (b + 1) % RUU_size
      /\ RUU_head' = RUU_head /\ ~spec_mode'
      /\ \E freed : Complete(c, S, freed)
  BY <1>0, <1>b, <1>S DEF WritebackRecover, TracerRecover, SquashOf
<1>5. Walked(c) = RUU_num - 1 - RuuAge(b)
  BY <1>2, <1>b DEF Walked, SpecInv, RuuShape, RuuAge, InRuu, Indices
<1>6. RuuShape'
  BY <1>2, <1>4, <1>5, SuccIs DEF SpecInv, RuuShape, RuuAge, InRuu, Succ, Indices
<1>7. \A j \in Indices : InRuu(j)' => InRuu(j) /\ RuuAge(j) <= RuuAge(b)
  BY <1>2, <1>4, <1>5 DEF SpecInv, RuuShape, InRuu, RuuAge, Indices
<1>8. KeptIn(st, S) /\ Stations(S)
  BY <1>S, SquashIs, RuuSlotOf DEF TypeInv, Typed, KeptIn, Kept, SameInst, SameProgress
<1>9. /\ \A i \in Indices : i # b => Kept(S[RuuSlot(i)], st'[RuuSlot(i)])
      /\ st'[c].completed = TRUE /\ st'[c].spec_mode = S[c].spec_mode
  <2>1. PICK freed : Complete(c, S, freed)
    BY <1>4
  <2>2. \A i \in Indices : i # b => RuuSlot(i) # c
    BY <1>2, RuuSlotOf
  <2> QED
    BY <1>8, <2>1, <2>2, CompleteKept
<1>10. \A j \in Indices : InRuu(j)' => ~st'[RuuSlot(j)].spec_mode
  <2>1. \A j \in Indices : st'[RuuSlot(j)].spec_mode = st[RuuSlot(j)].spec_mode
    BY <1>2, <1>8, <1>9 DEF KeptIn, Kept
  <2>2. \A j \in Indices : RuuAge(j) \in Nat
    BY DEF SpecInv, RuuShape, RuuAge, Indices
  <2> QED
    BY <1>2, <1>3, <1>7, <2>1, <2>2 DEF BeginsAt
<1>11. \A j \in Indices : InRuu(j)' => ~Waiting(j)'
  <2>1. ASSUME NEW j \in Indices, j # b, Waiting(j)' PROVE Waiting(j)
    BY <1>8, <1>9, <2>1 DEF KeptIn, Kept, Waiting
  <2>2. ~Waiting(b)'
    BY <1>2, <1>9 DEF Waiting
  <2> QED
    BY <1>3, <1>7, <2>1, <2>2 DEF BeginsAt
<1> QED
  BY <1>4, <1>6, <1>9, <1>10, <1>11 DEF SpecInv, SpecIndex, NoWrongPath

\* What a dispatch does to the stations of the RUU.
LEMMA InstallKept ==
    ASSUME RuuShape, LsqShape, NEW F, NEW L, NEW npc, NEW addr,
           Installed(F, L, npc, addr)
    PROVE  /\ \A i \in Indices : i # RUU_tail => Kept(st[RuuSlot(i)], st'[RuuSlot(i)])
           /\ st'[NewRuu].recover_inst = Mispredicted(npc)
           /\ st'[NewRuu].spec_mode = spec_mode
           /\ st'[NewRuu].next_PC = npc
           /\ st'[NewRuu].completed = FALSE
<1>1. PICK T, rec : T = st' /\ rec = Mispredicted(npc)
  OBVIOUS
<1>2. ASSUME NEW s \in Slots
      PROVE  /\ T[s].recover_inst = F[s].recover_inst
             /\ T[s].spec_mode = F[s].spec_mode /\ T[s].next_PC = F[s].next_PC
             /\ T[s].completed = F[s].completed
  <2>1. ListsOnly(F, L) /\ Marked(L, T, ReadyNow(F))
    BY <1>1 DEF Installed, LinkedIn
  <2>2. SameInst(F[s], L[s]) /\ SameProgress(F[s], L[s])
    BY <2>1, Zenon DEF ListsOnly
  <2>3. SameInst(L[s], T[s]) /\ L[s].completed = T[s].completed
    BY <2>1 DEF Marked
  <2> QED
    BY <2>2, <2>3 DEF SameInst, SameProgress
<1>3. ASSUME NEW i \in Indices, i # RUU_tail PROVE Kept(st[RuuSlot(i)], T[RuuSlot(i)])
  <2>1. RuuSlot(i) \in Slots \ NewOnes
    <3>1. RuuSlot(i) \in Slots /\ RuuSlot(i)[2] = i /\ ~in_LSQ(RuuSlot(i))
      BY <1>3, RuuSlotOf
    <3>2. RuuSlot(i) # NewRuu
      BY <1>3, <3>1, RuuSlotOf DEF NewRuu, RuuShape
    <3>3. RuuSlot(i) # NewLsq
      BY <3>1, NewSlots
    <3> QED
      BY <3>1, <3>2, <3>3 DEF NewOnes
  <2>2. F[RuuSlot(i)] = st[RuuSlot(i)]
    BY <2>1 DEF Installed, FilledIn
  <2> QED
    BY <1>2, <2>1, <2>2 DEF Kept
<1>4. /\ F[NewRuu].recover_inst = rec /\ F[NewRuu].spec_mode = spec_mode
      /\ F[NewRuu].next_PC = npc /\ F[NewRuu].completed = FALSE
  <2>1. Filled(F[NewRuu], NewRuu, RuuOp, inst_seq + 1, npc, rec, 0, RuuOuts, InstDeps)
    BY <1>1 DEF Installed, FilledIn
  <2> QED
    BY <2>1 DEF Filled
<1>5. /\ T[NewRuu].recover_inst = rec /\ T[NewRuu].spec_mode = spec_mode
      /\ T[NewRuu].next_PC = npc /\ T[NewRuu].completed = FALSE
  BY <1>2, <1>4, NewSlots
<1> QED
  BY <1>1, <1>3, <1>5

\* The new station is the youngest: behind the branch on a wrong path, and the
\* branch itself when the prediction was wrong.
LEMMA DispatchSpecInv ==
    ASSUME TypeInv, SpecInv, CanDispatch, NEW npc \in PCs,
           NEW addr \in Addrs \cup {0}, DispatchOracle(npc), Install(npc, addr),
           RUU_head' = RUU_head
    PROVE  SpecInv'
<1> USE SizeType
<1>1. /\ RUU_num < RUU_size /\ spec_mode \in BOOLEAN /\ RUU_tail \in Indices
      /\ RUU_tail' = Succ(RUU_tail) /\ RUU_num' = RUU_num + 1
      /\ spec_mode' = (spec_mode \/ Mispredicted(npc))
      /\ recover_PC' = IF Mispredicted(npc) THEN npc ELSE recover_PC
  BY SuccIs DEF CanDispatch, TypeInv, FetchInv, FetchType, SpecInv, RuuShape, Install,
                DispatchOracle
<1>2. /\ \A i \in Indices : i # RUU_tail => Kept(st[RuuSlot(i)], st'[RuuSlot(i)])
      /\ st'[RuuSlot(RUU_tail)].recover_inst = Mispredicted(npc)
      /\ st'[RuuSlot(RUU_tail)].spec_mode = spec_mode
      /\ st'[RuuSlot(RUU_tail)].next_PC = npc
      /\ st'[RuuSlot(RUU_tail)].completed = FALSE
  <2>1. PICK F, L : Installed(F, L, npc, addr)
    BY InstallIs DEF TypeInv, OrderTyped
  <2> QED
    BY <2>1, InstallKept DEF TypeInv, NewRuu
<1>3. RuuShape'
  BY <1>1 DEF SpecInv, RuuShape, Succ, Indices
<1>4. /\ \A j \in Indices : RuuAge(j)' = RuuAge(j) /\ RuuAge(j) \in Nat
      /\ \A j \in Indices : InRuu(j)' <=> InRuu(j) \/ j = RUU_tail
      /\ RuuAge(RUU_tail) = RUU_num /\ ~InRuu(RUU_tail)
      /\ \A j \in Indices : InRuu(j) => RuuAge(j) < RuuAge(RUU_tail)
  BY <1>1 DEF SpecInv, RuuShape, InRuu, RuuAge, Indices
<1>5. \A j \in Indices : j # RUU_tail => (Waiting(j)' <=> Waiting(j))
  BY <1>2 DEF Waiting, Kept
<1>6. CASE spec_mode
  <2>1. ~Mispredicted(npc) /\ spec_mode' /\ recover_PC' = recover_PC
    BY <1>1, <1>6 DEF Mispredicted
  <2>2. PICK b \in Indices : BeginsAt(b)
    BY <1>6 DEF SpecInv, SpecIndex
  <2>3. b # RUU_tail
    BY <1>4, <2>2 DEF BeginsAt
  <2>4. \A j \in Indices : InRuu(j)' =>
            /\ st'[RuuSlot(j)].spec_mode <=> RuuAge(j)' > RuuAge(b)'
            /\ st'[RuuSlot(j)].recover_inst /\ ~st'[RuuSlot(j)].completed => j = b
    BY <1>2, <1>4, <1>5, <1>6, <2>1, <2>2 DEF BeginsAt, Kept, Waiting
  <2>5. BeginsAt(b)'
    BY <1>2, <1>4, <1>5, <2>1, <2>2, <2>3, <2>4 DEF BeginsAt, Kept, Waiting
  <2> QED
    BY <1>2, <1>3, <2>1, <2>5 DEF SpecInv, SpecIndex
<1>7. CASE ~spec_mode /\ Mispredicted(npc)
  <2>1. PICK b \in Indices : b = RUU_tail
    BY <1>1
  <2>2. \A j \in Indices : InRuu(j)' =>
            /\ st'[RuuSlot(j)].spec_mode <=> RuuAge(j)' > RuuAge(b)'
            /\ Waiting(j)' => j = b
    BY <1>2, <1>4, <1>5, <1>7, <2>1 DEF SpecInv, SpecIndex, NoWrongPath, Kept
  <2>3. BeginsAt(b)'
    BY <1>1, <1>2, <1>4, <1>7, <2>1, <2>2 DEF BeginsAt, Waiting
  <2> QED
    BY <1>1, <1>2, <1>3, <1>7, <2>3 DEF SpecInv, SpecIndex
<1>8. CASE ~spec_mode /\ ~Mispredicted(npc)
  <2>1. NoWrongPath'
    BY <1>2, <1>4, <1>5, <1>8 DEF SpecInv, SpecIndex, NoWrongPath, Kept, Waiting
  <2> QED
    BY <1>1, <1>2, <1>3, <1>8, <2>1 DEF SpecInv, SpecIndex
<1> QED
  BY <1>6, <1>7, <1>8
-----------------------------------------------------------------------------
LEMMA InitSpecInv == Init => SpecInv
<1> SUFFICES ASSUME Init PROVE SpecInv
  OBVIOUS
<1>2. RuuShape
  BY SizeType DEF Init, RuuShape, Indices
<1>3. SpecIndex
  <2>1. \A i \in Indices : ~InRuu(i)
    BY SizeType DEF Init, InRuu, RuuAge, Indices
  <2> QED
    BY <2>1 DEF Init, SpecIndex, NoWrongPath
<1> QED
  BY <1>2, <1>3 DEF SpecInv

LEMMA StationsUnchanged == ASSUME UNCHANGED st PROVE KeptIn(st, st')
  BY DEF KeptIn, Kept

LEMMA WritebackSpecInv ==
    ASSUME TypeInv, SpecInv, WritebackOp PROVE SpecInv'
<1>1. PICK c \in Slots : c = Completing
  BY DEF WritebackOp, EventLive, RSLINK_VALID, Completing
<1>2. Complete(c, st, 0) /\ ~st[c].recover_inst
  BY <1>1 DEF WritebackOp
<1>3. /\ \A i \in Indices : RuuSlot(i) # c => Kept(st[RuuSlot(i)], st'[RuuSlot(i)])
      /\ Kept(st[c], st'[c])
  BY <1>2, CompleteKept DEF TypeInv, Typed, Kept
<1>4. KeptIn(st, st')
  BY <1>3 DEF KeptIn
<1> QED
  BY <1>4, KeptSpecInv DEF WritebackOp, frontVars, oracleVars, queueVars

\* Only stores complete while they issue, and they are in the LSQ.
LEMMA IssueSpecInv == ASSUME TypeInv, SpecInv, Issue PROVE SpecInv'
<1>1. KeptIn(st, st')
  <2>1. CASE UNCHANGED st
    BY <2>1, StationsUnchanged
  <2>2. CASE IssueStore
    <3>1. Issuing \notin RuuSlots
      BY <2>2, RuuSlotOf DEF IssueStore, IssueLive, RSLINK_VALID, Issuing
    <3>2. Started(st, st', Issuing, TRUE)
      BY <2>2, IssueStoreIs DEF TypeInv, Typed
    <3> QED
      BY <3>1, <3>2, RuuSlotOf DEF Started, SameInst, KeptIn, Kept
  <2>3. CASE IssueLive /\ \E lat : Start(lat)
    <3>1. Started(st, st', Issuing, FALSE)
      BY <2>3, StartActionIs DEF TypeInv, Typed
    <3> QED
      BY <3>1, RuuSlotOf DEF Started, SameInst, KeptIn, Kept
  <2> QED
    BY <2>1, <2>2, <2>3 DEF Issue, IssueStale, IssueToUnit, IssueNoUnit,
                            IssueNoClass, IssueDone
<1>2. UNCHANGED <<spec_mode, recover_PC, RUU_head, RUU_tail, RUU_num>>
  BY DEF Issue, IssueStale, IssueStore, IssueToUnit, IssueNoUnit, IssueNoClass,
         IssueDone, Start, frontVars, oracleVars, queueVars
<1> QED
  BY <1>1, <1>2, KeptSpecInv

LEMMA SpecInvStep == ASSUME TypeInv, SpecInv, [Next]_vars PROVE SpecInv'
<1>0. ASSUME UNCHANGED st,
             UNCHANGED <<spec_mode, recover_PC, RUU_head, RUU_tail, RUU_num>>
      PROVE  SpecInv'
  BY <1>0, StationsUnchanged, KeptSpecInv
<1>1. CASE UNCHANGED vars
  BY <1>0, <1>1 DEF vars, frontVars, oracleVars, queueVars
<1>2. CASE Exited
  BY <1>0, <1>2 DEF Exited, vars, frontVars, oracleVars, queueVars
<1> SUFFICES ASSUME Step PROVE SpecInv'
  BY <1>1, <1>2 DEF Next
<1>3. CASE Commit
  <2>1. CASE RuuCommitDone
    BY <1>0, <2>1 DEF RuuCommitDone, frontVars, oracleVars, queueVars
  <2> QED
    BY <1>3, <2>1, CommitSpecInv DEF Commit
<1>4. CASE RuuReleaseFu
  BY <1>0, <1>4 DEF RuuReleaseFu, frontVars, oracleVars, queueVars
<1>5. CASE Writeback
  <2>1. CASE WritebackRecover
    BY <2>1, RecoverSpecInv DEF Step
  <2>2. CASE WritebackStale \/ WritebackDone
    BY <1>0, <2>2 DEF WritebackStale, WritebackDone, frontVars, oracleVars, queueVars
  <2> QED
    BY <1>5, <2>1, <2>2, WritebackSpecInv DEF Writeback
<1>6. CASE LsqRefresh
  <2>1. KeptIn(st, st')
    <3>1. Marked(st, st', ReadyLoads)
      BY <1>6, MarkQueuedIs DEF LsqRefresh, TypeInv, Typed
    <3> QED
      BY <3>1, RuuSlotOf DEF Marked, SameInst, KeptIn, Kept
  <2> QED
    BY <1>6, <2>1, KeptSpecInv DEF LsqRefresh, frontVars, oracleVars, queueVars
<1>7. CASE Issue
  BY <1>7, IssueSpecInv
<1>8. CASE Dispatch
  <2>1. CASE DispatchNop
    <3>1. PICK npc \in NextPCs(DispPC) : DispatchOracle(npc)
      BY <2>1 DEF DispatchNop
    <3>2. ~Mispredicted(npc)
      BY <2>1, <3>1 DEF DispatchNop, Step, Panics, DispatchPanics
    <3>3. spec_mode' = spec_mode /\ recover_PC' = recover_PC
      BY <3>1, <3>2 DEF DispatchOracle, TypeInv, FetchInv, FetchType
    <3> QED
      BY <1>0, <2>1, <3>3 DEF DispatchNop, queueVars
  <2>2. CASE DispatchInst
    <3>1. PICK npc \in PCs, addr \in Addrs \cup {0} :
             DispatchOracle(npc) /\ Install(npc, addr)
      BY <2>2, DispatchInstIs DEF TypeInv
    <3> QED
      BY <2>2, <3>1, DispatchSpecInv DEF DispatchInst
  <2>3. CASE DispatchExit \/ DispatchDone
    BY <1>0, <2>3 DEF DispatchExit, DispatchDone, frontVars, oracleVars, queueVars
  <2> QED
    BY <1>8, <2>1, <2>2, <2>3 DEF Dispatch
<1>9. CASE Fetch
  BY <1>0, <1>9 DEF Fetch, FetchStalled, FetchMiss, FetchNotTaken, FetchTaken,
                    FetchDone, backVars, oracleVars, queueVars
<1>10. CASE EndCycle
  BY <1>0, <1>10 DEF EndCycle, oracleVars, queueVars
<1> QED
  BY <1>3, <1>4, <1>5, <1>6, <1>7, <1>8, <1>9, <1>10 DEF Step

\* In every run of every machine the wrong path is one suffix of the window,
\* behind the only unresolved mispredicted branch, and the PC the oracle will
\* recover to is where that branch goes (ruu_dispatch, ruu_recover,
\* tracer_recover).
THEOREM WrongPathIsSuffix == Spec => []SpecWindow
<1>1. Init => SpecInv
  BY InitSpecInv
<1>2. TypeInv /\ SpecInv /\ [Next]_vars => SpecInv'
  BY SpecInvStep
<1>3. SpecInv => SpecWindow
  BY SpecIndexIsSpecWindow DEF SpecInv
<1> QED
  BY <1>1, <1>2, <1>3, TypeInvAlways, PTL DEF Spec

\* No machine retires an instruction of a wrong path: ruu_commit only reaches
\* an instruction when every branch before it has completed.
THEOREM RetiresOnPath == Spec => RetireOnPath
<1> DEFINE A == RUU_num' < RUU_num /\ stage = "commit" => ~st[RuuHead].spec_mode
<1>1. TypeInv /\ SpecInv /\ [Next]_vars => [A]_vars
  <2> SUFFICES ASSUME TypeInv, SpecInv, Next, RUU_num' < RUU_num, stage = "commit"
               PROVE  ~st[RuuHead].spec_mode
    OBVIOUS
  <2>1. RUU_num' # RUU_num
    BY SizeType DEF SpecInv, RuuShape
  <2>2. RuuCommit
    BY <2>1 DEF Next, Step, Exited, vars, Commit, RuuCommitDone, RuuReleaseFu,
         Writeback, WritebackStale, WritebackOp, WritebackRecover, WritebackDone,
         LsqRefresh, Issue, IssueStale, IssueStore, IssueToUnit, IssueNoUnit,
         IssueNoClass, IssueDone, CanIssue, Dispatch, DispatchNop, DispatchInst,
         DispatchExit, DispatchDone, Fetch, FetchStalled, FetchMiss, FetchNotTaken,
         FetchTaken, FetchDone, EndCycle, queueVars
  <2> QED
    BY <2>2, CommitSpecInv
<1>2. Init => SpecInv
  BY InitSpecInv
<1>3. TypeInv /\ SpecInv /\ [Next]_vars => SpecInv'
  BY SpecInvStep
<1> QED
  BY <1>1, <1>2, <1>3, TypeInvAlways, PTL DEF Spec, RetireOnPath

-----------------------------------------------------------------------------
(* The order of the instruction window: the RUU and the LSQ are two views *)
(* of one sequence of operations.                                         *)


RuuWindow == {s \in RuuSlots : InWindow(s)}
LsqWindow == {s \in LsqSlots : InWindow(s)}

LEMMA WindowIs ==
    /\ Window = RuuWindow \cup LsqWindow
    /\ RuuWindow \cap LsqWindow = {}
    /\ RuuWindow \subseteq Slots /\ LsqWindow \subseteq Slots
  BY RuuSlotOf, LsqSlotOf DEF Window, RuuWindow, LsqWindow, Slots

\* An age names a place of its queue.
LEMMA AgeType ==
    ASSUME RuuShape, LsqShape
    PROVE  /\ \A s \in RuuSlots : Age(s) \in 0 .. RUU_size - 1
           /\ \A s \in LsqSlots : Age(s) \in 0 .. LSQ_size - 1
           /\ \A s, t \in RuuSlots : Age(s) = Age(t) => s = t
           /\ \A s, t \in LsqSlots : Age(s) = Age(t) => s = t
<1> USE SizeType
<1>1. /\ \A i \in Indices : RuuAge(i) \in 0 .. RUU_size - 1
      /\ \A i, j \in Indices : RuuAge(i) = RuuAge(j) => i = j
  BY DEF RuuShape, RuuAge, Indices
<1>2. /\ \A i \in LIndices : LsqAge(i) \in 0 .. LSQ_size - 1
      /\ \A i, j \in LIndices : LsqAge(i) = LsqAge(j) => i = j
  BY DEF LsqShape, LsqAge, LIndices
<1>3. /\ \A s \in RuuSlots : s[2] \in Indices /\ Age(s) = RuuAge(s[2])
      /\ \A s \in LsqSlots : s[2] \in LIndices /\ Age(s) = LsqAge(s[2])
  BY RuuSlotOf, LsqSlotOf, AgeOf
<1>4. /\ \A s, t \in RuuSlots : s[2] = t[2] => s = t
      /\ \A s, t \in LsqSlots : s[2] = t[2] => s = t
  BY RuuSlotOf, LsqSlotOf
<1> QED
  BY <1>1, <1>2, <1>3, <1>4

-----------------------------------------------------------------------------
(* How the window changes *)

\* ruu_commit takes the oldest instruction.
LEMMA CommitWindow ==
    ASSUME TypeInv, RuuCommit, ~Panics
    PROVE  /\ RuuHead \in RuuWindow /\ RuuWindow' = RuuWindow \ {RuuHead}
           /\ Age(RuuHead) = 0
           /\ \A s \in RuuWindow' : Age(s)' = Age(s) - 1
           /\ st[RuuHead].ea_comp =>
                 /\ LsqHead \in LsqWindow /\ LsqWindow' = LsqWindow \ {LsqHead}
                 /\ Age(LsqHead) = 0
                 /\ \A s \in LsqWindow' : Age(s)' = Age(s) - 1
           /\ ~st[RuuHead].ea_comp =>
                 /\ LsqWindow' = LsqWindow
                 /\ \A s \in LsqSlots : Age(s)' = Age(s)
<1> USE SizeType
<1>0. RuuShape /\ LsqShape
  BY DEF TypeInv
<1>1. RUU_num > 0 /\ RUU_head' = Succ(RUU_head) /\ RUU_num' = RUU_num - 1
  BY <1>0, SuccIs DEF RuuCommit, CanCommit, RuuShape
<1>2. /\ InRuu(RUU_head) /\ RuuAge(RUU_head) = 0 /\ RUU_head \in Indices
      /\ \A j \in Indices : InRuu(j)' <=> InRuu(j) /\ j # RUU_head
      /\ \A j \in Indices : InRuu(j)' => RuuAge(j)' = RuuAge(j) - 1
  BY <1>0, <1>1 DEF RuuShape, InRuu, RuuAge, Succ, Indices
<1>3. /\ RuuHead \in RuuWindow /\ RuuWindow' = RuuWindow \ {RuuHead}
      /\ Age(RuuHead) = 0
      /\ \A s \in RuuWindow' : Age(s)' = Age(s) - 1
  <2>1. RuuHead \in RuuSlots /\ RuuHead[2] = RUU_head
    BY <1>2, RuuSlotOf DEF RuuHead
  <2>2. \A s \in RuuSlots : s[2] \in Indices /\ (s = RuuHead <=> s[2] = RUU_head)
    BY <2>1, RuuSlotOf
  <2> QED
    BY <1>2, <2>1, <2>2, AgeOf, AgeOfPrime DEF RuuWindow
<1>4. ASSUME st[RuuHead].ea_comp
      PROVE  /\ LsqHead \in LsqWindow /\ LsqWindow' = LsqWindow \ {LsqHead}
             /\ Age(LsqHead) = 0
             /\ \A s \in LsqWindow' : Age(s)' = Age(s) - 1
  <2>1. LSQ_num > 0
    BY <1>0, <1>4 DEF RuuCommit, CanCommit, HeadCompleted, Panics, CommitPanics, LsqShape
  <2>2. LSQ_head' = LSucc(LSQ_head) /\ LSQ_num' = LSQ_num - 1
    BY <1>0, <1>4, LSuccIs DEF RuuCommit, LsqShape
  <2>3. /\ InLsq(LSQ_head) /\ LsqAge(LSQ_head) = 0 /\ LSQ_head \in LIndices
        /\ \A j \in LIndices : InLsq(j)' <=> InLsq(j) /\ j # LSQ_head
        /\ \A j \in LIndices : InLsq(j)' => LsqAge(j)' = LsqAge(j) - 1
    BY <1>0, <2>1, <2>2 DEF LsqShape, InLsq, LsqAge, LSucc, LIndices
  <2>4. LsqHead \in LsqSlots /\ LsqHead[2] = LSQ_head
    BY <2>3, LsqSlotOf DEF LsqHead
  <2>5. \A s \in LsqSlots : s[2] \in LIndices /\ (s = LsqHead <=> s[2] = LSQ_head)
    BY <2>4, LsqSlotOf
  <2> QED
    BY <2>3, <2>4, <2>5, AgeOf, AgeOfPrime DEF LsqWindow
<1>5. ASSUME ~st[RuuHead].ea_comp
      PROVE  /\ LsqWindow' = LsqWindow
             /\ \A s \in LsqSlots : Age(s)' = Age(s)
  <2>1. LSQ_head' = LSQ_head /\ LSQ_num' = LSQ_num
    BY <1>5 DEF RuuCommit
  <2>2. \A j \in LIndices : (InLsq(j)' <=> InLsq(j)) /\ LsqAge(j)' = LsqAge(j)
    BY <2>1 DEF InLsq, LsqAge
  <2> QED
    BY <2>2, LsqSlotOf, AgeOf, AgeOfPrime DEF LsqWindow
<1> QED
  BY <1>3, <1>4, <1>5

\* ruu_recover takes what is younger than the branch, and from the LSQ as many
\* entries as it met address computations.
LEMMA RecoverWindow ==
    ASSUME TypeInv, WritebackRecover, ~Panics, NEW c, c = Completing
    PROVE  /\ c \in RuuWindow
           /\ RuuWindow' = {s \in RuuWindow : Age(s) <= Age(c)}
           /\ LsqWindow' = {s \in LsqWindow : Age(s) < LSQ_num - SquashedMem(c)}
           /\ \A s \in Slots : Age(s)' = Age(s)
           /\ SquashedMem(c) \in 0 .. LSQ_num
<1> USE SizeType
<1>0. RuuShape /\ LsqShape /\ c \in Slots
  BY DEF TypeInv, WritebackRecover, EventLive, RSLINK_VALID, Completing
<1>1. c \in RuuSlots /\ InWindow(c) /\ SquashedMem(c) \in 0 .. LSQ_num
  BY <1>0, SquashedMemType, RuuSlotOf
     DEF WritebackRecover, Panics, WritebackPanics, LsqShape
<1>b. PICK b, m : b = c[2] /\ m = SquashedMem(c)
  OBVIOUS
<1>2. b \in Indices /\ InRuu(b)
  BY <1>1, <1>b, RuuSlotOf, AgeOf
<1>3. /\ RUU_head' = RUU_head /\ RUU_num' = RUU_num - Walked(c)
      /\ LSQ_head' = LSQ_head /\ LSQ_num' = LSQ_num - m
  BY <1>b DEF WritebackRecover
<1>4. Walked(c) = RUU_num - 1 - RuuAge(b)
  BY <1>0, <1>2, <1>b DEF Walked, RuuShape, RuuAge, InRuu, Indices
<1>5. \A j \in Indices : /\ RuuAge(j)' = RuuAge(j)
                         /\ InRuu(j)' <=> InRuu(j) /\ RuuAge(j) <= RuuAge(b)
  BY <1>0, <1>2, <1>3, <1>4 DEF RuuShape, InRuu, RuuAge, Indices
<1>6. \A j \in LIndices : /\ LsqAge(j)' = LsqAge(j)
                          /\ InLsq(j)' <=> InLsq(j) /\ LsqAge(j) < LSQ_num - m
  BY <1>0, <1>1, <1>3, <1>b DEF LsqShape, InLsq, LsqAge, LIndices
<1>7. \A s \in Slots : Age(s)' = Age(s)
  BY <1>5, <1>6, RuuSlotOf, LsqSlotOf, AgeOf, AgeOfPrime DEF Slots
<1>8. RuuWindow' = {s \in RuuWindow : Age(s) <= Age(c)}
  BY <1>1, <1>5, <1>b, RuuSlotOf, AgeOf, AgeOfPrime DEF RuuWindow
<1>9. LsqWindow' = {s \in LsqWindow : Age(s) < LSQ_num - m}
  BY <1>6, LsqSlotOf, AgeOf, AgeOfPrime DEF LsqWindow
<1> QED
  BY <1>1, <1>7, <1>8, <1>9, <1>b DEF RuuWindow

\* ruu_dispatch puts the new stations behind all others.
LEMMA InstallWindow ==
    ASSUME TypeInv, CanDispatch, NEW npc, NEW addr, Install(npc, addr),
           RUU_head' = RUU_head, LSQ_head' = LSQ_head
    PROVE  /\ NewRuu \in RuuSlots \ RuuWindow /\ RuuWindow' = RuuWindow \cup {NewRuu}
           /\ NewLsq \in LsqSlots \ LsqWindow
           /\ LsqWindow' = LsqWindow \cup (NewOnes \cap LsqSlots)
           /\ \A s \in Slots : Age(s)' = Age(s)
           /\ \A s \in RuuWindow : Age(s) < Age(NewRuu)
           /\ \A s \in LsqWindow : Age(s) < Age(NewLsq)
<1> USE SizeType
<1>0. RuuShape /\ LsqShape
  BY DEF TypeInv
<1>1. /\ RUU_num < RUU_size /\ LSQ_num < LSQ_size
      /\ RUU_num' = RUU_num + 1
      /\ LSQ_num' = IF Is(DispOp, "F_MEM") THEN LSQ_num + 1 ELSE LSQ_num
  BY DEF CanDispatch, Install
<1>2. /\ RUU_tail \in Indices /\ ~InRuu(RUU_tail)
      /\ \A j \in Indices : RuuAge(j)' = RuuAge(j)
      /\ \A j \in Indices : InRuu(j)' <=> InRuu(j) \/ j = RUU_tail
      /\ \A j \in Indices : InRuu(j) => RuuAge(j) < RuuAge(RUU_tail)
  BY <1>0, <1>1 DEF RuuShape, InRuu, RuuAge, Indices
<1>3. /\ LSQ_tail \in LIndices /\ ~InLsq(LSQ_tail)
      /\ \A j \in LIndices : LsqAge(j)' = LsqAge(j)
      /\ \A j \in LIndices : InLsq(j)' <=> InLsq(j) \/ (Is(DispOp, "F_MEM") /\ j = LSQ_tail)
      /\ \A j \in LIndices : InLsq(j) => LsqAge(j) < LsqAge(LSQ_tail)
  BY <1>0, <1>1 DEF LsqShape, InLsq, LsqAge, LIndices
<1>4. NewRuu[2] = RUU_tail /\ NewLsq[2] = LSQ_tail
  BY <1>2, <1>3, RuuSlotOf, LsqSlotOf DEF NewRuu, NewLsq
<1>5. \A s \in Slots : Age(s)' = Age(s)
  BY <1>2, <1>3, RuuSlotOf, LsqSlotOf, AgeOf, AgeOfPrime DEF Slots
<1>6. NewOnes \cap LsqSlots = IF Is(DispOp, "F_MEM") THEN {NewLsq} ELSE {}
  BY <1>0, NewSlots, LsqSlotOf DEF NewOnes
<1>7. /\ NewRuu \in RuuSlots \ RuuWindow /\ RuuWindow' = RuuWindow \cup {NewRuu}
      /\ \A s \in RuuWindow : Age(s) < Age(NewRuu)
  <2>1. \A s \in RuuSlots : s[2] \in Indices /\ (s = NewRuu <=> s[2] = RUU_tail)
    BY <1>0, <1>4, NewSlots, RuuSlotOf
  <2>2. NewRuu \in RuuSlots
    BY <1>0, NewSlots
  <2> QED
    BY <1>2, <1>4, <2>1, <2>2, AgeOf, AgeOfPrime DEF RuuWindow
<1>8. /\ NewLsq \in LsqSlots \ LsqWindow
      /\ LsqWindow' = LsqWindow \cup (NewOnes \cap LsqSlots)
      /\ \A s \in LsqWindow : Age(s) < Age(NewLsq)
  <2>1. \A s \in LsqSlots : s[2] \in LIndices /\ (s = NewLsq <=> s[2] = LSQ_tail)
    BY <1>0, <1>4, NewSlots, LsqSlotOf
  <2>2. NewLsq \in LsqSlots
    BY <1>0, NewSlots
  <2> QED
    BY <1>3, <1>4, <1>6, <2>1, <2>2, AgeOf, AgeOfPrime DEF LsqWindow
<1> QED
  BY <1>5, <1>7, <1>8

-----------------------------------------------------------------------------
(* Steps that leave the window alone *)

\* No instruction enters the window or leaves it.
Quiet ==
    /\ UNCHANGED <<queueVars, inst_seq>>
    /\ \A s \in Slots : SameInst(st[s], st'[s])

LEMMA SameInstSelf == \A r : SameInst(r, r)
  BY DEF SameInst

LEMMA QuietSteps ==
    ASSUME TypeInv, [Next]_vars
    PROVE  \/ Quiet
           \/ RuuCommit /\ ~Panics
           \/ WritebackRecover /\ ~Panics
           \/ DispatchInst /\ ~Panics
<1>0. ASSUME UNCHANGED <<st, queueVars, inst_seq>> PROVE Quiet
  BY <1>0, SameInstSelf DEF Quiet
<1>1. CASE UNCHANGED vars
  BY <1>0, <1>1 DEF vars, orderVars
<1>2. CASE Exited
  BY <1>0, <1>2 DEF Exited, vars, orderVars
<1> SUFFICES ASSUME Step, ~RuuCommit, ~WritebackRecover, ~DispatchInst PROVE Quiet
  BY <1>1, <1>2 DEF Next, Step
<1>3. CASE Commit \/ RuuReleaseFu
  BY <1>0, <1>3 DEF Commit, RuuCommitDone, RuuReleaseFu, orderVars
<1>4. CASE Writeback
  <2>1. CASE WritebackOp
    <3>1. PICK c : c \in Slots /\ Complete(c, st, 0)
      BY <2>1 DEF WritebackOp, EventLive, RSLINK_VALID, Completing
    <3>2. PICK T, links, woken : T = st' /\ Completed(st, T, c, links, woken)
      BY <3>1, CompleteIs DEF TypeInv, Typed
    <3>3. \A s \in Slots : SameInst(st[s], T[s])
      BY <3>2 DEF Completed
    <3> QED
      BY <2>1, <3>2, <3>3 DEF Quiet, WritebackOp, orderVars
  <2>2. CASE WritebackStale \/ WritebackDone
    BY <1>0, <2>2 DEF WritebackStale, WritebackDone, orderVars
  <2> QED
    BY <1>4, <2>1, <2>2 DEF Writeback
<1>5. CASE LsqRefresh
  <2>1. Marked(st, st', ReadyLoads)
    BY <1>5, MarkQueuedIs DEF LsqRefresh, TypeInv, Typed
  <2> QED
    BY <1>5, <2>1 DEF Quiet, LsqRefresh, orderVars, Marked
<1>6. CASE Issue
  <2>1. CASE UNCHANGED st
    BY <1>0, <1>6, <2>1 DEF Issue, IssueStale, IssueStore, IssueToUnit, IssueNoUnit,
                            IssueNoClass, IssueDone, Start, orderVars
  <2>2. CASE IssueStore
    <3>1. Started(st, st', Issuing, TRUE)
      BY <2>2, IssueStoreIs DEF TypeInv, Typed
    <3> QED
      BY <2>2, <3>1 DEF Quiet, IssueStore, orderVars, Started
  <2>3. CASE IssueLive /\ \E lat : Start(lat)
    <3>1. PICK lat : Start(lat)
      BY <2>3
    <3>2. Started(st, st', Issuing, FALSE)
      BY <2>3, <3>1, StartActionIs DEF TypeInv, Typed
    <3> QED
      BY <3>1, <3>2 DEF Quiet, Start, orderVars, Started
  <2> QED
    BY <1>6, <2>1, <2>2, <2>3 DEF Issue, IssueStale, IssueToUnit, IssueNoUnit,
                                  IssueNoClass, IssueDone
<1>7. CASE Dispatch
  BY <1>0, <1>7 DEF Dispatch, DispatchNop, DispatchExit, DispatchDone, orderVars
<1>8. CASE Fetch
  BY <1>0, <1>8 DEF Fetch, FetchStalled, FetchMiss, FetchNotTaken, FetchTaken,
                    FetchDone, backVars, orderVars
<1>9. CASE EndCycle
  BY <1>0, <1>9 DEF EndCycle, orderVars
<1> QED
  BY <1>3, <1>4, <1>5, <1>6, <1>7, <1>8, <1>9 DEF Step

LEMMA QuietWindow ==
    ASSUME Quiet
    PROVE  /\ RuuWindow' = RuuWindow /\ LsqWindow' = LsqWindow
           /\ \A s \in Slots : Age(s)' = Age(s)
<1>1. \A s : Age(s)' = Age(s) /\ (InWindow(s)' <=> InWindow(s))
  BY DEF Quiet, queueVars, Age, InWindow, RuuAge, LsqAge
<1> QED
  BY <1>1 DEF RuuWindow, LsqWindow

-----------------------------------------------------------------------------
(* The order of the operations *)

\* The number of the last operation of the instruction in r.
LastSeq(r) == IF r.ea_comp THEN r.seq + 1 ELSE r.seq

\* l is the memory operation that the address computation s was split from.
PartOf(s, l) ==
    /\ st[s].ea_comp
    /\ st[l].seq = st[s].seq + 1
    /\ st[l].PC = st[s].PC /\ st[l].spec_mode = st[s].spec_mode

\* Each queue is in the order of the numbers.
InSeqOrder ==
    /\ \A s, t \in RuuWindow : Age(s) < Age(t) => LastSeq(st[s]) < st[t].seq
    /\ \A s, t \in LsqWindow : Age(s) < Age(t) => st[s].seq < st[t].seq
    /\ \A s \in RuuWindow : LastSeq(st[s]) <= inst_seq

\* The address computations of the RUU and the entries of the LSQ are pairs.
InPairs ==
    /\ \A l \in LsqWindow : \E s \in RuuWindow : PartOf(s, l)
    /\ \A s \in RuuWindow : st[s].ea_comp => \E l \in LsqWindow : PartOf(s, l)

\* No entry of the LSQ computes an address or is a branch.
MemOnly == \A l \in LsqSlots : ~st[l].ea_comp /\ ~st[l].recover_inst

OrderInv == InSeqOrder /\ InPairs /\ MemOnly

LEMMA SeqType ==
    ASSUME TypeInv
    PROVE  /\ \A s \in Slots : /\ st[s].seq \in Nat /\ LastSeq(st[s]) \in Nat
                               /\ st[s].seq <= LastSeq(st[s])
                               /\ st[s].ea_comp \in BOOLEAN
           /\ inst_seq \in Nat
<1>1. \A s \in Slots : st[s].seq \in Nat /\ st[s].ea_comp \in BOOLEAN
  BY DEF TypeInv, Typed, InstTyped
<1> QED
  BY <1>1 DEF TypeInv, OrderTyped, LastSeq

LEMMA InitOrderInv == Init => OrderInv
<1> SUFFICES ASSUME Init PROVE OrderInv
  OBVIOUS
<1>1. RuuWindow = {} /\ LsqWindow = {}
  <2>1. /\ \A i \in Indices : ~InRuu(i)
        /\ \A i \in LIndices : ~InLsq(i)
    BY SizeType DEF Init, InRuu, InLsq, RuuAge, LsqAge, Indices, LIndices
  <2> QED
    BY <2>1, RuuSlotOf, LsqSlotOf, AgeOf DEF RuuWindow, LsqWindow
<1>2. MemOnly
  BY LsqSlotOf DEF Init, MemOnly, EmptyStation
<1> QED
  BY <1>1, <1>2 DEF OrderInv, InSeqOrder, InPairs

LEMMA SameInstOrder ==
    ASSUME NEW S, NEW T, \A s \in Slots : SameInst(S[s], T[s])
    PROVE  \A s \in Slots : /\ T[s].seq = S[s].seq /\ T[s].ea_comp = S[s].ea_comp
                            /\ LastSeq(T[s]) = LastSeq(S[s])
                            /\ T[s].PC = S[s].PC /\ T[s].spec_mode = S[s].spec_mode
                            /\ T[s].recover_inst = S[s].recover_inst
  BY DEF SameInst, LastSeq

\* What leaves the window keeps the order and, if nothing stays without its
\* part, the pairs.
LEMMA OrderKept ==
    ASSUME TypeInv, OrderInv,
           \A s \in Slots : SameInst(st[s], st'[s]),
           RuuWindow' \subseteq RuuWindow, LsqWindow' \subseteq LsqWindow,
           inst_seq' = inst_seq,
           \A s, t \in RuuWindow' : Age(s)' < Age(t)' => Age(s) < Age(t),
           \A s, t \in LsqWindow' : Age(s)' < Age(t)' => Age(s) < Age(t),
           \A s \in RuuWindow, l \in LsqWindow :
               PartOf(s, l) => (s \in RuuWindow' <=> l \in LsqWindow')
    PROVE  OrderInv'
<1>1. PICK S, T, R, L : S = st /\ T = st' /\ R = RuuWindow' /\ L = LsqWindow'
  OBVIOUS
<1>2. \A s \in Slots : /\ T[s].seq = S[s].seq /\ T[s].ea_comp = S[s].ea_comp
                       /\ LastSeq(T[s]) = LastSeq(S[s])
                       /\ T[s].PC = S[s].PC /\ T[s].spec_mode = S[s].spec_mode
                       /\ T[s].recover_inst = S[s].recover_inst
  <2>1. \A s \in Slots : SameInst(S[s], T[s])
    BY <1>1
  <2> QED
    BY <2>1, SameInstOrder
<1>3. R \subseteq RuuWindow /\ L \subseteq LsqWindow /\ R \subseteq Slots /\ L \subseteq Slots
  BY <1>1, WindowIs
<1>4. InSeqOrder'
  BY <1>1, <1>2, <1>3 DEF OrderInv, InSeqOrder
<1>5. \A s, l \in Slots : PartOf(s, l)' <=> PartOf(s, l)
  BY <1>1, <1>2 DEF PartOf
<1>6. InPairs'
  BY <1>1, <1>2, <1>3, <1>5 DEF OrderInv, InPairs
<1>7. MemOnly'
  BY <1>1, <1>2, LsqSlotOf DEF OrderInv, MemOnly
<1> QED
  BY <1>4, <1>6, <1>7 DEF OrderInv

LEMMA QuietOrderInv == ASSUME TypeInv, OrderInv, Quiet PROVE OrderInv'
<1>1. /\ RuuWindow' = RuuWindow /\ LsqWindow' = LsqWindow
      /\ \A s \in RuuWindow : Age(s)' = Age(s)
      /\ \A s \in LsqWindow : Age(s)' = Age(s)
  BY QuietWindow, WindowIs
<1> QED
  BY <1>1, OrderKept DEF Quiet

\* In each queue the number names the entry.
LEMMA SeqNames ==
    ASSUME TypeInv, OrderInv
    PROVE  /\ \A s, t \in RuuWindow :
                 /\ Age(s) < Age(t) <=> st[s].seq < st[t].seq
                 /\ Age(s) < Age(t) <=> LastSeq(st[s]) < st[t].seq
                 /\ st[s].seq = st[t].seq => s = t
           /\ \A s, t \in LsqWindow :
                 /\ Age(s) < Age(t) <=> st[s].seq < st[t].seq
                 /\ st[s].seq = st[t].seq => s = t
<1>1. /\ \A s, t \in RuuWindow : Age(s) < Age(t) \/ Age(t) < Age(s) \/ s = t
      /\ \A s, t \in LsqWindow : Age(s) < Age(t) \/ Age(t) < Age(s) \/ s = t
      /\ \A s \in RuuWindow \cup LsqWindow : Age(s) \in Int
  BY AgeType, SizeType DEF TypeInv, RuuWindow, LsqWindow
<1>2. \A s \in RuuWindow \cup LsqWindow :
         st[s].seq \in Nat /\ LastSeq(st[s]) \in Nat /\ st[s].seq <= LastSeq(st[s])
  BY SeqType, WindowIs
<1> QED
  BY <1>1, <1>2 DEF OrderInv, InSeqOrder

\* The oldest address computation belongs to the oldest entry of the LSQ.
LEMMA CommitOrderInv ==
    ASSUME TypeInv, OrderInv, RuuCommit, ~Panics PROVE OrderInv'
<1>1. \A s \in Slots : SameInst(st[s], st'[s])
  <2>1. Retired(RetiredNow)
    BY RetireIs DEF TypeInv, Typed
  <2> QED
    BY <2>1 DEF Retired
<1>2. /\ RuuHead \in RuuWindow /\ RuuWindow' = RuuWindow \ {RuuHead}
      /\ Age(RuuHead) = 0
      /\ \A s \in RuuWindow' : Age(s)' = Age(s) - 1
  BY CommitWindow
<1>3. \A s \in RuuWindow \cup LsqWindow : Age(s) \in Nat
  BY AgeType, SizeType DEF TypeInv, RuuWindow, LsqWindow
<1>4. inst_seq' = inst_seq
  BY DEF RuuCommit, orderVars
<1>5. \A s \in RuuWindow \cup LsqWindow :
         st[s].seq \in Nat /\ LastSeq(st[s]) \in Nat /\ st[s].seq <= LastSeq(st[s])
  BY SeqType, WindowIs
<1>6. \A s, t \in RuuWindow' : Age(s)' < Age(t)' => Age(s) < Age(t)
  BY <1>2, <1>3
<1>7. \A s \in RuuWindow : s # RuuHead => Age(RuuHead) < Age(s)
  BY <1>2, <1>3, AgeType DEF TypeInv, RuuWindow
<1>8. CASE st[RuuHead].ea_comp
  <2>1. /\ LsqHead \in LsqWindow /\ LsqWindow' = LsqWindow \ {LsqHead}
        /\ Age(LsqHead) = 0
        /\ \A s \in LsqWindow' : Age(s)' = Age(s) - 1
    BY <1>8, CommitWindow
  <2>2. PICK l \in LsqWindow : PartOf(RuuHead, l)
    BY <1>2, <1>8 DEF OrderInv, InPairs
  <2>3. PICK s \in RuuWindow : PartOf(s, LsqHead)
    BY <2>1 DEF OrderInv, InPairs
  <2>4. st[RuuHead].seq <= st[s].seq
    BY <1>2, <1>5, <1>7, SeqNames
  <2>5. l = LsqHead
    <3>1. ~(st[LsqHead].seq < st[l].seq)
      BY <1>2, <1>5, <2>2, <2>3, <2>4 DEF PartOf
    <3>2. Age(l) = Age(LsqHead)
      BY <1>3, <2>1, <3>1, SeqNames
    <3> QED
      BY <2>1, <3>2, AgeType DEF TypeInv, LsqWindow
  <2>6. \A x \in RuuWindow, y \in LsqWindow :
           PartOf(x, y) => (x = RuuHead <=> y = LsqHead)
    <3>1. PICK k, h : k = LsqHead /\ h = RuuHead
      OBVIOUS
    <3>2. ASSUME NEW y \in LsqWindow, PartOf(h, y) PROVE y = k
      BY <1>2, <2>1, <2>2, <2>5, <3>1, <3>2, SeqNames DEF PartOf
    <3>3. ASSUME NEW x \in RuuWindow, PartOf(x, k) PROVE x = h
      BY <1>2, <1>5, <2>1, <2>2, <2>5, <3>1, <3>3, SeqNames DEF PartOf
    <3> QED
      BY <3>1, <3>2, <3>3
  <2>7. \A s_1, t_1 \in LsqWindow' : Age(s_1)' < Age(t_1)' => Age(s_1) < Age(t_1)
    BY <1>3, <2>1
  <2> QED
    BY <1>1, <1>2, <1>4, <1>6, <2>1, <2>6, <2>7, OrderKept
<1>9. CASE ~st[RuuHead].ea_comp
  <2>1. LsqWindow' = LsqWindow /\ \A s \in LsqWindow : Age(s)' = Age(s)
    BY <1>9, CommitWindow DEF LsqWindow
  <2>2. \A x \in RuuWindow, y \in LsqWindow : PartOf(x, y) => x # RuuHead
    BY <1>9 DEF PartOf
  <2> QED
    BY <1>1, <1>2, <1>4, <1>6, <2>1, <2>2, OrderKept
<1> QED
  BY <1>8, <1>9

-----------------------------------------------------------------------------
(* Counting the pairs *)

\* The places in the LSQ of the memory operations of P.
PartAges(P) == {k \in 0 .. LSQ_num - 1 : \E s \in P : PartOf(s, LsqAt(k))}

LEMMA LsqAtWindow ==
    ASSUME LsqShape
    PROVE  /\ \A k \in 0 .. LSQ_num - 1 : LsqAt(k) \in LsqWindow /\ Age(LsqAt(k)) = k
           /\ \A l \in LsqWindow : Age(l) \in 0 .. LSQ_num - 1 /\ LsqAt(Age(l)) = l
<1>1. LSQ_num \in 0 .. LSQ_size /\ LSQ_size \in Nat
  BY SizeType DEF LsqShape
<1>2. ASSUME NEW k \in 0 .. LSQ_num - 1
      PROVE  LsqAt(k) \in LsqWindow /\ Age(LsqAt(k)) = k
  <2>1. k \in 0 .. LSQ_size - 1
    BY <1>1
  <2>2. LsqAt(k) \in LsqSlots /\ Age(LsqAt(k)) = k
    BY <2>1, LsqAtIs
  <2> QED
    BY <1>1, <2>2, LsqAtAge DEF LsqWindow
<1>3. ASSUME NEW l \in LsqWindow
      PROVE  Age(l) \in 0 .. LSQ_num - 1 /\ LsqAt(Age(l)) = l
  <2>1. Age(l) \in 0 .. LSQ_size - 1 /\ LsqAt(Age(l)) = l /\ Age(l) < LSQ_num
    BY LsqAtAge DEF LsqWindow
  <2> QED
    BY <1>1, <2>1
<1> QED
  BY <1>2, <1>3

LEMMA PartsCount ==
    ASSUME TypeInv, OrderInv, NEW P \in SUBSET RuuWindow, \A s \in P : st[s].ea_comp
    PROVE  /\ IsFiniteSet(P) /\ IsFiniteSet(PartAges(P))
           /\ Cardinality(P) = Cardinality(PartAges(P))
<1> DEFINE A == PartAges(P)
           f == [s \in P |-> CHOOSE k \in A : PartOf(s, LsqAt(k))]
<1>0. IsFiniteSet(P)
  BY SlotsFinite, WindowIs, FS_Subset
<1>1. LsqShape
  BY DEF TypeInv
<1>2. ASSUME NEW s \in P PROVE \E k \in A : PartOf(s, LsqAt(k))
  <2>1. PICK l \in LsqWindow : PartOf(s, l)
    BY DEF OrderInv, InPairs
  <2> QED
    BY <1>1, <2>1, LsqAtWindow DEF PartAges
<1>3. \A s \in P : f[s] \in A /\ PartOf(s, LsqAt(f[s]))
  BY <1>2
<1> HIDE DEF f
<1>4. \A s, t \in P : f[s] = f[t] => s = t
  <2>1. \A s, t \in RuuWindow : st[s].seq = st[t].seq => s = t
    BY SeqNames
  <2>2. \A s \in RuuWindow : st[s].seq \in Nat
    BY SeqType, WindowIs
  <2> QED
    BY <1>3, <2>1, <2>2 DEF PartOf
<1>5. ASSUME NEW k \in A PROVE \E s \in P : f[s] = k
  <2>1. PICK s \in P : PartOf(s, LsqAt(k)) /\ k \in 0 .. LSQ_num - 1
    BY DEF PartAges
  <2>2. PartOf(s, LsqAt(f[s])) /\ f[s] \in 0 .. LSQ_num - 1
    BY <1>3 DEF PartAges
  <2>3. LsqAt(f[s]) = LsqAt(k)
    BY <1>1, <2>1, <2>2, LsqAtWindow, SeqNames DEF PartOf
  <2>4. f[s] = k
    BY <1>1, <2>1, <2>2, <2>3, LsqAtWindow
  <2> QED
    BY <2>4
<1>6. Pairs(f, P, A)
  <2>1. f \in [P -> A]
    BY <1>3 DEF f
  <2> HIDE DEF A
  <2> QED
    BY <1>4, <1>5, <2>1 DEF Pairs
<1> QED
  BY <1>0, <1>6, PairsCardinality

\* A set of numbers below m with every number above one of its own is the
\* last ones.
LEMMA LastOnes ==
    ASSUME NEW m \in Nat, NEW A \in SUBSET (0 .. m - 1),
           \A j, k \in 0 .. m - 1 : j \in A /\ j < k => k \in A
    PROVE  \A k \in 0 .. m - 1 : k \in A <=> k >= m - Cardinality(A)
<1>1. CASE A = {}
  BY <1>1, FS_EmptySet
<1>2. CASE A # {}
  <2>0. A \subseteq Nat
    OBVIOUS
  <2>1. PICK x \in A : \A y \in A : x <= y
    BY <1>2, <2>0, LeastNat
  <2>2. A = x .. m - 1
    <3>1. x \in 0 .. m - 1
      OBVIOUS
    <3>2. ASSUME NEW y \in x .. m - 1 PROVE y \in A
      <4>1. y \in 0 .. m - 1 /\ (x = y \/ x < y)
        BY <3>1
      <4> QED
        BY <3>1, <4>1
    <3>3. ASSUME NEW y \in A PROVE y \in x .. m - 1
      BY <2>1
    <3> QED
      BY <3>2, <3>3
  <2>3. Cardinality(A) = m - x
    BY <2>1, <2>2, FS_Interval
  <2> QED
    BY <2>2, <2>3
<1> QED
  BY <1>1, <1>2

LEMMA FirstOnes ==
    ASSUME NEW m \in Nat PROVE Cardinality(0 .. m - 1) = m
  BY FS_Interval

\* The entries that ruu_recover takes from the LSQ are the memory operations
\* of the address computations it met.
LEMMA SquashedParts ==
    ASSUME TypeInv, OrderInv, NEW c \in RuuWindow
    PROVE  \A s \in RuuWindow, l \in LsqWindow :
              PartOf(s, l) => (Age(s) <= Age(c) <=> Age(l) < LSQ_num - SquashedMem(c))
<1> DEFINE P == {s \in SquashedRuu(c) : st[s].ea_comp}
           A == PartAges(P)
<1>0. LsqShape /\ LSQ_num \in Nat
  BY SizeType DEF TypeInv, LsqShape
<1>1. P \in SUBSET RuuWindow /\ \A s \in P : st[s].ea_comp /\ Age(c) < Age(s)
  <2>1. \A s \in RuuWindow : Age(s) \in Nat
    BY AgeType, SizeType DEF TypeInv, RuuWindow
  <2> QED
    BY <2>1 DEF SquashedRuu, RuuWindow
<1>2. SquashedMem(c) = Cardinality(A) /\ Cardinality(A) \in Nat
  <2>1. SquashedMem(c) = Cardinality(P)
    BY DEF SquashedMem
  <2> HIDE DEF P
  <2> QED
    BY <1>1, <2>1, PartsCount, FS_CardinalityType
<1>3. \A s \in RuuWindow \cup LsqWindow :
         /\ st[s].seq \in Nat /\ LastSeq(st[s]) \in Nat /\ st[s].seq <= LastSeq(st[s])
         /\ Age(s) \in Nat
  BY SeqType, WindowIs, AgeType, SizeType DEF TypeInv, RuuWindow, LsqWindow
<1>4. \A s \in RuuWindow : /\ Age(s) < Age(c) => LastSeq(st[s]) < st[c].seq
                           /\ Age(c) < Age(s) => LastSeq(st[c]) < st[s].seq
                           /\ Age(s) = Age(c) => s = c
  BY SeqNames, AgeType DEF TypeInv, RuuWindow
<1>5. ASSUME NEW s \in RuuWindow, NEW l \in LsqWindow, PartOf(s, l)
      PROVE  Age(s) > Age(c) <=> st[l].seq > LastSeq(st[c])
  <2>1. st[l].seq = st[s].seq + 1 /\ LastSeq(st[s]) = st[s].seq + 1
    BY <1>5 DEF PartOf, LastSeq
  <2> QED
    BY <1>3, <1>4, <2>1
<1>6. \A k \in 0 .. LSQ_num - 1 : k \in A <=> st[LsqAt(k)].seq > LastSeq(st[c])
  <2>1. ASSUME NEW k \in 0 .. LSQ_num - 1
        PROVE  k \in A <=> st[LsqAt(k)].seq > LastSeq(st[c])
    <3>1. LsqAt(k) \in LsqWindow
      BY <1>0, LsqAtWindow
    <3>2. PICK s \in RuuWindow : PartOf(s, LsqAt(k))
      BY <3>1 DEF OrderInv, InPairs
    <3>3. CASE k \in A
      <4>1. PICK t \in P : PartOf(t, LsqAt(k))
        BY <3>3 DEF PartAges
      <4> QED
        BY <1>1, <1>3, <1>5, <3>1, <3>3, <4>1
    <3>4. CASE st[LsqAt(k)].seq > LastSeq(st[c])
      <4>1. Age(s) > Age(c)
        BY <1>5, <3>1, <3>2, <3>4
      <4>2. s \in P
        BY <3>2, <4>1 DEF SquashedRuu, RuuWindow, PartOf
      <4> QED
        BY <3>2, <3>4, <4>2 DEF PartAges
    <3> QED
      BY <3>3, <3>4
  <2> QED
    BY <2>1
<1>7. \A j, k \in 0 .. LSQ_num - 1 : j \in A /\ j < k => k \in A
  <2>1. \A j, k \in 0 .. LSQ_num - 1 : j < k => st[LsqAt(j)].seq < st[LsqAt(k)].seq
    BY <1>0, LsqAtWindow, SeqNames
  <2>2. /\ \A k \in 0 .. LSQ_num - 1 : st[LsqAt(k)].seq \in Nat
        /\ LastSeq(st[c]) \in Nat
    BY <1>0, <1>3, LsqAtWindow
  <2> HIDE DEF A
  <2> QED
    BY <1>6, <2>1, <2>2
<1>8. \A k \in 0 .. LSQ_num - 1 : k \in A <=> k >= LSQ_num - SquashedMem(c)
  <2>1. A \in SUBSET (0 .. LSQ_num - 1)
    BY DEF PartAges
  <2> HIDE DEF A
  <2> QED
    BY <1>0, <1>2, <1>7, <2>1, LastOnes
<1>9. ASSUME NEW s \in RuuWindow, NEW l \in LsqWindow, PartOf(s, l)
      PROVE  Age(s) <= Age(c) <=> Age(l) < LSQ_num - SquashedMem(c)
  <2>1. Age(l) \in 0 .. LSQ_num - 1 /\ LsqAt(Age(l)) = l
    BY <1>0, LsqAtWindow
  <2>2. Age(l) \in A <=> Age(s) > Age(c)
    BY <1>5, <1>6, <1>9, <2>1
  <2> HIDE DEF A
  <2> QED
    BY <1>0, <1>2, <1>3, <1>8, <2>1, <2>2
<1> QED
  BY <1>9

LEMMA RecoverInst ==
    ASSUME TypeInv, WritebackRecover PROVE \A s \in Slots : SameInst(st[s], st'[s])
<1>1. PICK c : c = Completing
  OBVIOUS
<1>2. PICK S, freed : /\ Typed(S) /\ Complete(c, S, freed) /\ c \in Slots
                      /\ WritebackOp \/ S = SquashOf(c)
  BY <1>1, WritebackIs DEF TypeInv
<1>3. ~WritebackOp
  BY DEF WritebackOp, WritebackRecover
<1>4. PICK T, links, woken : T = st' /\ Completed(S, T, c, links, woken)
  BY <1>2, CompleteIs DEF Typed
<1>5. \A s \in Slots : SameInst(S[s], T[s])
  BY <1>4 DEF Completed
<1>6. \A s \in Slots : SameInst(st[s], S[s])
  BY <1>2, <1>3, SquashIs DEF TypeInv, Typed
<1> QED
  BY <1>4, <1>5, <1>6, SameInstTransitive

LEMMA RecoverOrderInv ==
    ASSUME TypeInv, OrderInv, WritebackRecover, ~Panics PROVE OrderInv'
<1>1. PICK c : c = Completing
  OBVIOUS
<1>2. /\ c \in RuuWindow
      /\ RuuWindow' = {s \in RuuWindow : Age(s) <= Age(c)}
      /\ LsqWindow' = {s \in LsqWindow : Age(s) < LSQ_num - SquashedMem(c)}
      /\ \A s \in Slots : Age(s)' = Age(s)
  BY <1>1, RecoverWindow
<1>3. \A s \in Slots : SameInst(st[s], st'[s])
  BY RecoverInst
<1>4. inst_seq' = inst_seq
  BY DEF WritebackRecover, orderVars
<1>5. \A s \in RuuWindow, l \in LsqWindow :
         PartOf(s, l) => (s \in RuuWindow' <=> l \in LsqWindow')
  BY <1>2, SquashedParts
<1>6. /\ \A s \in RuuWindow' : Age(s)' = Age(s)
      /\ \A s \in LsqWindow' : Age(s)' = Age(s)
  BY <1>2, WindowIs
<1> QED
  BY <1>2, <1>3, <1>4, <1>5, <1>6, OrderKept

\* The new operations are the youngest, and a load or store is a pair.
LEMMA InstallInst ==
    ASSUME TypeInv, NEW F, NEW L, NEW npc, NEW addr, Installed(F, L, npc, addr)
    PROVE  /\ \A s \in Slots \ NewOnes : SameInst(st[s], st'[s])
           /\ Filled(F[NewRuu], NewRuu, RuuOp, inst_seq + 1, npc,
                     Mispredicted(npc), 0, RuuOuts, InstDeps)
           /\ SameInst(F[NewRuu], st'[NewRuu])
           /\ Is(DispOp, "F_MEM") =>
                 /\ Filled(F[NewLsq], NewLsq, DispOp, inst_seq + 2, npc, FALSE,
                           addr, DispInst.outs, InstDeps)
                 /\ SameInst(F[NewLsq], st'[NewLsq])
           /\ inst_seq' = inst_seq + (IF Is(DispOp, "F_MEM") THEN 2 ELSE 1)
<1>1. PICK T : T = st'
  OBVIOUS
<1>2. \A s \in Slots : SameInst(F[s], T[s])
  <2>1. ListsOnly(F, L) /\ Marked(L, T, ReadyNow(F))
    BY <1>1 DEF Installed, LinkedIn
  <2>2. \A s \in Slots : SameInst(F[s], L[s])
    BY <2>1, Zenon DEF ListsOnly
  <2>3. \A s \in Slots : SameInst(L[s], T[s])
    BY <2>1 DEF Marked
  <2> QED
    BY <2>2, <2>3, SameInstTransitive
<1>3. \A s \in Slots \ NewOnes : F[s] = st[s]
  BY DEF Installed, FilledIn
<1>4. NewRuu \in Slots /\ NewLsq \in Slots
  BY NewSlots DEF TypeInv
<1>5. \A s \in Slots \ NewOnes : SameInst(st[s], T[s])
  BY <1>2, <1>3
<1> QED
  BY <1>1, <1>2, <1>4, <1>5 DEF Installed, FilledIn, InstalledRest

LEMMA DispatchOrderInv ==
    ASSUME TypeInv, OrderInv, CanDispatch, NEW npc \in PCs,
           NEW addr \in Addrs \cup {0}, Install(npc, addr),
           RUU_head' = RUU_head, LSQ_head' = LSQ_head
    PROVE  OrderInv'
<1> DEFINE mem == Is(DispOp, "F_MEM")
<1>1. PICK F, L : Installed(F, L, npc, addr)
  BY InstallIs DEF TypeInv, OrderTyped
<1>2. PICK T, R, Q, u, v : /\ T = st' /\ R = RuuWindow' /\ Q = LsqWindow'
                           /\ u = NewRuu /\ v = NewLsq
  OBVIOUS
<1>3. /\ u \in RuuSlots \ RuuWindow /\ R = RuuWindow \cup {u}
      /\ v \in LsqSlots \ LsqWindow
      /\ Q = LsqWindow \cup (IF mem THEN {v} ELSE {})
      /\ \A s \in Slots : Age(s)' = Age(s)
      /\ \A s \in RuuWindow : Age(s) < Age(u)
      /\ \A s \in LsqWindow : Age(s) < Age(v)
  <2>1. NewOnes \cap LsqSlots = IF mem THEN {v} ELSE {}
    BY <1>2, NewSlots, LsqSlotOf DEF NewOnes, TypeInv
  <2> QED
    BY <1>2, <2>1, InstallWindow
<1>4. /\ \A s \in RuuWindow \cup LsqWindow : SameInst(st[s], T[s])
      /\ \A s \in LsqSlots : s # v \/ ~mem => SameInst(st[s], T[s])
  <2>1. /\ \A s \in RuuWindow \cup LsqWindow : s \in Slots \ NewOnes
        /\ \A s \in LsqSlots : s # v \/ ~mem => s \in Slots \ NewOnes
    BY <1>2, <1>3, WindowIs, LsqSlotOf DEF NewOnes, RuuWindow, LsqWindow
  <2> QED
    BY <1>1, <1>2, <2>1, InstallInst
<1>5. /\ \A s \in RuuWindow \cup LsqWindow :
            /\ T[s].seq = st[s].seq /\ T[s].ea_comp = st[s].ea_comp
            /\ LastSeq(T[s]) = LastSeq(st[s]) /\ T[s].PC = st[s].PC
            /\ T[s].spec_mode = st[s].spec_mode
      /\ \A s \in LsqSlots : s # v \/ ~mem =>
            T[s].ea_comp = st[s].ea_comp /\ T[s].recover_inst = st[s].recover_inst
  BY <1>4 DEF SameInst, LastSeq
<1>6. /\ T[u].seq = inst_seq + 1 /\ T[u].ea_comp = mem
      /\ T[u].PC = DispPC /\ T[u].spec_mode = spec_mode
  <2>1. /\ Filled(F[u], u, RuuOp, inst_seq + 1, npc, Mispredicted(npc), 0,
                  RuuOuts, InstDeps)
        /\ SameInst(F[u], T[u])
    BY <1>1, <1>2, InstallInst
  <2>2. ~in_LSQ(u)
    BY <1>3, RuuSlotOf
  <2>3. (mem /\ ~in_LSQ(u)) = mem
    BY <2>2 DEF Is
  <2>4. T[u].ea_comp = (mem /\ ~in_LSQ(u))
    BY <2>1, Zenon DEF Filled, SameInst
  <2> QED
    BY <2>1, <2>3, <2>4 DEF Filled, SameInst
<1>7. mem => /\ T[v].seq = inst_seq + 2 /\ T[v].ea_comp = FALSE
             /\ T[v].PC = DispPC /\ T[v].spec_mode = spec_mode
             /\ T[v].recover_inst = FALSE
  <2>1. mem => /\ Filled(F[v], v, DispOp, inst_seq + 2, npc, FALSE,
                         addr, DispInst.outs, InstDeps)
               /\ SameInst(F[v], T[v])
    BY <1>1, <1>2, InstallInst
  <2>2. in_LSQ(v)
    BY <1>3, LsqSlotOf
  <2> QED
    BY <2>1, <2>2 DEF Filled, SameInst
<1>8. inst_seq' = inst_seq + (IF mem THEN 2 ELSE 1) /\ inst_seq \in Nat
  BY <1>1, InstallInst, SeqType
<1>9. LastSeq(T[u]) = IF mem THEN inst_seq + 2 ELSE inst_seq + 1
  BY <1>6, <1>8 DEF LastSeq
<1>10. \A s \in RuuWindow \cup LsqWindow :
          /\ st[s].seq \in Nat /\ LastSeq(st[s]) \in Nat /\ st[s].seq <= LastSeq(st[s])
          /\ st[s].seq <= inst_seq /\ Age(s) \in Nat
  <2>1. \A s \in RuuWindow \cup LsqWindow :
          /\ st[s].seq \in Nat /\ LastSeq(st[s]) \in Nat /\ st[s].seq <= LastSeq(st[s])
          /\ Age(s) \in Nat
    BY SeqType, WindowIs, AgeType, SizeType DEF TypeInv, RuuWindow, LsqWindow
  <2>2. \A s \in RuuWindow : LastSeq(st[s]) <= inst_seq
    BY DEF OrderInv, InSeqOrder
  <2>3. ASSUME NEW l \in LsqWindow PROVE st[l].seq <= inst_seq
    <3>1. PICK s \in RuuWindow : PartOf(s, l)
      BY DEF OrderInv, InPairs
    <3> QED
      BY <2>2, <3>1 DEF PartOf, LastSeq
  <2> QED
    BY <1>8, <2>1, <2>2, <2>3
<1>11. InSeqOrder'
  <2>1. \A s, t \in R : Age(s) < Age(t) => LastSeq(T[s]) < T[t].seq
    <3>1. ASSUME NEW s \in RuuWindow PROVE ~(Age(u) < Age(s)) /\ ~(Age(u) < Age(u))
      BY <1>3, <1>10, AgeType, SizeType DEF TypeInv
    <3>2. ASSUME NEW s \in RuuWindow PROVE LastSeq(T[s]) < T[u].seq
      BY <1>5, <1>6, <1>8, <1>10 DEF OrderInv, InSeqOrder
    <3>3. ~(Age(u) < Age(u))
      BY <1>3, AgeType, SizeType DEF TypeInv
    <3>4. \A s, t \in RuuWindow : Age(s) < Age(t) => LastSeq(T[s]) < T[t].seq
      BY <1>5 DEF OrderInv, InSeqOrder
    <3> QED
      BY <1>3, <3>1, <3>2, <3>3, <3>4
  <2>2. \A s, t \in Q : Age(s) < Age(t) => T[s].seq < T[t].seq
    <3>1. ASSUME NEW s \in LsqWindow PROVE ~(Age(v) < Age(s))
      BY <1>3, <1>10, AgeType, SizeType DEF TypeInv
    <3>2. ASSUME NEW s \in LsqWindow, mem PROVE T[s].seq < T[v].seq
      BY <1>5, <1>7, <1>8, <1>10, <3>2
    <3>3. ~(Age(v) < Age(v))
      BY <1>3, AgeType, SizeType DEF TypeInv
    <3>4. \A s, t \in LsqWindow : Age(s) < Age(t) => T[s].seq < T[t].seq
      BY <1>5 DEF OrderInv, InSeqOrder
    <3> QED
      BY <1>3, <3>1, <3>2, <3>3, <3>4
  <2>3. \A s \in R : LastSeq(T[s]) <= inst_seq'
    BY <1>3, <1>5, <1>8, <1>9, <1>10 DEF OrderInv, InSeqOrder
  <2>4. \A s \in R \cup Q : Age(s)' = Age(s)
    BY <1>3, WindowIs, RuuSlotOf, LsqSlotOf
  <2> QED
    BY <1>2, <2>1, <2>2, <2>3, <2>4 DEF InSeqOrder
<1>12. \A s \in RuuWindow, l \in LsqWindow : PartOf(s, l) => PartOf(s, l)'
  BY <1>2, <1>5 DEF PartOf
<1>13. mem => PartOf(u, v)'
  BY <1>2, <1>6, <1>7, <1>8 DEF PartOf
<1>14. InPairs'
  <2>1. \A l \in Q : \E s \in R : PartOf(s, l)'
    BY <1>3, <1>12, <1>13 DEF OrderInv, InPairs
  <2>2. \A s \in R : T[s].ea_comp => \E l \in Q : PartOf(s, l)'
    BY <1>3, <1>5, <1>6, <1>12, <1>13 DEF OrderInv, InPairs
  <2> QED
    BY <1>2, <2>1, <2>2 DEF InPairs
<1>15. MemOnly'
  BY <1>2, <1>5, <1>7 DEF OrderInv, MemOnly
<1> QED
  BY <1>11, <1>14, <1>15 DEF OrderInv

LEMMA OrderInvStep == ASSUME TypeInv, OrderInv, [Next]_vars PROVE OrderInv'
<1>1. CASE DispatchInst
  <2>1. PICK npc \in PCs, addr \in Addrs \cup {0} : Install(npc, addr)
    BY <1>1, DispatchInstIs DEF TypeInv
  <2>2. CanDispatch /\ RUU_head' = RUU_head /\ LSQ_head' = LSQ_head
    BY <1>1 DEF DispatchInst
  <2> QED
    BY <2>1, <2>2, DispatchOrderInv
<1> QED
  BY <1>1, QuietSteps, QuietOrderInv, CommitOrderInv, RecoverOrderInv

LEMMA OrderInvAlways == Spec => []OrderInv
<1>1. TypeInv /\ OrderInv /\ [Next]_vars => OrderInv'
  BY OrderInvStep
<1> QED
  BY <1>1, InitOrderInv, TypeInvAlways, PTL DEF Spec

LEMMA OrderIsSync == ASSUME TypeInv, OrderInv PROVE QueueSync
<1> DEFINE mem == {s \in Window : st[s].ea_comp}
           below(s) == {m \in mem : Age(m) < Age(s)}
<1>0. LsqShape /\ LSQ_num \in Nat
  BY SizeType DEF TypeInv, LsqShape
<1>1. mem \in SUBSET RuuWindow /\ \A s \in mem : st[s].ea_comp
  BY WindowIs DEF OrderInv, MemOnly, LsqWindow
<1>2. Cardinality(mem) = LSQ_num
  <2>1. PartAges(mem) = 0 .. LSQ_num - 1
    <3>1. ASSUME NEW k \in 0 .. LSQ_num - 1 PROVE k \in PartAges(mem)
      <4>1. LsqAt(k) \in LsqWindow
        BY <1>0, LsqAtWindow
      <4>2. PICK s \in RuuWindow : PartOf(s, LsqAt(k))
        BY <4>1 DEF OrderInv, InPairs
      <4>3. s \in mem
        BY <4>2, WindowIs DEF PartOf
      <4> QED
        BY <4>2, <4>3 DEF PartAges
    <3> QED
      BY <3>1 DEF PartAges
  <2> HIDE DEF mem
  <2> QED
    BY <1>0, <1>1, <2>1, PartsCount, FirstOnes
<1>3. ASSUME NEW s \in mem
      PROVE  PartOf(s, LsqAt(Cardinality(below(s))))
  <2>1. s \in RuuWindow /\ st[s].ea_comp
    BY <1>1
  <2>2. PICK l \in LsqWindow : PartOf(s, l)
    BY <2>1 DEF OrderInv, InPairs
  <2>3. PICK a : a = Age(l)
    OBVIOUS
  <2>4. a \in 0 .. LSQ_num - 1 /\ LsqAt(a) = l
    BY <1>0, <2>3, LsqAtWindow
  <2>5. below(s) \in SUBSET RuuWindow /\ \A m \in below(s) : st[m].ea_comp
    BY <1>1
  <2>6. \A m \in RuuWindow, k \in LsqWindow :
           PartOf(m, k) => (Age(m) < Age(s) <=> Age(k) < a)
    <3>1. \A m \in RuuWindow : st[m].seq \in Nat
      BY SeqType, WindowIs
    <3>2. \A m \in RuuWindow : Age(m) < Age(s) <=> st[m].seq < st[s].seq
      BY <2>1, SeqNames
    <3>3. \A k \in LsqWindow : Age(k) < a <=> st[k].seq < st[l].seq
      BY <2>3, SeqNames
    <3> QED
      BY <2>1, <2>2, <3>1, <3>2, <3>3 DEF PartOf
  <2>7. PartAges(below(s)) = 0 .. a - 1
    <3>1. ASSUME NEW k \in PartAges(below(s)) PROVE k \in 0 .. a - 1
      <4>1. PICK m \in below(s) : PartOf(m, LsqAt(k)) /\ k \in 0 .. LSQ_num - 1
        BY DEF PartAges
      <4>2. LsqAt(k) \in LsqWindow /\ Age(LsqAt(k)) = k
        BY <1>0, <4>1, LsqAtWindow
      <4>3. m \in RuuWindow /\ Age(m) < Age(s)
        BY <2>5, <4>1
      <4> QED
        BY <1>0, <2>4, <2>6, <4>1, <4>2, <4>3
    <3>2. ASSUME NEW k \in 0 .. a - 1 PROVE k \in PartAges(below(s))
      <4>1. k \in 0 .. LSQ_num - 1 /\ k < a
        BY <1>0, <2>4
      <4>2. LsqAt(k) \in LsqWindow /\ Age(LsqAt(k)) = k
        BY <1>0, <4>1, LsqAtWindow
      <4>3. PICK m \in RuuWindow : PartOf(m, LsqAt(k))
        BY <4>2 DEF OrderInv, InPairs
      <4>4. m \in below(s)
        BY <2>6, <4>1, <4>2, <4>3, WindowIs DEF PartOf
      <4> QED
        BY <4>1, <4>3, <4>4 DEF PartAges
    <3> QED
      BY <3>1, <3>2
  <2>8. Cardinality(below(s)) = a
    <3> HIDE DEF below
    <3>1. Cardinality(0 .. a - 1) = a
      BY <1>0, <2>4, FirstOnes
    <3> QED
      BY <2>5, <2>7, <3>1, PartsCount
  <2> QED
    BY <2>2, <2>4, <2>8
<1>4. \A s, t \in Window \cap RuuSlots : Age(s) < Age(t) => st[s].seq < st[t].seq
  <2>1. Window \cap RuuSlots = RuuWindow
    BY RuuSlotOf, LsqSlotOf DEF Window, RuuWindow, Slots
  <2> QED
    BY <2>1, SeqNames
<1> QED
  BY <1>2, <1>3, <1>4 DEF QueueSync, PartOf

\* In every run of every machine the RUU and the LSQ hold the same loads and
\* stores in the same order: commits take the two heads together, dispatches
\* fill the two tails together, and the count by which ruu_recover moves the
\* tail of the LSQ back is exactly that of the memory operations it squashes.
THEOREM QueuesInSync == Spec => []QueueSync
<1>1. TypeInv /\ OrderInv => QueueSync
  BY OrderIsSync
<1> QED
  BY <1>1, TypeInvAlways, OrderInvAlways, PTL

-----------------------------------------------------------------------------
(* The operations of the window, both queues together *)

LEMMA WindowParts ==
    ASSUME TypeInv, OrderInv
    PROVE  /\ \A l \in LsqWindow : \E s \in RuuWindow : PartOf(s, l)
           /\ \A s \in RuuWindow : st[s].ea_comp => \E l \in LsqWindow : PartOf(s, l)
           /\ \A s \in Slots : st[s].seq \in Nat
           /\ Window = RuuWindow \cup LsqWindow /\ Window \subseteq Slots
           /\ \A s \in Window : st[s].seq <= inst_seq
<1>1. ASSUME NEW s \in Window PROVE st[s].seq <= inst_seq
  <2>1. \A t \in RuuWindow : st[t].seq <= LastSeq(st[t]) /\ LastSeq(st[t]) <= inst_seq
    BY SeqType, WindowIs DEF OrderInv, InSeqOrder
  <2>2. \A t \in RuuWindow : st[t].seq \in Nat /\ LastSeq(st[t]) \in Nat /\ inst_seq \in Nat
    BY SeqType, WindowIs
  <2>3. CASE s \in RuuWindow
    BY <2>1, <2>2, <2>3
  <2>4. CASE s \in LsqWindow
    <3>1. PICK t \in RuuWindow : PartOf(t, s)
      BY <2>4 DEF OrderInv, InPairs
    <3>2. st[s].seq = LastSeq(st[t])
      BY <3>1 DEF PartOf, LastSeq
    <3> QED
      BY <2>1, <3>2
  <2> QED
    BY <2>3, <2>4, WindowIs
<1> QED
  BY <1>1, SeqType, WindowIs DEF OrderInv, InPairs

\* The number names the operation.
LEMMA SeqNamesAll ==
    ASSUME TypeInv, OrderInv
    PROVE  \A s, t \in Window : st[s].seq = st[t].seq => s = t
<1>1. /\ \A s, t \in RuuWindow : st[s].seq = st[t].seq => s = t
      /\ \A s, t \in LsqWindow : st[s].seq = st[t].seq => s = t
  BY SeqNames
<1>2. ASSUME NEW s \in RuuWindow, NEW l \in LsqWindow PROVE st[s].seq # st[l].seq
  <2>1. PICK t \in RuuWindow : PartOf(t, l)
    BY WindowParts
  <2>2. st[l].seq = LastSeq(st[t]) /\ st[l].seq = st[t].seq + 1
    BY <2>1 DEF PartOf, LastSeq
  <2>3. /\ Age(t) < Age(s) => LastSeq(st[t]) < st[s].seq
        /\ Age(s) < Age(t) => st[s].seq < st[t].seq
        /\ Age(s) < Age(t) \/ Age(t) < Age(s) \/ s = t
    BY SeqNames, AgeType, SizeType DEF TypeInv, RuuWindow
  <2>4. st[s].seq \in Nat /\ st[t].seq \in Nat
    BY SeqType, WindowIs
  <2> QED
    BY <2>2, <2>3, <2>4
<1> QED
  BY <1>1, <1>2, WindowParts

\* What is speculative in the window is younger than what is not.
LEMMA SpecYounger ==
    ASSUME TypeInv, OrderInv, SpecInv
    PROVE  /\ \A s, t \in Window : ~st[s].spec_mode /\ st[t].spec_mode
                                     => st[s].seq < st[t].seq
           /\ ~spec_mode => \A s \in Window : ~st[s].spec_mode
<1>1. \A s \in RuuWindow : s[2] \in Indices /\ s = RuuSlot(s[2]) /\ InRuu(s[2])
                           /\ Age(s) = RuuAge(s[2])
  BY RuuSlotOf, AgeOf DEF RuuWindow
<1>2. \A s \in RuuWindow : Age(s) \in Nat /\ st[s].seq \in Nat
  BY SeqType, WindowIs, AgeType, SizeType DEF TypeInv, RuuWindow
<1>3. \A s, t \in RuuWindow : ~st[s].spec_mode /\ st[t].spec_mode => Age(s) < Age(t)
  <2>1. CASE spec_mode
    <3>1. PICK b \in Indices : BeginsAt(b)
      BY <2>1 DEF SpecInv, SpecIndex
    <3>2. \A s \in RuuWindow : st[s].spec_mode <=> Age(s) > RuuAge(b)
      BY <1>1, <3>1 DEF BeginsAt
    <3>3. RuuAge(b) \in Int
      BY SizeType DEF RuuAge, SpecInv, RuuShape, Indices
    <3> QED
      BY <1>2, <3>2, <3>3
  <2>2. CASE ~spec_mode
    BY <1>1, <2>2 DEF SpecInv, SpecIndex, NoWrongPath
  <2> QED
    BY <2>1, <2>2
<1>4. ASSUME NEW s \in Window
      PROVE  \E t \in RuuWindow :
                /\ st[t].spec_mode = st[s].spec_mode
                /\ st[s].seq \in {st[t].seq, LastSeq(st[t])}
  <2>1. CASE s \in RuuWindow
    BY <2>1
  <2>2. CASE s \in LsqWindow
    <3>1. PICK t \in RuuWindow : PartOf(t, s)
      BY <2>2, WindowParts
    <3> QED
      BY <3>1 DEF PartOf, LastSeq
  <2> QED
    BY <2>1, <2>2, WindowIs
<1>5. ASSUME NEW s \in Window, NEW t \in Window, ~st[s].spec_mode, st[t].spec_mode
      PROVE  st[s].seq < st[t].seq
  <2>1. PICK u \in RuuWindow : /\ ~st[u].spec_mode
                               /\ st[s].seq \in {st[u].seq, LastSeq(st[u])}
    BY <1>4, <1>5
  <2>2. PICK v \in RuuWindow : /\ st[v].spec_mode
                               /\ st[t].seq \in {st[v].seq, LastSeq(st[v])}
    BY <1>4, <1>5
  <2>3. LastSeq(st[u]) < st[v].seq
    BY <1>3, <2>1, <2>2, SeqNames
  <2>4. /\ st[u].seq \in Nat /\ LastSeq(st[u]) \in Nat /\ st[u].seq <= LastSeq(st[u])
        /\ st[v].seq \in Nat /\ LastSeq(st[v]) \in Nat /\ st[v].seq <= LastSeq(st[v])
    BY SeqType, WindowIs
  <2> QED
    BY <2>1, <2>2, <2>3, <2>4
<1>6. ASSUME ~spec_mode, NEW s \in Window PROVE ~st[s].spec_mode
  <2>1. \A t \in RuuWindow : ~st[t].spec_mode
    BY <1>1, <1>6 DEF SpecInv, SpecIndex, NoWrongPath
  <2> QED
    BY <1>4, <2>1
<1> QED
  BY <1>5, <1>6

\* What retires is older than what stays, completed and on the path.
LEMMA CommitTakes ==
    ASSUME TypeInv, OrderInv, SpecInv, RuuCommit, ~Panics
    PROVE  /\ RetiredNow \subseteq Window /\ Window' = Window \ RetiredNow
           /\ \A s \in RetiredNow : ~st[s].spec_mode /\ st[s].completed
           /\ \A s \in RetiredNow, t \in Window' : st[s].seq < st[t].seq
<1>1. /\ RuuHead \in RuuWindow /\ RuuWindow' = RuuWindow \ {RuuHead}
      /\ Age(RuuHead) = 0
  BY CommitWindow
<1>2. ~st[RuuHead].spec_mode
  BY CommitSpecInv
<1>3. HeadCompleted
  BY DEF RuuCommit, CanCommit
<1>4. Window' = RuuWindow' \cup LsqWindow'
  BY RuuSlotOf, LsqSlotOf DEF Window, RuuWindow, LsqWindow, Slots
<1>5. \A s \in RuuWindow \ {RuuHead} : LastSeq(st[RuuHead]) < st[s].seq
  BY <1>1, SeqNames, AgeType, SizeType DEF TypeInv, RuuWindow
<1>6. \A s \in Window : st[s].seq \in Nat /\ LastSeq(st[s]) \in Nat
                        /\ st[s].seq <= LastSeq(st[s])
  BY SeqType, WindowParts
<1>7. \A s \in RuuWindow, l \in LsqWindow :
         s # RuuHead /\ PartOf(s, l) => LastSeq(st[RuuHead]) < st[l].seq
  BY <1>1, <1>5, <1>6, WindowIs DEF PartOf
<1>8. CASE st[RuuHead].ea_comp
  <2>1. /\ LsqHead \in LsqWindow /\ LsqWindow' = LsqWindow \ {LsqHead}
        /\ Age(LsqHead) = 0
    BY <1>8, CommitWindow
  <2>2. PICK l \in LsqWindow : PartOf(RuuHead, l)
    BY <1>1, <1>8, WindowParts
  <2>3. st[LsqHead].seq <= st[l].seq
    BY <1>6, <2>1, SeqNames, AgeType, SizeType, WindowIs DEF TypeInv, LsqWindow
  <2>4. PICK s \in RuuWindow : PartOf(s, LsqHead)
    BY <2>1, WindowParts
  <2>5. s = RuuHead
    BY <1>1, <1>6, <1>7, <2>1, <2>2, <2>3, <2>4, WindowIs DEF PartOf, LastSeq
  <2>6. /\ st[LsqHead].seq = LastSeq(st[RuuHead])
        /\ st[LsqHead].spec_mode = st[RuuHead].spec_mode
    BY <2>4, <2>5 DEF PartOf, LastSeq
  <2>7. \A t \in LsqWindow \ {LsqHead} : st[LsqHead].seq < st[t].seq
    BY <2>1, SeqNames, AgeType, SizeType DEF TypeInv, LsqWindow
  <2>8. RetiredNow = {RuuHead, LsqHead}
    BY <1>8 DEF RetiredNow
  <2>9. Window' = Window \ RetiredNow
    BY <1>1, <1>4, <2>1, <2>8, WindowIs
  <2>10. \A t \in Window' : /\ st[LsqHead].seq < st[t].seq
                            /\ st[RuuHead].seq < st[t].seq
    <3>1. \A t \in Window' : st[LsqHead].seq < st[t].seq
      BY <1>1, <1>4, <1>5, <2>1, <2>6, <2>7
    <3>2. /\ st[RuuHead].seq \in Nat /\ st[LsqHead].seq \in Nat
          /\ st[RuuHead].seq <= st[LsqHead].seq
      BY <1>1, <1>6, <2>1, <2>6, WindowIs
    <3>3. \A t \in Window' : st[t].seq \in Nat
      BY <1>6, <2>9
    <3> QED
      BY <3>1, <3>2, <3>3
  <2> QED
    BY <1>1, <1>2, <1>3, <1>8, <2>1, <2>6, <2>8, <2>9, <2>10, WindowIs DEF HeadCompleted
<1>9. CASE ~st[RuuHead].ea_comp
  <2>1. LsqWindow' = LsqWindow
    BY <1>9, CommitWindow
  <2>2. RetiredNow = {RuuHead}
    BY <1>9 DEF RetiredNow
  <2>3. Window' = Window \ RetiredNow
    BY <1>1, <1>4, <2>1, <2>2, WindowIs
  <2>4. \A t \in Window' : st[RuuHead].seq < st[t].seq
    <3>1. \A t \in LsqWindow : LastSeq(st[RuuHead]) < st[t].seq
      BY <1>7, <1>9, WindowParts DEF PartOf
    <3>2. \A t \in Window' : LastSeq(st[RuuHead]) < st[t].seq
      BY <1>1, <1>4, <1>5, <2>1, <3>1
    <3>3. \A t \in Window' : st[t].seq \in Nat
      BY <1>6, <2>3
    <3>4. RuuHead \in Window
      BY <1>1, WindowIs
    <3> QED
      BY <1>6, <3>2, <3>3, <3>4
  <2> QED
    BY <1>1, <1>2, <1>3, <2>2, <2>3, <2>4, WindowIs DEF HeadCompleted
<1> QED
  BY <1>8, <1>9

\* A recovery takes exactly what is speculative.
LEMMA RecoverTakes ==
    ASSUME TypeInv, OrderInv, SpecInv, WritebackRecover, ~Panics
    PROVE  /\ Completing \in Window /\ ~st[Completing].spec_mode
           /\ Window' = {s \in Window : ~st[s].spec_mode}
           /\ Squashed(Completing) = {s \in Window : st[s].spec_mode}
<1>1. PICK c : c = Completing
  OBVIOUS
<1>2. /\ c \in RuuWindow
      /\ RuuWindow' = {s \in RuuWindow : Age(s) <= Age(c)}
      /\ LsqWindow' = {s \in LsqWindow : Age(s) < LSQ_num - SquashedMem(c)}
      /\ SquashedMem(c) \in 0 .. LSQ_num
  BY <1>1, RecoverWindow
<1>3. \A s \in RuuWindow \cup LsqWindow : Age(s) \in Nat
  BY AgeType, SizeType DEF TypeInv, RuuWindow, LsqWindow
<1>4. \A s \in RuuWindow : st[s].spec_mode <=> Age(s) > Age(c)
  <2>1. \A s \in RuuWindow : s[2] \in Indices /\ s = RuuSlot(s[2]) /\ InRuu(s[2])
                             /\ Age(s) = RuuAge(s[2])
    BY RuuSlotOf, AgeOf DEF RuuWindow
  <2>2. st[c].recover_inst /\ spec_mode /\ ~st[c].completed
    BY <1>1 DEF WritebackRecover, Panics, WritebackPanics
  <2>3. PICK b \in Indices : BeginsAt(b)
    BY <2>2 DEF SpecInv, SpecIndex
  <2>4. c[2] = b
    BY <1>2, <2>1, <2>2, <2>3 DEF BeginsAt, Waiting
  <2> QED
    BY <1>2, <2>1, <2>3, <2>4 DEF BeginsAt
<1>5. \A l \in LsqWindow : st[l].spec_mode <=> Age(l) >= LSQ_num - SquashedMem(c)
  <2>1. ASSUME NEW l \in LsqWindow
        PROVE  st[l].spec_mode <=> ~(Age(l) < LSQ_num - SquashedMem(c))
    <3>1. PICK s \in RuuWindow : PartOf(s, l)
      BY WindowParts
    <3>2. Age(s) <= Age(c) <=> Age(l) < LSQ_num - SquashedMem(c)
      BY <1>2, <3>1, SquashedParts
    <3>3. st[l].spec_mode <=> st[s].spec_mode
      BY <3>1 DEF PartOf
    <3> QED
      BY <1>2, <1>3, <1>4, <3>2, <3>3
  <2>2. LSQ_num \in Nat
    BY SizeType DEF TypeInv, LsqShape
  <2> QED
    BY <1>2, <1>3, <2>1, <2>2
<1>6. LSQ_num \in Nat
  BY SizeType DEF TypeInv, LsqShape
<1>7. /\ RuuWindow' = {s \in RuuWindow : ~st[s].spec_mode}
      /\ LsqWindow' = {s \in LsqWindow : ~st[s].spec_mode}
  BY <1>2, <1>3, <1>4, <1>5, <1>6
<1>8. Window' = RuuWindow' \cup LsqWindow'
  BY RuuSlotOf, LsqSlotOf DEF Window, RuuWindow, LsqWindow, Slots
<1>9. Squashed(c) = {s \in Window : st[s].spec_mode}
  <2>1. SquashedRuu(c) = {s \in RuuWindow : st[s].spec_mode}
    BY <1>4 DEF SquashedRuu, RuuWindow
  <2>2. SquashedLsq(c) = {s \in LsqWindow : st[s].spec_mode}
    BY <1>5 DEF SquashedLsq, LsqWindow
  <2> QED
    BY <2>1, <2>2, WindowIs DEF Squashed
<1>10. ~st[c].spec_mode
  BY <1>2, <1>3, <1>4
<1> QED
  BY <1>1, <1>2, <1>7, <1>8, <1>9, <1>10, WindowIs

\* A dispatch puts its operations behind all others.
LEMMA DispatchAdds ==
    ASSUME TypeInv, CanDispatch, NEW npc, NEW addr, Install(npc, addr),
           RUU_head' = RUU_head, LSQ_head' = LSQ_head
    PROVE  /\ NewOnes \subseteq Slots /\ NewOnes \cap Window = {}
           /\ Window' = Window \cup NewOnes
           /\ NewRuu \notin Window /\ NewLsq \notin Window
<1>1. /\ NewRuu \in RuuSlots \ RuuWindow /\ RuuWindow' = RuuWindow \cup {NewRuu}
      /\ NewLsq \in LsqSlots \ LsqWindow
      /\ LsqWindow' = LsqWindow \cup (NewOnes \cap LsqSlots)
  BY InstallWindow
<1>2. Window' = RuuWindow' \cup LsqWindow'
  BY RuuSlotOf, LsqSlotOf DEF Window, RuuWindow, LsqWindow, Slots
<1>3. /\ NewRuu \notin Window /\ NewLsq \notin Window
      /\ NewRuu \in Slots /\ NewLsq \in Slots /\ NewRuu \notin LsqSlots
  BY <1>1, RuuSlotOf, LsqSlotOf, WindowIs DEF RuuWindow, LsqWindow
<1>4. /\ NewOnes \subseteq {NewRuu, NewLsq}
      /\ NewOnes = {NewRuu} \cup (NewOnes \cap LsqSlots)
  BY <1>1, <1>3 DEF NewOnes
<1> QED
  BY <1>1, <1>2, <1>3, <1>4, WindowIs
=============================================================================
