---------------------------- MODULE CacheProofs -----------------------------
(***************************************************************************)
(* Theorems about module Cache, for every shape, policy and hash table.    *)
(***************************************************************************)
EXTENDS CacheProps, TLAPS, SequenceTheorems, WellFoundedInduction

BlkType == [Sets -> [Ways -> Entry]]
MemType == [Blocks -> [Words -> Values]]

-----------------------------------------------------------------------------
(* The list of the ways *)

LEMMA InitWayListMirrored == InitWayList \in LinkType /\ Mirrored(InitWayList)
<1> DEFINE l == InitWayList
<1>1. 0 \in Ways /\ assoc - 1 \in Ways /\ NULL \notin Ways /\ Ways \subseteq Int
  BY AssocAssumption DEF Ways, NULL
<1>2. /\ l.way_head = assoc - 1 /\ l.way_tail = 0
      /\ \A w \in Ways : /\ l.way_next[w] = IF w = 0 THEN NULL ELSE w - 1
                         /\ l.way_prev[w] = IF w = assoc - 1 THEN NULL ELSE w + 1
  BY DEF InitWayList
<1>3. \A w \in Ways : /\ w # 0 => w - 1 \in Ways /\ w - 1 # assoc - 1
                      /\ w # assoc - 1 => w + 1 \in Ways /\ w + 1 # 0
  BY AssocAssumption DEF Ways
<1>4. l \in LinkType
  BY <1>1, <1>3 DEF InitWayList, LinkType
<1>5. \A w \in Ways : /\ (w = 0 <=> l.way_next[w] = NULL)
                      /\ (w = assoc - 1 <=> l.way_prev[w] = NULL)
  BY <1>1, <1>2, <1>3
<1>6. \A w \in Ways : /\ w # 0 => l.way_prev[w - 1] = w
                      /\ w # assoc - 1 => l.way_next[w + 1] = w
  BY <1>1, <1>2, <1>3
<1> HIDE DEF l
<1>7. Mirrored(l)
  BY <1>1, <1>2, <1>3, <1>5, <1>6 DEF Mirrored, Asserted
<1> QED BY <1>4, <1>7 DEF l

\* The links when a way that is not at the head is moved there.
LEMMA HeadLinks ==
    ASSUME NEW l \in LinkType, Mirrored(l), NEW w \in Ways, l.way_prev[w] # NULL
    PROVE  LET m == MovedToHead(l, w)
               p == l.way_prev[w]
               x == l.way_next[w]
               h == l.way_head
           IN  /\ p \in Ways /\ h \in Ways /\ h # w /\ x \in Ways \cup {NULL}
               /\ m \in LinkType
               /\ m.way_head = w
               /\ m.way_tail = IF x = NULL THEN p ELSE l.way_tail
               /\ \A v \in Ways :
                   /\ m.way_next[v] = IF v = w THEN h ELSE IF v = p THEN x ELSE l.way_next[v]
                   /\ m.way_prev[v] = IF v = h THEN w ELSE IF v = w THEN NULL
                                      ELSE IF v = x THEN p ELSE l.way_prev[v]
<1> DEFINE u == Unlinked(l, w)
           m == LinkedAtHead(u, w)
           p == l.way_prev[w]
           x == l.way_next[w]
           h == l.way_head
<1>1. MovedToHead(l, w) = m
  BY DEF MovedToHead
<1>2. p \in Ways /\ h \in Ways /\ h # w /\ x \in Ways \cup {NULL}
  BY DEF Mirrored, Asserted, Ways, NULL
<1>3. m \in LinkType
  BY <1>2 DEF LinkedAtHead, Unlinked, LinkType
<1>4. /\ m.way_head = w
      /\ m.way_tail = IF x = NULL THEN p ELSE l.way_tail
      /\ \A v \in Ways :
          /\ m.way_next[v] = IF v = w THEN h ELSE IF v = p THEN x ELSE l.way_next[v]
          /\ m.way_prev[v] = IF v = h THEN w ELSE IF v = w THEN NULL
                             ELSE IF v = x THEN p ELSE l.way_prev[v]
  BY <1>2 DEF LinkedAtHead, Unlinked, LinkType
<1> QED
  BY <1>1, <1>2, <1>3, <1>4

\* The links when a way that is not at the tail is moved there.
LEMMA TailLinks ==
    ASSUME NEW l \in LinkType, Mirrored(l), NEW w \in Ways, l.way_next[w] # NULL
    PROVE  LET m == MovedToTail(l, w)
               p == l.way_prev[w]
               x == l.way_next[w]
               t == l.way_tail
           IN  /\ x \in Ways /\ t \in Ways /\ t # w /\ p \in Ways \cup {NULL}
               /\ m \in LinkType
               /\ m.way_head = IF p = NULL THEN x ELSE l.way_head
               /\ m.way_tail = w
               /\ \A v \in Ways :
                   /\ m.way_prev[v] = IF v = w THEN t ELSE IF v = x THEN p ELSE l.way_prev[v]
                   /\ m.way_next[v] = IF v = t THEN w ELSE IF v = w THEN NULL
                                      ELSE IF v = p THEN x ELSE l.way_next[v]
<1> DEFINE u == Unlinked(l, w)
           m == LinkedAtTail(u, w)
           p == l.way_prev[w]
           x == l.way_next[w]
           t == l.way_tail
<1>1. MovedToTail(l, w) = m
  BY DEF MovedToTail
<1>2. x \in Ways /\ t \in Ways /\ t # w /\ p \in Ways \cup {NULL}
  BY DEF Mirrored, Asserted, Ways, NULL
<1>3. m \in LinkType
  BY <1>2 DEF LinkedAtTail, Unlinked, LinkType
<1>4. /\ m.way_head = IF p = NULL THEN x ELSE l.way_head
      /\ m.way_tail = w
      /\ \A v \in Ways :
          /\ m.way_prev[v] = IF v = w THEN t ELSE IF v = x THEN p ELSE l.way_prev[v]
          /\ m.way_next[v] = IF v = t THEN w ELSE IF v = w THEN NULL
                             ELSE IF v = p THEN x ELSE l.way_next[v]
  BY <1>2 DEF LinkedAtTail, Unlinked, LinkType
<1> QED
  BY <1>1, <1>2, <1>3, <1>4

\* Taking a way out and putting it at the head leaves a well formed list, of
\* which it is the first.
LEMMA MovedToHeadMirrored ==
    ASSUME NEW l \in LinkType, Mirrored(l), NEW w \in Ways
    PROVE  /\ MovedToHead(l, w) \in LinkType
           /\ Mirrored(MovedToHead(l, w))
           /\ MovedToHead(l, w).way_head = w
<1>1. CASE l.way_prev[w] = NULL
  BY <1>1 DEF MovedToHead, Mirrored, Asserted
<1>2. CASE l.way_prev[w] # NULL
  <2> DEFINE m == MovedToHead(l, w)
  <2>1. NULL \notin Ways
    BY DEF Ways, NULL
  <2>2. m \in LinkType /\ m.way_head = w
    BY <1>2, HeadLinks
  <2>3. Mirrored(m)
    <3> HIDE DEF m
    <3>1. LET p == l.way_prev[w]
              x == l.way_next[w]
              h == l.way_head
          IN  /\ p \in Ways /\ h \in Ways /\ h # w /\ x \in Ways \cup {NULL}
              /\ m.way_head = w
              /\ m.way_tail = IF x = NULL THEN p ELSE l.way_tail
              /\ \A v \in Ways :
                  /\ m.way_next[v] = IF v = w THEN h ELSE IF v = p THEN x
                                     ELSE l.way_next[v]
                  /\ m.way_prev[v] = IF v = h THEN w ELSE IF v = w THEN NULL
                                     ELSE IF v = x THEN p ELSE l.way_prev[v]
      BY <1>2, HeadLinks DEF m
    <3> QED
      BY <1>2, <2>1, <3>1 DEF Mirrored, Asserted
  <2> QED BY <2>2, <2>3
<1> QED BY <1>1, <1>2

LEMMA MovedToTailMirrored ==
    ASSUME NEW l \in LinkType, Mirrored(l), NEW w \in Ways
    PROVE  MovedToTail(l, w) \in LinkType /\ Mirrored(MovedToTail(l, w))
<1>1. CASE l.way_next[w] = NULL
  BY <1>1 DEF MovedToTail
<1>2. CASE l.way_next[w] # NULL
  <2> DEFINE m == MovedToTail(l, w)
  <2>1. NULL \notin Ways
    BY DEF Ways, NULL
  <2>2. m \in LinkType
    BY <1>2, TailLinks
  <2>3. Mirrored(m)
    <3> HIDE DEF m
    <3>1. LET p == l.way_prev[w]
              x == l.way_next[w]
              t == l.way_tail
          IN  /\ x \in Ways /\ t \in Ways /\ t # w /\ p \in Ways \cup {NULL}
              /\ m.way_head = IF p = NULL THEN x ELSE l.way_head
              /\ m.way_tail = w
              /\ \A v \in Ways :
                  /\ m.way_prev[v] = IF v = w THEN t ELSE IF v = x THEN p
                                     ELSE l.way_prev[v]
                  /\ m.way_next[v] = IF v = t THEN w ELSE IF v = w THEN NULL
                                     ELSE IF v = p THEN x ELSE l.way_next[v]
      BY <1>2, TailLinks DEF m
    <3> QED
      BY <1>2, <2>1, <3>1 DEF Mirrored, Asserted
  <2> QED BY <2>2, <2>3
<1> QED BY <1>1, <1>2

-----------------------------------------------------------------------------
(* The order of the ways *)

\* Induction over the natural numbers, for a set instead of a predicate.
LEMMA NatSetInduction ==
    ASSUME NEW S, 0 \in S, \A k \in Nat : k \in S => k + 1 \in S
    PROVE  Nat \subseteq S
<1> SUFFICES ASSUME Nat \ S # {} PROVE FALSE
  OBVIOUS
<1>1. PICK x \in Nat \ S : \A y \in Nat \ S : ~(<<y, x>> \in OpToRel(<, Nat))
  BY NatLessThanWellFounded, WFMin
<1>2. \A y \in Nat \ S : ~(y < x)
  BY <1>1 DEF OpToRel
<1>3. x # 0
  OBVIOUS
<1>4. x - 1 \in Nat /\ x - 1 < x
  BY <1>3
<1>5. x - 1 \in S
  BY <1>2, <1>4
<1> QED
  BY <1>4, <1>5

\* q is the list that the links of l make, and every way is in it.
InOrder(l, q) ==
    /\ q \in [1 .. assoc -> Ways]
    /\ \A j, k \in 1 .. assoc : q[j] = q[k] => j = k
    /\ \A w \in Ways : \E k \in 1 .. assoc : q[k] = w
    /\ l.way_head = q[1] /\ l.way_tail = q[assoc]
    /\ \A k \in 1 .. assoc :
        /\ l.way_next[q[k]] = IF k = assoc THEN NULL ELSE q[k + 1]
        /\ l.way_prev[q[k]] = IF k = 1 THEN NULL ELSE q[k - 1]

LEMMA InitOrder == \E q \in [1 .. assoc -> Ways] : InOrder(InitWayList, q)
<1> DEFINE n == assoc
           q == [k \in 1 .. n |-> n - k]
           l == InitWayList
<1>0. n \in Nat \ {0}
  BY AssocAssumption
<1>1. q \in [1 .. n -> Ways]
  BY <1>0 DEF Ways
<1>2. \A j, k \in 1 .. n : q[j] = q[k] => j = k
  BY <1>0
<1>3. ASSUME NEW w \in Ways PROVE \E k \in 1 .. n : q[k] = w
  <2>1. n - w \in 1 .. n /\ q[n - w] = w
    BY <1>0 DEF Ways
  <2> QED
    BY <2>1
<1>4. l.way_head = q[1] /\ l.way_tail = q[n]
  BY <1>0 DEF InitWayList
<1>5. ASSUME NEW k \in 1 .. n
      PROVE  /\ l.way_next[q[k]] = IF k = n THEN NULL ELSE q[k + 1]
             /\ l.way_prev[q[k]] = IF k = 1 THEN NULL ELSE q[k - 1]
  <2>1. q[k] = n - k /\ n - k \in Ways
    BY <1>0 DEF Ways
  <2>2. /\ l.way_next[n - k] = IF n - k = 0 THEN NULL ELSE (n - k) - 1
        /\ l.way_prev[n - k] = IF n - k = n - 1 THEN NULL ELSE (n - k) + 1
    BY <2>1 DEF InitWayList
  <2>3. /\ k # n => k + 1 \in 1 .. n
        /\ k # 1 => k - 1 \in 1 .. n
    BY <1>0
  <2> HIDE DEF l
  <2> QED
    BY <1>0, <2>1, <2>2, <2>3
<1> QED
  BY <1>1, <1>2, <1>3, <1>4, <1>5 DEF InOrder

\* at follows the links of l from its head on.
Walk(l, at) ==
    at = [k \in 1 .. assoc |->
             IF k = 1 THEN l.way_head
             ELSE IF at[k - 1] = NULL THEN NULL ELSE l.way_next[at[k - 1]]]

\* It visits the ways in their order.
LEMMA Walked ==
    ASSUME NEW l, NEW q, InOrder(l, q), NEW at, Walk(l, at)
    PROVE  \A k \in 1 .. assoc : at[k] = q[k]
<1> DEFINE S == {n \in Nat : n + 1 \in 1 .. assoc => at[n + 1] = q[n + 1]}
<1>1. 0 \in S
  <2>1. 1 \in 1 .. assoc
    BY AssocAssumption
  <2>2. at[1] = l.way_head
    BY <2>1 DEF Walk
  <2> QED
    BY <2>2 DEF InOrder
<1>2. ASSUME NEW n \in Nat, n \in S PROVE n + 1 \in S
  <2> SUFFICES ASSUME n + 2 \in 1 .. assoc PROVE at[n + 2] = q[n + 2]
    OBVIOUS
  <2>1. /\ n + 1 \in 1 .. assoc /\ n + 1 # assoc
        /\ n + 2 # 1 /\ (n + 2) - 1 = n + 1 /\ (n + 1) + 1 = n + 2
    BY AssocAssumption
  <2>2. at[n + 2] = IF at[n + 1] = NULL THEN NULL ELSE l.way_next[at[n + 1]]
    <3>1. at[n + 2] = IF at[(n + 2) - 1] = NULL THEN NULL ELSE l.way_next[at[(n + 2) - 1]]
      BY <2>1 DEF Walk
    <3> QED
      BY <2>1, <3>1
  <2>3. at[n + 1] = q[n + 1] /\ q[n + 1] # NULL
    BY <1>2, <2>1 DEF InOrder, Ways, NULL
  <2>4. l.way_next[q[n + 1]] = q[n + 2]
    <3>1. l.way_next[q[n + 1]] = q[(n + 1) + 1]
      BY <2>1 DEF InOrder
    <3> QED
      BY <2>1, <3>1
  <2> QED
    BY <2>2, <2>3, <2>4
<1>3. \A n \in Nat : n \in S
  <2> HIDE DEF S
  <2> QED
    BY <1>1, <1>2, NatSetInduction
<1> TAKE k \in 1 .. assoc
<1>4. k - 1 \in Nat /\ (k - 1) + 1 = k
  BY AssocAssumption
<1> QED
  BY <1>3, <1>4

LEMMA WayAtIs ==
    ASSUME NEW l, NEW q, InOrder(l, q)
    PROVE  \A k \in 1 .. assoc : WayAt(l)[k] = q[k]
<1> DEFINE at == CHOOSE f : Walk(l, f)
<1>1. Walk(l, q)
  <2>1. q = [k \in 1 .. assoc |-> q[k]]
    BY DEF InOrder
  <2>2. ASSUME NEW k \in 1 .. assoc
        PROVE  q[k] = IF k = 1 THEN l.way_head
                      ELSE IF q[k - 1] = NULL THEN NULL ELSE l.way_next[q[k - 1]]
    <3>1. CASE k = 1
      BY <3>1 DEF InOrder
    <3>2. CASE k # 1
      <4>1. k - 1 \in 1 .. assoc /\ k - 1 # assoc /\ (k - 1) + 1 = k
        BY <3>2, AssocAssumption
      <4>2. l.way_next[q[k - 1]] = q[(k - 1) + 1] /\ q[k - 1] # NULL
        BY <4>1 DEF InOrder, Ways, NULL
      <4> QED
        BY <3>2, <4>1, <4>2
    <3> QED
      BY <3>1, <3>2
  <2> QED
    BY <2>1, <2>2 DEF Walk
<1>2. Walk(l, at)
  BY <1>1
<1>3. WayAt(l) = at
  BY DEF WayAt, Walk
<1> HIDE DEF at
<1> QED
  BY <1>2, <1>3, Walked

\* The order once its j-th way has moved to the front, and to the end.
ToFront(q, j) ==
    [k \in 1 .. assoc |-> IF k = 1 THEN q[j] ELSE IF k <= j THEN q[k - 1] ELSE q[k]]
ToEnd(q, j) ==
    [k \in 1 .. assoc |-> IF k = assoc THEN q[j] ELSE IF k >= j THEN q[k + 1] ELSE q[k]]

LEMMA ToFrontOrder ==
    ASSUME NEW l, NEW q, InOrder(l, q), NEW j \in 1 .. assoc, NEW p, p = ToFront(q, j)
    PROVE  /\ p \in [1 .. assoc -> Ways]
           /\ \A i, k \in 1 .. assoc : p[i] = p[k] => i = k
           /\ \A w \in Ways : \E k \in 1 .. assoc : p[k] = w
<1> DEFINE n == assoc
           f(k) == IF k = 1 THEN j ELSE IF k <= j THEN k - 1 ELSE k
<1>0. n \in Nat \ {0} /\ j \in 1 .. n
  BY AssocAssumption
<1>1. /\ q \in [1 .. n -> Ways]
      /\ \A i, k \in 1 .. n : q[i] = q[k] => i = k
      /\ \A w \in Ways : \E k \in 1 .. n : q[k] = w
  BY DEF InOrder
<1>2. p = [k \in 1 .. n |-> q[f(k)]]
  BY DEF ToFront
<1> HIDE DEF n
<1>3. \A k \in 1 .. n : f(k) \in 1 .. n
  BY <1>0
<1>4. \A i, k \in 1 .. n : f(i) = f(k) => i = k
  BY <1>0
<1>5. ASSUME NEW i \in 1 .. n PROVE \E k \in 1 .. n : f(k) = i
  <2>1. CASE i = j
    <3>1. 1 \in 1 .. n /\ f(1) = i
      BY <1>0, <2>1
    <3> QED
      BY <3>1
  <2>2. CASE i < j
    <3>1. i + 1 \in 1 .. n /\ f(i + 1) = i
      BY <1>0, <2>2
    <3> QED
      BY <3>1
  <2>3. CASE i > j
    <3>1. f(i) = i
      BY <1>0, <2>3
    <3> QED
      BY <3>1
  <2> QED
    BY <1>0, <2>1, <2>2, <2>3
<1> HIDE DEF f
<1>6. p \in [1 .. n -> Ways] /\ \A k \in 1 .. n : p[k] = q[f(k)]
  BY <1>1, <1>2, <1>3
<1>7. \A i, k \in 1 .. n : p[i] = p[k] => i = k
  BY <1>1, <1>3, <1>4, <1>6
<1>8. ASSUME NEW w \in Ways PROVE \E k \in 1 .. n : p[k] = w
  <2>1. PICK i \in 1 .. n : q[i] = w
    BY <1>1
  <2>2. PICK k \in 1 .. n : f(k) = i
    BY <1>5
  <2> QED
    BY <1>6, <2>1, <2>2
<1> QED
  BY <1>6, <1>7, <1>8 DEF n

LEMMA ToEndOrder ==
    ASSUME NEW l, NEW q, InOrder(l, q), NEW j \in 1 .. assoc, NEW p, p = ToEnd(q, j)
    PROVE  /\ p \in [1 .. assoc -> Ways]
           /\ \A i, k \in 1 .. assoc : p[i] = p[k] => i = k
           /\ \A w \in Ways : \E k \in 1 .. assoc : p[k] = w
<1> DEFINE n == assoc
           f(k) == IF k = n THEN j ELSE IF k >= j THEN k + 1 ELSE k
<1>0. n \in Nat \ {0} /\ j \in 1 .. n
  BY AssocAssumption
<1>1. /\ q \in [1 .. n -> Ways]
      /\ \A i, k \in 1 .. n : q[i] = q[k] => i = k
      /\ \A w \in Ways : \E k \in 1 .. n : q[k] = w
  BY DEF InOrder
<1>2. p = [k \in 1 .. n |-> q[f(k)]]
  BY DEF ToEnd
<1> HIDE DEF n
<1>3. \A k \in 1 .. n : f(k) \in 1 .. n
  BY <1>0
<1>4. \A i, k \in 1 .. n : f(i) = f(k) => i = k
  BY <1>0
<1>5. ASSUME NEW i \in 1 .. n PROVE \E k \in 1 .. n : f(k) = i
  <2>1. CASE i = j
    <3>1. n \in 1 .. n /\ f(n) = i
      BY <1>0, <2>1
    <3> QED
      BY <3>1
  <2>2. CASE i > j
    <3>1. i - 1 \in 1 .. n /\ f(i - 1) = i
      BY <1>0, <2>2
    <3> QED
      BY <3>1
  <2>3. CASE i < j
    <3>1. f(i) = i
      BY <1>0, <2>3
    <3> QED
      BY <3>1
  <2> QED
    BY <1>0, <2>1, <2>2, <2>3
<1> HIDE DEF f
<1>6. p \in [1 .. n -> Ways] /\ \A k \in 1 .. n : p[k] = q[f(k)]
  BY <1>1, <1>2, <1>3
<1>7. \A i, k \in 1 .. n : p[i] = p[k] => i = k
  BY <1>1, <1>3, <1>4, <1>6
<1>8. ASSUME NEW w \in Ways PROVE \E k \in 1 .. n : p[k] = w
  <2>1. PICK i \in 1 .. n : q[i] = w
    BY <1>1
  <2>2. PICK k \in 1 .. n : f(k) = i
    BY <1>5
  <2> QED
    BY <1>6, <2>1, <2>2
<1> QED
  BY <1>6, <1>7, <1>8 DEF n

\* Moving the j-th way to the head of the list moves it to the front of the order.
LEMMA MovedToHeadOrder ==
    ASSUME NEW l \in LinkType, Mirrored(l), NEW q, InOrder(l, q), NEW j \in 1 .. assoc
    PROVE  InOrder(MovedToHead(l, q[j]), ToFront(q, j))
<1> DEFINE n == assoc
           w == q[j]
           m == MovedToHead(l, w)
           r == ToFront(q, j)
<1>0. n \in Nat \ {0} /\ 1 \in 1 .. n /\ j \in 1 .. n
  BY AssocAssumption
<1>1. /\ q \in [1 .. n -> Ways] /\ NULL \notin Ways
      /\ \A i, k \in 1 .. n : q[i] = q[k] => i = k
      /\ l.way_head = q[1] /\ l.way_tail = q[n]
      /\ \A k \in 1 .. n : /\ l.way_next[q[k]] = IF k = n THEN NULL ELSE q[k + 1]
                           /\ l.way_prev[q[k]] = IF k = 1 THEN NULL ELSE q[k - 1]
  BY DEF InOrder, Ways, NULL
<1>2. \A k \in 1 .. n : r[k] = IF k = 1 THEN q[j] ELSE IF k <= j THEN q[k - 1] ELSE q[k]
  BY DEF ToFront
<1>3. /\ r \in [1 .. n -> Ways]
      /\ \A i, k \in 1 .. n : r[i] = r[k] => i = k
      /\ \A v \in Ways : \E k \in 1 .. n : r[k] = v
  BY ToFrontOrder
<1>4. CASE j = 1
  <2>1. m = l
    BY <1>0, <1>1, <1>4 DEF MovedToHead
  <2>2. r = q
    <3>1. \A k \in 1 .. n : r[k] = q[k]
      BY <1>0, <1>2, <1>4
    <3>2. r = [k \in 1 .. n |-> r[k]] /\ q = [k \in 1 .. n |-> q[k]]
      BY <1>1, <1>3
    <3> HIDE DEF r
    <3> QED
      BY <3>1, <3>2
  <2> QED
    BY <2>1, <2>2
<1>5. CASE j # 1
  <2>0. j - 1 \in 1 .. n /\ (j # n => j + 1 \in 1 .. n)
    BY <1>0, <1>5
  <2> DEFINE x == IF j = n THEN NULL ELSE q[j + 1]
             p == q[j - 1]
             h == q[1]
  <2>1. l.way_prev[w] = p /\ l.way_next[w] = x /\ w \in Ways /\ p \in Ways /\ p # NULL
    BY <1>0, <1>1, <1>5, <2>0
  <2>2. /\ m.way_head = w
        /\ m.way_tail = IF x = NULL THEN p ELSE l.way_tail
        /\ \A v \in Ways :
            /\ m.way_next[v] = IF v = w THEN h ELSE IF v = p THEN x ELSE l.way_next[v]
            /\ m.way_prev[v] = IF v = h THEN w ELSE IF v = w THEN NULL
                               ELSE IF v = x THEN p ELSE l.way_prev[v]
    <3>1. l.way_prev[w] # NULL
      BY <2>1
    <3> HIDE DEF m
    <3> QED
      BY <1>1, <2>1, <3>1, HeadLinks DEF m
  <2> HIDE DEF m, r, n
  <2>3. m.way_head = r[1] /\ m.way_tail = r[n]
    <3>0. /\ m.way_head = w /\ m.way_tail = IF x = NULL THEN p ELSE l.way_tail
          /\ x = NULL <=> j = n
      BY <1>1, <2>0, <2>2
    <3> HIDE DEF x
    <3>1. m.way_head = r[1]
      BY <1>0, <1>2, <3>0
    <3>2. CASE j = n
      <4>1. r[n] = q[n - 1]
        BY <1>0, <1>2, <1>5, <3>2
      <4> QED
        BY <3>0, <3>1, <3>2, <4>1
    <3>3. CASE j # n
      <4>1. r[n] = q[n]
        <5>1. n # 1 /\ ~(n <= j) /\ n \in 1 .. n
          BY <1>0, <3>3
        <5> QED
          BY <1>2, <5>1
      <4> QED
        BY <1>1, <3>0, <3>1, <3>3, <4>1
    <3> QED
      BY <3>1, <3>2, <3>3
  <2>4. ASSUME NEW k \in 1 .. n
        PROVE  /\ m.way_next[r[k]] = IF k = n THEN NULL ELSE r[k + 1]
               /\ m.way_prev[r[k]] = IF k = 1 THEN NULL ELSE r[k - 1]
    <3>1. CASE k = 1
      <4>1. k # n /\ k + 1 \in 1 .. n /\ k + 1 # 1 /\ k + 1 <= j /\ (k + 1) - 1 = k
        BY <1>0, <1>5, <3>1
      <4>2. r[k] = w /\ r[k + 1] = q[1] /\ w # h
        BY <1>0, <1>1, <1>2, <1>5, <3>1, <4>1
      <4> QED
        BY <2>1, <2>2, <3>1, <4>1, <4>2
    <3>2. CASE 1 < k /\ k <= j
      <4> DEFINE i == k - 1
      <4>1. i \in 1 .. n /\ i # n /\ i + 1 = k /\ i # j /\ k # 1 /\ i <= j
            /\ (j # n => i # j + 1) /\ (i = j - 1 <=> k = j)
            /\ (i # 1 => i - 1 \in 1 .. n)
        BY <1>0, <3>2
      <4>2. r[k] = q[i] /\ r[i] = IF i = 1 THEN w ELSE q[i - 1]
        BY <1>2, <3>2, <4>1
      <4>3. q[i] \in Ways /\ q[i] # w /\ q[i] # x /\ (q[i] = h <=> i = 1)
            /\ (q[i] = p <=> i = j - 1)
        BY <1>0, <1>1, <2>0, <4>1
      <4>4. l.way_next[q[i]] = q[k] /\ l.way_prev[q[i]] = IF i = 1 THEN NULL ELSE q[i - 1]
        BY <1>1, <4>1
      <4> HIDE DEF i
      <4>5. m.way_prev[q[i]] = IF i = 1 THEN w ELSE q[i - 1]
        BY <2>2, <4>3, <4>4
      <4>6. m.way_next[q[i]] = IF k = j THEN x ELSE q[k]
        BY <2>2, <4>1, <4>3, <4>4
      <4>7. k # n => r[k + 1] = IF k = j THEN q[j + 1] ELSE q[k]
        <5>1. k # n => /\ k + 1 \in 1 .. n /\ k + 1 # 1 /\ (k + 1) - 1 = k
                       /\ (k + 1 <= j <=> k # j)
          BY <1>0, <3>2
        <5> QED
          BY <1>2, <5>1
      <4>8. k = n => k = j
        BY <1>0, <3>2
      <4> QED
        BY <4>1, <4>2, <4>5, <4>6, <4>7, <4>8 DEF i
    <3>3. CASE j < k
      <4>1. k # 1 /\ ~(k <= j) /\ k # j /\ k # j - 1 /\ j # n /\ k - 1 \in 1 .. n
            /\ (k - 1 <= j <=> k = j + 1) /\ (k - 1 = 1 => k # j + 1) /\ (k - 1) + 1 = k
            /\ (k # n => k + 1 \in 1 .. n /\ k + 1 # 1 /\ ~(k + 1 <= j))
        BY <1>0, <1>5, <3>3
      <4>2. r[k] = q[k] /\ (k # n => r[k + 1] = q[k + 1])
        BY <1>2, <4>1
      <4>3. q[k] \in Ways /\ q[k] # w /\ q[k] # p /\ q[k] # h /\ (q[k] = x <=> k = j + 1)
        BY <1>0, <1>1, <2>0, <4>1
      <4>4. /\ l.way_next[q[k]] = IF k = n THEN NULL ELSE q[k + 1]
            /\ l.way_prev[q[k]] = q[k - 1]
        BY <1>1, <4>1
      <4>5. m.way_next[q[k]] = IF k = n THEN NULL ELSE q[k + 1]
        BY <2>2, <4>3, <4>4
      <4>6. m.way_prev[q[k]] = IF k = j + 1 THEN p ELSE q[k - 1]
        BY <2>2, <4>3, <4>4
      <4>7. r[k - 1] = IF k = j + 1 THEN p ELSE q[k - 1]
        <5>1. k = j + 1 => (k - 1) - 1 = j - 1 /\ k - 1 # 1
          BY <1>0, <1>5
        <5>2. r[k - 1] = IF k - 1 = 1 THEN q[j] ELSE IF k - 1 <= j THEN q[(k - 1) - 1]
                         ELSE q[k - 1]
          BY <1>2, <4>1
        <5>3. k - 1 = 1 => FALSE
          BY <1>0, <1>5, <3>3
        <5> QED
          BY <4>1, <5>1, <5>2, <5>3
      <4> QED
        BY <4>1, <4>2, <4>5, <4>6, <4>7
    <3> QED
      BY <1>0, <3>1, <3>2, <3>3
  <2>5. InOrder(m, r)
    BY <1>3, <2>3, <2>4 DEF InOrder, n
  <2> QED
    BY <2>5 DEF m, r
<1> QED
  BY <1>4, <1>5

\* And moving it to the tail, to the end.
LEMMA MovedToTailOrder ==
    ASSUME NEW l \in LinkType, Mirrored(l), NEW q, InOrder(l, q), NEW j \in 1 .. assoc
    PROVE  InOrder(MovedToTail(l, q[j]), ToEnd(q, j))
<1> DEFINE n == assoc
           w == q[j]
           m == MovedToTail(l, w)
           r == ToEnd(q, j)
<1>0. n \in Nat \ {0} /\ 1 \in 1 .. n /\ n \in 1 .. n /\ j \in 1 .. n
  BY AssocAssumption
<1>1. /\ q \in [1 .. n -> Ways] /\ NULL \notin Ways
      /\ \A i, k \in 1 .. n : q[i] = q[k] => i = k
      /\ l.way_head = q[1] /\ l.way_tail = q[n]
      /\ \A k \in 1 .. n : /\ l.way_next[q[k]] = IF k = n THEN NULL ELSE q[k + 1]
                           /\ l.way_prev[q[k]] = IF k = 1 THEN NULL ELSE q[k - 1]
  BY DEF InOrder, Ways, NULL
<1>2. \A k \in 1 .. n : r[k] = IF k = n THEN q[j] ELSE IF k >= j THEN q[k + 1] ELSE q[k]
  BY DEF ToEnd
<1>3. /\ r \in [1 .. n -> Ways]
      /\ \A i, k \in 1 .. n : r[i] = r[k] => i = k
      /\ \A v \in Ways : \E k \in 1 .. n : r[k] = v
  BY ToEndOrder
<1>4. CASE j = n
  <2>1. m = l
    BY <1>0, <1>1, <1>4 DEF MovedToTail
  <2>2. r = q
    <3>1. \A k \in 1 .. n : r[k] = q[k]
      BY <1>0, <1>2, <1>4
    <3>2. r = [k \in 1 .. n |-> r[k]] /\ q = [k \in 1 .. n |-> q[k]]
      BY <1>1, <1>3
    <3> HIDE DEF r
    <3> QED
      BY <3>1, <3>2
  <2> QED
    BY <2>1, <2>2
<1>5. CASE j # n
  <2>0. j + 1 \in 1 .. n /\ (j # 1 => j - 1 \in 1 .. n)
    BY <1>0, <1>5
  <2> DEFINE p == IF j = 1 THEN NULL ELSE q[j - 1]
             x == q[j + 1]
             t == q[n]
  <2>1. l.way_prev[w] = p /\ l.way_next[w] = x /\ w \in Ways /\ x \in Ways /\ x # NULL
    BY <1>0, <1>1, <1>5, <2>0
  <2>2. /\ m.way_head = IF p = NULL THEN x ELSE l.way_head
        /\ m.way_tail = w
        /\ \A v \in Ways :
            /\ m.way_prev[v] = IF v = w THEN t ELSE IF v = x THEN p ELSE l.way_prev[v]
            /\ m.way_next[v] = IF v = t THEN w ELSE IF v = w THEN NULL
                               ELSE IF v = p THEN x ELSE l.way_next[v]
    <3>1. l.way_next[w] # NULL
      BY <2>1
    <3> HIDE DEF m
    <3> QED
      BY <1>1, <2>1, <3>1, TailLinks DEF m
  <2> HIDE DEF m, r, n
  <2>3. m.way_head = r[1] /\ m.way_tail = r[n]
    <3>0. /\ m.way_head = IF p = NULL THEN x ELSE l.way_head
          /\ m.way_tail = w /\ (p = NULL <=> j = 1)
      BY <1>1, <2>0, <2>2
    <3> HIDE DEF p
    <3>1. m.way_tail = r[n]
      BY <1>0, <1>2, <3>0
    <3>2. CASE j = 1
      <4>1. r[1] = q[j + 1]
        BY <1>0, <1>2, <1>5, <3>2
      <4> QED
        BY <3>0, <3>1, <3>2, <4>1
    <3>3. CASE j # 1
      <4>1. r[1] = q[1]
        <5>1. n # 1 /\ ~(1 >= j) /\ 1 \in 1 .. n
          BY <1>0, <3>3
        <5> QED
          BY <1>2, <5>1
      <4> QED
        BY <1>1, <3>0, <3>1, <3>3, <4>1
    <3> QED
      BY <3>2, <3>3
  <2>4. ASSUME NEW k \in 1 .. n
        PROVE  /\ m.way_next[r[k]] = IF k = n THEN NULL ELSE r[k + 1]
               /\ m.way_prev[r[k]] = IF k = 1 THEN NULL ELSE r[k - 1]
    <3>1. CASE k = n
      <4>1. k # 1 /\ k - 1 \in 1 .. n /\ k - 1 # n /\ k - 1 >= j /\ (k - 1) + 1 = k
        BY <1>0, <1>5, <3>1
      <4>2. r[k] = w /\ r[k - 1] = q[n] /\ w # t
        BY <1>0, <1>1, <1>2, <1>5, <3>1, <4>1
      <4> QED
        BY <2>1, <2>2, <3>1, <4>1, <4>2
    <3>2. CASE j <= k /\ k < n
      <4> DEFINE i == k + 1
      <4>1. i \in 1 .. n /\ i # 1 /\ i - 1 = k /\ i # j /\ k # n /\ i >= j
            /\ (j # 1 => i # j - 1) /\ (i = j + 1 <=> k = j)
            /\ (i # n => i + 1 \in 1 .. n)
        BY <1>0, <3>2
      <4>2. r[k] = q[i] /\ r[i] = IF i = n THEN w ELSE q[i + 1]
        BY <1>2, <3>2, <4>1
      <4>3. q[i] \in Ways /\ q[i] # w /\ q[i] # p /\ (q[i] = t <=> i = n)
            /\ (q[i] = x <=> i = j + 1)
        BY <1>0, <1>1, <2>0, <4>1
      <4>4. l.way_prev[q[i]] = q[k] /\ l.way_next[q[i]] = IF i = n THEN NULL ELSE q[i + 1]
        BY <1>1, <4>1
      <4> HIDE DEF i
      <4>5. m.way_next[q[i]] = IF i = n THEN w ELSE q[i + 1]
        BY <2>2, <4>3, <4>4
      <4>6. m.way_prev[q[i]] = IF k = j THEN p ELSE q[k]
        BY <2>2, <4>1, <4>3, <4>4
      <4>7. k # 1 => r[k - 1] = IF k = j THEN q[j - 1] ELSE q[k]
        <5>1. k # 1 => /\ k - 1 \in 1 .. n /\ k - 1 # n /\ (k - 1) + 1 = k
                       /\ (k - 1 >= j <=> k # j)
          BY <1>0, <3>2
        <5> QED
          BY <1>2, <5>1
      <4>8. k = 1 => k = j
        BY <1>0, <3>2
      <4> QED
        BY <4>1, <4>2, <4>5, <4>6, <4>7, <4>8 DEF i
    <3>3. CASE k < j
      <4>1. k # n /\ ~(k >= j) /\ k # j /\ k # j + 1 /\ j # 1 /\ k + 1 \in 1 .. n
            /\ (k + 1 >= j <=> k = j - 1) /\ k + 1 # n
            /\ (k # 1 => k - 1 \in 1 .. n /\ k - 1 # n /\ ~(k - 1 >= j))
        BY <1>0, <1>5, <3>3
      <4>2. r[k] = q[k] /\ (k # 1 => r[k - 1] = q[k - 1])
        BY <1>2, <4>1
      <4>3. q[k] \in Ways /\ q[k] # w /\ q[k] # x /\ q[k] # t /\ (q[k] = p <=> k = j - 1)
        BY <1>0, <1>1, <2>0, <4>1
      <4>4. /\ l.way_prev[q[k]] = IF k = 1 THEN NULL ELSE q[k - 1]
            /\ l.way_next[q[k]] = q[k + 1]
        BY <1>1, <4>1
      <4>5. m.way_prev[q[k]] = IF k = 1 THEN NULL ELSE q[k - 1]
        BY <2>2, <4>3, <4>4
      <4>6. m.way_next[q[k]] = IF k = j - 1 THEN x ELSE q[k + 1]
        BY <2>2, <4>3, <4>4
      <4>7. r[k + 1] = IF k = j - 1 THEN x ELSE q[k + 1]
        <5>1. k = j - 1 => (k + 1) + 1 = j + 1
          BY <1>0
        <5>2. r[k + 1] = IF k + 1 >= j THEN q[(k + 1) + 1] ELSE q[k + 1]
          BY <1>2, <4>1
        <5> QED
          BY <4>1, <5>1, <5>2
      <4> QED
        BY <4>1, <4>2, <4>5, <4>6, <4>7
    <3> QED
      BY <1>0, <3>1, <3>2, <3>3
  <2>5. InOrder(m, r)
    BY <1>3, <2>3, <2>4 DEF InOrder, n
  <2> QED
    BY <2>5 DEF m, r
<1> QED
  BY <1>4, <1>5
-----------------------------------------------------------------------------
(* What is resident *)

\* A set in the order q, of which the first n ways hold valid blocks.
Packed(l, B, q, n) ==
    /\ InOrder(l, q) /\ n \in 0 .. assoc
    /\ \A k \in 1 .. assoc : B[q[k]].valid <=> k <= n

TagsOf(B, q, n) == [k \in 1 .. n |-> B[q[k]].tag]

LEMMA TagsType ==
    ASSUME NEW B \in [Ways -> Entry], NEW q \in [1 .. assoc -> Ways], NEW n \in 0 .. assoc
    PROVE  /\ TagsOf(B, q, n) \in Seq(Nat) /\ Len(TagsOf(B, q, n)) = n
           /\ \A k \in 1 .. n : TagsOf(B, q, n)[k] = B[q[k]].tag
<1> DEFINE f == TagsOf(B, q, n)
<1>1. n \in Nat /\ n <= assoc
  BY AssocAssumption
<1>2. \A k \in 1 .. n : B[q[k]].tag \in Nat
  BY <1>1, AssocAssumption DEF Entry
<1>3. f \in [1 .. n -> Nat] /\ \A k \in 1 .. n : f[k] = B[q[k]].tag
  BY <1>2 DEF TagsOf
<1> HIDE DEF f
<1>4. f \in Seq(Nat)
  BY <1>1, <1>3
<1>5. Len(f) = n
  BY <1>1, <1>3, <1>4
<1> QED
  BY <1>3, <1>4, <1>5 DEF f

\* The tags of one more way.
LEMMA TagsAppend ==
    ASSUME NEW B \in [Ways -> Entry], NEW q \in [1 .. assoc -> Ways], NEW k \in 1 .. assoc
    PROVE  Append(TagsOf(B, q, k - 1), B[q[k]].tag) = TagsOf(B, q, k)
<1> DEFINE s == TagsOf(B, q, k - 1)
           t == TagsOf(B, q, k)
           e == B[q[k]].tag
<1>0. k \in Nat \ {0} /\ k - 1 \in 0 .. assoc /\ k \in 0 .. assoc /\ k \in 1 .. k
  BY AssocAssumption
<1>1. s \in Seq(Nat) /\ Len(s) = k - 1 /\ \A i \in 1 .. k - 1 : s[i] = B[q[i]].tag
  BY <1>0, TagsType
<1>2. t \in Seq(Nat) /\ Len(t) = k /\ \A i \in 1 .. k : t[i] = B[q[i]].tag
  BY <1>0, TagsType
<1>3. e \in Nat
  BY DEF Entry
<1> HIDE DEF s, t
<1>4. t[k] = e
  BY <1>0, <1>2
<1> HIDE DEF e
<1>5. /\ Append(s, e) \in Seq(Nat) /\ Len(Append(s, e)) = k
      /\ \A i \in 1 .. k - 1 : Append(s, e)[i] = s[i]
      /\ Append(s, e)[k] = e
  <2>1. Len(s) + 1 = k
    BY <1>0, <1>1
  <2> QED
    BY <1>1, <1>3, <2>1, AppendProperties
<1>6. \A i \in 1 .. k : Append(s, e)[i] = t[i]
  <2> TAKE i \in 1 .. k
  <2>1. CASE i = k
    BY <1>4, <1>5, <2>1
  <2>2. CASE i # k
    <3>1. i \in 1 .. k - 1
      BY <1>0, <2>2
    <3> QED
      BY <1>1, <1>2, <1>5, <3>1
  <2> QED
    BY <2>1, <2>2
<1>7. Append(s, e) = t
  BY <1>2, <1>5, <1>6, SeqEqual
<1> QED
  BY <1>7 DEF s, t, e

\* tags gathers the tags of the valid ways, k after k.
Gather(l, B, tags) ==
    tags = [k \in 0 .. assoc |->
               IF k = 0 THEN <<>>
               ELSE IF B[WayAt(l)[k]].valid THEN Append(tags[k - 1], B[WayAt(l)[k]].tag)
               ELSE tags[k - 1]]

Upto(k, n) == IF k <= n THEN k ELSE n

LEMMA GatherStep ==
    ASSUME NEW l, NEW B \in [Ways -> Entry], NEW q, NEW n, Packed(l, B, q, n),
           NEW k \in 1 .. assoc
    PROVE  TagsOf(B, q, Upto(k, n)) =
              IF B[WayAt(l)[k]].valid
              THEN Append(TagsOf(B, q, Upto(k - 1, n)), B[WayAt(l)[k]].tag)
              ELSE TagsOf(B, q, Upto(k - 1, n))
<1>0. k \in Nat /\ n \in Nat
  BY AssocAssumption DEF Packed
<1>1. WayAt(l)[k] = q[k] /\ (B[q[k]].valid <=> k <= n) /\ q \in [1 .. assoc -> Ways]
  <2>1. InOrder(l, q) /\ (B[q[k]].valid <=> k <= n)
    BY DEF Packed
  <2>2. WayAt(l)[k] = q[k]
    BY <2>1, WayAtIs
  <2> QED
    BY <2>1, <2>2 DEF InOrder
<1>2. CASE k <= n
  <2>1. Upto(k, n) = k /\ Upto(k - 1, n) = k - 1
    BY <1>0, <1>2 DEF Upto
  <2>2. Append(TagsOf(B, q, k - 1), B[q[k]].tag) = TagsOf(B, q, k)
    BY <1>1, TagsAppend
  <2> QED
    BY <1>1, <1>2, <2>1, <2>2
<1>3. CASE ~(k <= n)
  <2>1. Upto(k, n) = n /\ Upto(k - 1, n) = n
    BY <1>0, <1>3 DEF Upto
  <2> QED
    BY <1>1, <1>3, <2>1
<1> QED
  BY <1>2, <1>3

LEMMA Gathered ==
    ASSUME NEW l, NEW B \in [Ways -> Entry], NEW q, NEW n, Packed(l, B, q, n),
           NEW tags, Gather(l, B, tags)
    PROVE  \A k \in 0 .. assoc : tags[k] = TagsOf(B, q, Upto(k, n))
<1> DEFINE S == {k \in Nat : k \in 0 .. assoc => tags[k] = TagsOf(B, q, Upto(k, n))}
<1>0. n \in Nat /\ assoc \in Nat
  BY AssocAssumption DEF Packed
<1>1. 0 \in S
  <2>1. tags[0] = <<>>
    BY <1>0 DEF Gather
  <2>2. TagsOf(B, q, 0) = <<>>
    BY DEF TagsOf
  <2>3. Upto(0, n) = 0
    BY <1>0 DEF Upto
  <2> QED
    BY <2>1, <2>2, <2>3
<1>2. ASSUME NEW k \in Nat, k \in S PROVE k + 1 \in S
  <2> SUFFICES ASSUME k + 1 \in 0 .. assoc PROVE tags[k + 1] = TagsOf(B, q, Upto(k + 1, n))
    OBVIOUS
  <2> DEFINE j == k + 1
  <2>1. j \in 1 .. assoc /\ j - 1 = k /\ k \in 0 .. assoc /\ j # 0 /\ j \in 0 .. assoc
    BY <1>0
  <2>2. tags[k] = TagsOf(B, q, Upto(k, n))
    BY <1>2, <2>1
  <2> HIDE DEF j
  <2>3. tags[j - 1] = TagsOf(B, q, Upto(j - 1, n))
    BY <2>1, <2>2
  <2>4. TagsOf(B, q, Upto(j, n)) =
              IF B[WayAt(l)[j]].valid
              THEN Append(TagsOf(B, q, Upto(j - 1, n)), B[WayAt(l)[j]].tag)
              ELSE TagsOf(B, q, Upto(j - 1, n))
    BY <2>1, GatherStep
  <2>5. tags[j] = IF B[WayAt(l)[j]].valid THEN Append(tags[j - 1], B[WayAt(l)[j]].tag)
                  ELSE tags[j - 1]
    BY <2>1 DEF Gather
  <2>6. tags[j] = TagsOf(B, q, Upto(j, n))
    BY <2>3, <2>4, <2>5
  <2> QED
    BY <2>6 DEF j
<1>3. \A k \in Nat : k \in S
  <2> HIDE DEF S
  <2> QED
    BY <1>1, <1>2, NatSetInduction
<1> QED
  BY <1>0, <1>3

\* What is resident of a packed set are the tags of its first ways.
LEMMA TagsIs ==
    ASSUME NEW l, NEW B \in [Ways -> Entry], NEW q, NEW n, Packed(l, B, q, n)
    PROVE  Tags(l, B) = TagsOf(B, q, n)
<1> DEFINE g == [k \in 0 .. assoc |-> TagsOf(B, q, Upto(k, n))]
           tags == CHOOSE f : Gather(l, B, f)
<1>0. n \in 0 .. assoc /\ assoc \in Nat
  BY AssocAssumption DEF Packed
<1>1. Gather(l, B, g)
  <2>1. ASSUME NEW k \in 0 .. assoc
        PROVE  TagsOf(B, q, Upto(k, n)) =
                  IF k = 0 THEN <<>>
                  ELSE IF B[WayAt(l)[k]].valid THEN Append(g[k - 1], B[WayAt(l)[k]].tag)
                  ELSE g[k - 1]
    <3>1. CASE k = 0
      <4>1. TagsOf(B, q, 0) = <<>> /\ Upto(0, n) = 0
        BY <1>0 DEF TagsOf, Upto
      <4> QED
        BY <3>1, <4>1
    <3>2. CASE k # 0
      <4>1. k \in 1 .. assoc /\ k - 1 \in 0 .. assoc
        BY <1>0, <3>2
      <4>2. g[k - 1] = TagsOf(B, q, Upto(k - 1, n))
        BY <4>1
      <4>3. TagsOf(B, q, Upto(k, n)) =
                IF B[WayAt(l)[k]].valid
                THEN Append(TagsOf(B, q, Upto(k - 1, n)), B[WayAt(l)[k]].tag)
                ELSE TagsOf(B, q, Upto(k - 1, n))
        BY <4>1, GatherStep
      <4> HIDE DEF g
      <4> QED
        BY <3>2, <4>2, <4>3
    <3> QED
      BY <3>1, <3>2
  <2> QED
    BY <2>1 DEF Gather
<1>2. Gather(l, B, tags)
  BY <1>1
<1>3. Tags(l, B) = tags[assoc]
  BY DEF Tags, Gather
<1> HIDE DEF tags
<1>4. tags[assoc] = TagsOf(B, q, Upto(assoc, n))
  BY <1>0, <1>2, Gathered
<1>5. Upto(assoc, n) = n
  BY <1>0 DEF Upto
<1> QED
  BY <1>3, <1>4, <1>5

-----------------------------------------------------------------------------
(* What the specification does with a sequence of tags *)

LEMMA PushedIs ==
    ASSUME NEW r \in Seq(Nat), NEW t \in Nat
    PROVE  /\ <<t>> \o r \in Seq(Nat) /\ Len(<<t>> \o r) = Len(r) + 1
           /\ (<<t>> \o r)[1] = t
           /\ \A k \in 2 .. Len(r) + 1 : (<<t>> \o r)[k] = r[k - 1]
<1> DEFINE h == <<t>>
<1>1. h \in Seq(Nat) /\ Len(h) = 1 /\ h[1] = t /\ Len(r) \in Nat
  OBVIOUS
<1> HIDE DEF h
<1>2. /\ h \o r \in Seq(Nat) /\ Len(h \o r) = Len(h) + Len(r)
      /\ \A i \in 1 .. Len(h) + Len(r) :
            (h \o r)[i] = IF i <= Len(h) THEN h[i] ELSE r[i - Len(h)]
  BY <1>1, ConcatProperties
<1>3. (h \o r)[1] = t
  BY <1>1, <1>2
<1>4. \A k \in 2 .. Len(r) + 1 : (h \o r)[k] = r[k - 1]
  BY <1>1, <1>2
<1> QED
  BY <1>1, <1>2, <1>3, <1>4 DEF h

LEMMA FrontIs ==
    ASSUME NEW r \in Seq(Nat), Len(r) >= 1
    PROVE  /\ Replacement!Front(r) \in Seq(Nat) /\ Len(Replacement!Front(r)) = Len(r) - 1
           /\ \A k \in 1 .. Len(r) - 1 : Replacement!Front(r)[k] = r[k]
<1> DEFINE n == Len(r) - 1
           f == SubSeq(r, 1, n)
<1>1. n \in Nat /\ n \in Int /\ 1 \in Int /\ \A i \in 1 .. n : r[i] \in Nat
  OBVIOUS
<1> HIDE DEF n
<1>2. /\ f \in Seq(Nat) /\ Len(f) = IF 1 <= n THEN (n - 1) + 1 ELSE 0
      /\ \A i \in 1 .. (n - 1) + 1 : f[i] = r[(1 + i) - 1]
  BY <1>1, SubSeqProperties
<1> HIDE DEF f
<1>3. f \in Seq(Nat) /\ Len(f) = n /\ \A i \in 1 .. n : f[i] = r[i]
  BY <1>1, <1>2
<1> QED
  BY <1>3 DEF Replacement!Front, f, n

LEMMA RemovedIs ==
    ASSUME NEW r \in Seq(Nat), NEW j \in 1 .. Len(r)
    PROVE  LET z == Replacement!RemoveAt(r, j)
           IN  /\ z \in Seq(Nat) /\ Len(z) = Len(r) - 1
               /\ \A k \in 1 .. Len(r) - 1 : z[k] = IF k < j THEN r[k] ELSE r[k + 1]
<1> DEFINE n == Len(r)
           i == j - 1
           h == j + 1
           f == SubSeq(r, 1, i)
           g == SubSeq(r, h, n)
<1>1. /\ n \in Nat \ {0} /\ j \in 1 .. n /\ i \in Nat /\ i < n /\ h \in Nat
      /\ i \in Int /\ h \in Int /\ n \in Int /\ 1 \in Int
      /\ \A k \in 1 .. n : r[k] \in Nat
  OBVIOUS
<1>2. \A k \in 1 .. i : r[k] \in Nat
  BY <1>1
<1>3. \A k \in h .. n : r[k] \in Nat
  BY <1>1
<1>4. Replacement!RemoveAt(r, j) = f \o g
  BY DEF Replacement!RemoveAt
<1>5. /\ f \in Seq(Nat) /\ Len(f) = i
      /\ \A k \in 1 .. i : f[k] = r[k]
  <2> HIDE DEF i
  <2>1. /\ f \in Seq(Nat) /\ Len(f) = IF 1 <= i THEN (i - 1) + 1 ELSE 0
        /\ \A k \in 1 .. (i - 1) + 1 : f[k] = r[(1 + k) - 1]
    BY <1>1, <1>2, SubSeqProperties
  <2> HIDE DEF f
  <2> QED
    BY <1>1, <2>1
<1>6. /\ g \in Seq(Nat) /\ Len(g) = n - j
      /\ \A k \in 1 .. n - j : g[k] = r[j + k]
  <2> HIDE DEF n
  <2>0. \A k \in h .. n : r[k] \in Nat
    BY <1>3
  <2>1. /\ g \in Seq(Nat) /\ Len(g) = IF h <= n THEN (n - h) + 1 ELSE 0
        /\ \A k \in 1 .. (n - h) + 1 : g[k] = r[(h + k) - 1]
    <3> HIDE DEF h
    <3> QED
      BY <1>1, <2>0, SubSeqProperties
  <2> HIDE DEF g
  <2> QED
    BY <1>1, <2>1
<1> HIDE DEF f, g
<1>7. /\ f \o g \in Seq(Nat) /\ Len(f \o g) = i + (n - j)
      /\ \A k \in 1 .. i + (n - j) : (f \o g)[k] = IF k <= i THEN f[k] ELSE g[k - i]
  <2>1. /\ f \o g \in Seq(Nat) /\ Len(f \o g) = Len(f) + Len(g)
        /\ \A k \in 1 .. Len(f) + Len(g) :
              (f \o g)[k] = IF k <= Len(f) THEN f[k] ELSE g[k - Len(f)]
    BY <1>5, <1>6, ConcatProperties
  <2>2. Len(f) = i /\ Len(g) = n - j
    BY <1>5, <1>6
  <2> QED
    BY <2>1, <2>2
<1>8. i + (n - j) = n - 1
  BY <1>1
<1> DEFINE z == f \o g
<1> HIDE DEF z
<1>9. ASSUME NEW k \in 1 .. n - 1 PROVE z[k] = IF k < j THEN r[k] ELSE r[k + 1]
  <2>0. z[k] = IF k <= i THEN f[k] ELSE g[k - i]
    BY <1>7, <1>8 DEF z
  <2>1. CASE k < j
    <3>1. k <= i /\ k \in 1 .. i
      BY <1>1, <2>1
    <3> QED
      BY <1>5, <2>0, <2>1, <3>1
  <2>2. CASE ~(k < j)
    <3>1. ~(k <= i) /\ k - i \in 1 .. n - j /\ j + (k - i) = k + 1
      BY <1>1, <2>2
    <3> QED
      BY <1>6, <2>0, <2>2, <3>1
  <2> QED
    BY <2>1, <2>2
<1> QED
  BY <1>4, <1>7, <1>8, <1>9 DEF z

\* A sequence without its j-th tag, when no tag is in it twice.
LEMMA WithoutIs ==
    ASSUME NEW r \in Seq(Nat), \A i, k \in 1 .. Len(r) : r[i] = r[k] => i = k,
           NEW j \in 1 .. Len(r), NEW t, t = r[j]
    PROVE  LET z == Replacement!Without(r, t)
           IN  /\ t \in Replacement!ToSet(r)
               /\ z \in Seq(Nat) /\ Len(z) = Len(r) - 1
               /\ \A k \in 1 .. Len(r) - 1 : z[k] = IF k < j THEN r[k] ELSE r[k + 1]
<1>1. DOMAIN r = 1 .. Len(r)
  OBVIOUS
<1>2. Replacement!Place(r, t) = j
  BY <1>1 DEF Replacement!Place
<1>3. t \in Replacement!ToSet(r)
  BY <1>1 DEF Replacement!ToSet
<1>4. Replacement!Without(r, t) = Replacement!RemoveAt(r, j)
  BY <1>2, <1>3 DEF Replacement!Without
<1> QED
  BY <1>3, <1>4, RemovedIs

-----------------------------------------------------------------------------
(* What one call does to the order of one set *)

Ordered(l, B) == \E q \in [1 .. assoc -> Ways], n \in 0 .. assoc : Packed(l, B, q, n)

OneEach(B) ==
    \A w, x \in Ways : B[w].valid /\ B[x].valid /\ B[w].tag = B[x].tag => w = x

\* r lists the tags of the first n ways of q, each once and every valid one.
Lists(r, B, q, n) ==
    /\ r \in Seq(Nat) /\ Len(r) = n
    /\ \A k \in 1 .. n : k \in 1 .. assoc /\ r[k] = B[q[k]].tag
    /\ \A i, k \in 1 .. n : r[i] = r[k] => i = k
    /\ \A w \in Ways : B[w].valid => \E j \in 1 .. n : q[j] = w

LEMMA TagsDistinct ==
    ASSUME NEW l, NEW B \in [Ways -> Entry], OneEach(B), NEW q, NEW n, Packed(l, B, q, n)
    PROVE  Lists(TagsOf(B, q, n), B, q, n)
<1>1. /\ q \in [1 .. assoc -> Ways] /\ n \in 0 .. assoc
      /\ \A i, k \in 1 .. assoc : q[i] = q[k] => i = k
      /\ \A w \in Ways : \E k \in 1 .. assoc : q[k] = w
      /\ \A k \in 1 .. assoc : B[q[k]].valid <=> k <= n
  BY DEF Packed, InOrder
<1>2. /\ TagsOf(B, q, n) \in Seq(Nat) /\ Len(TagsOf(B, q, n)) = n
      /\ \A k \in 1 .. n : TagsOf(B, q, n)[k] = B[q[k]].tag
  <2>1. q \in [1 .. assoc -> Ways] /\ n \in 0 .. assoc
    BY <1>1
  <2> QED
    BY <2>1, TagsType
<1>3. \A k \in 1 .. n : k \in 1 .. assoc /\ k <= n
  BY <1>1, AssocAssumption
<1>4. ASSUME NEW i \in 1 .. n, NEW k \in 1 .. n, TagsOf(B, q, n)[i] = TagsOf(B, q, n)[k]
      PROVE  i = k
  <2>1. B[q[i]].tag = B[q[k]].tag
    BY <1>2, <1>4
  <2>2. B[q[i]].valid /\ B[q[k]].valid /\ q[i] \in Ways /\ q[k] \in Ways
    BY <1>1, <1>3
  <2>3. q[i] = q[k]
    BY <2>1, <2>2 DEF OneEach
  <2> QED
    BY <1>1, <1>3, <2>3
<1>5. ASSUME NEW w \in Ways, B[w].valid PROVE \E j \in 1 .. n : q[j] = w
  <2>1. PICK j \in 1 .. assoc : q[j] = w
    BY <1>1
  <2>2. j <= n
    BY <1>1, <1>5, <2>1
  <2>3. j \in 1 .. n
    BY <1>1, <2>2, AssocAssumption
  <2> QED
    BY <2>1, <2>3
<1> QED
  BY <1>2, <1>3, <1>4, <1>5 DEF Lists

\* A tag is resident when a valid way has it.
LEMMA ResidentTag ==
    ASSUME NEW l, NEW B \in [Ways -> Entry], OneEach(B), Ordered(l, B), NEW t
    PROVE  t \in Replacement!ToSet(Tags(l, B)) <=> \E w \in Ways : B[w].valid /\ B[w].tag = t
<1>1. PICK q \in [1 .. assoc -> Ways], n \in 0 .. assoc : Packed(l, B, q, n)
  BY DEF Ordered
<1> DEFINE r == TagsOf(B, q, n)
<1>2. Tags(l, B) = r
  BY <1>1, TagsIs
<1>3. /\ r \in Seq(Nat) /\ Len(r) = n
      /\ \A k \in 1 .. n : k \in 1 .. assoc /\ r[k] = B[q[k]].tag
      /\ \A w \in Ways : B[w].valid => \E j \in 1 .. n : q[j] = w
  <2>1. Lists(r, B, q, n)
    BY <1>1, TagsDistinct
  <2> QED
    BY <2>1 DEF Lists
<1>4. \A k \in 1 .. n : B[q[k]].valid /\ q[k] \in Ways
  <2>1. \A k \in 1 .. n : k \in 1 .. assoc /\ k <= n
    BY AssocAssumption
  <2> QED
    BY <1>1, <2>1 DEF Packed
<1> HIDE DEF r
<1>5. Replacement!ToSet(r) = {r[k] : k \in 1 .. n}
  <2>1. DOMAIN r = 1 .. n
    BY <1>3
  <2> QED
    BY <2>1 DEF Replacement!ToSet
<1>6. ASSUME t \in {r[k] : k \in 1 .. n} PROVE \E w \in Ways : B[w].valid /\ B[w].tag = t
  <2>1. PICK k \in 1 .. n : t = r[k]
    BY <1>6
  <2> QED
    BY <1>3, <1>4, <2>1
<1>7. ASSUME NEW w \in Ways, B[w].valid, B[w].tag = t PROVE t \in {r[k] : k \in 1 .. n}
  <2>1. PICK j \in 1 .. n : q[j] = w
    BY <1>3, <1>7
  <2>2. r[j] = t
    BY <1>3, <1>7, <2>1
  <2> QED
    BY <2>2
<1> QED
  BY <1>2, <1>5, <1>6, <1>7

\* Data and dirty bits do not matter.
LEMMA SameTags ==
    ASSUME NEW l, NEW B \in [Ways -> Entry], NEW C \in [Ways -> Entry], Ordered(l, B),
           \A w \in Ways : C[w].valid = B[w].valid /\ C[w].tag = B[w].tag
    PROVE  Ordered(l, C) /\ Tags(l, C) = Tags(l, B)
<1>1. PICK q \in [1 .. assoc -> Ways], n \in 0 .. assoc : Packed(l, B, q, n)
  BY DEF Ordered
<1>2. Packed(l, C, q, n)
  <2>1. \A k \in 1 .. assoc : C[q[k]].valid <=> k <= n
    BY <1>1 DEF Packed
  <2> QED
    BY <1>1, <2>1 DEF Packed
<1> DEFINE r == TagsOf(B, q, n)
           z == TagsOf(C, q, n)
<1>3. \A k \in 1 .. n : C[q[k]].tag = B[q[k]].tag
  BY AssocAssumption
<1>4. z = r
  BY <1>3 DEF TagsOf
<1> HIDE DEF r, z
<1>5. Tags(l, B) = r
  BY <1>1, TagsIs DEF r
<1>6. Tags(l, C) = z
  BY <1>2, TagsIs DEF z
<1>7. Ordered(l, C)
  BY <1>2 DEF Ordered
<1> QED
  BY <1>4, <1>5, <1>6, <1>7

\* A hit of LRU moves the tag to the front.
LEMMA HitOrder ==
    ASSUME NEW l \in LinkType, Mirrored(l), NEW B \in [Ways -> Entry], OneEach(B),
           Ordered(l, B), NEW w \in Ways, B[w].valid, NEW t, t = B[w].tag
    PROVE  /\ Ordered(MovedToHead(l, w), B)
           /\ Tags(MovedToHead(l, w), B) = <<t>> \o Replacement!Without(Tags(l, B), t)
<1>1. PICK q \in [1 .. assoc -> Ways], n \in 0 .. assoc : Packed(l, B, q, n)
  BY DEF Ordered
<1> DEFINE r == TagsOf(B, q, n)
           m == MovedToHead(l, w)
<1>2. /\ r \in Seq(Nat) /\ Len(r) = n
      /\ \A k \in 1 .. n : k \in 1 .. assoc /\ r[k] = B[q[k]].tag
      /\ \A i, k \in 1 .. n : r[i] = r[k] => i = k
      /\ \E j \in 1 .. n : q[j] = w
  <2>1. Lists(r, B, q, n)
    BY <1>1, TagsDistinct
  <2> QED
    BY <2>1 DEF Lists
<1>3. PICK j \in 1 .. n : q[j] = w
  BY <1>2
<1>4. j \in 1 .. assoc /\ InOrder(l, q) /\ \A k \in 1 .. assoc : B[q[k]].valid <=> k <= n
  BY <1>1, <1>2 DEF Packed
<1> DEFINE p == ToFront(q, j)
           s == TagsOf(B, p, n)
           y == Replacement!Without(r, t)
           z == <<t>> \o y
<1>5. InOrder(m, p)
  BY <1>3, <1>4, MovedToHeadOrder
<1>6. /\ p \in [1 .. assoc -> Ways]
      /\ \A k \in 1 .. assoc : p[k] = IF k = 1 THEN q[j] ELSE IF k <= j THEN q[k - 1] ELSE q[k]
  BY <1>5 DEF InOrder, ToFront
<1>7. n \in Nat /\ assoc \in Nat /\ j \in 1 .. n /\ n <= assoc
  BY AssocAssumption
<1>8. Packed(m, B, p, n)
  <2>1. ASSUME NEW k \in 1 .. assoc PROVE B[p[k]].valid <=> k <= n
    <3>1. CASE k = 1
      BY <1>4, <1>6, <1>7, <3>1
    <3>2. CASE k # 1 /\ k <= j
      <4>1. k - 1 \in 1 .. assoc /\ k - 1 <= n /\ k <= n
        BY <1>7, <3>2
      <4> QED
        BY <1>4, <1>6, <3>2, <4>1
    <3>3. CASE k # 1 /\ ~(k <= j)
      BY <1>4, <1>6, <3>3
    <3> QED
      BY <3>1, <3>2, <3>3
  <2> HIDE DEF m, p
  <2> QED
    BY <1>5, <2>1 DEF Packed
<1>9. s \in Seq(Nat) /\ Len(s) = n /\ \A k \in 1 .. n : s[k] = B[p[k]].tag
  BY <1>6, TagsType
<1> HIDE DEF m, p, r, s
<1>10. t = r[j] /\ t \in Nat
  BY <1>2, <1>3 DEF Entry
<1>11. /\ y \in Seq(Nat) /\ Len(y) = n - 1
       /\ \A k \in 1 .. n - 1 : y[k] = IF k < j THEN r[k] ELSE r[k + 1]
  <2>1. \A i, k \in 1 .. Len(r) : r[i] = r[k] => i = k
    BY <1>2
  <2>2. j \in 1 .. Len(r) /\ r \in Seq(Nat) /\ t = r[j]
    BY <1>2, <1>3, <1>10
  <2>3. /\ y \in Seq(Nat) /\ Len(y) = Len(r) - 1
        /\ \A k \in 1 .. Len(r) - 1 : y[k] = IF k < j THEN r[k] ELSE r[k + 1]
    BY <2>1, <2>2, WithoutIs
  <2> HIDE DEF y
  <2> QED
    BY <1>2, <2>3
<1> HIDE DEF y
<1>12. z \in Seq(Nat) /\ Len(z) = n /\ z[1] = t /\ \A k \in 2 .. n : z[k] = y[k - 1]
  BY <1>7, <1>10, <1>11, PushedIs
<1> HIDE DEF z
<1>13. \A k \in 1 .. n : s[k] = z[k]
  <2> TAKE k \in 1 .. n
  <2>1. CASE k = 1
    BY <1>2, <1>3, <1>6, <1>9, <1>12, <2>1
  <2>2. CASE k # 1
    <3>1. k \in 2 .. n /\ k - 1 \in 1 .. n - 1 /\ k - 1 \in 1 .. n /\ k \in 1 .. assoc
          /\ (k - 1 < j <=> k <= j) /\ (k - 1) + 1 = k
      BY <1>7, <2>2
    <3>2. z[k] = IF k <= j THEN r[k - 1] ELSE r[k]
      BY <1>11, <1>12, <3>1
    <3>3. s[k] = IF k <= j THEN B[q[k - 1]].tag ELSE B[q[k]].tag
      BY <1>6, <1>9, <2>2, <3>1
    <3> QED
      BY <1>2, <3>1, <3>2, <3>3
  <2> QED
    BY <2>1, <2>2
<1>14. s = z
  BY <1>9, <1>12, <1>13, SeqEqual
<1>15. Tags(l, B) = r
  BY <1>1, TagsIs DEF r
<1>16. Tags(m, B) = s
  BY <1>8, TagsIs DEF s
<1>17. Ordered(m, B)
  BY <1>6, <1>8 DEF Ordered
<1> QED
  BY <1>14, <1>15, <1>16, <1>17 DEF m, z, y

\* A block that comes in takes the last way; its tag goes to the front, and the
\* last tag makes room only when every way is valid.
LEMMA EnterOrder ==
    ASSUME NEW l \in LinkType, Mirrored(l), NEW B \in [Ways -> Entry], OneEach(B),
           Ordered(l, B), NEW t \in Nat, \A w \in Ways : ~(B[w].valid /\ B[w].tag = t),
           NEW C \in [Ways -> Entry],
           \A w \in Ways : IF w = l.way_tail THEN C[w].valid /\ C[w].tag = t
                           ELSE C[w].valid = B[w].valid /\ C[w].tag = B[w].tag
    PROVE  /\ Ordered(MovedToHead(l, l.way_tail), C)
           /\ Tags(MovedToHead(l, l.way_tail), C) = Replacement!Entered(Tags(l, B), t)
<1>1. PICK q \in [1 .. assoc -> Ways], n \in 0 .. assoc : Packed(l, B, q, n)
  BY DEF Ordered
<1> DEFINE a == assoc
           i == IF n < a THEN n + 1 ELSE n
           w == q[a]
           m == MovedToHead(l, w)
           p == ToFront(q, a)
           r == TagsOf(B, q, n)
           s == TagsOf(C, p, i)
           z == Replacement!Entered(r, t)
<1>2. /\ a \in Nat \ {0} /\ a \in 1 .. a /\ n \in Nat /\ n <= a /\ i \in 0 .. a
      /\ i \in Nat /\ i >= 1
  BY AssocAssumption
<1>3. /\ InOrder(l, q) /\ l.way_tail = w /\ w \in Ways
      /\ \A k \in 1 .. a : B[q[k]].valid <=> k <= n
      /\ \A j, k \in 1 .. a : q[j] = q[k] => j = k
  BY <1>1, <1>2 DEF Packed, InOrder
<1>4. Lists(r, B, q, n)
  BY <1>1, TagsDistinct
<1>5. /\ r \in Seq(Nat) /\ Len(r) = n /\ \A k \in 1 .. n : r[k] = B[q[k]].tag
  BY <1>4 DEF Lists
<1>6. InOrder(m, p)
  BY <1>2, <1>3, MovedToHeadOrder
<1>7. /\ p \in [1 .. a -> Ways]
      /\ \A k \in 1 .. a : p[k] = IF k = 1 THEN w ELSE IF k <= a THEN q[k - 1] ELSE q[k]
  BY <1>6 DEF InOrder, ToFront
<1> HIDE DEF m, p
<1>8. /\ C[p[1]].valid /\ C[p[1]].tag = t
      /\ \A k \in 2 .. a : /\ (C[p[k]].valid <=> k - 1 <= n)
                           /\ C[p[k]].tag = B[q[k - 1]].tag
  <2>1. p[1] = w
    BY <1>2, <1>7
  <2>2. ASSUME NEW k \in 2 .. a
        PROVE  /\ (C[p[k]].valid <=> k - 1 <= n)
               /\ C[p[k]].tag = B[q[k - 1]].tag
    <3>1. k - 1 \in 1 .. a /\ k - 1 # a /\ k \in 1 .. a /\ k # 1 /\ k <= a
      BY <1>2
    <3>2. p[k] = q[k - 1]
      BY <1>7, <3>1
    <3>3. q[k - 1] # w /\ q[k - 1] \in Ways
      BY <1>2, <1>3, <3>1
    <3>4. C[q[k - 1]].valid = B[q[k - 1]].valid /\ C[q[k - 1]].tag = B[q[k - 1]].tag
      BY <1>3, <3>3
    <3>5. B[q[k - 1]].valid <=> k - 1 <= n
      BY <1>3, <3>1
    <3> QED
      BY <3>2, <3>4, <3>5
  <2> QED
    BY <1>3, <2>1, <2>2
<1>9. Packed(m, C, p, i)
  <2>1. ASSUME NEW k \in 1 .. a PROVE C[p[k]].valid <=> k <= i
    <3>1. CASE k = 1
      BY <1>2, <1>8, <3>1
    <3>2. CASE k # 1
      <4>1. k \in 2 .. a /\ (k - 1 <= n <=> k <= i)
        BY <1>2, <3>2
      <4> QED
        BY <1>8, <4>1
    <3> QED
      BY <3>1, <3>2
  <2> HIDE DEF i
  <2> QED
    BY <1>2, <1>6, <2>1 DEF Packed
<1>10. s \in Seq(Nat) /\ Len(s) = i /\ \A k \in 1 .. i : s[k] = C[p[k]].tag
  <2> HIDE DEF i
  <2> QED
    BY <1>2, <1>7, TagsType
<1> HIDE DEF r, s
<1>11. z \in Seq(Nat) /\ Len(z) = i /\ z[1] = t /\ \A k \in 2 .. i : z[k] = r[k - 1]
  <2>1. CASE n < a
    <3>1. z = <<t>> \o r
      BY <1>5, <2>1 DEF Replacement!Entered
    <3> HIDE DEF z
    <3>2. /\ z \in Seq(Nat) /\ Len(z) = n + 1 /\ z[1] = t
          /\ \A k \in 2 .. n + 1 : z[k] = r[k - 1]
      BY <1>5, <3>1, PushedIs
    <3> QED
      BY <1>2, <2>1, <3>2
  <2>2. CASE ~(n < a)
    <3> DEFINE f == Replacement!Front(r)
    <3>1. z = <<t>> \o f
      BY <1>5, <2>2 DEF Replacement!Entered
    <3> HIDE DEF z
    <3>2. n >= 1
      BY <1>2, <2>2
    <3>3. f \in Seq(Nat) /\ Len(f) = n - 1 /\ \A k \in 1 .. n - 1 : f[k] = r[k]
      BY <1>5, <3>2, FrontIs
    <3> HIDE DEF f
    <3>4. /\ z \in Seq(Nat) /\ Len(z) = Len(f) + 1 /\ z[1] = t
          /\ \A k \in 2 .. Len(f) + 1 : z[k] = f[k - 1]
      BY <3>1, <3>3, PushedIs
    <3>5. \A k \in 2 .. n : z[k] = r[k - 1]
      BY <1>2, <3>2, <3>3, <3>4
    <3> QED
      BY <1>2, <2>2, <3>3, <3>4, <3>5
  <2> QED
    BY <2>1, <2>2
<1> HIDE DEF z
<1>12. \A k \in 1 .. i : s[k] = z[k]
  <2> TAKE k \in 1 .. i
  <2>1. CASE k = 1
    BY <1>8, <1>10, <1>11, <2>1
  <2>2. CASE k # 1
    <3>1. k \in 2 .. i /\ k \in 2 .. a /\ k - 1 \in 1 .. n
      BY <1>2, <2>2
    <3>2. s[k] = B[q[k - 1]].tag
      BY <1>8, <1>10, <3>1
    <3>3. z[k] = r[k - 1]
      BY <1>11, <3>1
    <3>4. r[k - 1] = B[q[k - 1]].tag
      BY <1>5, <3>1
    <3> QED
      BY <3>2, <3>3, <3>4
  <2> QED
    BY <2>1, <2>2
<1>13. s = z
  BY <1>10, <1>11, <1>12, SeqEqual
<1>14. Tags(l, B) = r
  BY <1>1, TagsIs DEF r
<1>15. Tags(m, C) = s
  BY <1>9, TagsIs DEF s
<1>16. Ordered(m, C)
  BY <1>2, <1>7, <1>9 DEF Ordered
<1> QED
  BY <1>3, <1>13, <1>14, <1>15, <1>16 DEF m, z

\* A block that is flushed becomes the last way, and its tag is gone.
LEMMA LeaveOrder ==
    ASSUME NEW l \in LinkType, Mirrored(l), NEW B \in [Ways -> Entry], OneEach(B),
           Ordered(l, B), NEW w \in Ways, B[w].valid, NEW t, t = B[w].tag,
           NEW C \in [Ways -> Entry],
           \A x \in Ways : /\ (C[x].valid <=> B[x].valid /\ x # w)
                           /\ C[x].tag = B[x].tag
    PROVE  /\ Ordered(MovedToTail(l, w), C)
           /\ Tags(MovedToTail(l, w), C) = Replacement!Without(Tags(l, B), t)
<1>1. PICK q \in [1 .. assoc -> Ways], n \in 0 .. assoc : Packed(l, B, q, n)
  BY DEF Ordered
<1> DEFINE a == assoc
           r == TagsOf(B, q, n)
<1>2. Lists(r, B, q, n)
  BY <1>1, TagsDistinct
<1>3. /\ r \in Seq(Nat) /\ Len(r) = n
      /\ \A k \in 1 .. n : k \in 1 .. a /\ r[k] = B[q[k]].tag
      /\ \A i, k \in 1 .. n : r[i] = r[k] => i = k
      /\ \E j \in 1 .. n : q[j] = w
  BY <1>2 DEF Lists
<1>4. PICK j \in 1 .. n : q[j] = w
  BY <1>3
<1>5. /\ InOrder(l, q) /\ j \in 1 .. a
      /\ \A k \in 1 .. a : B[q[k]].valid <=> k <= n
      /\ \A i, k \in 1 .. a : q[i] = q[k] => i = k
  BY <1>1, <1>3 DEF Packed, InOrder
<1>6. a \in Nat \ {0} /\ n \in Nat /\ n <= a /\ j \in 1 .. n /\ n - 1 \in 0 .. a
  BY AssocAssumption
<1> DEFINE i == n - 1
           m == MovedToTail(l, w)
           p == ToEnd(q, j)
           s == TagsOf(C, p, i)
           z == Replacement!Without(r, t)
<1>7. InOrder(m, p)
  BY <1>4, <1>5, MovedToTailOrder
<1>8. /\ p \in [1 .. a -> Ways]
      /\ \A k \in 1 .. a : p[k] = IF k = a THEN q[j] ELSE IF k >= j THEN q[k + 1] ELSE q[k]
  BY <1>7 DEF InOrder, ToEnd
<1> HIDE DEF m, p, r
<1>9. ASSUME NEW k \in 1 .. a, k # a
      PROVE  LET h == IF k >= j THEN k + 1 ELSE k
             IN  /\ h \in 1 .. a /\ p[k] = q[h]
                 /\ (C[p[k]].valid <=> k <= i)
                 /\ C[p[k]].tag = B[q[h]].tag
  <2> DEFINE h == IF k >= j THEN k + 1 ELSE k
  <2>1. h \in 1 .. a /\ h # j /\ (h <= n <=> k <= i)
    BY <1>6, <1>9
  <2>2. p[k] = q[h]
    BY <1>8, <1>9
  <2> HIDE DEF h
  <2>3. q[h] # w /\ q[h] \in Ways
    BY <1>4, <1>5, <2>1
  <2>4. (C[q[h]].valid <=> B[q[h]].valid) /\ C[q[h]].tag = B[q[h]].tag
    BY <2>3
  <2>5. B[q[h]].valid <=> h <= n
    BY <1>5, <2>1
  <2> QED
    BY <2>1, <2>2, <2>4, <2>5 DEF h
<1>10. Packed(m, C, p, i)
  <2>1. ASSUME NEW k \in 1 .. a PROVE C[p[k]].valid <=> k <= i
    <3>1. CASE k = a
      <4>1. ~(a <= i) /\ p[k] = w
        BY <1>4, <1>6, <1>8, <3>1
      <4> QED
        BY <3>1, <4>1
    <3>2. CASE k # a
      BY <1>9, <3>2
    <3> QED
      BY <3>1, <3>2
  <2> HIDE DEF i
  <2> QED
    BY <1>6, <1>7, <2>1 DEF Packed, i
<1>11. s \in Seq(Nat) /\ Len(s) = i /\ \A k \in 1 .. i : s[k] = C[p[k]].tag
  <2>1. i \in 0 .. a /\ p \in [1 .. a -> Ways]
    BY <1>6, <1>8
  <2> HIDE DEF i
  <2>2. TagsOf(C, p, i) \in Seq(Nat)
    BY <2>1, TagsType
  <2>3. Len(TagsOf(C, p, i)) = i
    BY <2>1, TagsType
  <2>4. \A k \in 1 .. i : TagsOf(C, p, i)[k] = C[p[k]].tag
    BY DEF TagsOf
  <2> QED
    BY <2>2, <2>3, <2>4
<1> HIDE DEF s
<1>12. /\ z \in Seq(Nat) /\ Len(z) = n - 1
       /\ \A k \in 1 .. n - 1 : z[k] = IF k < j THEN r[k] ELSE r[k + 1]
  <2>1. \A h, k \in 1 .. Len(r) : r[h] = r[k] => h = k
    BY <1>3
  <2>2. j \in 1 .. Len(r) /\ r \in Seq(Nat) /\ t = r[j]
    BY <1>3, <1>4
  <2>3. /\ z \in Seq(Nat) /\ Len(z) = Len(r) - 1
        /\ \A k \in 1 .. Len(r) - 1 : z[k] = IF k < j THEN r[k] ELSE r[k + 1]
    BY <2>1, <2>2, WithoutIs
  <2> HIDE DEF z
  <2> QED
    BY <1>3, <2>3
<1> HIDE DEF z
<1>13. \A k \in 1 .. i : s[k] = z[k]
  <2> TAKE k \in 1 .. i
  <2>1. /\ k \in 1 .. a /\ k # a /\ k \in 1 .. n /\ k + 1 \in 1 .. n /\ k \in 1 .. n - 1
        /\ (k < j <=> ~(k >= j))
    BY <1>6
  <2>2. C[p[k]].tag = IF k >= j THEN B[q[k + 1]].tag ELSE B[q[k]].tag
    BY <1>9, <2>1
  <2>3. r[k] = B[q[k]].tag /\ r[k + 1] = B[q[k + 1]].tag
    BY <1>3, <2>1
  <2> QED
    BY <1>11, <1>12, <2>1, <2>2, <2>3
<1>14. s = z
  BY <1>11, <1>12, <1>13, SeqEqual
<1>15. Tags(l, B) = r
  BY <1>1, TagsIs DEF r
<1>16. Tags(m, C) = s
  BY <1>10, TagsIs DEF s
<1>17. Ordered(m, C)
  BY <1>6, <1>8, <1>10 DEF Ordered
<1> QED
  BY <1>14, <1>15, <1>16, <1>17 DEF m, z

\* A set without a valid block is in any order.
LEMMA EmptyOrder ==
    ASSUME NEW l, NEW q, InOrder(l, q), NEW C \in [Ways -> Entry],
           \A w \in Ways : ~C[w].valid
    PROVE  Ordered(l, C) /\ Tags(l, C) = <<>>
<1>1. Packed(l, C, q, 0) /\ 0 \in 0 .. assoc /\ q \in [1 .. assoc -> Ways]
  <2>1. q \in [1 .. assoc -> Ways] /\ 0 \in 0 .. assoc
    BY AssocAssumption DEF InOrder
  <2>2. \A k \in 1 .. assoc : C[q[k]].valid <=> k <= 0
    BY <2>1, AssocAssumption
  <2> QED
    BY <2>1, <2>2 DEF Packed
<1>2. Tags(l, C) = TagsOf(C, q, 0)
  BY <1>1, TagsIs
<1>3. TagsOf(C, q, 0) = <<>>
  BY DEF TagsOf
<1> QED
  BY <1>1, <1>2, <1>3 DEF Ordered

-----------------------------------------------------------------------------
(* Tags and addresses *)

LEMMA SetAndTag ==
    ASSUME NEW b \in Blocks
    PROVE  CACHE_SET(b) \in Sets /\ CACHE_TAG(b) \in Nat
BY CacheAssumption DEF CACHE_SET, CACHE_TAG, Sets

\* CACHE_MK_BADDR undoes CACHE_TAG and CACHE_SET.
LEMMA BaddrOfTag ==
    ASSUME NEW t \in Nat, NEW s \in Sets, NEW b \in Blocks
    PROVE  CACHE_MK_BADDR(t, s) = b <=> t = CACHE_TAG(b) /\ s = CACHE_SET(b)
<1>1. nsets \in Nat \ {0} /\ b \in Nat /\ s \in 0 .. nsets - 1
  BY CacheAssumption DEF Sets
<1>2. b = (b \div nsets) * nsets + (b % nsets)
  BY <1>1
<1>3. (t * nsets + s) \div nsets = t /\ (t * nsets + s) % nsets = s
  BY <1>1
<1> QED BY <1>2, <1>3 DEF CACHE_MK_BADDR, CACHE_TAG, CACHE_SET

LEMMA HoldsIff ==
    ASSUME NEW B \in BlkType, NEW s \in Sets, NEW w \in Ways, NEW b \in Blocks
    PROVE  Holds(B, <<s, w>>, b) <=> /\ B[s][w].valid
                                     /\ B[s][w].tag = CACHE_TAG(b)
                                     /\ s = CACHE_SET(b)
<1>1. B[s][w].tag \in Nat
  BY DEF BlkType, Entry
<1> QED BY <1>1, BaddrOfTag DEF Holds

\* The search finds the ways that hold the block, whether or not it goes
\* through the hash table.
LEMMA FoundHolds ==
    ASSUME TypeOK, HashIndexed, NEW b \in Blocks
    PROVE  Found(b) = {w \in Ways : Holds(blk, <<CACHE_SET(b), w>>, b)}
<1> DEFINE s == CACHE_SET(b)
<1>1. s \in Sets /\ CACHE_TAG(b) \in Nat /\ blk \in BlkType
  BY SetAndTag DEF TypeOK, BlkType
<1>2. \A w \in Ways : Holds(blk, <<s, w>>, b) <=>
                          blk[s][w].valid /\ blk[s][w].tag = CACHE_TAG(b)
  BY <1>1, HoldsIff
<1>3. CASE hsize > 0
  <2>1. CACHE_HASH(CACHE_TAG(b)) \in Buckets
    BY <1>1, <1>3, CacheAssumption DEF CACHE_HASH, Buckets
  <2>2. hash[s][CACHE_HASH(CACHE_TAG(b))] \subseteq Ways
    BY <1>1, <2>1 DEF TypeOK
  <2>3. \A w \in Ways : w \in hash[s][CACHE_HASH(CACHE_TAG(b))] <=>
                            CACHE_HASH(CACHE_TAG(b)) = CACHE_HASH(blk[s][w].tag)
    BY <1>1, <2>1 DEF HashIndexed
  <2> QED BY <1>2, <1>3, <2>2, <2>3 DEF Found, Searched
<1>4. CASE ~(hsize > 0)
  BY <1>2, <1>4 DEF Found, Searched
<1> QED BY <1>3, <1>4

-----------------------------------------------------------------------------
(* What the program sees *)

LEMMA VisibleCopy ==
    ASSUME NEW B \in BlkType, NEW M, Unique(B), NEW b \in Blocks, NEW w \in Ways,
           Holds(B, <<CACHE_SET(b), w>>, b)
    PROVE  VisibleIn(B, M)[b] = B[CACHE_SET(b)][w].data
<1> DEFINE s == CACHE_SET(b)
           x == CHOOSE y \in Ways : Holds(B, <<s, y>>, b)
<1>1. x \in Ways /\ Holds(B, <<s, x>>, b)
  OBVIOUS
<1>2. x = w
  <2>1. s \in Sets
    BY SetAndTag
  <2> HIDE DEF x
  <2>2. B[s][x].valid /\ B[s][w].valid /\ B[s][x].tag = B[s][w].tag
    BY <1>1, <2>1, HoldsIff
  <2> QED BY <1>1, <2>1, <2>2 DEF Unique
<1>3. VisibleIn(B, M)[b] = B[s][x].data
  BY DEF VisibleIn
<1> QED BY <1>2, <1>3

LEMMA VisibleBehind ==
    ASSUME NEW B, NEW M, NEW b \in Blocks,
           \A w \in Ways : ~Holds(B, <<CACHE_SET(b), w>>, b)
    PROVE  VisibleIn(B, M)[b] = M[b]
BY DEF VisibleIn

LEMMA VisibleType ==
    ASSUME NEW B \in BlkType, NEW M \in MemType
    PROVE  VisibleIn(B, M) \in MemType
<1>1. SUFFICES ASSUME NEW b \in Blocks
               PROVE  VisibleIn(B, M)[b] \in [Words -> Values]
  BY DEF VisibleIn, MemType
<1>2. CACHE_SET(b) \in Sets
  BY SetAndTag
<1>3. \A w \in Ways : B[CACHE_SET(b)][w].data \in [Words -> Values]
  BY <1>2 DEF BlkType, Entry
<1> QED BY <1>3 DEF VisibleIn, MemType

-----------------------------------------------------------------------------
(* The inductive invariant *)

IInv == TypeOK /\ ListsLinked /\ HashIndexed /\ CopiesCoherent /\ LastHitValid

LEMMA InitIInv == Init => IInv
<1> SUFFICES ASSUME Init PROVE IInv
  OBVIOUS
<1>1. \A s \in Sets, w \in Ways :
        blk[s][w] = [tag |-> 0, valid |-> FALSE, dirty |-> FALSE,
                     data |-> [o \in Words |-> 0]]
  BY DEF Init
<1>2. blk \in BlkType
  BY CacheAssumption DEF Init, BlkType, Entry
<1>3. ways \in [Sets -> LinkType] /\ ListsLinked
  BY InitWayListMirrored DEF Init, ListsLinked
<1>4. hash \in [Sets -> [Buckets -> SUBSET Ways]]
  BY DEF Init
<1>5. TypeOK
  BY <1>2, <1>3, <1>4, CacheAssumption DEF Init, TypeOK, BlkType
<1>6. HashIndexed
  BY <1>1 DEF Init, HashIndexed
<1>7. CopiesCoherent
  BY <1>1 DEF CopiesCoherent, Unique, CleanIsCopy, Holds
<1>8. LastHitValid
  BY DEF Init, LastHitValid
<1> QED BY <1>3, <1>5, <1>6, <1>7, <1>8 DEF IInv

\* What a hit does: the copy it finds is the only one, so storing into it
\* changes exactly the word the program sees, and it is not dropped any more.
LEMMA DeliverCorrect ==
    ASSUME IInv, NEW cmd \in {"Read", "Write"}, NEW b \in Blocks, NEW o \in Words,
           NEW v \in Values, NEW w \in Ways, Holds(blk, <<CACHE_SET(b), w>>, b),
           Deliver(cmd, CACHE_SET(b), w, o, v), UNCHANGED mem
    PROVE  /\ blk' \in BlkType /\ out' \in Values
           /\ \A s \in Sets, x \in Ways :
                /\ blk'[s][x].tag = blk[s][x].tag
                /\ blk'[s][x].valid = blk[s][x].valid
           /\ CopiesCoherent'
           /\ cmd = "Read" => out' = Visible[b][o] /\ Visible' = Visible
           /\ cmd = "Write" => /\ Visible' = [Visible EXCEPT ![b] = [@ EXCEPT ![o] = v]]
                               /\ out' = out
<1> DEFINE s == CACHE_SET(b)
<1>1. /\ s \in Sets /\ blk \in BlkType /\ mem \in MemType /\ out \in Values
      /\ Unique(blk) /\ CleanIsCopy(blk, mem)
  BY SetAndTag DEF IInv, TypeOK, CopiesCoherent, BlkType, MemType
<1>2. Visible[b] = blk[s][w].data
  BY <1>1, VisibleCopy DEF Visible
<1>3. CASE cmd = "Read"
  <2>1. out' = blk[s][w].data[o] /\ blk' = blk
    BY <1>3 DEF Deliver
  <2>2. blk[s][w].data \in [Words -> Values]
    BY <1>1 DEF BlkType, Entry
  <2>3. Visible' = Visible
    BY <2>1 DEF Visible
  <2>4. CopiesCoherent'
    BY <1>1, <2>1 DEF CopiesCoherent
  <2> QED BY <1>1, <1>2, <1>3, <2>1, <2>2, <2>3, <2>4
<1>4. CASE cmd = "Write"
  <2>1. /\ blk' = [blk EXCEPT ![s][w].dirty = TRUE, ![s][w].data[o] = v]
        /\ out' = out
    BY <1>4 DEF Deliver
  <2> DEFINE d == [blk[s][w].data EXCEPT ![o] = v]
  <2>2. blk[s][w].data \in [Words -> Values] /\ d \in [Words -> Values]
    BY <1>1 DEF BlkType, Entry
  <2>3. blk[s] \in [Ways -> Entry] /\ blk[s][w] \in Entry
    BY <1>1 DEF BlkType
  <2> DEFINE e == [blk[s][w] EXCEPT !.dirty = TRUE, !.data = d]
  <2>4. blk' = [blk EXCEPT ![s] = [blk[s] EXCEPT ![w] = e]]
    BY <1>1, <2>1, <2>3 DEF BlkType, Entry
  <2>5. e \in Entry /\ e.dirty = TRUE /\ e.data = d
        /\ e.tag = blk[s][w].tag /\ e.valid = blk[s][w].valid
    BY <2>2, <2>3 DEF Entry
  <2> HIDE DEF e
  <2>6. blk' \in BlkType /\ blk'[s][w] = e
    BY <1>1, <2>3, <2>4, <2>5 DEF BlkType
  <2>7. \A t \in Sets, x \in Ways : t # s \/ x # w => blk'[t][x] = blk[t][x]
    BY <1>1, <2>3, <2>4 DEF BlkType
  <2>8. \A t \in Sets, x \in Ways : /\ blk'[t][x].tag = blk[t][x].tag
                                     /\ blk'[t][x].valid = blk[t][x].valid
    <3>1. SUFFICES ASSUME NEW t \in Sets, NEW x \in Ways
                   PROVE  /\ blk'[t][x].tag = blk[t][x].tag
                          /\ blk'[t][x].valid = blk[t][x].valid
      OBVIOUS
    <3>2. CASE t = s /\ x = w
      BY <2>5, <2>6, <3>2
    <3>3. CASE t # s \/ x # w
      BY <2>7, <3>3
    <3> QED BY <3>2, <3>3
  <2>9. \A t \in Sets, x \in Ways, c \in Blocks :
          Holds(blk', <<t, x>>, c) <=> Holds(blk, <<t, x>>, c)
    BY <2>8 DEF Holds
  <2>10. Unique(blk')
    BY <1>1, <2>8 DEF Unique
  <2>11. CleanIsCopy(blk', mem)
    <3>1. SUFFICES ASSUME NEW t \in Sets, NEW x \in Ways, NEW c \in Blocks,
                          Holds(blk', <<t, x>>, c), ~blk'[t][x].dirty
                   PROVE  blk'[t][x].data = mem[c]
      BY DEF CleanIsCopy
    <3>2. blk'[t][x] = blk[t][x]
      BY <2>5, <2>6, <2>7, <3>1
    <3> QED BY <1>1, <2>9, <3>1, <3>2 DEF CleanIsCopy
  <2>12. Visible' = [Visible EXCEPT ![b] = [@ EXCEPT ![o] = v]]
    <3>1. Visible \in MemType /\ Visible' \in MemType /\ Visible' = VisibleIn(blk', mem)
      BY <1>1, <2>6, VisibleType DEF Visible
    <3>2. Visible'[b] = [Visible[b] EXCEPT ![o] = v]
      <4>1. Holds(blk', <<CACHE_SET(b), w>>, b)
        BY <1>1, <2>9
      <4>2. VisibleIn(blk', mem)[b] = blk'[s][w].data
        BY <2>6, <2>10, <4>1, VisibleCopy
      <4> QED BY <1>2, <2>5, <2>6, <3>1, <4>2
    <3>3. ASSUME NEW c \in Blocks, c # b PROVE Visible'[c] = Visible[c]
      <4>1. CACHE_SET(c) \in Sets
        BY SetAndTag
      <4>2. CASE \E x \in Ways : Holds(blk, <<CACHE_SET(c), x>>, c)
        <5>1. PICK x \in Ways : Holds(blk, <<CACHE_SET(c), x>>, c)
          BY <4>2
        <5>2. CACHE_SET(c) # s \/ x # w
          <6>1. SUFFICES ASSUME CACHE_SET(c) = s, x = w PROVE FALSE
            OBVIOUS
          <6>2. blk[s][w].tag \in Nat
            BY <1>1 DEF BlkType, Entry
          <6>3. CACHE_TAG(b) = CACHE_TAG(c)
            BY <1>1, <5>1, <6>1, HoldsIff
          <6>4. CACHE_TAG(b) \in Nat
            BY SetAndTag
          <6> QED BY <1>1, <3>3, <6>1, <6>3, <6>4, BaddrOfTag
        <5>3. VisibleIn(blk, mem)[c] = blk[CACHE_SET(c)][x].data
          BY <1>1, <5>1, VisibleCopy
        <5>4. VisibleIn(blk', mem)[c] = blk'[CACHE_SET(c)][x].data
          BY <2>6, <2>9, <2>10, <4>1, <5>1, VisibleCopy
        <5> QED BY <2>7, <3>1, <4>1, <5>2, <5>3, <5>4 DEF Visible
      <4>3. CASE ~\E x \in Ways : Holds(blk, <<CACHE_SET(c), x>>, c)
        <5>1. VisibleIn(blk, mem)[c] = mem[c]
          BY <4>3, VisibleBehind
        <5>2. VisibleIn(blk', mem)[c] = mem[c]
          BY <2>9, <4>1, <4>3, VisibleBehind
        <5> QED BY <3>1, <5>1, <5>2 DEF Visible
      <4> QED BY <4>2, <4>3
    <3> QED BY <3>1, <3>2, <3>3 DEF MemType
  <2>13. CopiesCoherent'
    BY <2>10, <2>11 DEF CopiesCoherent
  <2> QED BY <1>1, <1>4, <2>1, <2>12, <2>13, <2>6, <2>8
<1> QED BY <1>3, <1>4

-----------------------------------------------------------------------------
(* Replacement *)

LEMMA WrittenBackIs ==
    ASSUME IInv, NEW V \in SUBSET (Sets \X Ways), NEW b \in Blocks
    PROVE  /\ \A s \in Sets, w \in Ways :
                <<s, w>> \in V /\ Holds(blk, <<s, w>>, b) /\ blk[s][w].dirty
                    => WrittenBack(V)[b] = blk[s][w].data
           /\ ~(\E x \in V : Holds(blk, x, b) /\ blk[x[1]][x[2]].dirty)
                => WrittenBack(V)[b] = mem[b]
<1> DEFINE D(x) == Holds(blk, x, b) /\ blk[x[1]][x[2]].dirty
           y == CHOOSE z \in V : D(z)
<1>1. blk \in BlkType /\ Unique(blk)
  BY DEF IInv, TypeOK, CopiesCoherent, BlkType
<1>2. ~(\E x \in V : D(x)) => WrittenBack(V)[b] = mem[b]
  BY DEF WrittenBack
<1>3. ASSUME NEW s \in Sets, NEW w \in Ways, <<s, w>> \in V,
             Holds(blk, <<s, w>>, b), blk[s][w].dirty
      PROVE  WrittenBack(V)[b] = blk[s][w].data
  <2>1. D(<<s, w>>)
    BY <1>3
  <2>2. y \in V /\ D(y)
    BY <1>3, <2>1
  <2>3. WrittenBack(V)[b] = blk[y[1]][y[2]].data
    BY <1>3, <2>1 DEF WrittenBack
  <2> HIDE DEF y
  <2>4. PICK t \in Sets, x \in Ways : y = <<t, x>>
    BY <2>2
  <2>5. Holds(blk, <<t, x>>, b)
    BY <2>2, <2>4
  <2>6. /\ s = CACHE_SET(b) /\ blk[s][w].valid /\ blk[s][w].tag = CACHE_TAG(b)
        /\ t = CACHE_SET(b) /\ blk[t][x].valid /\ blk[t][x].tag = CACHE_TAG(b)
    BY <1>1, <1>3, <2>5, HoldsIff
  <2>7. t = s /\ x = w
    BY <1>1, <2>6 DEF Unique
  <2> QED BY <2>3, <2>4, <2>7
<1> QED BY <1>2, <1>3

LEMMA WrittenBackType ==
    ASSUME IInv, NEW V \in SUBSET (Sets \X Ways)
    PROVE  WrittenBack(V) \in MemType
<1>1. SUFFICES ASSUME NEW b \in Blocks
               PROVE  WrittenBack(V)[b] \in [Words -> Values]
  BY DEF WrittenBack, MemType
<1>2. \A s \in Sets, w \in Ways : blk[s][w].data \in [Words -> Values]
  BY DEF IInv, TypeOK, Entry
<1>3. CASE \E x \in V : Holds(blk, x, b) /\ blk[x[1]][x[2]].dirty
  <2>1. PICK x \in V : Holds(blk, x, b) /\ blk[x[1]][x[2]].dirty
    BY <1>3
  <2>2. PICK s \in Sets, w \in Ways : x = <<s, w>>
    OBVIOUS
  <2>3. WrittenBack(V)[b] = blk[s][w].data
    BY <2>1, <2>2, WrittenBackIs
  <2> QED BY <1>2, <2>3
<1>4. CASE ~\E x \in V : Holds(blk, x, b) /\ blk[x[1]][x[2]].dirty
  BY <1>4, WrittenBackIs DEF IInv, TypeOK
<1> QED BY <1>3, <1>4

\* Blocks may be given up once they are written back: the program sees no
\* difference.
LEMMA DropKeepsVisible ==
    ASSUME IInv, NEW V \in SUBSET (Sets \X Ways), NEW B \in BlkType,
           \A s \in Sets, w \in Ways :
                IF <<s, w>> \in V THEN ~B[s][w].valid ELSE B[s][w] = blk[s][w]
    PROVE  /\ Unique(B) /\ CleanIsCopy(B, WrittenBack(V))
           /\ VisibleIn(B, WrittenBack(V)) = Visible
<1> DEFINE M == WrittenBack(V)
<1>1. /\ blk \in BlkType /\ mem \in MemType
      /\ Unique(blk) /\ CleanIsCopy(blk, mem)
  BY DEF IInv, TypeOK, CopiesCoherent, BlkType, MemType
<1>2. Unique(B)
  BY <1>1 DEF Unique
<1>3. M \in MemType
  BY WrittenBackType
<1>4. \A s \in Sets, w \in Ways, b \in Blocks :
        Holds(B, <<s, w>>, b) <=> <<s, w>> \notin V /\ Holds(blk, <<s, w>>, b)
  BY DEF Holds
\* What is kept is not written back: its block is in no other way.
<1>5. ASSUME NEW s \in Sets, NEW w \in Ways, NEW b \in Blocks,
             <<s, w>> \notin V, Holds(blk, <<s, w>>, b)
      PROVE  M[b] = mem[b]
  <2>1. SUFFICES ASSUME NEW x \in V, Holds(blk, x, b) PROVE FALSE
    BY WrittenBackIs
  <2>2. PICK t \in Sets, y \in Ways : x = <<t, y>>
    OBVIOUS
  <2>3. /\ s = CACHE_SET(b) /\ blk[s][w].valid /\ blk[s][w].tag = CACHE_TAG(b)
        /\ t = CACHE_SET(b) /\ blk[t][y].valid /\ blk[t][y].tag = CACHE_TAG(b)
    BY <1>1, <1>5, <2>1, <2>2, HoldsIff
  <2>4. t = s /\ y = w
    BY <1>1, <2>3 DEF Unique
  <2> QED BY <1>5, <2>2, <2>4
<1>6. CleanIsCopy(B, M)
  <2>1. SUFFICES ASSUME NEW s \in Sets, NEW w \in Ways, NEW b \in Blocks,
                        Holds(B, <<s, w>>, b), ~B[s][w].dirty
                 PROVE  B[s][w].data = M[b]
    BY DEF CleanIsCopy
  <2>2. <<s, w>> \notin V /\ Holds(blk, <<s, w>>, b) /\ B[s][w] = blk[s][w]
    BY <1>4, <2>1
  <2> QED BY <1>1, <1>5, <2>1, <2>2 DEF CleanIsCopy
<1>7. ASSUME NEW b \in Blocks PROVE VisibleIn(B, M)[b] = VisibleIn(blk, mem)[b]
  <2> DEFINE s == CACHE_SET(b)
  <2>1. s \in Sets
    BY SetAndTag
  <2>2. CASE ~\E w \in Ways : Holds(blk, <<s, w>>, b)
    <3>1. \A x \in V : ~Holds(blk, x, b)
      <4>1. SUFFICES ASSUME NEW x \in V, Holds(blk, x, b) PROVE FALSE
        OBVIOUS
      <4>2. PICK t \in Sets, y \in Ways : x = <<t, y>>
        OBVIOUS
      <4>3. t = s
        BY <1>1, <4>1, <4>2, HoldsIff
      <4> QED BY <2>2, <4>1, <4>2, <4>3
    <3>2. M[b] = mem[b]
      BY <3>1, WrittenBackIs
    <3>3. VisibleIn(blk, mem)[b] = mem[b]
      BY <2>2, VisibleBehind
    <3>4. VisibleIn(B, M)[b] = M[b]
      BY <1>4, <2>1, <2>2, VisibleBehind
    <3> QED BY <3>2, <3>3, <3>4
  <2>3. CASE \E w \in Ways : Holds(blk, <<s, w>>, b)
    <3>1. PICK w \in Ways : Holds(blk, <<s, w>>, b)
      BY <2>3
    <3>2. VisibleIn(blk, mem)[b] = blk[s][w].data
      BY <1>1, <3>1, VisibleCopy
    <3>3. CASE <<s, w>> \notin V
      <4>1. Holds(B, <<s, w>>, b) /\ B[s][w] = blk[s][w]
        BY <1>4, <2>1, <3>1, <3>3
      <4> QED BY <1>2, <3>2, <4>1, VisibleCopy
    <3>4. CASE <<s, w>> \in V
      <4>1. ASSUME NEW x \in Ways, Holds(B, <<s, x>>, b) PROVE FALSE
        <5>1. <<s, x>> \notin V /\ Holds(blk, <<s, x>>, b)
          BY <1>4, <2>1, <4>1
        <5>2. /\ blk[s][w].valid /\ blk[s][w].tag = CACHE_TAG(b)
              /\ blk[s][x].valid /\ blk[s][x].tag = CACHE_TAG(b)
          BY <1>1, <2>1, <3>1, <5>1, HoldsIff
        <5>3. x = w
          BY <1>1, <2>1, <5>2 DEF Unique
        <5> QED BY <3>4, <5>1, <5>3
      <4>2. VisibleIn(B, M)[b] = M[b]
        BY <4>1, VisibleBehind
      <4>3. M[b] = blk[s][w].data
        <5>1. CASE blk[s][w].dirty
          BY <2>1, <3>1, <3>4, <5>1, WrittenBackIs
        <5>2. CASE ~blk[s][w].dirty
          <6>1. ASSUME NEW x \in V, Holds(blk, x, b) PROVE ~blk[x[1]][x[2]].dirty
            <7>1. PICK t \in Sets, y \in Ways : x = <<t, y>>
              OBVIOUS
            <7>2. /\ blk[s][w].valid /\ blk[s][w].tag = CACHE_TAG(b) /\ t = s
                  /\ blk[t][y].valid /\ blk[t][y].tag = CACHE_TAG(b)
              BY <1>1, <2>1, <3>1, <6>1, <7>1, HoldsIff
            <7>3. y = w
              BY <1>1, <2>1, <7>2 DEF Unique
            <7> QED BY <5>2, <7>1, <7>2, <7>3
          <6>2. M[b] = mem[b]
            BY <6>1, WrittenBackIs
          <6> QED BY <1>1, <2>1, <3>1, <5>2, <6>2 DEF CleanIsCopy
        <5> QED BY <5>1, <5>2
      <4> QED BY <3>2, <4>2, <4>3
    <3> QED BY <3>3, <3>4
  <2> QED BY <2>2, <2>3
<1>8. VisibleIn(B, M) = VisibleIn(blk, mem)
  BY <1>7 DEF VisibleIn
<1> QED BY <1>2, <1>6, <1>8 DEF Visible

\* A block that is in no way may be brought into an empty one: the program sees
\* what is brought in, which is a copy of the next level or dirty.
LEMMA FillShows ==
    ASSUME NEW B \in BlkType, NEW M \in MemType, Unique(B), CleanIsCopy(B, M),
           NEW b \in Blocks, NEW w \in Ways, NEW e \in Entry,
           \A x \in Ways : ~Holds(B, <<CACHE_SET(b), x>>, b),
           e.tag = CACHE_TAG(b), e.valid, e.dirty \/ e.data = M[b],
           NEW C \in BlkType, C[CACHE_SET(b)][w] = e,
           \A t \in Sets, x \in Ways :
                t # CACHE_SET(b) \/ x # w => C[t][x] = B[t][x],
           ~B[CACHE_SET(b)][w].valid
    PROVE  /\ Unique(C) /\ CleanIsCopy(C, M)
           /\ VisibleIn(C, M) = [VisibleIn(B, M) EXCEPT ![b] = e.data]
<1> DEFINE s == CACHE_SET(b)
<1>1. s \in Sets
  BY SetAndTag
<1>2. \A x \in Ways : ~(B[s][x].valid /\ B[s][x].tag = CACHE_TAG(b))
  BY <1>1, HoldsIff
<1>3. Unique(C)
  <2>1. SUFFICES ASSUME NEW t \in Sets, NEW x \in Ways, NEW y \in Ways,
                        C[t][x].valid, C[t][y].valid, C[t][x].tag = C[t][y].tag
                 PROVE  x = y
    BY DEF Unique
  <2>2. CASE t # s \/ (x # w /\ y # w)
    BY <2>1, <2>2 DEF Unique
  <2>3. CASE t = s /\ (x = w \/ y = w)
    BY <1>1, <1>2, <2>1, <2>3
  <2> QED BY <2>2, <2>3
<1>4. \A c \in Blocks : Holds(C, <<s, w>>, c) <=> c = b
  <2>1. SUFFICES ASSUME NEW c \in Blocks PROVE Holds(C, <<s, w>>, c) <=> c = b
    OBVIOUS
  <2>2. Holds(C, <<s, w>>, c) <=> CACHE_MK_BADDR(CACHE_TAG(b), s) = c
    BY DEF Holds
  <2>3. CACHE_MK_BADDR(CACHE_TAG(b), s) = b
    BY <1>1, SetAndTag, BaddrOfTag
  <2> QED BY <2>2, <2>3
<1>5. \A t \in Sets, x \in Ways, c \in Blocks :
        t # s \/ x # w => (Holds(C, <<t, x>>, c) <=> Holds(B, <<t, x>>, c))
  BY DEF Holds
<1>6. CleanIsCopy(C, M)
  <2>1. SUFFICES ASSUME NEW t \in Sets, NEW x \in Ways, NEW c \in Blocks,
                        Holds(C, <<t, x>>, c), ~C[t][x].dirty
                 PROVE  C[t][x].data = M[c]
    BY DEF CleanIsCopy
  <2>2. CASE t = s /\ x = w
    BY <1>4, <2>1, <2>2
  <2>3. CASE t # s \/ x # w
    BY <1>5, <2>1, <2>3 DEF CleanIsCopy
  <2> QED BY <2>2, <2>3
<1>7. VisibleIn(C, M)[b] = e.data
  BY <1>3, <1>4, VisibleCopy
<1>8. ASSUME NEW c \in Blocks, c # b PROVE VisibleIn(C, M)[c] = VisibleIn(B, M)[c]
  <2>1. CACHE_SET(c) \in Sets
    BY SetAndTag
  <2>2. \A x \in Ways : Holds(C, <<CACHE_SET(c), x>>, c) =>
                            CACHE_SET(c) # s \/ x # w
    BY <1>4, <1>8
  <2>3. \A x \in Ways : Holds(B, <<CACHE_SET(c), x>>, c) =>
                            CACHE_SET(c) # s \/ x # w
    BY DEF Holds
  <2>4. CASE \E x \in Ways : Holds(B, <<CACHE_SET(c), x>>, c)
    <3>1. PICK x \in Ways : Holds(B, <<CACHE_SET(c), x>>, c)
      BY <2>4
    <3>2. C[CACHE_SET(c)][x] = B[CACHE_SET(c)][x] /\ Holds(C, <<CACHE_SET(c), x>>, c)
      BY <1>5, <2>1, <2>3, <3>1
    <3>3. VisibleIn(B, M)[c] = B[CACHE_SET(c)][x].data
      BY <3>1, VisibleCopy
    <3>4. VisibleIn(C, M)[c] = C[CACHE_SET(c)][x].data
      BY <1>3, <3>2, VisibleCopy
    <3> QED BY <3>2, <3>3, <3>4
  <2>5. CASE ~\E x \in Ways : Holds(B, <<CACHE_SET(c), x>>, c)
    <3>1. \A x \in Ways : ~Holds(C, <<CACHE_SET(c), x>>, c)
      BY <1>5, <2>1, <2>2, <2>5
    <3> QED BY <2>5, <3>1, VisibleBehind
  <2> QED BY <2>4, <2>5
<1>9. VisibleIn(B, M) \in MemType /\ VisibleIn(C, M) \in MemType
  BY VisibleType
<1>10. VisibleIn(C, M) = [VisibleIn(B, M) EXCEPT ![b] = e.data]
  BY <1>7, <1>8, <1>9 DEF MemType
<1> QED BY <1>3, <1>6, <1>10

-----------------------------------------------------------------------------
(* One call *)

Promised == FlatMemory!Next \/ UNCHANGED <<Visible, call, out>>

\* What remains of the invariant when no tag and no validity changes, the
\* links are well formed and the block remembered is a valid one, at the head.
LEMMA HitStep ==
    ASSUME IInv, NEW cmd \in {"Read", "Write"}, NEW b \in Blocks, NEW o \in Words,
           NEW v \in Values, NEW w \in Ways, Holds(blk, <<CACHE_SET(b), w>>, b),
           Deliver(cmd, CACHE_SET(b), w, o, v), UNCHANGED <<mem, hash>>,
           last_tagset' = b, last_blk' = w, call' = <<cmd, b, o>>,
           ways' \in [Sets -> LinkType], \A s \in Sets : Mirrored(ways'[s]),
           policy = "LRU" => ways'[CACHE_SET(b)].way_head = w
    PROVE  IInv' /\ Promised
<1> DEFINE s == CACHE_SET(b)
<1>1. /\ s \in Sets /\ blk \in BlkType
      /\ hash \in [Sets -> [Buckets -> SUBSET Ways]] /\ mem \in MemType
  BY SetAndTag DEF IInv, TypeOK, BlkType, MemType
<1>2. /\ blk' \in BlkType /\ out' \in Values /\ CopiesCoherent'
      /\ \A t \in Sets, x \in Ways : /\ blk'[t][x].tag = blk[t][x].tag
                                     /\ blk'[t][x].valid = blk[t][x].valid
  BY DeliverCorrect
<1>3. TypeOK'
  BY <1>1, <1>2 DEF TypeOK, BlkType, MemType
<1>4. ListsLinked'
  BY DEF ListsLinked
<1>5. HashIndexed'
  BY <1>2 DEF IInv, HashIndexed
<1>6. LastHitValid'
  <2>1. blk[s][w].valid /\ blk[s][w].tag = CACHE_TAG(b)
    BY <1>1, HoldsIff
  <2>2. blk'[s][w].valid /\ blk'[s][w].tag = CACHE_TAG(b)
    BY <1>1, <1>2, <2>1
  <2> QED BY <2>2 DEF LastHitValid
<1>7. FlatMemory!Next
  <2>1. CASE cmd = "Read"
    <3>1. FlatMemory!Read(b, o)
      BY <2>1, DeliverCorrect DEF FlatMemory!Read
    <3> QED BY <3>1 DEF FlatMemory!Next
  <2>2. CASE cmd = "Write"
    <3>1. FlatMemory!Write(b, o, v)
      BY <2>2, DeliverCorrect DEF FlatMemory!Write
    <3> QED BY <3>1 DEF FlatMemory!Next
  <2> QED BY <2>1, <2>2
<1> QED BY <1>2, <1>3, <1>4, <1>5, <1>6, <1>7 DEF IInv, Promised

LEMMA FastHitStep ==
    ASSUME IInv, NEW cmd \in {"Read", "Write"}, NEW b \in Blocks, NEW o \in Words,
           NEW v \in Values, FastHit(cmd, b, o, v), call' = <<cmd, b, o>>
    PROVE  IInv' /\ Promised
<1> DEFINE w == last_blk
<1>1. CACHE_SET(b) \in Sets /\ w \in Ways /\ b = last_tagset /\ blk \in BlkType
  BY SetAndTag DEF FastHit, IInv, TypeOK, BlkType
<1>2. Holds(blk, <<CACHE_SET(b), w>>, b)
  BY <1>1, HoldsIff DEF FastHit, IInv, LastHitValid
<1>3. /\ ways' \in [Sets -> LinkType] /\ \A s \in Sets : Mirrored(ways'[s])
      /\ policy = "LRU" => ways'[CACHE_SET(b)].way_head = w
  BY <1>1 DEF FastHit, IInv, TypeOK, ListsLinked, LastHitValid
<1>4. /\ Deliver(cmd, CACHE_SET(b), w, o, v) /\ UNCHANGED <<mem, hash>>
      /\ last_tagset' = b /\ last_blk' = w
  BY <1>1 DEF FastHit
<1> QED BY <1>1, <1>2, <1>3, <1>4, HitStep

LEMMA SlowHitStep ==
    ASSUME IInv, NEW cmd \in {"Read", "Write"}, NEW b \in Blocks, NEW o \in Words,
           NEW v \in Values, SlowHit(cmd, b, o, v), call' = <<cmd, b, o>>
    PROVE  IInv' /\ Promised
<1> DEFINE s == CACHE_SET(b)
<1>1. PICK w \in Found(b) : /\ Deliver(cmd, s, w, o, v)
                            /\ ways' = [ways EXCEPT ![s] = Reordered(@, w)]
                            /\ Remember(b, w)
  BY DEF SlowHit
<1>2. s \in Sets /\ w \in Ways /\ Holds(blk, <<s, w>>, b)
  BY <1>1, FoundHolds, SetAndTag DEF IInv
<1>3. ways[s] \in LinkType /\ Mirrored(ways[s]) /\ ways \in [Sets -> LinkType]
  BY <1>2 DEF IInv, TypeOK, ListsLinked
<1>4. /\ Reordered(ways[s], w) \in LinkType /\ Mirrored(Reordered(ways[s], w))
      /\ policy = "LRU" => Reordered(ways[s], w).way_head = w
  BY <1>2, <1>3, MovedToHeadMirrored DEF Reordered
<1>5. /\ ways' \in [Sets -> LinkType] /\ \A t \in Sets : Mirrored(ways'[t])
      /\ policy = "LRU" => ways'[s].way_head = w
  BY <1>1, <1>2, <1>3, <1>4 DEF IInv, ListsLinked
<1>6. UNCHANGED <<mem, hash>> /\ last_tagset' = b /\ last_blk' = w
  BY <1>1 DEF SlowHit, Remember
<1> QED BY <1>1, <1>2, <1>5, <1>6, HitStep

\* A flush of the ways V: the lists may be rearranged, nothing else happens.
LEMMA FlushStep ==
    ASSUME IInv, NEW V \in SUBSET (Sets \X Ways), mem' = WrittenBack(V),
           blk' = [s \in Sets |-> [w \in Ways |->
                      IF <<s, w>> \in V THEN [blk[s][w] EXCEPT !.valid = FALSE]
                      ELSE blk[s][w]]],
           ways' \in [Sets -> LinkType], \A s \in Sets : Mirrored(ways'[s]),
           Forget, UNCHANGED <<hash, out>>,
           call' \in {<<"flush">>} \cup {<<"flush_addr", b>> : b \in Blocks}
    PROVE  IInv' /\ Promised
<1>1. /\ blk \in BlkType
      /\ hash \in [Sets -> [Buckets -> SUBSET Ways]] /\ out \in Values
  BY DEF IInv, TypeOK, BlkType
<1>2. \A s \in Sets, w \in Ways : blk[s][w] \in Entry
  BY <1>1 DEF BlkType
<1>3. blk' \in BlkType
  <2>1. \A s \in Sets, w \in Ways : [blk[s][w] EXCEPT !.valid = FALSE] \in Entry
    BY <1>2 DEF Entry
  <2> QED BY <1>2, <2>1 DEF BlkType
<1>4. \A s \in Sets, w \in Ways :
        /\ IF <<s, w>> \in V THEN ~blk'[s][w].valid ELSE blk'[s][w] = blk[s][w]
        /\ blk'[s][w].tag = blk[s][w].tag
  BY <1>2 DEF Entry
<1>5. CopiesCoherent' /\ Visible' = Visible
  <2>1. /\ Unique(blk') /\ CleanIsCopy(blk', WrittenBack(V))
        /\ VisibleIn(blk', WrittenBack(V)) = Visible
    BY <1>3, <1>4, DropKeepsVisible
  <2> QED BY <2>1 DEF CopiesCoherent, Visible
<1>6. TypeOK'
  BY <1>1, <1>3, WrittenBackType DEF TypeOK, BlkType, MemType, Forget
<1>7. ListsLinked'
  BY DEF ListsLinked
<1>8. HashIndexed'
  BY <1>4 DEF IInv, HashIndexed
<1>9. LastHitValid'
  BY DEF LastHitValid, Forget
<1>10. FlatMemory!Next
  BY <1>5 DEF FlatMemory!Next, FlatMemory!Flush
<1> QED BY <1>5, <1>6, <1>7, <1>8, <1>9, <1>10 DEF IInv, Promised

LEMMA CacheFlushStep == ASSUME IInv, cache_flush PROVE IInv' /\ Promised
<1> DEFINE V == Sets \X Ways
<1>1. blk' = [s \in Sets |-> [w \in Ways |->
                 IF <<s, w>> \in V THEN [blk[s][w] EXCEPT !.valid = FALSE]
                 ELSE blk[s][w]]]
  BY DEF cache_flush
<1>2. /\ mem' = WrittenBack(V) /\ Forget /\ UNCHANGED <<hash, out>>
      /\ call' = <<"flush">> /\ ways' = ways
  BY DEF cache_flush
<1>3. ways' \in [Sets -> LinkType] /\ \A s \in Sets : Mirrored(ways'[s])
  BY <1>2 DEF IInv, TypeOK, ListsLinked
<1> HIDE DEF V
<1> QED BY <1>1, <1>2, <1>3, FlushStep DEF V

LEMMA CacheFlushAddrStep ==
    ASSUME IInv, NEW b \in Blocks, cache_flush_addr(b)
    PROVE  IInv' /\ Promised
<1> DEFINE s == CACHE_SET(b)
<1>1. PICK w \in Found(b) : /\ mem' = WrittenBack({<<s, w>>})
                            /\ blk' = [blk EXCEPT ![s][w].valid = FALSE]
                            /\ ways' = [ways EXCEPT ![s] = MovedToTail(@, w)]
                            /\ Forget /\ call' = <<"flush_addr", b>>
                            /\ UNCHANGED <<hash, out>>
  BY DEF cache_flush_addr
<1>2. s \in Sets /\ w \in Ways
  BY <1>1, FoundHolds, SetAndTag DEF IInv
<1> DEFINE V == {<<s, w>>}
<1>3. V \in SUBSET (Sets \X Ways)
  BY <1>2
<1>4. blk' = [t \in Sets |-> [x \in Ways |->
                 IF <<t, x>> \in V THEN [blk[t][x] EXCEPT !.valid = FALSE]
                 ELSE blk[t][x]]]
  <2>1. blk \in BlkType
    BY DEF IInv, TypeOK, BlkType
  <2>2. blk' = [t \in Sets |-> [x \in Ways |->
                   IF t = s /\ x = w THEN [blk[t][x] EXCEPT !.valid = FALSE]
                   ELSE blk[t][x]]]
    BY <1>1, <1>2, <2>1 DEF BlkType
  <2>3. \A t \in Sets, x \in Ways : <<t, x>> \in V <=> t = s /\ x = w
    OBVIOUS
  <2> QED BY <2>2, <2>3
<1>5. ways[s] \in LinkType /\ Mirrored(ways[s]) /\ ways \in [Sets -> LinkType]
  BY <1>2 DEF IInv, TypeOK, ListsLinked
<1>6. ways' \in [Sets -> LinkType] /\ \A t \in Sets : Mirrored(ways'[t])
  BY <1>1, <1>2, <1>5, MovedToTailMirrored DEF IInv, ListsLinked
<1>7. call' \in {<<"flush">>} \cup {<<"flush_addr", c>> : c \in Blocks}
  BY <1>1
<1> HIDE DEF V
<1> QED BY <1>1, <1>3, <1>4, <1>6, <1>7, FlushStep DEF V

\* A miss drops the victim and then fills its way.
LEMMA MissStep ==
    ASSUME IInv, NEW cmd \in {"Read", "Write"}, NEW b \in Blocks, NEW o \in Words,
           NEW v \in Values, Miss(cmd, b, o, v), call' = <<cmd, b, o>>
    PROVE  IInv' /\ Promised
<1> DEFINE s == CACHE_SET(b)
           t == CACHE_TAG(b)
<1>1. /\ s \in Sets /\ t \in Nat /\ blk \in BlkType
      /\ ways \in [Sets -> LinkType] /\ Mirrored(ways[s])
      /\ hash \in [Sets -> [Buckets -> SUBSET Ways]] /\ out \in Values
  BY SetAndTag DEF IInv, TypeOK, BlkType, ListsLinked
<1>2. PICK repl \in Victims(s) :
        /\ mem' = WrittenBack({<<s, repl>>})
        /\ blk' = [blk EXCEPT ![s][repl] =
                      [tag |-> t, valid |-> TRUE, dirty |-> cmd = "Write",
                       data |-> IF cmd = "Write" THEN [mem'[b] EXCEPT ![o] = v]
                                ELSE mem'[b]]]
        /\ out' = IF cmd = "Read" THEN mem'[b][o] ELSE out
        /\ ways' = IF policy = "Random" THEN ways
                   ELSE [ways EXCEPT ![s] = MovedToHead(@, repl)]
        /\ hash' = [hash EXCEPT ![s] = Rechained(@, repl, blk[s][repl].tag, t)]
  BY DEF Miss
<1>3. repl \in Ways
  BY <1>1, <1>2 DEF Victims, Mirrored
<1>4. Forget /\ \A x \in Ways : ~Holds(blk, <<s, x>>, b)
  BY FoundHolds DEF Miss, IInv
<1> DEFINE V == {<<s, repl>>}
           M == WrittenBack(V)
           B == [r \in Sets |-> [x \in Ways |->
                    IF r = s /\ x = repl THEN [blk[r][x] EXCEPT !.valid = FALSE]
                    ELSE blk[r][x]]]
           e == [tag |-> t, valid |-> TRUE, dirty |-> cmd = "Write",
                 data |-> IF cmd = "Write" THEN [M[b] EXCEPT ![o] = v] ELSE M[b]]
<1>5. V \in SUBSET (Sets \X Ways) /\ M \in MemType
  <2>1. V \in SUBSET (Sets \X Ways)
    BY <1>1, <1>3
  <2> QED BY <2>1, WrittenBackType
<1>6. \A r \in Sets, x \in Ways : blk[r][x] \in Entry
  BY <1>1 DEF BlkType
<1>7. B \in BlkType
  <2>1. \A r \in Sets, x \in Ways : [blk[r][x] EXCEPT !.valid = FALSE] \in Entry
    BY <1>6 DEF Entry
  <2> QED BY <1>6, <2>1 DEF BlkType
<1>8. /\ ~B[s][repl].valid
      /\ \A r \in Sets, x \in Ways : r # s \/ x # repl => B[r][x] = blk[r][x]
  BY <1>1, <1>3, <1>6 DEF Entry
<1>9. Unique(B) /\ CleanIsCopy(B, M) /\ VisibleIn(B, M) = Visible
  <2>1. \A r \in Sets, x \in Ways :
          IF <<r, x>> \in V THEN ~B[r][x].valid ELSE B[r][x] = blk[r][x]
    BY <1>8
  <2> HIDE DEF B, V
  <2> QED BY <1>5, <1>7, <2>1, DropKeepsVisible
<1>10. \A x \in Ways : ~Holds(B, <<s, x>>, b)
  BY <1>1, <1>3, <1>4, <1>8 DEF Holds
<1>11. e \in Entry
  <2>1. M[b] \in [Words -> Values] /\ [M[b] EXCEPT ![o] = v] \in [Words -> Values]
    BY <1>5 DEF MemType
  <2> QED BY <1>1, <2>1 DEF Entry
<1>12. blk' = [blk EXCEPT ![s][repl] = e] /\ mem' = M
  BY <1>2
<1>13. e.tag = t /\ e.valid /\ (e.dirty \/ e.data = M[b])
  BY DEF Entry
<1>14. e.data = IF cmd = "Write" THEN [M[b] EXCEPT ![o] = v] ELSE M[b]
  OBVIOUS
<1> HIDE DEF e, M
<1>15. /\ blk' \in BlkType /\ blk'[s][repl] = e
       /\ \A r \in Sets, x \in Ways : r # s \/ x # repl => blk'[r][x] = blk[r][x]
  BY <1>1, <1>3, <1>11, <1>12 DEF BlkType
<1>16. /\ Unique(blk') /\ CleanIsCopy(blk', M)
       /\ VisibleIn(blk', M) = [VisibleIn(B, M) EXCEPT ![b] = e.data]
  <2>1. \A r \in Sets, x \in Ways : r # s \/ x # repl => blk'[r][x] = B[r][x]
    BY <1>8, <1>15
  <2> HIDE DEF B
  <2> QED BY <1>3, <1>5, <1>7, <1>8, <1>9, <1>10, <1>11, <1>13, <1>15, <2>1, FillShows
<1>17. CopiesCoherent' /\ Visible' = [Visible EXCEPT ![b] = e.data]
  BY <1>9, <1>12, <1>16 DEF CopiesCoherent, Visible
<1>18. Visible \in MemType /\ Visible[b] = M[b]
  <2>1. VisibleIn(B, M) \in MemType
    BY <1>5, <1>7, VisibleType
  <2> HIDE DEF B
  <2>2. VisibleIn(B, M)[b] = M[b]
    BY <1>10, VisibleBehind
  <2> QED BY <1>9, <2>1, <2>2
<1>19. out' \in Values /\ Promised
  <2>1. CASE cmd = "Read"
    <3>1. out' = Visible[b][o] /\ Visible' = Visible
      BY <1>2, <1>12, <1>14, <1>17, <1>18, <2>1 DEF MemType
    <3>2. FlatMemory!Read(b, o)
      BY <2>1, <3>1 DEF FlatMemory!Read
    <3> QED BY <1>18, <3>1, <3>2 DEF Promised, FlatMemory!Next, MemType
  <2>2. CASE cmd = "Write"
    <3>1. out' = out /\ Visible' = [Visible EXCEPT ![b] = [@ EXCEPT ![o] = v]]
      BY <1>2, <1>14, <1>17, <1>18, <2>2 DEF MemType
    <3>2. FlatMemory!Write(b, o, v)
      BY <2>2, <3>1 DEF FlatMemory!Write
    <3> QED BY <1>1, <3>1, <3>2 DEF Promised, FlatMemory!Next
  <2> QED BY <2>1, <2>2
<1>20. ways' \in [Sets -> LinkType] /\ ListsLinked'
  <2>1. /\ MovedToHead(ways[s], repl) \in LinkType
        /\ Mirrored(MovedToHead(ways[s], repl))
    BY <1>1, <1>3, MovedToHeadMirrored
  <2> QED BY <1>1, <1>2, <2>1 DEF IInv, ListsLinked
<1>21. hash' \in [Sets -> [Buckets -> SUBSET Ways]]
  BY <1>1, <1>2, <1>3 DEF Rechained
<1>22. HashIndexed'
  <2>1. SUFFICES ASSUME NEW r \in Sets, NEW x \in Ways, NEW k \in Buckets
                 PROVE  x \in hash'[r][k] <=> k = CACHE_HASH(blk'[r][x].tag)
    BY DEF HashIndexed
  <2>2. x \in hash[r][k] <=> k = CACHE_HASH(blk[r][x].tag)
    BY DEF IInv, HashIndexed
  <2>3. CASE r # s
    BY <1>1, <1>2, <1>15, <2>2, <2>3
  <2>4. CASE r = s
    <3>1. hash'[s][k] = IF k = CACHE_HASH(t) THEN hash[s][k] \cup {repl}
                        ELSE IF k = CACHE_HASH(blk[s][repl].tag)
                             THEN hash[s][k] \ {repl} ELSE hash[s][k]
      BY <1>1, <1>2 DEF Rechained
    <3>2. CASE x = repl
      BY <1>13, <1>15, <2>2, <2>4, <3>1, <3>2
    <3>3. CASE x # repl
      BY <1>15, <2>2, <2>4, <3>1, <3>3
    <3> QED BY <3>2, <3>3
  <2> QED BY <2>3, <2>4
<1>23. TypeOK' /\ LastHitValid'
  BY <1>4, <1>5, <1>12, <1>15, <1>19, <1>20, <1>21
  DEF TypeOK, LastHitValid, Forget, BlkType, MemType
<1> QED BY <1>17, <1>19, <1>20, <1>22, <1>23 DEF IInv

LEMMA Step == IInv /\ [Next]_vars => IInv' /\ Promised
<1> SUFFICES ASSUME IInv, [Next]_vars PROVE IInv' /\ Promised
  OBVIOUS
<1>1. CASE Access
  <2>1. PICK b \in Blocks, o \in Words, cmd \in {"Read", "Write"}, v \in Values :
            cache_access(cmd, b, o, v)
    BY <1>1 DEF Access
  <2> QED BY <2>1, FastHitStep, SlowHitStep, MissStep DEF cache_access
<1>2. CASE cache_flush
  BY <1>2, CacheFlushStep
<1>3. ASSUME NEW b \in Blocks, cache_flush_addr(b) PROVE IInv' /\ Promised
  BY <1>3, CacheFlushAddrStep
<1>4. CASE UNCHANGED vars
  <2>1. UNCHANGED <<ways, blk, hash, last_tagset, last_blk, mem, call, out>>
    BY <1>4 DEF vars, cacheVars
  <2>2. Visible' = Visible
    BY <2>1 DEF Visible
  <2> QED BY <2>1, <2>2
      DEF IInv, TypeOK, ListsLinked, HashIndexed, CopiesCoherent, LastHitValid, Promised
<1> QED BY <1>1, <1>2, <1>3, <1>4 DEF Next

-----------------------------------------------------------------------------
(* The order of every set *)

SetsOrdered == \A s \in Sets : Ordered(ways[s], blk[s])

LEMMA SetFacts ==
    ASSUME IInv, SetsOrdered, NEW s \in Sets
    PROVE  /\ ways[s] \in LinkType /\ Mirrored(ways[s]) /\ blk[s] \in [Ways -> Entry]
           /\ OneEach(blk[s]) /\ Ordered(ways[s], blk[s])
<1>1. OneEach(blk[s])
  BY DEF IInv, CopiesCoherent, Unique, OneEach
<1> QED
  BY <1>1 DEF IInv, TypeOK, ListsLinked, SetsOrdered

\* A call that touches one set leaves what is resident of the others.
LEMMA OneSetChanges ==
    ASSUME NEW s \in Sets, NEW r, Tags(ways'[s], blk'[s]) = r,
           \A x \in Sets : x # s => Tags(ways'[x], blk'[x]) = Tags(ways[x], blk[x])
    PROVE  Resident' = [Resident EXCEPT ![s] = r]
BY DEF Resident

LEMMA InitOrdered == ASSUME Init PROVE SetsOrdered /\ Replacement!Init
<1>1. PICK q \in [1 .. assoc -> Ways] : InOrder(InitWayList, q)
  BY InitOrder
<1>2. blk \in BlkType
  BY InitIInv DEF IInv, TypeOK, BlkType
<1>3. ASSUME NEW s \in Sets
      PROVE  Ordered(ways[s], blk[s]) /\ Tags(ways[s], blk[s]) = <<>>
  <2>1. ways[s] = InitWayList /\ \A w \in Ways : ~blk[s][w].valid
    BY DEF Init
  <2>2. blk[s] \in [Ways -> Entry]
    BY <1>2 DEF BlkType
  <2> QED
    BY <1>1, <2>1, <2>2, EmptyOrder
<1>4. Resident = [s \in Sets |-> <<>>] /\ call = <<"create">>
  BY <1>3 DEF Resident, Init
<1> QED
  BY <1>3, <1>4 DEF SetsOrdered, Replacement!Init, Replacement!Sets, Sets

\* A hit, fast or slow: LRU has moved the way to the head, FIFO nothing.
LEMMA HitTouches ==
    ASSUME IInv, SetsOrdered, policy # "Random", NEW cmd \in {"Read", "Write"},
           NEW b \in Blocks, NEW o \in Words, NEW v \in Values, NEW w \in Ways,
           Holds(blk, <<CACHE_SET(b), w>>, b), Deliver(cmd, CACHE_SET(b), w, o, v),
           UNCHANGED mem, call' = <<cmd, b, o>>,
           ways' = [ways EXCEPT ![CACHE_SET(b)] = Reordered(@, w)]
    PROVE  SetsOrdered' /\ Replacement!Next
<1> DEFINE s == CACHE_SET(b)
           t == CACHE_TAG(b)
           l == ways[s]
           r == Tags(l, blk[s])
<1>1. /\ s \in Sets /\ t \in Nat /\ blk \in BlkType /\ ways \in [Sets -> LinkType]
      /\ blk[s][w].valid /\ blk[s][w].tag = t
  <2>1. s \in Sets /\ t \in Nat /\ blk \in BlkType /\ ways \in [Sets -> LinkType]
    BY SetAndTag DEF IInv, TypeOK, BlkType
  <2> QED
    BY <2>1, HoldsIff
<1>2. /\ blk' \in BlkType
      /\ \A x \in Sets, y \in Ways : /\ blk'[x][y].tag = blk[x][y].tag
                                     /\ blk'[x][y].valid = blk[x][y].valid
  BY DeliverCorrect
<1>3. /\ l \in LinkType /\ Mirrored(l) /\ blk[s] \in [Ways -> Entry]
      /\ OneEach(blk[s]) /\ Ordered(l, blk[s])
  BY <1>1, SetFacts
<1>4. ASSUME NEW x \in Sets, x # s
      PROVE  /\ Ordered(ways'[x], blk'[x])
             /\ Tags(ways'[x], blk'[x]) = Tags(ways[x], blk[x])
  <2>1. Ordered(ways[x], blk[x]) /\ ways'[x] = ways[x]
    BY <1>1, <1>4 DEF SetsOrdered
  <2>2. blk[x] \in [Ways -> Entry] /\ blk'[x] \in [Ways -> Entry]
    BY <1>1, <1>2 DEF BlkType
  <2> QED
    BY <1>2, <2>1, <2>2, SameTags
<1>5. ways'[s] = Reordered(l, w) /\ blk'[s] \in [Ways -> Entry]
  BY <1>1, <1>2 DEF BlkType
<1>6. t \in Replacement!ToSet(r)
  BY <1>1, <1>3, ResidentTag
<1>7. Ordered(ways'[s], blk'[s]) /\ Tags(ways'[s], blk'[s]) = Replacement!Touched(r, t)
  <2>1. /\ Ordered(ways'[s], blk[s])
        /\ Tags(ways'[s], blk[s]) = Replacement!Touched(r, t)
    <3>1. CASE policy = "LRU"
      <4>1. ways'[s] = MovedToHead(l, w)
        BY <1>5, <3>1 DEF Reordered
      <4>2. /\ Ordered(MovedToHead(l, w), blk[s])
            /\ Tags(MovedToHead(l, w), blk[s]) = <<t>> \o Replacement!Without(r, t)
        BY <1>1, <1>3, HitOrder
      <4> QED
        BY <1>6, <3>1, <4>1, <4>2 DEF Replacement!Touched
    <3>2. CASE policy # "LRU"
      BY <1>3, <1>5, <1>6, <3>2 DEF Reordered, Replacement!Touched
    <3> QED
      BY <3>1, <3>2
  <2>2. \A y \in Ways : blk'[s][y].valid = blk[s][y].valid /\ blk'[s][y].tag = blk[s][y].tag
    BY <1>1, <1>2
  <2>3. /\ Ordered(ways'[s], blk'[s])
        /\ Tags(ways'[s], blk'[s]) = Tags(ways'[s], blk[s])
    BY <1>3, <1>5, <2>1, <2>2, SameTags
  <2> QED
    BY <2>1, <2>3
<1>8. SetsOrdered'
  BY <1>4, <1>7 DEF SetsOrdered
<1>9. Resident' = [Resident EXCEPT ![s] = Replacement!Touched(r, t)]
  BY <1>1, <1>4, <1>7, OneSetChanges
<1>10. Resident[s] = r
  BY <1>1 DEF Resident
<1>11. Replacement!Access(b)
  BY <1>9, <1>10 DEF Replacement!Access, CACHE_SET, CACHE_TAG
<1> QED
  BY <1>8, <1>11 DEF Replacement!Next

LEMMA FastHitTouches ==
    ASSUME IInv, SetsOrdered, policy # "Random", NEW cmd \in {"Read", "Write"},
           NEW b \in Blocks, NEW o \in Words, NEW v \in Values,
           FastHit(cmd, b, o, v), call' = <<cmd, b, o>>
    PROVE  SetsOrdered' /\ Replacement!Next
<1> DEFINE s == CACHE_SET(b)
           w == last_blk
<1>1. s \in Sets /\ w \in Ways /\ b = last_tagset /\ blk \in BlkType
      /\ ways \in [Sets -> LinkType] /\ Mirrored(ways[s])
  BY SetAndTag DEF FastHit, IInv, TypeOK, BlkType, ListsLinked
<1>2. Holds(blk, <<s, w>>, b)
  BY <1>1, HoldsIff DEF FastHit, IInv, LastHitValid
<1>3. Reordered(ways[s], w) = ways[s]
  <2>1. CASE policy = "LRU"
    <3>1. ways[s].way_head = w
      BY <1>1, <2>1 DEF FastHit, IInv, LastHitValid
    <3>2. ways[s].way_prev[w] = NULL
      BY <1>1, <3>1 DEF Mirrored, Asserted
    <3> QED
      BY <3>2 DEF Reordered, MovedToHead
  <2>2. CASE policy # "LRU"
    BY <2>2 DEF Reordered
  <2> QED
    BY <2>1, <2>2
<1>4. ways' = [ways EXCEPT ![s] = Reordered(@, w)]
  BY <1>1, <1>3 DEF FastHit
<1>5. Deliver(cmd, s, w, o, v) /\ UNCHANGED mem
  BY DEF FastHit
<1> QED
  BY <1>1, <1>2, <1>4, <1>5, HitTouches

LEMMA SlowHitTouches ==
    ASSUME IInv, SetsOrdered, policy # "Random", NEW cmd \in {"Read", "Write"},
           NEW b \in Blocks, NEW o \in Words, NEW v \in Values,
           SlowHit(cmd, b, o, v), call' = <<cmd, b, o>>
    PROVE  SetsOrdered' /\ Replacement!Next
<1> DEFINE s == CACHE_SET(b)
<1>1. PICK w \in Found(b) : /\ Deliver(cmd, s, w, o, v)
                            /\ ways' = [ways EXCEPT ![s] = Reordered(@, w)]
  BY DEF SlowHit
<1>2. w \in Ways /\ Holds(blk, <<s, w>>, b)
  BY <1>1, FoundHolds DEF IInv
<1>3. UNCHANGED mem
  BY DEF SlowHit
<1> QED
  BY <1>1, <1>2, <1>3, HitTouches

LEMMA MissEnters ==
    ASSUME IInv, SetsOrdered, policy # "Random", NEW cmd \in {"Read", "Write"},
           NEW b \in Blocks, NEW o \in Words, NEW v \in Values,
           Miss(cmd, b, o, v), call' = <<cmd, b, o>>
    PROVE  SetsOrdered' /\ Replacement!Next
<1> DEFINE s == CACHE_SET(b)
           t == CACHE_TAG(b)
           l == ways[s]
           r == Tags(l, blk[s])
           repl == l.way_tail
<1>1. s \in Sets /\ t \in Nat /\ blk \in BlkType /\ ways \in [Sets -> LinkType]
  BY SetAndTag DEF IInv, TypeOK, BlkType
<1>2. blk' \in BlkType
  BY MissStep DEF IInv, TypeOK, BlkType
<1>3. /\ l \in LinkType /\ Mirrored(l) /\ blk[s] \in [Ways -> Entry]
      /\ OneEach(blk[s]) /\ Ordered(l, blk[s])
  BY <1>1, SetFacts
<1>4. /\ blk' = [blk EXCEPT ![s][repl] =
                    [tag |-> t, valid |-> TRUE, dirty |-> cmd = "Write",
                     data |-> IF cmd = "Write" THEN [mem'[b] EXCEPT ![o] = v]
                              ELSE mem'[b]]]
      /\ ways' = [ways EXCEPT ![s] = MovedToHead(@, repl)]
  BY DEF Miss, Victims
<1>5. repl \in Ways
  BY <1>3 DEF Mirrored
<1>6. /\ blk'[s][repl].valid /\ blk'[s][repl].tag = t
      /\ \A x \in Sets, y \in Ways : x # s \/ y # repl => blk'[x][y] = blk[x][y]
      /\ \A x \in Sets : x # s => blk'[x] = blk[x]
  BY <1>1, <1>4, <1>5 DEF BlkType
<1>7. \A y \in Ways : ~(blk[s][y].valid /\ blk[s][y].tag = t)
  <2> TAKE y \in Ways
  <2>1. ~Holds(blk, <<s, y>>, b)
    BY FoundHolds DEF Miss, IInv
  <2> QED
    BY <1>1, <2>1, HoldsIff
<1>8. ways'[s] = MovedToHead(l, repl) /\ blk'[s] \in [Ways -> Entry]
      /\ \A x \in Sets : x # s => ways'[x] = ways[x]
  BY <1>1, <1>2, <1>4 DEF BlkType
<1> HIDE DEF s, t
<1>9. \A y \in Ways : IF y = repl THEN blk'[s][y].valid /\ blk'[s][y].tag = t
                      ELSE /\ blk'[s][y].valid = blk[s][y].valid
                           /\ blk'[s][y].tag = blk[s][y].tag
  BY <1>1, <1>6
<1>10. Ordered(ways'[s], blk'[s]) /\ Tags(ways'[s], blk'[s]) = Replacement!Entered(r, t)
  BY <1>1, <1>3, <1>7, <1>8, <1>9, EnterOrder
<1>11. Replacement!Touched(r, t) = Replacement!Entered(r, t)
  <2>1. t \notin Replacement!ToSet(r)
    BY <1>3, <1>7, ResidentTag
  <2> QED
    BY <2>1 DEF Replacement!Touched
<1>12. ASSUME NEW x \in Sets, x # s
       PROVE  /\ Ordered(ways'[x], blk'[x])
              /\ Tags(ways'[x], blk'[x]) = Tags(ways[x], blk[x])
  BY <1>6, <1>8, <1>12 DEF SetsOrdered
<1>13. SetsOrdered'
  BY <1>10, <1>12 DEF SetsOrdered
<1>14. Resident' = [Resident EXCEPT ![s] = Replacement!Touched(r, t)]
  BY <1>1, <1>10, <1>11, <1>12, OneSetChanges
<1>15. Resident[s] = r
  BY <1>1 DEF Resident
<1>16. Replacement!Access(b)
  BY <1>14, <1>15 DEF Replacement!Access, CACHE_SET, CACHE_TAG, s, t
<1> QED
  BY <1>13, <1>16 DEF Replacement!Next

LEMMA FlushClears ==
    ASSUME IInv, SetsOrdered, cache_flush
    PROVE  SetsOrdered' /\ Replacement!Next
<1>1. blk \in BlkType /\ blk' \in BlkType
  BY CacheFlushStep DEF IInv, TypeOK, BlkType
<1>2. ASSUME NEW s \in Sets
      PROVE  Ordered(ways'[s], blk'[s]) /\ Tags(ways'[s], blk'[s]) = <<>>
  <2>1. PICK q \in [1 .. assoc -> Ways], n \in 0 .. assoc : Packed(ways[s], blk[s], q, n)
    BY DEF SetsOrdered, Ordered
  <2>2. InOrder(ways'[s], q)
    BY <2>1 DEF Packed, cache_flush
  <2>3. \A w \in Ways : ~blk'[s][w].valid
    <3> TAKE w \in Ways
    <3>1. blk[s][w] \in Entry
      BY <1>1 DEF BlkType
    <3>2. blk'[s][w] = [blk[s][w] EXCEPT !.valid = FALSE]
      BY DEF cache_flush
    <3> QED
      BY <3>1, <3>2 DEF Entry
  <2>4. blk'[s] \in [Ways -> Entry]
    BY <1>1 DEF BlkType
  <2> QED
    BY <2>2, <2>3, <2>4, EmptyOrder
<1>3. Resident' = [s \in Sets |-> <<>>] /\ call' = <<"flush">>
  BY <1>2 DEF Resident, cache_flush
<1>4. Replacement!Clear
  BY <1>3 DEF Replacement!Clear, Replacement!Sets, Sets
<1> QED
  BY <1>2, <1>4 DEF SetsOrdered, Replacement!Next

LEMMA FlushAddrDrops ==
    ASSUME IInv, SetsOrdered, NEW b \in Blocks, cache_flush_addr(b)
    PROVE  SetsOrdered' /\ Replacement!Next
<1> DEFINE s == CACHE_SET(b)
           t == CACHE_TAG(b)
           l == ways[s]
           r == Tags(l, blk[s])
<1>1. s \in Sets /\ t \in Nat /\ blk \in BlkType /\ ways \in [Sets -> LinkType]
  BY SetAndTag DEF IInv, TypeOK, BlkType
<1>2. blk' \in BlkType
  BY CacheFlushAddrStep DEF IInv, TypeOK, BlkType
<1>3. /\ l \in LinkType /\ Mirrored(l) /\ blk[s] \in [Ways -> Entry]
      /\ OneEach(blk[s]) /\ Ordered(l, blk[s])
  BY <1>1, SetFacts
<1>4. PICK w \in Found(b) : /\ blk' = [blk EXCEPT ![s][w].valid = FALSE]
                            /\ ways' = [ways EXCEPT ![s] = MovedToTail(@, w)]
  BY DEF cache_flush_addr
<1>5. w \in Ways /\ blk[s][w].valid /\ blk[s][w].tag = t
  <2>1. w \in Ways /\ Holds(blk, <<s, w>>, b)
    BY <1>4, FoundHolds DEF IInv
  <2> QED
    BY <1>1, <2>1, HoldsIff
<1>6. /\ \A y \in Ways : blk'[s][y] = IF y = w THEN [blk[s][w] EXCEPT !.valid = FALSE]
                                      ELSE blk[s][y]
      /\ \A x \in Sets : x # s => blk'[x] = blk[x]
  BY <1>1, <1>4, <1>5 DEF BlkType
<1>7. /\ ways'[s] = MovedToTail(l, w) /\ blk'[s] \in [Ways -> Entry]
      /\ \A x \in Sets : x # s => ways'[x] = ways[x]
  BY <1>1, <1>2, <1>4 DEF BlkType
<1> HIDE DEF s, t
<1>8. \A y \in Ways : /\ (blk'[s][y].valid <=> blk[s][y].valid /\ y # w)
                      /\ blk'[s][y].tag = blk[s][y].tag
  <2> TAKE y \in Ways
  <2>1. blk[s][y] \in Entry
    BY <1>3
  <2>2. CASE y = w
    BY <1>6, <2>1, <2>2 DEF Entry
  <2>3. CASE y # w
    BY <1>6, <2>3
  <2> QED
    BY <2>2, <2>3
<1>9. /\ Ordered(ways'[s], blk'[s])
      /\ Tags(ways'[s], blk'[s]) = Replacement!Without(r, t)
  BY <1>3, <1>5, <1>7, <1>8, LeaveOrder
<1>10. ASSUME NEW x \in Sets, x # s
       PROVE  /\ Ordered(ways'[x], blk'[x])
              /\ Tags(ways'[x], blk'[x]) = Tags(ways[x], blk[x])
  BY <1>6, <1>7, <1>10 DEF SetsOrdered
<1>11. SetsOrdered'
  BY <1>9, <1>10 DEF SetsOrdered
<1>12. Resident' = [Resident EXCEPT ![s] = Replacement!Without(r, t)]
  BY <1>1, <1>9, <1>10, OneSetChanges
<1>13. Resident[s] = r /\ call' = <<"flush_addr", b>>
  BY <1>1 DEF Resident, cache_flush_addr
<1>14. Replacement!Drop(b)
  BY <1>12, <1>13 DEF Replacement!Drop, CACHE_SET, CACHE_TAG, s, t
<1> QED
  BY <1>11, <1>14 DEF Replacement!Next

LEMMA OrderStep ==
    ASSUME policy # "Random", IInv, SetsOrdered, [Next]_vars
    PROVE  SetsOrdered' /\ [Replacement!Next]_<<Resident, call>>
<1>1. CASE Access
  <2>1. PICK b \in Blocks, o \in Words, cmd \in {"Read", "Write"}, v \in Values :
            cache_access(cmd, b, o, v)
    BY <1>1 DEF Access
  <2> QED
    BY <2>1, FastHitTouches, SlowHitTouches, MissEnters DEF cache_access
<1>2. CASE cache_flush
  BY <1>2, FlushClears
<1>3. ASSUME NEW b \in Blocks, cache_flush_addr(b)
      PROVE  SetsOrdered' /\ Replacement!Next
  BY <1>3, FlushAddrDrops
<1>4. CASE UNCHANGED vars
  <2>1. ways' = ways /\ blk' = blk /\ call' = call
    BY <1>4 DEF vars, cacheVars
  <2> QED
    BY <2>1 DEF SetsOrdered, Resident
<1> QED
  BY <1>1, <1>2, <1>3, <1>4 DEF Next

-----------------------------------------------------------------------------
(* The theorems *)

LEMMA Invariance == Spec => []IInv
BY InitIInv, Step, PTL DEF Spec

\* Whatever the accesses, replacements and flushes, the links of every way list
\* stay well formed: the assertions of update_way_list hold in every run.
THEOREM ListsStayLinked == Spec => []ListsLinked
<1>1. IInv => ListsLinked
  BY DEF IInv
<1> QED BY <1>1, Invariance, PTL

\* A block is in one way at most, a clean copy is what the next level holds,
\* and the fast path of cache_access delivers the block it was asked for.
THEOREM FastPathIsSafe == Spec => [](CopiesCoherent /\ LastHitValid)
<1>1. IInv => CopiesCoherent /\ LastHitValid
  BY DEF IInv
<1> QED BY <1>1, Invariance, PTL

\* For every number of sets and ways, policy and hash table, the cache and the
\* level behind it implement a flat memory: a read returns what was written
\* last, through hits, write-backs, refills and flushes.
THEOREM CacheImplementsMemory == Spec => ImplementsMemory
<1>1. Init => FlatMemory!Init
  <2> SUFFICES ASSUME Init PROVE FlatMemory!Init
    OBVIOUS
  <2>1. blk \in BlkType /\ mem \in MemType
    BY InitIInv DEF IInv, TypeOK, BlkType, MemType
  <2>2. Visible \in [Blocks -> [Words -> Values]]
    BY <2>1, VisibleType DEF Visible, MemType
  <2> QED BY <2>2 DEF Init, FlatMemory!Init
<1>2. IInv /\ [Next]_vars => [FlatMemory!Next]_<<Visible, call, out>>
  BY Step DEF Promised
<1> QED BY <1>1, <1>2, Invariance, PTL DEF Spec, ImplementsMemory, FlatMemory!Spec

\* Unless the victim is drawn at random, what is resident of every set are the
\* tags a sequence would hold from which LRU evicts the one not used for longest
\* and FIFO the one longest there: the links that update_way_list changes one by
\* one keep the order, an empty way is used before a valid one is given up, and
\* a block flushed leaves the order of the others.
THEOREM CacheKeepsOrder == policy # "Random" => (Spec => KeepsOrder)
<1> SUFFICES ASSUME policy # "Random" PROVE Spec => KeepsOrder
  OBVIOUS
<1>1. Init => SetsOrdered /\ Replacement!Init
  BY InitOrdered
<1>2. IInv /\ SetsOrdered /\ [Next]_vars =>
          SetsOrdered' /\ [Replacement!Next]_<<Resident, call>>
  BY OrderStep
<1> QED BY <1>1, <1>2, Invariance, PTL DEF Spec, KeepsOrder, Replacement!Spec
=============================================================================
