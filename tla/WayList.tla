------------------------------ MODULE WayList -------------------------------
(***************************************************************************)
(* The order in which the ways of a cache set will be replaced: the doubly *)
(* linked list of cache.c, from the most recent way at way_head to the     *)
(* next victim at way_tail.  A way is its index in the set; the links are  *)
(* kept in the blocks (way_next, way_prev) and in the set (head, tail).    *)
(***************************************************************************)
EXTENDS Integers

CONSTANT assoc

ASSUME AssocAssumption == assoc \in Nat \ {0}

Ways == 0 .. assoc - 1
NULL == -1

\* cache_create pushes way after way on the head.
InitWayList ==
    [way_head |-> assoc - 1, way_tail |-> 0,
     way_next |-> [w \in Ways |-> IF w = 0 THEN NULL ELSE w - 1],
     way_prev |-> [w \in Ways |-> IF w = assoc - 1 THEN NULL ELSE w + 1]]

\* What the assertions of update_way_list say of a list l it is to move w in.
Asserted(l, w) ==
    /\ (l.way_prev[w] = NULL) <=> (l.way_head = w)
    /\ (l.way_next[w] = NULL) <=> (l.way_tail = w)

\* Faulty variant: the way behind w keeps its link back to w.
UnlinkedForward(l, w) ==
    LET p == l.way_prev[w]
        x == l.way_next[w]
    IN  [l EXCEPT !.way_head = IF p = NULL THEN x ELSE @,
                  !.way_tail = IF x = NULL THEN p ELSE @,
                  !.way_next = [v \in Ways |-> IF v = p THEN x ELSE @[v]]]

Unlinked(l, w) ==
    LET p == l.way_prev[w]
        x == l.way_next[w]
    IN  [way_head |-> IF p = NULL THEN x ELSE l.way_head,
         way_tail |-> IF x = NULL THEN p ELSE l.way_tail,
         way_next |-> [v \in Ways |-> IF v = p THEN x ELSE l.way_next[v]],
         way_prev |-> [v \in Ways |-> IF v = x THEN p ELSE l.way_prev[v]]]

LinkedAtHead(l, w) ==
    [l EXCEPT !.way_next = [@ EXCEPT ![w] = l.way_head],
              !.way_prev = [@ EXCEPT ![w] = NULL, ![l.way_head] = w],
              !.way_head = w]

LinkedAtTail(l, w) ==
    [l EXCEPT !.way_prev = [@ EXCEPT ![w] = l.way_tail],
              !.way_next = [@ EXCEPT ![w] = NULL, ![l.way_tail] = w],
              !.way_tail = w]

\* update_way_list(set, w, Head) and (set, w, Tail)
MovedToHead(l, w) ==
    IF l.way_prev[w] = NULL THEN l ELSE LinkedAtHead(Unlinked(l, w), w)

\* Faulty variant: a way at the tail is not told from one in the middle.
MovedToTailFromMiddle(l, w) ==
    IF l.way_prev[w] = NULL THEN l ELSE LinkedAtTail(Unlinked(l, w), w)

MovedToTail(l, w) ==
    IF l.way_next[w] = NULL THEN l ELSE LinkedAtTail(Unlinked(l, w), w)

\* The k-th way of the list, NULL behind its end.
WayAt(l) ==
    LET at[k \in 1 .. assoc] ==
            IF k = 1 THEN l.way_head
            ELSE IF at[k - 1] = NULL THEN NULL ELSE l.way_next[at[k - 1]]
    IN  at

-----------------------------------------------------------------------------
(* What holds of a well formed list. *)

\* The links mirror one another, and only the ends have none.
Mirrored(l) ==
    /\ l.way_head \in Ways /\ l.way_tail \in Ways
    /\ \A w \in Ways :
        /\ l.way_next[w] \in Ways \cup {NULL}
        /\ l.way_prev[w] \in Ways \cup {NULL}
        /\ l.way_next[w] \in Ways => l.way_prev[l.way_next[w]] = w
        /\ l.way_prev[w] \in Ways => l.way_next[l.way_prev[w]] = w
        /\ Asserted(l, w)
=============================================================================
