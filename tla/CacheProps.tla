----------------------------- MODULE CacheProps -----------------------------
(***************************************************************************)
(* What makes a cache of module Cache correct.                             *)
(***************************************************************************)
EXTENDS Cache, Sequences

Entry == [tag : Nat, valid : BOOLEAN, dirty : BOOLEAN, data : [Words -> Values]]

LinkType ==
    [way_head : Ways \cup {NULL}, way_tail : Ways \cup {NULL},
     way_next : [Ways -> Ways \cup {NULL}], way_prev : [Ways -> Ways \cup {NULL}]]

\* Every field of the cache and of its blocks holds a value of its type.
TypeOK ==
    /\ ways \in [Sets -> LinkType]
    /\ blk \in [Sets -> [Ways -> Entry]]
    /\ hash \in [Sets -> [Buckets -> SUBSET Ways]]
    /\ last_tagset \in Blocks \cup {0} /\ last_blk \in Ways \cup {NULL}
    /\ mem \in [Blocks -> [Words -> Values]] /\ out \in Values

\* The links of the way list mirror one another in every set, so that no
\* assertion of update_way_list fails.
ListsLinked == \A s \in Sets : Mirrored(ways[s])

\* A block is in the chain of its own tag and in no other: the search through
\* the hash table finds what the search through the list would.
HashIndexed ==
    \A s \in Sets, w \in Ways, k \in Buckets :
        w \in hash[s][k] <=> k = CACHE_HASH(blk[s][w].tag)

\* The fast path is right: the block remembered is still that of the address
\* remembered, is valid, and no slow hit of another block has gone before it.
LastHitValid ==
    last_blk # NULL =>
        LET s == CACHE_SET(last_tagset)
        IN  /\ blk[s][last_blk].valid
            /\ blk[s][last_blk].tag = CACHE_TAG(last_tagset)
            /\ policy = "LRU" => ways[s].way_head = last_blk

-----------------------------------------------------------------------------
\* A block is in one way at most, and its copy may be dropped unless it is
\* dirty: a clean copy is what the next level holds.
Unique(B) ==
    \A s \in Sets, w, x \in Ways :
        B[s][w].valid /\ B[s][x].valid /\ B[s][w].tag = B[s][x].tag => w = x
CleanIsCopy(B, M) ==
    \A s \in Sets, w \in Ways, b \in Blocks :
        Holds(B, <<s, w>>, b) /\ ~B[s][w].dirty => B[s][w].data = M[b]
CopiesCoherent == Unique(blk) /\ CleanIsCopy(blk, mem)

\* What the program sees of a block: the copy in the cache if there is one.
VisibleIn(B, M) ==
    [b \in Blocks |->
        IF \E w \in Ways : Holds(B, <<CACHE_SET(b), w>>, b)
        THEN LET w == CHOOSE x \in Ways : Holds(B, <<CACHE_SET(b), x>>, b)
             IN  B[CACHE_SET(b)][w].data
        ELSE M[b]]
Visible == VisibleIn(blk, mem)

FlatMemory == INSTANCE FlatMemory WITH memory <- Visible

\* A read returns what was last written, however often the block was replaced,
\* written back, flushed and fetched again in between: the cache implements a
\* memory.
ImplementsMemory == FlatMemory!Spec

\* The tags of the valid blocks of a set, in the order of its way list l.
Tags(l, B) ==
    LET at == WayAt(l)
        tags[k \in 0 .. assoc] ==
            IF k = 0 THEN <<>>
            ELSE IF B[at[k]].valid THEN Append(tags[k - 1], B[at[k]].tag) ELSE tags[k - 1]
    IN  tags[assoc]
Resident == [s \in Sets |-> Tags(ways[s], blk[s])]

Replacement == INSTANCE ReplacementOrder WITH resident <- Resident

\* LRU evicts the block not used for longest and FIFO the one longest there,
\* an empty way is used before either, and a flush keeps the order of the rest.
KeepsOrder == Replacement!Spec

-----------------------------------------------------------------------------
\* cache_access takes its fast path for an "access to same block" (the comment
\* on it) as the last hit, so there is one.
FastPathHasBlock == \A b \in Blocks : b = last_tagset => last_blk # NULL
=============================================================================
