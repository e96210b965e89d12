------------------------------- MODULE Cache --------------------------------
(***************************************************************************)
(* One cache or TLB of cache.c, with the next level of the hierarchy       *)
(* behind its blk_access_fn.  An address is the number of its block: the   *)
(* accesses the simulators make never span two blocks, and an offset only  *)
(* selects a word of one.  A block carries its data, as it does when the   *)
(* cache is created with balloc.  One action is one call from the          *)
(* simulator.  Latencies are not modelled.                                 *)
(***************************************************************************)
EXTENDS WayList

CONSTANTS
    nsets,
    hsize,        \* buckets of the hash table of a set, 0 for none
    policy,       \* "LRU", "FIFO" or "Random"
    Blocks,       \* the block addresses accessed
    Words,        \* the words of a block
    Values

ASSUME CacheAssumption ==
    /\ nsets \in Nat \ {0} /\ hsize \in Nat
    /\ policy \in {"LRU", "FIFO", "Random"}
    /\ Blocks \subseteq Nat /\ 0 \in Values

VARIABLES
    ways,         \* set -> the list of its ways
    blk,          \* set -> way -> [tag, valid, dirty, data]
    hash,         \* set -> bucket -> the ways chained in it
    last_tagset, last_blk,       \* the block that hit last
    mem,          \* the next level: block -> word -> value
    call,         \* the last call: what was asked, of which block and word
    out           \* the buffer of the last read

cacheVars == <<ways, blk, hash, last_tagset, last_blk>>
vars      == <<cacheVars, mem, call, out>>

Sets    == 0 .. nsets - 1
Buckets == 0 .. hsize - 1

CACHE_TAG(b) == b \div nsets
CACHE_SET(b) == b % nsets
CACHE_MK_BADDR(tag, s) == tag * nsets + s
\* The folding of the key that CACHE_HASH does leaves keys below 256 alone.
CACHE_HASH(tag) == tag % hsize

\* cache_create
Init ==
    /\ ways = [s \in Sets |-> InitWayList]
    /\ blk = [s \in Sets |-> [w \in Ways |->
                 [tag |-> 0, valid |-> FALSE, dirty |-> FALSE,
                  data |-> [o \in Words |-> 0]]]]
    /\ hash = [s \in Sets |-> [k \in Buckets |->
                  IF k = CACHE_HASH(0) THEN Ways ELSE {}]]
    /\ last_tagset = 0 /\ last_blk = NULL
    /\ mem \in [Blocks -> [Words -> Values]]
    /\ call = <<"create">> /\ out = 0

-----------------------------------------------------------------------------
\* Where a block is looked for: the chain of its bucket if there is a hash
\* table, else the list of the ways.
Searched(b) ==
    IF hsize > 0 THEN hash[CACHE_SET(b)][CACHE_HASH(CACHE_TAG(b))] ELSE Ways

Found(b) ==
    {w \in Searched(b) : /\ blk[CACHE_SET(b)][w].tag = CACHE_TAG(b)
                         /\ blk[CACHE_SET(b)][w].valid}

cache_probe(b) == Found(b) # {}

\* blow away the last block to hit
StillThere == UNCHANGED <<last_tagset, last_blk>>          \* faulty variant
Forget == last_tagset' = 0 /\ last_blk' = NULL

Remember(b, w) == last_tagset' = b /\ last_blk' = w

\* The next level once the valid and dirty ones of the blocks at <<set, way>> in
\* V have been written back.
Holds(B, x, b) ==
    LET e == B[x[1]][x[2]] IN e.valid /\ CACHE_MK_BADDR(e.tag, x[1]) = b
WrittenBack(V) ==
    [b \in Blocks |->
        IF \E x \in V : Holds(blk, x, b) /\ blk[x[1]][x[2]].dirty
        THEN LET x == CHOOSE y \in V : Holds(blk, y, b) /\ blk[y[1]][y[2]].dirty
             IN  blk[x[1]][x[2]].data
        ELSE mem[b]]

\* A hit delivers from, or stores into, word o of way w of set s.
Deliver(cmd, s, w, o, v) ==
    IF cmd = "Read"
    THEN out' = blk[s][w].data[o] /\ UNCHANGED blk
    ELSE /\ blk' = [blk EXCEPT ![s][w].dirty = TRUE, ![s][w].data[o] = v]
         /\ UNCHANGED out

-----------------------------------------------------------------------------
(* cache_access *)

\* The block that hit last; with no such block the code would dereference NULL.
FastHit(cmd, b, o, v) ==
    /\ b = last_tagset /\ last_blk # NULL
    /\ Deliver(cmd, CACHE_SET(b), last_blk, o, v)
    /\ UNCHANGED <<ways, hash, last_tagset, last_blk, mem>>

Reordered(l, w) == IF policy = "LRU" THEN MovedToHead(l, w) ELSE l

SlowHit(cmd, b, o, v) ==
    /\ b # last_tagset
    /\ LET s == CACHE_SET(b)
       IN  \E w \in Found(b) :
            /\ Deliver(cmd, s, w, o, v)
            /\ ways' = [ways EXCEPT ![s] = Reordered(@, w)]
            /\ Remember(b, w)
    /\ UNCHANGED <<hash, mem>>

Victims(s) == IF policy = "Random" THEN Ways ELSE {ways[s].way_tail}

\* The hash table of a set when way w gives up one tag for another.  Faulty
\* variant: it leaves the chain of the old tag last.
UnchainedLast(h, w, old, new) ==
    [k \in Buckets |->
        IF k = CACHE_HASH(old) THEN h[k] \ {w}
        ELSE IF k = CACHE_HASH(new) THEN h[k] \cup {w} ELSE h[k]]
Rechained(h, w, old, new) ==
    [k \in Buckets |->
        IF k = CACHE_HASH(new) THEN h[k] \cup {w}
        ELSE IF k = CACHE_HASH(old) THEN h[k] \ {w} ELSE h[k]]

Miss(cmd, b, o, v) ==
    /\ b # last_tagset /\ Found(b) = {}
    /\ LET s == CACHE_SET(b)
           t == CACHE_TAG(b)
       IN  \E repl \in Victims(s) :
            /\ mem' = WrittenBack({<<s, repl>>})
            /\ blk' = [blk EXCEPT ![s][repl] =
                          [tag |-> t, valid |-> TRUE, dirty |-> cmd = "Write",
                           data |-> IF cmd = "Write" THEN [mem'[b] EXCEPT ![o] = v]
                                    ELSE mem'[b]]]
            /\ out' = IF cmd = "Read" THEN mem'[b][o] ELSE out
            /\ ways' = IF policy = "Random" THEN ways
                       ELSE [ways EXCEPT ![s] = MovedToHead(@, repl)]
            /\ hash' = [hash EXCEPT ![s] = Rechained(@, repl, blk[s][repl].tag, t)]
    /\ Forget

cache_access(cmd, b, o, v) ==
    /\ FastHit(cmd, b, o, v) \/ SlowHit(cmd, b, o, v) \/ Miss(cmd, b, o, v)
    /\ call' = <<cmd, b, o>>

-----------------------------------------------------------------------------
\* The whole cache is written back and invalidated; dirty bits stay as they are.
cache_flush ==
    /\ mem' = WrittenBack(Sets \X Ways)
    /\ blk' = [s \in Sets |-> [w \in Ways |-> [blk[s][w] EXCEPT !.valid = FALSE]]]
    /\ Forget /\ call' = <<"flush">>
    /\ UNCHANGED <<ways, hash, out>>

\* One block is, and becomes the next victim of its set.
cache_flush_addr(b) ==
    LET s == CACHE_SET(b)
    IN  \E w \in Found(b) :
            /\ mem' = WrittenBack({<<s, w>>})
            /\ blk' = [blk EXCEPT ![s][w].valid = FALSE]
            /\ ways' = [ways EXCEPT ![s] = MovedToTail(@, w)]
            /\ Forget /\ call' = <<"flush_addr", b>>
            /\ UNCHANGED <<hash, out>>

Access == \E b \in Blocks, o \in Words, cmd \in {"Read", "Write"}, v \in Values :
              cache_access(cmd, b, o, v)

Next == Access \/ cache_flush \/ \E b \in Blocks : cache_flush_addr(b)

Spec == Init /\ [][Next]_vars
=============================================================================
