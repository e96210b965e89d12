-------------------------- MODULE ReplacementOrder --------------------------
(***************************************************************************)
(* What a cache promises of the blocks it keeps: per set, a bounded        *)
(* sequence of tags without repetition, in which LRU moves a tag to the    *)
(* front on every access and FIFO only when it comes in; the last tag of a *)
(* full set makes room, and never while the set has an empty way.          *)
(***************************************************************************)
EXTENDS Naturals, SequencesExt

CONSTANTS nsets, assoc, policy, Blocks, Words

VARIABLES
    resident,      \* set -> tags, the next victim last
    call           \* the last call

Sets == 0 .. nsets - 1

Place(r, t)   == CHOOSE k \in DOMAIN r : r[k] = t
Without(r, t) == IF t \in ToSet(r) THEN RemoveAt(r, Place(r, t)) ELSE r

Entered(r, t) == IF Len(r) < assoc THEN <<t>> \o r ELSE <<t>> \o Front(r)

Touched(r, t) ==
    IF t \notin ToSet(r)     THEN Entered(r, t)
    ELSE IF policy = "LRU"   THEN <<t>> \o Without(r, t)
                             ELSE r

Init == resident = [s \in Sets |-> <<>>] /\ call = <<"create">>

Access(b) ==
    /\ call' \in {<<cmd, b, o>> : cmd \in {"Read", "Write"}, o \in Words}
    /\ resident' = [resident EXCEPT ![b % nsets] = Touched(@, b \div nsets)]
Drop(b) ==
    /\ call' = <<"flush_addr", b>>
    /\ resident' = [resident EXCEPT ![b % nsets] = Without(@, b \div nsets)]
Clear ==
    /\ call' = <<"flush">>
    /\ resident' = [s \in Sets |-> <<>>]

Next == Clear \/ \E b \in Blocks : Access(b) \/ Drop(b)

Spec == Init /\ [][Next]_<<resident, call>>
=============================================================================
