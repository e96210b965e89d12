----------------------------- MODULE FlatMemory -----------------------------
(***************************************************************************)
(* What a cache and the memory behind it promise together: a read returns  *)
(* what was last written to the word, and a flush changes nothing.         *)
(***************************************************************************)
CONSTANTS Blocks, Words, Values

VARIABLES
    memory,      \* block -> word -> value
    call,        \* the last call
    out          \* what the last read returned

Init == memory \in [Blocks -> [Words -> Values]] /\ call = <<"create">> /\ out = 0

Read(b, o) ==
    /\ call' = <<"Read", b, o>>
    /\ out' = memory[b][o] /\ UNCHANGED memory

Write(b, o, v) ==
    /\ call' = <<"Write", b, o>>
    /\ memory' = [memory EXCEPT ![b] = [@ EXCEPT ![o] = v]] /\ UNCHANGED out

Flush ==
    /\ call' \in {<<"flush">>} \cup {<<"flush_addr", b>> : b \in Blocks}
    /\ UNCHANGED <<memory, out>>

Next ==
    \/ Flush
    \/ \E b \in Blocks, o \in Words :
        Read(b, o) \/ \E v \in Values : Write(b, o, v)

Spec == Init /\ [][Next]_<<memory, call, out>>
=============================================================================
