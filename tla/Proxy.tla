------------------------------- MODULE Proxy -------------------------------
(***************************************************************************)
(* What the system call handlers of both targets (target-pisa/syscall.c,   *)
(* target-alpha/syscall.c) are made of: the architected state they read    *)
(* and write, the copies between simulated and host memory, and the calls  *)
(* of the host.  While an external input/output (EIO) trace is written,    *)
(* every copy goes through my_mem_fn of eio.c, which records it.           *)
(*                                                                         *)
(* A machine s is a record: r the registers, npc, m the bytes of memory    *)
(* ever written, brk the end of the heap, mask and act the signal mask and *)
(* handlers the Alpha simulator keeps for the program, log what the host   *)
(* was given to print, end why the simulation stopped (or "no"), and, of   *)
(* the call being traced, rd and wr the recorded inputs and outputs.       *)
(* A name, a structure and a set of descriptors each take one byte, and a  *)
(* word takes one byte: the length of such data is not modelled.           *)
(***************************************************************************)
EXTENDS Integers, SequencesExt

CONSTANTS
    BLOB_TAIL_SIZE,    \* what a recorded block may grow by
    MD_PAGE_SIZE

ASSUME ProxyAssumption == BLOB_TAIL_SIZE \in Nat /\ MD_PAGE_SIZE \in Nat \ {0}

V0 == "V0"  \* the number of the call, then its result
V1 == "V1"
A0 == "A0"  \* the arguments
A1 == "A1"
A2 == "A2"
A3 == "A3"  \* also says whether the call failed
A4 == "A4"
A5 == "A5"
SP == "SP"
S0 == "S0"  \* some register no system call uses
RegIndex  == [V0 |-> 0, V1 |-> 1, A0 |-> 2, A1 |-> 3, A2 |-> 4, A3 |-> 5, A4 |-> 6,
              A5 |-> 7, SP |-> 8, S0 |-> 9]
Registers == DOMAIN RegIndex

Set(s, reg, v) == [s EXCEPT !.r[reg] = v]
Stop(s, why)   == [s EXCEPT !.end = why]
Running(s)     == s.end = "no"

Byte(s, a) == IF a \in DOMAIN s.m THEN s.m[a] ELSE 0
Bytes(s, a, n) == [i \in 1 .. n |-> Byte(s, a + i - 1)]
Stored(mem, a, v) == (a :> v) @@ mem

-----------------------------------------------------------------------------
(* my_mem_fn: one recorded access *)

\* What forgetting to compare the addresses would do.
ContinuesAnywhere(blobs, a) == blobs # <<>> /\ Len(Last(blobs).data) < BLOB_TAIL_SIZE

\* Whether byte a continues the last block recorded.
Continues(blobs, a) ==
    /\ blobs # <<>>
    /\ LET b == Last(blobs) IN b.addr + Len(b.data) = a
                            /\ Len(b.data) + 1 < 1 + BLOB_TAIL_SIZE

Recorded(blobs, a, v) ==
    IF Continues(blobs, a)
    THEN [blobs EXCEPT ![Len(blobs)].data = Append(@, v)]
    ELSE Append(blobs, [addr |-> a, data |-> <<v>>])

\* Reading a byte for the host.  The trace has all inputs before all outputs,
\* so a read after a write cannot be recorded.
ReadByte(s, a) ==
    IF ~s.traced \/ ~Running(s) THEN s
    ELSE IF s.wr # <<>> THEN Stop(s, "Read after Write")
    ELSE [s EXCEPT !.rd = Recorded(@, a, Byte(s, a))]

WriteByte(s, a, v) ==
    IF ~Running(s) THEN s
    ELSE [s EXCEPT !.wr = IF s.traced THEN Recorded(@, a, v) ELSE @,
                   !.m = Stored(@, a, v)]

\* mem_bcopy and mem_strcpy, a byte at a time.
CopyIn(s, a, n)     == FoldLeft(LAMBDA t, i : ReadByte(t, a + i - 1), s, [i \in 1 .. n |-> i])
CopyOut(s, a, data) == FoldLeftDomain(LAMBDA t, i : WriteByte(t, a + i - 1, data[i]), s, data)

\* The same where the program may pass a null pointer.
CopyInIf(s, a, n)     == IF a = 0 THEN s ELSE CopyIn(s, a, n)
CopyOutIf(s, a, data) == IF a = 0 THEN s ELSE CopyOut(s, a, data)

-----------------------------------------------------------------------------
(* The host.  A call of it succeeds or fails: ok; val and val2 are what it  *)
(* returns, err is errno, data what it puts in memory, junk what is there   *)
(* if it puts nothing.                                                      *)

Least(x, y) == IF x <= y THEN x ELSE y

\* What is in a structure on the host's stack after the call.
Filled(h) == << IF h.ok THEN h.data ELSE h.junk >>
\* The same in a structure that was copied in from address a.
Kept(s, h, a) == IF h.ok THEN <<h.data>> ELSE Bytes(s, a, 1)
\* The first n bytes the host read.
Got(h, n) == [i \in 1 .. Least(h.val, n) |-> h.data]
\* A buffer of len zeroed bytes after the host has read into it, and what lies
\* behind it.
Buffer(h, len, n) ==
    [i \in 1 .. n |-> IF h.ok /\ i <= Least(h.val, len) THEN h.data
                      ELSE IF i <= len THEN 0 ELSE h.junk]

\* A call that cannot fail.
Sure(h) == [h EXCEPT !.ok = TRUE]

Prints(s, fd, data) == [s EXCEPT !.log = @ \o [i \in DOMAIN data |-> <<fd, data[i]>>]]

\* The descriptors the simulators share with the program and do not close.
Standard == {0, 1, 2}
ENOMEM == 12
ROUND_UP(n, k) == ((n + k - 1) \div k) * k
=============================================================================
