------------------------------- MODULE MCEio -------------------------------
(***************************************************************************)
(* Jobs for module Eio: every system call of both targets, with arguments  *)
(* chosen so that the handler's branches are taken.                        *)
(***************************************************************************)
EXTENDS Eio

Args(v0, a0, a1, a2, a3, a4, a5) ==
    [V0 |-> v0, V1 |-> 0, A0 |-> a0, A1 |-> a1, A2 |-> a2, A3 |-> a3, A4 |-> a4, A5 |-> a5,
     SP |-> 100, S0 |-> 0]

\* Names and buffers at 3, vectors at 6, structures at 10, lengths at 11; a
\* timeout for PISA's select above the stack pointer, and a signal context at 80.
Image == (3 :> 5) @@ (4 :> 6) @@ (6 :> 3) @@ (7 :> 2) @@ (8 :> 10) @@ (9 :> 1) @@
         (10 :> 3) @@ (11 :> 2) @@ (116 :> 12) @@
         [a \in 80 .. 91 |-> IF a = 81 THEN 3 ELSE IF a = 84 THEN 3 ELSE a - 70]

Codes(target) == IF target = "pisa" THEN PISA!Calls ELSE Alpha!Calls

\* A descriptor, a buffer and a length; two pointers; pointers all along.
Usual(v0) == { Args(v0, 1, 3, 2, 0, 10, 11), Args(v0, 3, 10, 11, 11, 1, 0),
               Args(v0, 0, 6, 2, 13, 14, 11) }

\* Requests, requests to the Alpha's system table, and what moves the heap.
Particular == { Args(4, 2, 3, 2, 0, 0, 0) }
         \cup { Args(54, 1, q, 10, 0, 0, 0) : q \in {1074164744, 1075082331, 1074030207, 21537} }
         \cup { Args(85, 1, 12, 0, 10, 1, 0), Args(17, 70, 0, 0, 0, 0, 0),
                Args(48, 1, 3, 0, 0, 0, 0), Args(48, 2, 3, 0, 0, 0, 0) }

TheCode(a, target) == a.V0 \in Codes(target)

AllJobs ==
    { [target |-> t, r |-> a, image |-> Image, fast |-> f] :
        t \in {"pisa", "alpha"}, f \in {0, 3},
        a \in UNION { Usual(c) : c \in PISA!Calls \cup Alpha!Calls } \cup Particular }
McJobs == { j \in AllJobs : TheCode(j.r, j.target) }

\* The host does what is asked, does half of it, or refuses.
Answer(ok, val) == [ok |-> ok, val |-> val, val2 |-> 8, err |-> 4, data |-> 9, junk |-> 3]
McAnswers == { Answer(TRUE, 2), Answer(TRUE, 1), Answer(FALSE, 0) }

\* No checkpoint comes before the first transaction.
McDumps == { NoDump } \cup { [kind |-> "one_shot", n |-> k] : k \in {3, 4} }
           \cup { [kind |-> "periodic", n |-> 2] }

\* Not run: the return from a signal handler, replayed with a checkpoint that never
\* comes, which is not reproducible.
OnlyReplay == { [kind |-> "one_shot", n |-> 9] }
SigreturnJobs == { [target |-> "alpha", r |-> Args(103, 80, 0, 0, 0, 0, 0), image |-> Image,
                    fast |-> f] : f \in {0, 1} }
=============================================================================
