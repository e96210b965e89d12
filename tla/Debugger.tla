------------------------------ MODULE Debugger ------------------------------
(***************************************************************************)
(* What a debugger promises: it stops the program after an instruction if  *)
(* and only if it is stepping or a breakpoint that is set covers what was  *)
(* executed.  A breakpoint is what it stops for, a set of occasions.       *)
(***************************************************************************)
EXTENDS Integers

VARIABLES
    mode,       \* "run", "stopped" or "ended"
    stepping,
    breaks,     \* identifier -> the breakpoints that are set
    occasion,   \* what the last instruction did, as a set of occasions
    asked       \* the last command: [name, id, at]

vars == <<mode, stepping, breaks, occasion, asked>>

Nothing == [k \in {} |-> {}]

Init == breaks = Nothing /\ stepping \in BOOLEAN
        /\ mode = (IF stepping THEN "stopped" ELSE "run")

\* An instruction that does not end the program.
Instruction ==
    /\ mode = "run"
    /\ mode' = IF stepping \/ \E k \in DOMAIN breaks : breaks[k] \cap occasion' # {}
               THEN "stopped" ELSE "run"
    /\ stepping' = (stepping \/ mode' = "stopped")
    /\ UNCHANGED <<breaks, asked>>

End == mode' = "ended" /\ UNCHANGED breaks

\* Identifiers are never used twice.
Set ==
    /\ mode = "stopped" /\ asked'.name = "set"
    /\ asked'.id \notin DOMAIN breaks
    /\ breaks' = [k \in DOMAIN breaks \cup {asked'.id} |->
                     IF k = asked'.id THEN asked'.at ELSE breaks[k]]
    /\ UNCHANGED <<mode, stepping, occasion>>

Delete ==
    /\ mode = "stopped" /\ asked'.name = "delete" /\ asked'.id \in DOMAIN breaks
    /\ breaks' = [k \in DOMAIN breaks \ {asked'.id} |-> breaks[k]]
    /\ UNCHANGED <<mode, stepping, occasion>>

Clear ==
    /\ mode = "stopped" /\ asked'.name = "clear" /\ breaks' = Nothing
    /\ UNCHANGED <<mode, stepping, occasion>>

Resume ==
    /\ mode = "stopped" /\ asked'.name \in {"cont", "step"} /\ mode' = "run"
    /\ stepping' = (asked'.name = "step")
    /\ UNCHANGED <<breaks, occasion>>

Other ==
    /\ mode = "stopped" /\ asked'.name = "other"
    /\ UNCHANGED <<mode, stepping, breaks, occasion>>

Next == Instruction \/ End \/ Set \/ Delete \/ Clear \/ Resume \/ Other

Spec == Init /\ [][Next]_vars
=============================================================================
