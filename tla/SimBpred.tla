------------------------------ MODULE SimBpred -----------------------------
(***************************************************************************)
(* The predictor study sim-bpred.c: it executes one instruction after the  *)
(* other, and for a branch looks the predictor up and updates it at once   *)
(* with the outcome.                                                       *)
(*                                                                         *)
(* Registers are abstracted: a conditional branch goes either way until,   *)
(* at some moment, its outcomes settle; a return goes back to its call     *)
(* (the calling convention); other indirect jumps go to any of their       *)
(* targets.  -max:inst only stops the loop early and is left out.          *)
(***************************************************************************)
EXTENDS Bpred, Sequences

CONSTANT
    Classes      \* the -bpred types to start with

Branches == {pc \in Text : Cond(Code[pc].op)}
Opcodes  == {MD_OPCODE[op] : op \in Ops}

\* (regs_PC ^ ((op << 7) + prev)) >> MD_BR_SHIFT
Lookup(pc, op, prev) == BitXor(pc, 16 * MD_OPCODE[op] + (prev \div 8))

ASSUME SimBpredAssumption ==
    /\ Classes \subseteq PredClasses
    /\ \A pc \in Text :
        /\ Code[pc].rs \in Nat
        /\ Is(Code[pc].op, "F_DIRJMP") => \E t \in Text : Code[pc].targets = {t}
        /\ \A op \in Ops, prev \in Opcodes : Lookup(pc, op, prev) \in Nat

VARIABLES
    pred,        \* the predictor
    regs_PC,
    prev,        \* the last opcode; not initialized before the first one
    outcome,     \* the settled directions of the branches, or unsettled
    calls,       \* history: the return addresses of the calls under way
    fresh,       \* history: how many of them the return stack still holds
    last         \* history: the last branch [pc, pred_PC, next]

vars == <<pred, regs_PC, prev, outcome, calls, fresh, last>>

Unsettled == [b \in Branches |-> {TRUE, FALSE}]
Settled   == \A b \in Branches : outcome[b] # {TRUE, FALSE}
NoBranch  == [pc |-> BogusPC, pred_PC |-> BogusPC, next |-> BogusPC]

Init ==
    /\ \E class \in Classes : pred = bpred_create(class)
    /\ regs_PC = Entry /\ prev \in Opcodes
    /\ outcome = Unsettled
    /\ calls = <<>> /\ fresh = 0 /\ last = NoBranch

Op   == Inst(regs_PC).op
Call == Is(Op, "F_CALL")
\* MD_IS_RETURN
Return == Op = "JR" /\ Inst(regs_PC).rs = 31

DirTarget(pc) == CHOOSE t \in Code[pc].targets : TRUE

\* Where the branch at regs_PC goes; d is the direction of a conditional one.
Goes(d) == IF d THEN DirTarget(regs_PC) ELSE SeqPC(regs_PC)

Resolved ==
    IF Cond(Op) THEN {Goes(d) : d \in outcome[regs_PC]}
    ELSE IF Return THEN {calls[Len(calls)]} ELSE Inst(regs_PC).targets

\* The predictor's part of an iteration: the branch at regs_PC goes to npc.
\* update_rec is a local that is not initialized: junk is a bit of it.
Predict(npc, junk) ==
    LET look  == Lookup(regs_PC, Op, prev)
        upd   == dir_update(pred, regs_PC, look, Op, Return, junk)
        tpc   == IF Cond(Op) THEN DirTarget(regs_PC) ELSE npc
        ans   == bpred_lookup(pred, regs_PC, tpc, Op, Return, upd)
        guess == IF ans = NOT_TAKEN THEN SeqPC(regs_PC) ELSE ans
    IN  /\ pred' = bpred_update(AfterLookup(pred, regs_PC, Call, Return), regs_PC,
                                npc, npc # SeqPC(regs_PC), guess = npc, Op, upd)
        /\ last' = [pc |-> regs_PC, pred_PC |-> guess, next |-> npc]

\* The program's calls, and those the return stack cannot have overwritten.
CallOrReturn ==
    /\ calls' = IF Call THEN Append(calls, SeqPC(regs_PC))
                ELSE IF Return THEN SubSeq(calls, 1, Len(calls) - 1) ELSE calls
    /\ fresh' = IF Call THEN (IF fresh < retstack_size THEN fresh + 1 ELSE fresh)
                ELSE IF Return /\ fresh > 0 THEN fresh - 1 ELSE fresh

ExecuteBranch ==
    /\ Ctrl(Op) /\ (Return => calls # <<>>)
    /\ \E npc \in Resolved, junk \in BOOLEAN :
        /\ Predict(npc, junk)
        /\ regs_PC' = npc
    /\ CallOrReturn
    /\ prev' = MD_OPCODE[Op]
    /\ UNCHANGED outcome

ExecuteOther ==
    /\ ~Ctrl(Op) /\ Op # "EXIT"
    /\ regs_PC' = SeqPC(regs_PC) /\ prev' = MD_OPCODE[Op]
    /\ UNCHANGED <<pred, outcome, calls, fresh, last>>

\* From here on every branch keeps its direction.
Settle ==
    /\ outcome = Unsettled
    /\ \E d \in [Branches -> BOOLEAN] : outcome' = [b \in Branches |-> {d[b]}]
    /\ UNCHANGED <<pred, regs_PC, prev, calls, fresh, last>>

Exited == Op = "EXIT" /\ UNCHANGED vars

Execute == ExecuteBranch \/ ExecuteOther

Next == Execute \/ Settle \/ Exited

Spec     == Init /\ [][Next]_vars
FairSpec == Spec /\ WF_vars(Execute)
=============================================================================
