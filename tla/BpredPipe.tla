------------------------------ MODULE BpredPipe -----------------------------
(***************************************************************************)
(* The branch predictor as the pipeline of sim-outorder.c uses it: looked  *)
(* up when a branch is fetched, on whatever path the predictor itself has  *)
(* chosen, and updated when the branch is dispatched (-bpred:spec_update   *)
(* ID), written back (WB) or committed (CT, the default).                  *)
(*                                                                         *)
(* Only branches are kept of the fetch queue and of the RUU, MaxInFlight   *)
(* of them; OutOrder models the rest of the pipeline, with a predictor     *)
(* that answers anything.  Registers are abstracted as there.              *)
(***************************************************************************)
EXTENDS Bpred, Sequences

CONSTANTS
    Classes,       \* the -bpred types to start with; static ones keep no state
    Updates,       \* the -bpred:spec_update stages to start with
    MaxInFlight

RS(pc) == IF pc \in Text THEN Code[pc].rs ELSE 0

ASSUME BpredPipeAssumption ==
    /\ Classes \subseteq PredClasses \ Static
    /\ Updates \subseteq {"ID", "WB", "CT"}
    /\ MaxInFlight \in Nat \ {0}
    /\ \A pc \in Text :
        /\ Code[pc].rs \in Nat
        /\ Is(Code[pc].op, "F_DIRJMP") => \E t \in Text : Code[pc].targets = {t}

VARIABLES
    pred,
    bpred_spec_update,
    fetch_pred_PC,
    inflight,      \* the branches fetched and not yet committed or squashed
    spec_mode,
    trained        \* history: the last branch that updated the predictor

vars == <<pred, bpred_spec_update, fetch_pred_PC, inflight, spec_mode, trained>>

Init ==
    /\ \E class \in Classes : pred = bpred_create(class)
    /\ bpred_spec_update \in Updates
    /\ fetch_pred_PC = Entry
    /\ inflight = <<>> /\ spec_mode = FALSE
    /\ trained = [PC |-> BogusPC, next_PC |-> Entry]

Op(e)        == Code[e.PC].op
DirTarget(e) == CHOOSE t \in Code[e.PC].targets : TRUE

-----------------------------------------------------------------------------
(* ruu_fetch *)

\* The lookup is given the opcode of the instruction before the branch, which
\* is fetched into a local inst that hides the inst of the branch.
PrevOp(pc)   == MD_OPCODE[Inst(pc - 1).op]
IsCall(pc)   == Is(Inst(pc).op, "F_CALL")

\* Faulty variant: the register is that of the branch.
IsReturnOwn(pc) == Inst(pc).op = "JR" /\ RS(pc) = 31

\* MD_IS_RETURN reads the register RS of the inst in scope: of the hiding one.
IsReturn(pc) == Inst(pc).op = "JR" /\ RS(pc - 1) = 31

\* What a lookup leaves in the fetch queue; the queue was zeroed at the start.
Fetched(pc) ==
    LET upd == dir_update(pred, pc, PrevOp(pc) \div 8, Inst(pc).op, IsReturn(pc), FALSE)
        ans == bpred_lookup(pred, pc, NOT_TAKEN, Inst(pc).op, IsReturn(pc), upd)
    IN  [PC |-> pc, pred_PC |-> IF ans = NOT_TAKEN THEN SeqPC(pc) ELSE ans,
         dir_update |-> upd, stack_recover_idx |-> stack_recover_idx(pred),
         next_PC |-> BogusPC, stage |-> "fetched", recover_inst |-> FALSE]

\* The address 1 is no instruction's.
FetchAddress(a) == IF a = TAKEN THEN BogusPC ELSE a

FetchBranch ==
    /\ Ctrl(Inst(fetch_pred_PC).op) /\ Len(inflight) < MaxInFlight
    /\ LET e == Fetched(fetch_pred_PC)
       IN  /\ inflight' = Append(inflight, e)
           /\ fetch_pred_PC' = FetchAddress(e.pred_PC)
    /\ pred' = AfterLookup(pred, fetch_pred_PC, IsCall(fetch_pred_PC), IsReturn(fetch_pred_PC))
    /\ UNCHANGED <<bpred_spec_update, spec_mode, trained>>

FetchOther ==
    /\ ~Ctrl(Inst(fetch_pred_PC).op) /\ fetch_pred_PC # BogusPC
    /\ fetch_pred_PC' = SeqPC(fetch_pred_PC)
    /\ UNCHANGED <<pred, bpred_spec_update, inflight, spec_mode, trained>>

-----------------------------------------------------------------------------
(* The update, with the arguments all three stages give it *)

Updated(p, e) ==
    bpred_update(p, e.PC, e.next_PC, e.next_PC # SeqPC(e.PC),
                 e.pred_PC = e.next_PC, Op(e), e.dir_update)

UpdateIf(now, p, e) ==
    /\ pred' = IF now THEN Updated(p, e) ELSE p
    /\ trained' = IF now THEN [PC |-> e.PC, next_PC |-> e.next_PC] ELSE trained

-----------------------------------------------------------------------------
(* ruu_dispatch *)

\* A branch predicted taken to an address that is not its target.
MisFetched(e) ==
    /\ Is(Op(e), "F_DIRJMP")
    /\ DirTarget(e) # e.pred_PC /\ e.pred_PC # SeqPC(e.PC)

\* Where a branch goes: on a wrong path an indirect one goes anywhere.
Resolutions(e) ==
    IF spec_mode /\ ~Is(Op(e), "F_DIRJMP") THEN PCs ELSE NextPCs(e.PC)

\* Faulty variant: the branches of a wrong path update the predictor, too.
DispatchUpdatesAll == bpred_spec_update = "ID"
DispatchUpdates == bpred_spec_update = "ID" /\ ~spec_mode

Dispatch ==
    \E k \in DOMAIN inflight :
        /\ inflight[k].stage = "fetched"
        /\ \A j \in 1 .. k - 1 : inflight[j].stage # "fetched"
        /\ \E npc \in Resolutions(inflight[k]) :
            LET redirect == MisFetched(inflight[k])
                wrong    == ~spec_mode /\ ~redirect /\ inflight[k].pred_PC # npc
                e        == [inflight[k] EXCEPT !.next_PC = npc, !.stage = "issued",
                                                !.recover_inst = wrong]
            IN  /\ inflight' = IF redirect THEN Append(SubSeq(inflight, 1, k - 1), e)
                               ELSE [inflight EXCEPT ![k] = e]
                /\ fetch_pred_PC' = IF redirect THEN npc ELSE fetch_pred_PC
                /\ spec_mode' = (spec_mode \/ wrong)
                /\ UpdateIf(DispatchUpdates, pred, e)
        /\ UNCHANGED bpred_spec_update

-----------------------------------------------------------------------------
(* ruu_writeback, in any order, and ruu_commit *)

\* Faulty variant: the stack is not recovered.
NotRecovered(p, e) == p
Recovered(p, e) == IF e.recover_inst THEN bpred_recover(p, e.stack_recover_idx) ELSE p

Squashed(k) == IF inflight[k].recover_inst THEN SubSeq(inflight, 1, k) ELSE inflight

Writeback ==
    \E k \in DOMAIN inflight :
        /\ inflight[k].stage = "issued"
        /\ inflight' = [Squashed(k) EXCEPT ![k].stage = "completed"]
        /\ IF inflight[k].recover_inst
           THEN fetch_pred_PC' = inflight[k].next_PC /\ spec_mode' = FALSE
           ELSE UNCHANGED <<fetch_pred_PC, spec_mode>>
        /\ UpdateIf(bpred_spec_update = "WB", Recovered(pred, inflight[k]), inflight[k])
        /\ UNCHANGED bpred_spec_update

Commit ==
    /\ inflight # <<>> /\ Head(inflight).stage = "completed"
    /\ inflight' = Tail(inflight)
    /\ UpdateIf(bpred_spec_update = "CT", pred, Head(inflight))
    /\ UNCHANGED <<bpred_spec_update, fetch_pred_PC, spec_mode>>

Next == FetchBranch \/ FetchOther \/ Dispatch \/ Writeback \/ Commit

Spec == Init /\ [][Next]_vars
=============================================================================
