--------------------------- MODULE BpredPipeProps ---------------------------
(* What the predictor promises a pipeline that looks it up speculatively and *)
(* updates it later.                                                       *)
EXTENDS BpredPipe, BpredProps

-----------------------------------------------------------------------------
(* Types *)

InFlight == [PC : Text, pred_PC : PCs \cup {TAKEN}, dir_update : DirUpdates,
             stack_recover_idx : TosType, next_PC : PCs,
             stage : {"fetched", "issued", "completed"}, recover_inst : BOOLEAN]

\* Whatever path the fetch follows and in whatever order branches are written
\* back, counters, histories and the stack keep their widths, and the pointers a
\* branch carries point into the tables.
PipeTypeOK ==
    /\ pred \in Predictors
    /\ bpred_spec_update \in Updates
    /\ fetch_pred_PC \in PCs
    /\ inflight \in Seq(InFlight) /\ Len(inflight) <= MaxInFlight
    /\ spec_mode \in BOOLEAN
    /\ trained \in [PC : PCs, next_PC : PCs]

-----------------------------------------------------------------------------
(* The branch target buffer *)

\* The assertions of bpred_update hold although updates come late and, at
\* write-back, out of order and from wrong paths.
PipeBtbWellFormed == BtbWell(pred.btb)

\* A direct branch is never predicted to go to another address than its target
\* and the next one: what ruu_dispatch takes for a mis-fetch is a BTB miss.
DirectPredictions ==
    /\ BtbTargets(pred.btb)
    /\ \A k \in DOMAIN inflight :
        LET e == inflight[k]
        IN  Is(Op(e), "F_DIRJMP") =>
                e.pred_PC \in {TAKEN, SeqPC(e.PC)} \cup Code[e.PC].targets

-----------------------------------------------------------------------------
(* Wrong paths *)

\* The first branch at or behind a program counter.
NextBranch(pc) ==
    CHOOSE q \in Text : /\ q >= pc /\ Ctrl(Code[q].op)
                        /\ \A r \in pc .. q - 1 : ~Ctrl(Code[r].op)

\* Updated at dispatch or at commit, the predictor is trained by the branches of
\* the program's own path, by all of them and in their order: the branches of a
\* wrong path leave no trace in the tables.
TrainsOnPath ==
    [][trained' # trained /\ bpred_spec_update # "WB" =>
            trained'.PC = NextBranch(trained.next_PC)]_vars

\* The top of the stack once the lookup of e has popped or pushed.
TosAfterLookup(e) ==
    IF e.dir_update.ras THEN (e.stack_recover_idx + retstack_size - 1) % retstack_size
    ELSE IF IsCall(e.PC) THEN (e.stack_recover_idx + 1) % retstack_size
    ELSE e.stack_recover_idx

\* A mis-predicted branch puts the top back to where it was before its lookup.
TosAfter(e) ==
    IF e.recover_inst /\ e.stage = "completed" THEN e.stack_recover_idx
    ELSE TosAfterLookup(e)

\* The top of the return address stack is what the branches in flight have made
\* of it, one after the other: neither a recovery nor a mis-fetch leaves behind
\* what squashed branches popped and pushed.
TosFollowsPath ==
    (retstack_size > 0 /\ inflight # <<>>) =>
        /\ pred.tos = TosAfter(inflight[Len(inflight)])
        /\ \A k \in 1 .. Len(inflight) - 1 :
                inflight[k + 1].stack_recover_idx = TosAfter(inflight[k])

\* "if this is a return, pop return-address stack": a jump through register 31
\* takes its prediction from the stack.
ReturnsPop ==
    \A k \in DOMAIN inflight :
        IsReturnOwn(inflight[k].PC) /\ retstack_size > 0 => inflight[k].dir_update.ras
=============================================================================
