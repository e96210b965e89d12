-------------------------------- MODULE Eio --------------------------------
(***************************************************************************)
(* External input/output (EIO) traces: eio.c, the loop of sim-eio.c and    *)
(* the loading of traces and checkpoints in loader.c.  A first session     *)
(* runs a program against the host and records each system call; later     *)
(* sessions run the same program against the recording, may write the      *)
(* recording again, and may dump checkpoints a further session starts      *)
(* from.                                                                   *)
(*                                                                         *)
(* The program is the one of a job: it loads the registers, makes the call *)
(* of the job, uses what the call has left in a register and in memory,    *)
(* prints, and exits.  Every instruction takes one address.                *)
(***************************************************************************)
EXTENDS Proxy

CONSTANTS
    Jobs,       \* [target, r, image, fast]: registers before the call, the
                \* program's memory and what -fastfwd is while recording
    Answers,    \* what the host may answer
    Dumps       \* the checkpoints of a session: [kind, n], kind "none",
                \* "one_shot" at instruction n or "periodic" every n

PISA  == INSTANCE SyscallPisa
Alpha == INSTANCE SyscallAlpha

VARIABLES
    job,
    session,        \* "record", "replay", "restart" or "over"
    trace_fd,       \* the trace being written, or NoFile
    sim_eio_fd,     \* the trace being read, or NoFile
    at,             \* how many of its transactions have been read
    ff,             \* instructions left to fast-forward
    dump,           \* the checkpoints asked for
    chkpt,          \* the last checkpoint dumped, or NoFile
    s,              \* the machine: see Proxy
    sim_num_insn,
    eio_trans_icnt, \* the instruction count of the last transaction, or -1
    trace,          \* history: what the first session recorded
    past            \* history: the states of the first session, by count

vars == << job, session, trace_fd, sim_eio_fd, at, ff, dump, chkpt, s, sim_num_insn,
           eio_trans_icnt, trace, past >>

NoFile  == [kind |-> "none"]
Opened  == [kind |-> "empty"]      \* a trace without its first checkpoint
NoDump == [kind |-> "none", n |-> 0]

-----------------------------------------------------------------------------
(* The program *)

LastPc == 7
Kept1 == 50     \* where the program stores what the call has left
Result1 == 51

\* The instructions that are not system calls.
Execute(t, pc) ==
    CASE pc = 1 -> [t EXCEPT !.r = job.r]
      [] pc = 3 -> [Set(t, S0, t.r[V0]) EXCEPT
                       !.m = Stored(Stored(@, Kept1, Byte(t, t.r[A1])), Result1, t.r[V0])]
      [] pc = 4 -> Set(Set(Set(Set(t, V0, 4), A0, 1), A1, Kept1), A2, 2)
      [] pc = 6 -> Set(t, V0, 1)
IsCall(pc) == pc \in {2, 5, LastPc}

Loaded(j) == [r |-> [reg \in Registers |-> IF reg = SP THEN 100 ELSE 0], npc |-> 1,
              m |-> j.image, brk |-> 64, mask |-> 0, act |-> <<>>, log |-> <<>>, end |-> "no",
              traced |-> FALSE, rd |-> <<>>, wr |-> <<>>]

-----------------------------------------------------------------------------
(* Checkpoints *)

State(t) == [r |-> t.r, npc |-> t.npc, m |-> t.m, brk |-> t.brk]

\* A checkpoint that does not save the end of the heap.
ChkptWithoutBreak(t, icnt, pointer) ==
    [kind |-> "chkpt", start |-> [State(t) EXCEPT !.brk = 64], icnt |-> icnt, pointer |-> pointer]

eio_write_chkpt(t, icnt, pointer) == [kind |-> "chkpt", start |-> State(t), icnt |-> icnt, pointer |-> pointer]

eio_read_chkpt(t, file) ==
    [t EXCEPT !.r = file.start.r, !.npc = file.start.npc, !.m = file.start.m,
              !.brk = file.start.brk]

-----------------------------------------------------------------------------
(* Transactions *)

Regs(t) == LET kept == IF job.target = "pisa" THEN PISA!TracedRegs ELSE Alpha!TracedRegs
           IN  [reg \in kept |-> t.r[reg]]
Syscall(t, h) == IF job.target = "pisa" THEN PISA!Syscall(t, h) ELSE Alpha!Syscall(t, h)

MD_EXIT_SYSCALL(t)   == t.r[V0] = 1
OutputToStdout(t)    == t.r[V0] = 4 /\ t.r[A0] = 1
MD_OUTPUT_SYSCALL(t) == t.r[V0] = 4 /\ t.r[A0] \in {1, 2}

\* Comparing without mem_fn, so that a trace being written misses the input.
CheckedDirectly(t, blob) ==
    IF Running(t) /\ Bytes(t, blob.addr, Len(blob.data)) # blob.data
    THEN Stop(t, "EIO trace inconsistency: memory")
    ELSE IF MD_OUTPUT_SYSCALL(t) THEN Prints(t, t.r[A0], blob.data) ELSE t

\* Comparing a recorded input with memory, and showing it if it is printed.
Checked(t, blob) ==
    LET u == CopyIn(t, blob.addr, Len(blob.data))
    IN  IF ~Running(t) THEN t
        ELSE IF Bytes(t, blob.addr, Len(blob.data)) # blob.data
        THEN Stop(t, "EIO trace inconsistency: memory")
        ELSE IF MD_OUTPUT_SYSCALL(t) THEN Prints(u, t.r[A0], blob.data) ELSE u

Written(t, blob) == CopyOut(t, blob.addr, blob.data)

Replayed(t, x) ==
    LET u == [t EXCEPT !.brk = x.brk,
                       !.r = [reg \in Registers |-> IF reg \in DOMAIN x.outregs
                                                    THEN x.outregs[reg] ELSE @[reg]]]
    IN  FoldLeft(Written, u, x.outmem)

\* x is the next transaction of the trace, or NoFile behind the last.
eio_read_trace(t, icnt, pc, x) ==
    IF MD_EXIT_SYSCALL(t) THEN Stop(t, "exit")
    ELSE IF x = NoFile THEN Stop(t, "cannot read EIO transaction")
    ELSE IF x.icnt # icnt THEN Stop(t, "EIO trace inconsistency: ICNT")
    ELSE IF x.pc # pc THEN Stop(t, "EIO trace inconsistency: PC")
    ELSE IF x.inregs # Regs(t) THEN Stop(t, "EIO trace inconsistency: registers")
    ELSE LET u == FoldLeft(Checked, t, x.inmem) IN IF Running(u) THEN Replayed(u, x) ELSE u

\* sys_syscall of a call that may be replayed.  On the Alpha, sigreturn reads
\* its context once more, from where A0 points after the call.
sys_syscall(t, icnt, pc, x, h) ==
    IF sim_eio_fd = NoFile THEN Syscall(t, h)
    ELSE LET u == eio_read_trace(t, icnt, pc, x)
         IN  IF job.target = "alpha" /\ Alpha!Code(t) = Alpha!OSF_SYS_sigreturn
             THEN Alpha!Context(u, u.r[A0]) ELSE u

\* The call with its inputs and outputs recorded, and the transaction.
Tracing(t)  == [t EXCEPT !.traced = TRUE, !.rd = <<>>, !.wr = <<>>]
Untraced(t) == [t EXCEPT !.traced = FALSE, !.rd = <<>>, !.wr = <<>>]
Live(t, icnt, pc, x, h) ==
    IF sim_eio_fd = NoFile THEN Syscall(Tracing(t), h) ELSE eio_read_trace(Tracing(t), icnt, pc, x)
Transaction(t, u, icnt, pc) ==
    [kind |-> "trans", icnt |-> icnt, pc |-> pc, inregs |-> Regs(t), inmem |-> u.rd,
     brk |-> u.brk, outregs |-> Regs(u), outmem |-> u.wr]

\* Whether a system call reads the trace: eio_trans_icnt follows it then.
Reads(t) == sim_eio_fd # NoFile /\ ~MD_EXIT_SYSCALL(t)
Next1 == IF sim_eio_fd # NoFile /\ at < Len(sim_eio_fd.trans) THEN sim_eio_fd.trans[at + 1]
         ELSE NoFile

Behind(file, icnt) == {i \in DOMAIN file.trans : file.trans[i].icnt = icnt}
\* How many transactions eio_fast_forward reads; none if there is no such one.
eio_fast_forward(file, icnt) == Behind(file, icnt)

-----------------------------------------------------------------------------
(* The main loop of sim-eio *)

Init ==
    /\ job \in Jobs
    /\ session = "record"
    /\ trace_fd = Opened /\ sim_eio_fd = NoFile /\ at = 0
    /\ ff = job.fast
    /\ dump = NoDump /\ chkpt = NoFile
    /\ s = Loaded(job)
    /\ sim_num_insn = 0 /\ eio_trans_icnt = -1
    /\ trace = NoFile /\ past = <<>>

Advanced(t, pc) == [t EXCEPT !.npc = pc + 1]

\* An instruction of the fast-forward loop; it is not counted, and its system
\* call is not traced.
FastForward ==
    /\ session # "over" /\ ff > 0 /\ Running(s)
    /\ LET pc == s.npc IN
       \E h \in Answers :
         /\ s' = IF IsCall(pc) THEN sys_syscall(Advanced(s, pc), sim_num_insn, pc, Next1, h)
                 ELSE Execute(Advanced(s, pc), pc)
         /\ at' = IF IsCall(pc) /\ Reads(s) THEN at + 1 ELSE at
         /\ eio_trans_icnt' = IF IsCall(pc) /\ Reads(s) THEN sim_num_insn ELSE eio_trans_icnt
    /\ ff' = ff - 1
    /\ UNCHANGED << job, session, trace_fd, sim_eio_fd, dump, chkpt, sim_num_insn, trace, past >>

\* The checkpoint every trace begins with.
BeginTrace ==
    /\ session # "over" /\ ff = 0 /\ Running(s)
    /\ trace_fd = Opened
    /\ IF eio_trans_icnt = -1
       THEN trace_fd' = eio_write_chkpt(s, sim_num_insn, eio_trans_icnt) @@ [trans |-> <<>>]
            /\ s' = s
       ELSE s' = Stop(s, "checkpoint code is broken") /\ UNCHANGED trace_fd
    /\ UNCHANGED << job, session, sim_eio_fd, at, ff, dump, chkpt, sim_num_insn,
                    eio_trans_icnt, trace, past >>

\* Whether a checkpoint is due at the head of the loop.
Due == \/ dump.kind = "one_shot" /\ sim_num_insn = dump.n
       \/ dump.kind = "periodic" /\ sim_num_insn > 0 /\ sim_num_insn % dump.n = 0

\* A single checkpoint ends the session; a periodic one does not.
WriteChkpt ==
    /\ session # "over" /\ ff = 0 /\ trace_fd # Opened /\ Running(s)
    /\ Due
    /\ chkpt' = eio_write_chkpt(s, sim_num_insn, eio_trans_icnt)
    /\ chkpt' # chkpt
    /\ s' = IF dump.kind = "one_shot" THEN Stop(s, "checkpoint") ELSE s
    /\ UNCHANGED << job, session, trace_fd, sim_eio_fd, at, ff, dump, sim_num_insn,
                    eio_trans_icnt, trace, past >>

Past == IF session = "record" THEN past' = Append(past, s) ELSE UNCHANGED past
Ready == /\ session # "over" /\ ff = 0 /\ trace_fd # Opened /\ Running(s)
         /\ Due => chkpt = eio_write_chkpt(s, sim_num_insn, eio_trans_icnt)

Instruction ==
    /\ Ready /\ ~IsCall(s.npc)
    /\ s' = Execute(Advanced(s, s.npc), s.npc)
    /\ sim_num_insn' = sim_num_insn + 1
    /\ Past
    /\ UNCHANGED << job, session, trace_fd, sim_eio_fd, at, ff, dump, chkpt,
                    eio_trans_icnt, trace >>

\* A system call while no trace is written.
UntracedCall ==
    /\ Ready /\ IsCall(s.npc) /\ trace_fd = NoFile
    /\ \E h \in IF sim_eio_fd = NoFile THEN Answers ELSE {CHOOSE h \in Answers : TRUE} :
         s' = sys_syscall(Advanced(s, s.npc), sim_num_insn + 1, s.npc, Next1, h)
    /\ sim_num_insn' = sim_num_insn + 1
    /\ at' = IF Reads(s) THEN at + 1 ELSE at
    /\ eio_trans_icnt' = IF Reads(s) THEN sim_num_insn + 1 ELSE eio_trans_icnt
    /\ Past
    /\ UNCHANGED << job, session, trace_fd, sim_eio_fd, ff, dump, chkpt, trace >>

\* eio_write_trace: a system call while a trace is written.
TracedCall ==
    /\ Ready /\ IsCall(s.npc) /\ trace_fd # NoFile
    /\ \E h \in IF sim_eio_fd = NoFile THEN Answers ELSE {CHOOSE h \in Answers : TRUE} :
       \E t \in {Live(Advanced(s, s.npc), sim_num_insn + 1, s.npc, Next1, h)} :
         /\ s' = Untraced(t)
         /\ trace_fd' = IF ~Running(t) THEN trace_fd
                        ELSE [trace_fd EXCEPT !.trans =
                                Append(@, Transaction(s, t, sim_num_insn + 1, s.npc))]
         /\ eio_trans_icnt' = IF Running(t) \/ Reads(s) THEN sim_num_insn + 1 ELSE eio_trans_icnt
    /\ sim_num_insn' = sim_num_insn + 1
    /\ at' = IF Reads(s) THEN at + 1 ELSE at
    /\ Past
    /\ UNCHANGED << job, session, sim_eio_fd, ff, dump, chkpt, trace >>

-----------------------------------------------------------------------------
(* Sessions: a recording is played back, and a checkpoint of the playback is *)
(* started from.                                                             *)

\* ld_load_prog of a trace.
Replay ==
    /\ session = "record" /\ s.end = "exit"
    /\ session' = "replay"
    /\ trace' = trace_fd /\ sim_eio_fd' = trace_fd /\ at' = 0
    /\ s' = eio_read_chkpt(Loaded([job EXCEPT !.image = <<>>]), trace_fd)
    /\ sim_num_insn' = trace_fd.icnt /\ eio_trans_icnt' = -1
    /\ dump' \in Dumps
    /\ trace_fd' \in IF dump'.kind = "none" THEN {Opened} ELSE {NoFile}
    /\ chkpt' = NoFile
    /\ past' = Append(past, s)
    /\ UNCHANGED << job, ff >>

\* ld_load_prog of a trace and a checkpoint of it.
Restart ==
    /\ session = "replay" /\ ~Running(s) /\ chkpt # NoFile
    /\ session' = "restart"
    /\ s' = LET t == eio_read_chkpt(Loaded([job EXCEPT !.image = <<>>]), chkpt)
            IN  IF eio_fast_forward(trace, chkpt.pointer) # {} THEN t
                ELSE Stop(t, "could not fast forward to EIO checkpoint")
    /\ at' \in IF eio_fast_forward(trace, chkpt.pointer) # {}
               THEN eio_fast_forward(trace, chkpt.pointer) ELSE {0}
    /\ sim_num_insn' = chkpt.icnt
    /\ eio_trans_icnt' = chkpt.pointer
    /\ sim_eio_fd' = trace /\ trace_fd' = NoFile
    /\ dump' = NoDump
    /\ UNCHANGED << job, ff, chkpt, trace, past >>

Next == \/ FastForward \/ BeginTrace \/ WriteChkpt \/ Instruction \/ UntracedCall
        \/ TracedCall \/ Replay \/ Restart

Spec == Init /\ [][Next]_vars

-----------------------------------------------------------------------------
(* What a trace and a checkpoint are for. *)

Again == session \in {"replay", "restart"}

\* A replayed program is, after every instruction, in the state the recorded
\* one was in after as many: registers, pc, memory and heap; so is a program
\* started from a checkpoint, wherever the checkpoint was taken.
Reproducible == Again => State(s) = State(past[sim_num_insn + 1])

\* A recording is accepted by the run it is a recording of: no input is found
\* to differ, no transaction is missing and none is left over.
ReplayAccepted ==
    Again => /\ s.end \in {"no", "exit", "checkpoint"}
             /\ s.end = "exit" => at = Len(trace.trans)

\* What write(2) gave the host to show on the two standard streams is shown
\* again, in its order; a restarted program shows what comes after its
\* checkpoint.  A write the host cut short is shown in full.
WRITEV == 121
Within(p, q) == \E f \in [DOMAIN p -> DOMAIN q] :
                   \A i \in DOMAIN p : p[i] = q[f[i]] /\ \A k \in 1 .. i - 1 : f[k] < f[i]
Shown(log) == SelectSeq(log, LAMBDA x : x[1] \in {1, 2})
OutputReplayed ==
    Again /\ s.end = "exit" /\ job.r[V0] # WRITEV =>
        LET all   == Shown(Last(past).log)
            first == IF session = "replay" THEN 0 ELSE chkpt.icnt
            from  == Len(Shown(past[first + 1].log))
        IN  Within(SubSeq(all, from + 1, Len(all)), Shown(s.log))

\* A trace written while a trace is replayed is that trace again.
Retraced == session = "replay" /\ s.end = "exit" /\ trace_fd # NoFile => trace_fd = trace
=============================================================================
