---------------------------- MODULE SyscallPisa ----------------------------
(***************************************************************************)
(* The system calls of the PISA target (target-pisa/syscall.c), as the     *)
(* Linux build executes them: one operator per case of sys_syscall, on the *)
(* machine s and the host's answer h.  Module Proxy explains both.         *)
(***************************************************************************)
EXTENDS Proxy

\* Every call ends with the comparison of its result with -1.
Result(s, h) ==
    IF h.ok THEN Set(Set(s, V0, h.val), A3, 0) ELSE Set(Set(s, V0, h.err), A3, 1)
Ignored(s) == Set(Set(s, V0, 0), A3, 0)

\* The number of bytes a failed read copies out is the error number.
SYS_read(s, h) ==
    LET t == Result(s, [h EXCEPT !.val = Least(@, s.r[A2])])
    IN  CopyOut(t, s.r[A1], Buffer(h, s.r[A2], t.r[V0]))

\* A short write reports the error number some earlier call has left.
SYS_write(s, h) ==
    LET t == CopyIn(s, s.r[A1], s.r[A2])
        n == IF h.ok THEN Least(h.val, s.r[A2]) ELSE 0
    IN  Result(Prints(t, s.r[A0], Bytes(s, s.r[A1], n)),
               [h EXCEPT !.ok = @ /\ n = s.r[A2], !.val = n])

\* The flags of open(2) that are translated, each a bit.
ss_flag_table == {1, 2, 8, 512, 1024, 2048, 16384, 32768, 8192}
Translated(flags) ==
    \A k \in 0 .. 30 : (flags \div 2 ^ k) % 2 = 1 => 2 ^ k \in ss_flag_table

SYS_open(s, h) ==
    IF Translated(s.r[A1]) THEN Result(CopyIn(s, s.r[A0], 1), h)
    ELSE Stop(s, "cannot decode flags")

\* Closing a descriptor of the simulator is ignored and leaves V0 as it was.
SYS_close(s, h) == IF s.r[A0] \in Standard THEN Set(s, A3, 0) ELSE Result(s, h)

\* The calls on a file name.
SYS_creat(s, h)  == Result(CopyIn(s, s.r[A0], 1), h)
SYS_unlink(s, h) == Result(CopyIn(s, s.r[A0], 1), h)
SYS_chdir(s, h)  == Result(CopyIn(s, s.r[A0], 1), h)
SYS_chmod(s, h)  == Result(CopyIn(s, s.r[A0], 1), h)
SYS_chown(s, h)  == Result(CopyIn(s, s.r[A0], 1), h)
SYS_access(s, h) == Result(CopyIn(s, s.r[A0], 1), h)

SYS_brk(s, h) ==
    LET addr == ROUND_UP(s.r[A0], MD_PAGE_SIZE)
    IN  IF addr >= s.brk /\ addr < s.r[SP]
        THEN [Ignored(s) EXCEPT !.brk = addr]
        ELSE Set(Set(s, V0, ENOMEM), A3, 1)

\* The calls on registers alone.
SYS_lseek(s, h)         == Result(s, h)
SYS_getpid(s, h)        == Result(s, Sure(h))
SYS_dup(s, h)           == Result(s, h)
SYS_dup2(s, h)          == Result(s, h)
SYS_fcntl(s, h)         == Result(s, h)
SYS_getdtablesize(s, h) == Result(s, h)
SYS_getpagesize(s, h)   == Result(s, [Sure(h) EXCEPT !.val = MD_PAGE_SIZE])

\* Both user ids, and both group ids.
SYS_getuid(s, h) == Result(Set(s, V1, h.val2), Sure(h))
SYS_getgid(s, h) == Result(Set(s, V1, h.val2), Sure(h))

\* The structure is copied out even if the call failed and left it as it was.
SYS_stat(s, h)      == CopyOut(Result(CopyIn(s, s.r[A0], 1), h), s.r[A1], Filled(h))
SYS_fstat(s, h)     == CopyOut(Result(s, h), s.r[A1], Filled(h))
SYS_getrusage(s, h) == CopyOut(Result(s, h), s.r[A1], Filled(h))

\* The words the program passes come back in the registers if pipe(2) fails.
SYS_pipe(s, h) ==
    LET t  == CopyIn(s, s.r[A0], 2)
        fd == IF h.ok THEN <<h.val, h.val2>> ELSE Bytes(s, s.r[A0], 2)
    IN  IF h.ok THEN Set(Set(Set(t, V0, fd[1]), V1, fd[2]), A3, 0)
        ELSE Set(Set(Set(t, V0, h.err), V1, fd[2]), A3, 1)

\* The requests Linux has a number for; TIOCGETP it has not, and the handler
\* asks for the attributes of the terminal instead.
SS_IOCTL_TIOCGETP == 1074164744
local_req == {1075082331, 1074295912, -2146143143}  \* TCGETA, TIOCGWINSZ, TCSETAW
SYS_ioctl(s, h) ==
    IF s.r[A1] = SS_IOCTL_TIOCGETP
    THEN Result(CopyOut(s, s.r[A2], Filled(h)), h)
    ELSE IF s.r[A1] \notin local_req THEN Ignored(s)
    ELSE Result(CopyOutIf(CopyInIf(s, s.r[A2], 1), s.r[A2], Kept(s, h, s.r[A2])), h)

\* The result is in the register of the fourth argument before that argument
\* is used for the last time: the third set never comes back, and after an
\* error it is written to address 1.
SYS_select(s, h) ==
    LET timeout == Byte(s, s.r[SP] + 16)
        copied  == CopyInIf(CopyInIf(CopyInIf(CopyInIf(CopyIn(s, s.r[SP] + 16, 1),
                       s.r[A1], 1), s.r[A2], 1), s.r[A3], 1), timeout, 1)
        t       == Result(copied, h)
        except  == IF s.r[A3] = 0 THEN <<h.junk>> ELSE Kept(s, h, s.r[A3])
    IN  CopyOutIf(CopyOutIf(CopyOutIf(CopyOutIf(t,
            s.r[A1], Kept(s, h, s.r[A1])), s.r[A2], Kept(s, h, s.r[A2])), t.r[A3], except),
            timeout, Kept(s, h, timeout))

SYS_setitimer(s, h)  == Ignored(s)
SYS_sigvec(s, h)     == Ignored(s)
SYS_sigblock(s, h)   == Ignored(s)
SYS_sigsetmask(s, h) == Ignored(s)

\* Either pointer may be null; what was read goes back if the call fails.
SYS_gettimeofday(s, h) ==
    LET t == Result(CopyInIf(CopyInIf(s, s.r[A0], 1), s.r[A1], 1), h)
    IN  CopyOutIf(CopyOutIf(t, s.r[A0], Kept(s, h, s.r[A0])), s.r[A1], Kept(s, h, s.r[A1]))

\* The vector is pairs of an address and a length.
SYS_writev(s, h) ==
    LET Base(i) == Byte(s, s.r[A1] + 2 * i - 2)
        Size(i) == Byte(s, s.r[A1] + 2 * i - 1)
        all == FoldLeft(LAMBDA t, i : IF Base(i) = 0 THEN t ELSE CopyIn(t, Base(i), Size(i)),
                        CopyIn(s, s.r[A1], 2 * s.r[A2]), [i \in 1 .. s.r[A2] |-> i])
        text == FlattenSeq([i \in 1 .. s.r[A2] |->
                            IF Base(i) = 0 THEN <<>> ELSE Bytes(s, Base(i), Size(i))])
        n == IF h.ok THEN Least(h.val, Len(text)) ELSE 0
    IN  Result(Prints(all, s.r[A0], SubSeq(text, 1, n)), [h EXCEPT !.val = n])

SYS_utimes(s, h) == Result(CopyInIf(CopyIn(s, s.r[A0], 1), s.r[A1], 2), h)

\* getrlimit and setrlimit both copy the limits in, and out again.
SYS_rlimit(s, h) ==
    LET limits == Kept(s, [h EXCEPT !.ok = @ /\ s.r[V0] = 144], s.r[A1])
    IN  CopyOut(Result(CopyIn(s, s.r[A1], 1), h), s.r[A1], limits)

-----------------------------------------------------------------------------
\* sys_syscall, of a call that is executed and not replayed.
Syscall(s, h) ==
    LET code == s.r[V0] IN
    CASE code = 1   -> Stop(s, "exit")
      [] code = 3   -> SYS_read(s, h)
      [] code = 4   -> SYS_write(s, h)
      [] code = 5   -> SYS_open(s, h)
      [] code = 6   -> SYS_close(s, h)
      [] code = 8   -> SYS_creat(s, h)
      [] code = 10  -> SYS_unlink(s, h)
      [] code = 12  -> SYS_chdir(s, h)
      [] code = 15  -> SYS_chmod(s, h)
      [] code = 16  -> SYS_chown(s, h)
      [] code = 17  -> SYS_brk(s, h)
      [] code = 19  -> SYS_lseek(s, h)
      [] code = 20  -> SYS_getpid(s, h)
      [] code = 24  -> SYS_getuid(s, h)
      [] code = 33  -> SYS_access(s, h)
      [] code \in {38, 40} -> SYS_stat(s, h)
      [] code = 41  -> SYS_dup(s, h)
      [] code = 42  -> SYS_pipe(s, h)
      [] code = 47  -> SYS_getgid(s, h)
      [] code = 54  -> SYS_ioctl(s, h)
      [] code = 62  -> SYS_fstat(s, h)
      [] code = 64  -> SYS_getpagesize(s, h)
      [] code = 83  -> SYS_setitimer(s, h)
      [] code = 89  -> SYS_getdtablesize(s, h)
      [] code = 90  -> SYS_dup2(s, h)
      [] code = 92  -> SYS_fcntl(s, h)
      [] code = 93  -> SYS_select(s, h)
      [] code = 108 -> SYS_sigvec(s, h)
      [] code = 109 -> SYS_sigblock(s, h)
      [] code = 110 -> SYS_sigsetmask(s, h)
      [] code = 116 -> SYS_gettimeofday(s, h)
      [] code = 117 -> SYS_getrusage(s, h)
      [] code = 121 -> SYS_writev(s, h)
      [] code = 138 -> SYS_utimes(s, h)
      [] code \in {144, 145} -> SYS_rlimit(s, h)
      [] OTHER      -> Stop(s, "unimplemented system call")

\* The codes above, but for exit.
Calls == {3, 4, 5, 6, 8, 10, 12, 15, 16, 17, 19, 20, 24, 33, 38, 40, 41, 42, 47, 54, 62,
          64, 83, 89, 90, 92, 93, 108, 109, 110, 116, 117, 121, 138, 144, 145}

\* The registers a trace records.
TracedRegs == {V0, V1, A0, A1, A2, A3}
=============================================================================
