---------------------------- MODULE SyscallAlpha ---------------------------
(***************************************************************************)
(* The system calls of the Alpha target (target-alpha/syscall.c), as the   *)
(* Linux build executes them: one operator per case of sys_syscall, on the *)
(* machine s and the host's answer h.  Module Proxy explains both.         *)
(***************************************************************************)
EXTENDS Proxy

\* Every call ends with the comparison of its result with -1.
Result(s, h) ==
    IF h.ok THEN Set(Set(s, V0, h.val), A3, 0) ELSE Set(Set(s, V0, h.err), A3, -1)
Fine(s) == Set(s, A3, 0)

\* read copies the whole buffer out, however little the host put into it; it
\* repeats a call that the host answers with EAGAIN.
SYS_read(s, h) == CopyOut(Result(s, [h EXCEPT !.val = Least(@, s.r[A2])]),
                          s.r[A1], Buffer(h, s.r[A2], s.r[A2]))

\* A short write reports the error number some earlier call has left.
SYS_write(s, h) ==
    LET t == CopyIn(s, s.r[A1], s.r[A2])
        n == IF h.ok THEN Least(h.val, s.r[A2]) ELSE 0
    IN  Result(Prints(t, s.r[A0], Bytes(s, s.r[A1], n)),
               [h EXCEPT !.ok = @ /\ n = s.r[A2], !.val = n])

\* The host's names go out at the full length the program asked for.
SYS_getdomainname(s, h) ==
    CopyOut(Result(s, h), s.r[A0], [i \in 1 .. s.r[A1] |-> IF h.ok THEN h.data ELSE h.junk])
SYS_gethostname(s, h) ==
    CopyOut(Result(s, h), s.r[A0], [i \in 1 .. s.r[A1] |-> IF h.ok THEN h.data ELSE h.junk])

\* The calls on registers alone.
SYS_flock(s, h)     == Result(s, h)
SYS_lseek(s, h)     == Result(s, h)
SYS_getpid(s, h)    == Result(s, Sure(h))
SYS_dup(s, h)       == Result(s, h)
SYS_dup2(s, h)      == Result(s, h)
SYS_fcntl(s, h)     == Result(s, h)
SYS_ftruncate(s, h) == Result(s, h)
SYS_setregid(s, h)  == Result(s, h)
SYS_setreuid(s, h)  == Result(s, h)
SYS_setgid(s, h)    == Result(s, h)
SYS_setuid(s, h)    == Result(s, h)
SYS_getpriority(s, h) == Result(s, h)
SYS_setpriority(s, h) == Result(s, h)
SYS_shutdown(s, h)  == Result(s, h)

\* Both user ids, and both group ids.
SYS_getuid(s, h) == Result(Set(s, A4, h.val2), Sure(h))
SYS_getgid(s, h) == Result(Set(s, A4, h.val2), Sure(h))

\* A socket address of A2 bytes.
SYS_bind(s, h)    == Result(CopyIn(s, s.r[A1], s.r[A2]), h)

\* The message and the address go back to where they were read from.
SYS_sendto(s, h) ==
    LET message == Bytes(s, s.r[A1], s.r[A2])
        address == Bytes(s, s.r[A4], s.r[A5])
        copied  == CopyIn(CopyIn(s, s.r[A1], s.r[A2]), s.r[A4], s.r[A5])
    IN  Result(CopyOut(CopyOut(copied, s.r[A1], message), s.r[A4], address), h)

\* The buffer, the length of the address and the address are read first.  A
\* call that fails copies no message out, and the address as it was.
SYS_recvfrom(s, h) ==
    LET len  == Byte(s, s.r[A5])
        back == IF h.ok THEN [i \in 1 .. len |-> h.data] ELSE Bytes(s, s.r[A4], len)
        copied == CopyIn(CopyIn(CopyIn(s, s.r[A1], s.r[A2]), s.r[A5], 1), s.r[A4], len)
        message == IF h.ok THEN Got(h, s.r[A2]) ELSE <<>>
    IN  Result(CopyOut(CopyOut(CopyOut(copied, s.r[A1], message), s.r[A5], <<len>>),
                       s.r[A4], back),
               [h EXCEPT !.val = Least(@, s.r[A2])])

\* The flags of open(2) that are translated, each a bit.
osf_flag_table == {1, 2, 4, 8, 512, 1024, 2048, 4096, 16384}
Translated(flags) ==
    \A k \in 0 .. 30 : (flags \div 2 ^ k) % 2 = 1 => 2 ^ k \in osf_flag_table

SYS_open(s, h) ==
    IF Translated(s.r[A1]) THEN Result(CopyIn(s, s.r[A0], 1), h)
    ELSE Stop(s, "cannot decode flags")

\* Closing a descriptor of the simulator is ignored and leaves V0 as it was.
SYS_close(s, h) == IF s.r[A0] \in Standard THEN Fine(s) ELSE Result(s, h)

\* The calls on a file name.
SYS_unlink(s, h)   == Result(CopyIn(s, s.r[A0], 1), h)
SYS_chdir(s, h)    == Result(CopyIn(s, s.r[A0], 1), h)
SYS_chmod(s, h)    == Result(CopyIn(s, s.r[A0], 1), h)
SYS_chown(s, h)    == Result(CopyIn(s, s.r[A0], 1), h)
SYS_access(s, h)   == Result(CopyIn(s, s.r[A0], 1), h)
SYS_truncate(s, h) == Result(CopyIn(s, s.r[A0], 1), h)

\* The heap ends where the program says, checked against nothing.
SYS_sbrk(s, h) ==
    LET addr == s.brk + s.r[A0] IN Fine(Set([s EXCEPT !.brk = addr], V0, addr))
SYS_obreak(s, h) == Fine(Set([s EXCEPT !.brk = s.r[A0]], V0, s.r[A0]))

\* The structure is copied out even if the call failed and left it as it was.
SYS_stat(s, h)  == CopyOut(Result(CopyIn(s, s.r[A0], 1), h), s.r[A1], Filled(h))
SYS_fstat(s, h) == CopyOut(Result(s, h), s.r[A1], Filled(h))

OSF_TIOCGETP == 1074164744
OSF_FIONREAD == 1074030207
FIONBIO == 21537
SYS_ioctl(s, h) ==
    CASE s.r[A1] \in {OSF_TIOCGETP, OSF_FIONREAD} -> Result(CopyOut(s, s.r[A2], Filled(h)), h)
      [] s.r[A1] = FIONBIO ->
            Result(CopyOutIf(CopyInIf(s, s.r[A2], 1), s.r[A2], Bytes(s, s.r[A2], 1)), h)
      [] OTHER -> Fine(s)

SYS_getpagesize(s, h)   == Result(s, [Sure(h) EXCEPT !.val = MD_PAGE_SIZE])
SYS_getdtablesize(s, h) == Result(s, h)
SYS_setitimer(s, h)     == Fine(s)

\* Only the table of the system times is known, as one element with index 0.
OSF_TBL_SYSINFO == 12
SYS_table(s, h) ==
    IF s.r[A1] # OSF_TBL_SYSINFO THEN Fine(s)
    ELSE IF s.r[A2] # 0 \/ s.r[A4] # 1 THEN Stop(s, "table: bad index or number")
    ELSE IF h.ok THEN Fine(CopyOut(s, s.r[A3], <<h.data>>))
    ELSE Set(Set(s, A3, -1), V0, h.err)

\* Either pointer may be null; what was read goes back if the call fails.
SYS_gettimeofday(s, h) ==
    LET t == Result(CopyInIf(CopyInIf(s, s.r[A0], 1), s.r[A1], 1), h)
    IN  CopyOutIf(CopyOutIf(t, s.r[A0], Kept(s, h, s.r[A0])), s.r[A1], Kept(s, h, s.r[A1]))

SYS_getrusage(s, h) == CopyOut(Result(s, h), s.r[A1], Filled(h))
SYS_utimes(s, h)    == Result(CopyInIf(CopyIn(s, s.r[A0], 1), s.r[A1], 2), h)

\* getrlimit and setrlimit both copy the limits in, and out again.
SYS_rlimit(s, h) ==
    LET limits == Kept(s, [h EXCEPT !.ok = @ /\ s.r[V0] = 144], s.r[A1])
    IN  CopyOut(Result(CopyIn(s, s.r[A1], 1), h), s.r[A1], limits)

-----------------------------------------------------------------------------
(* Signals are never delivered; the simulator keeps the mask and the handlers *)
(* for the program to ask for.                                               *)

EINVAL == 22
Bits(n)   == {k \in 0 .. 7 : (n \div 2 ^ k) % 2 = 1}
Number(B) == MapThenSumSet(LAMBDA k : 2 ^ k, B)

SYS_sigprocmask(s, h) ==
    LET how  == s.r[A0]
        mask == CASE how = 1 -> Number(Bits(s.mask) \cup Bits(s.r[A1]))
                  [] how = 2 -> Number(Bits(s.mask) \ Bits(s.r[A1]))
                  [] how = 3 -> s.r[A1]
                  [] OTHER   -> s.mask
    IN  IF how \in 1 .. 3 THEN Fine(Set([s EXCEPT !.mask = mask], V0, s.mask))
        ELSE Set(Set(s, V0, EINVAL), A3, 1)

SYS_sigaction(s, h) ==
    LET act == IF s.r[A1] = 0 THEN s.act ELSE Stored(s.act, s.r[A0], s.r[A1])
        old == IF s.r[A0] \in DOMAIN act THEN act[s.r[A0]] ELSE 0
        t   == IF s.r[A2] = 0 THEN s ELSE Set(s, A2, old)
    IN  Fine(Set([t EXCEPT !.act = act], V0, 0))

SYS_sigstack(s, h) == Fine(s)

\* A signal context: the mask, the pc, then the registers.
Context(s, sc) ==
    [s EXCEPT !.npc = Byte(s, sc + 1), !.r = [reg \in Registers |-> Byte(s, sc + 2 + RegIndex[reg])]]
SYS_sigreturn(s, h) ==
    LET sc == s.r[A0]
    IN  [Context(CopyIn(s, sc, 12), sc) EXCEPT !.mask = Byte(s, sc)]

SYS_uswitch(s, h)    == Set(s, V0, s.r[A1])
SYS_setsysinfo(s, h) == Set(s, V0, 0)

-----------------------------------------------------------------------------
\* As many entries as fit, each translated; V0 is their length in the target.
SYS_getdirentries(s, h) ==
    LET entries == Got(h, s.r[A2])
        t == IF entries = <<>> THEN s
             ELSE CopyOutIf(CopyOut(s, s.r[A1], entries), s.r[A3], <<h.val2>>)
    IN  Result(IF h.ok THEN t ELSE s, [h EXCEPT !.val = Len(entries)])

\* Copies the size of another structure, osf_statbuf, out.
SYS_statfs(s, h) == CopyOut(Result(CopyIn(s, s.r[A0], 1), h), s.r[A1], Filled(h) \o <<h.junk>>)

SYS_socket(s, h) == Result(s, h)

\* Longer socket addresses than this end the simulation.
SOCKADDR_SIZE == 26
SYS_connect(s, h) ==
    IF s.r[A2] > SOCKADDR_SIZE THEN Stop(s, "sockaddr size overflow")
    ELSE Result(CopyIn(s, s.r[A1], s.r[A2]), h)

EPERM == 1
SYS_uname(s, h) == Set(Set(s, A3, -1), V0, EPERM)

\* A vector is pairs of an address and a length; each pair is read when its
\* turn comes.
Base(s, i) == Byte(s, s.r[A1] + 2 * i - 2)
Size(s, i) == IF Base(s, i) = 0 THEN 0 ELSE Byte(s, s.r[A1] + 2 * i - 1)
Vectors(s) == [i \in 1 .. s.r[A2] |-> i]

SYS_writev(s, h) ==
    LET Gather(t, i) == CopyIn(CopyIn(t, s.r[A1] + 2 * i - 2, 2), Base(s, i), Size(s, i))
        text == FlattenSeq([i \in 1 .. s.r[A2] |-> Bytes(s, Base(s, i), Size(s, i))])
        n    == IF h.ok THEN Least(h.val, Len(text)) ELSE 0
    IN  Result(Prints(FoldLeft(Gather, s, Vectors(s)), s.r[A0], SubSeq(text, 1, n)),
               [h EXCEPT !.val = n])

\* Every buffer goes out whole, with zeros where the host has put nothing.
SYS_readv(s, h) ==
    LET Before(i)  == FoldLeft(LAMBDA n, k : n + Size(s, k), 0, [k \in 1 .. i - 1 |-> k])
        total      == Before(s.r[A2] + 1)
        data       == Buffer(h, total, total)
        Scatter(t, i) == IF Size(s, i) = 0 THEN t
                         ELSE CopyOut(t, Base(s, i), SubSeq(data, Before(i) + 1, Before(i) + Size(s, i)))
        copied     == CopyIn(s, s.r[A1], 2 * s.r[A2])
    IN  Result(FoldLeft(Scatter, copied, Vectors(s)), [h EXCEPT !.val = Least(@, total)])

SYS_setsockopt(s, h) ==
    Result(IF s.r[A3] = 0 THEN s ELSE CopyIn(s, s.r[A3], s.r[A4]), h)

\* The name goes out at the length the program gave, zeros if there is none.
SocketName(s, h) ==
    LET len == Byte(s, s.r[A2])
        t   == Result(CopyIn(s, s.r[A2], 1), h)
    IN  CopyOut(CopyOut(t, s.r[A1], [i \in 1 .. len |-> IF h.ok THEN h.data ELSE 0]),
                s.r[A2], <<len>>)
SYS_old_getsockname(s, h) == SocketName(s, h)
SYS_old_getpeername(s, h) == SocketName(s, h)

\* The result is in the register of the fourth argument before that argument
\* is used for the last time: the third set never comes back, and after an
\* error it is written to address -1.
SYS_select(s, h) ==
    LET copied == CopyInIf(CopyInIf(CopyInIf(CopyInIf(s, s.r[A1], 1), s.r[A2], 1),
                                    s.r[A3], 1), s.r[A4], 1)
        t      == Result(copied, h)
        except == IF s.r[A3] = 0 THEN <<h.junk>> ELSE Kept(s, h, s.r[A3])
    IN  CopyOutIf(CopyOutIf(CopyOutIf(CopyOutIf(t,
            s.r[A1], Kept(s, h, s.r[A1])), s.r[A2], Kept(s, h, s.r[A2])), t.r[A3], except),
            s.r[A4], Kept(s, h, s.r[A4]))

SYS_poll(s, h) ==
    LET fds == IF h.ok THEN [i \in 1 .. s.r[A1] |-> h.data] ELSE Bytes(s, s.r[A0], s.r[A1])
    IN  CopyOut(Result(CopyIn(s, s.r[A0], s.r[A1]), h), s.r[A0], fds)

SYS_usleep_thread(s, h) == Result(s, [Sure(h) EXCEPT !.val = 0])

\* madvise leaves A3 as it was.
SYS_madvise(s, h) == Set(s, V0, 0)

-----------------------------------------------------------------------------
\* The number of the call; syscall() passes it in the first argument.
OSF_SYS_syscall == 0
Code(s) == IF s.r[V0] = OSF_SYS_syscall THEN s.r[A0] ELSE s.r[V0]

OSF_SYS_sigreturn == 103

\* sys_syscall, of a call that is executed and not replayed.
Syscall(s, h) ==
    LET code == Code(s) IN
    CASE code = 1   -> Stop(s, "exit")
      [] code = 3   -> SYS_read(s, h)
      [] code = 4   -> SYS_write(s, h)
      [] code = 6   -> SYS_close(s, h)
      [] code = 10  -> SYS_unlink(s, h)
      [] code = 12  -> SYS_chdir(s, h)
      [] code = 15  -> SYS_chmod(s, h)
      [] code = 16  -> SYS_chown(s, h)
      [] code = 17  -> SYS_obreak(s, h)
      [] code = 19  -> SYS_lseek(s, h)
      [] code = 20  -> SYS_getpid(s, h)
      [] code = 23  -> SYS_setuid(s, h)
      [] code = 24  -> SYS_getuid(s, h)
      [] code = 33  -> SYS_access(s, h)
      [] code = 41  -> SYS_dup(s, h)
      [] code = 45  -> SYS_open(s, h)
      [] code = 47  -> SYS_getgid(s, h)
      [] code = 48  -> SYS_sigprocmask(s, h)
      [] code = 54  -> SYS_ioctl(s, h)
      [] code = 64  -> SYS_getpagesize(s, h)
      [] code \in {67, 68} -> SYS_stat(s, h)
      [] code = 69  -> SYS_sbrk(s, h)
      [] code = 75  -> SYS_madvise(s, h)
      [] code = 83  -> SYS_setitimer(s, h)
      [] code = 85  -> SYS_table(s, h)
      [] code = 87  -> SYS_gethostname(s, h)
      [] code = 89  -> SYS_getdtablesize(s, h)
      [] code = 90  -> SYS_dup2(s, h)
      [] code = 91  -> SYS_fstat(s, h)
      [] code = 92  -> SYS_fcntl(s, h)
      [] code = 93  -> SYS_select(s, h)
      [] code = 94  -> SYS_poll(s, h)
      [] code = 96  -> SYS_setpriority(s, h)
      [] code = 97  -> SYS_socket(s, h)
      [] code = 98  -> SYS_connect(s, h)
      [] code = 100 -> SYS_getpriority(s, h)
      [] code = OSF_SYS_sigreturn -> SYS_sigreturn(s, h)
      [] code = 104 -> SYS_bind(s, h)
      [] code = 105 -> SYS_setsockopt(s, h)
      [] code = 112 -> SYS_sigstack(s, h)
      [] code = 116 -> SYS_gettimeofday(s, h)
      [] code = 117 -> SYS_getrusage(s, h)
      [] code = 120 -> SYS_readv(s, h)
      [] code = 121 -> SYS_writev(s, h)
      [] code \in {29, 125} -> SYS_recvfrom(s, h)
      [] code = 126 -> SYS_setreuid(s, h)
      [] code = 127 -> SYS_setregid(s, h)
      [] code = 129 -> SYS_truncate(s, h)
      [] code = 130 -> SYS_ftruncate(s, h)
      [] code = 131 -> SYS_flock(s, h)
      [] code = 132 -> SYS_setgid(s, h)
      [] code = 133 -> SYS_sendto(s, h)
      [] code = 134 -> SYS_shutdown(s, h)
      [] code = 138 -> SYS_utimes(s, h)
      [] code = 141 -> SYS_old_getpeername(s, h)
      [] code \in {144, 145} -> SYS_rlimit(s, h)
      [] code = 150 -> SYS_old_getsockname(s, h)
      [] code = 156 -> SYS_sigaction(s, h)
      [] code = 159 -> SYS_getdirentries(s, h)
      [] code = 160 -> SYS_statfs(s, h)
      [] code = 165 -> SYS_getdomainname(s, h)
      [] code = 207 -> SYS_uname(s, h)
      [] code = 250 -> SYS_uswitch(s, h)
      [] code = 251 -> SYS_usleep_thread(s, h)
      [] code = 257 -> SYS_setsysinfo(s, h)
      [] OTHER      -> Set(Set(s, A3, -1), V0, 0)

\* The codes above, but for exit and sigreturn.
Calls == {3, 4, 6, 10, 12, 15, 16, 17, 19, 20, 23, 24, 29, 33, 41, 45, 47, 48, 54, 64, 67,
          68, 69, 75, 83, 85, 87, 89, 90, 91, 92, 93, 94, 96, 97, 98, 100, 104, 105, 112,
          116, 117, 120, 121, 125, 126, 127, 129, 130, 131, 132, 133, 134, 138, 141, 144,
          145, 150, 156, 159, 160, 165, 207, 250, 251, 257}

\* The registers a trace records.
TracedRegs == {V0, V1, A0, A1, A2, A3, A4, A5}
=============================================================================
