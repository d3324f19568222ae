------------------------------ MODULE Syscall -------------------------------
(***************************************************************************)
(* The system call layer (kernel/api/syscall.c) and the copies across the   *)
(* user boundary (kernel/api/access.c), as one thread meets them.  What a   *)
(* call does once its arguments are in the kernel (do_open, do_mmap, ...)   *)
(* is in modules Vfs, Vm and Proc; here it succeeds or fails.  What is kept *)
(* is what this layer owns: the kernel memory a call takes and must return, *)
(* and kt_errno, of which only the sign matters.                            *)
(*                                                                          *)
(* A call is an operator from the state c of the thread to the SET of its   *)
(* outcomes [c, r], r the sign of the C result (1 also for a pointer):      *)
(*   c.blocks, c.pages   what the thread holds of kmalloc and page_alloc;   *)
(*   c.errno             the sign of kt_errno;   c.panic   the kernel       *)
(*                       followed a pointer that is not one.                *)
(***************************************************************************)
EXTENDS Integers, FiniteSets

R(c, r) == [c |-> c, r |-> r]

\* Each outcome of S continued by F.
Then(S, F(_)) == UNION {F(o) : o \in S}

Errno(c, sign)  == [c EXCEPT !.errno = sign]
FailWith(c, sign) == {R(Errno(c, sign), -1)}

\* What a callee that changes nothing here returns.
Outcomes(c, signs) == {R(c, s) : s \in signs}

\* kmalloc(as_len + 1) may find no memory.
kmalloc(c) == {R([c EXCEPT !.blocks = @ + 1], 1), R(c, 0)}
kfree(c)   == [c EXCEPT !.blocks = @ - 1]
Crash(c)   == [c EXCEPT !.panic = TRUE]

\* range_perm answers 1 whatever it finds; vmmap_read and vmmap_write fail
\* where nothing is mapped.
range_perm == TRUE
copy_from_user(c) == IF range_perm THEN Outcomes(c, {0, -1}) ELSE Outcomes(c, {-1})
copy_to_user(c)   == IF range_perm THEN Outcomes(c, {0, -1}) ELSE Outcomes(c, {-1})

(* Mutant: the buffer stays when the copy fails.                           *)
user_strdup_leaks(c) ==
    Then(kmalloc(c), LAMBDA m :
      IF m.r = 0 THEN {R(Errno(m.c, 1), 0)}
      ELSE Then(copy_from_user(m.c), LAMBDA o :
             IF o.r < 0 THEN {R(Errno(o.c, 1), 0)} ELSE {R(o.c, 1)}))

user_strdup(c) ==
    Then(kmalloc(c), LAMBDA m :
      IF m.r = 0 THEN {R(Errno(m.c, 1), 0)}
      ELSE Then(copy_from_user(m.c), LAMBDA o :
             IF o.r < 0 THEN {R(Errno(kfree(o.c), 1), 0)} ELSE {R(o.c, 1)}))

\* The fail label: the strings copied so far, the vector, and temp_kvec, which
\* kfree is given even when it is NULL.
VecFail(c, temp, kvec, strings) ==
    LET d == [c EXCEPT !.blocks = @ - strings - kvec - temp, !.errno = 1]
    IN {R(IF temp = 0 THEN Crash(d) ELSE d, 0)}

RECURSIVE CopyStrings(_, _, _)
CopyStrings(c, n, i) ==
    IF i = n THEN {R(kfree(c), 1)}
    ELSE Then(user_strdup(c), LAMBDA s :
           IF s.r = 0 THEN VecFail(s.c, 1, 1, i) ELSE CopyStrings(s.c, n, i + 1))

\* A vector of n strings.  When the array of argstrs cannot be read, the walk
\* over kvec finds what kmalloc left there: NULL, or what is no pointer.
user_vecdup(c, n) ==
    Then(kmalloc(c), LAMBDA t :
      IF t.r = 0 THEN VecFail(t.c, 0, 0, 0)
      ELSE Then(kmalloc(t.c), LAMBDA k :
        IF k.r = 0 THEN VecFail(k.c, 1, 0, 0)
        ELSE Then(copy_from_user(k.c), LAMBDA o :
          IF o.r < 0 THEN VecFail(o.c, 1, 1, 0) \cup VecFail(Crash(o.c), 1, 1, 0)
          ELSE CopyStrings(o.c, n, 0))))

-----------------------------------------------------------------------------
(* The shapes the calls share.                                             *)

\* The result of a do_* function: -err goes to kt_errno.
Result(S) == Then(S, LAMBDA o : IF o.r < 0 THEN FailWith(o.c, 1) ELSE {o})

WithArgs(c, F(_)) ==
    Then(copy_from_user(c), LAMBDA o : IF o.r < 0 THEN FailWith(o.c, 1) ELSE F(o.c))

\* The path copied in, used and freed.
WithPath(c, F(_)) ==
    Then(user_strdup(c), LAMBDA p :
      IF p.r = 0 THEN FailWith(p.c, 1)
      ELSE Then(F(p.c), LAMBDA o : Result({R(kfree(o.c), o.r)})))

Do(c) == Outcomes(c, {0, -1})
PathCall(c) == WithArgs(c, LAMBDA d : WithPath(d, Do))

\* Two paths: the first is freed when the second cannot be had.
TwoPaths(c) ==
    WithArgs(c, LAMBDA d :
      Then(user_strdup(d), LAMBDA p :
        IF p.r = 0 THEN FailWith(p.c, 1)
        ELSE Then(user_strdup(p.c), LAMBDA q :
          IF q.r = 0 THEN FailWith(kfree(q.c), 1)
          ELSE Result({R(kfree(kfree(o.c)), o.r) : o \in Do(q.c)}))))

-----------------------------------------------------------------------------
(* The calls.                                                              *)

Page(c) == [c EXCEPT !.pages = @ + 1]

\* The result, negative as it came, is what kt_errno gets; the page stays
\* allocated on every error path.
sys_read(c) ==
    Then(copy_from_user(c), LAMBDA a :
      IF a.r < 0 THEN FailWith(a.c, -1)
      ELSE Then(Do(Page(a.c)), LAMBDA o :
        IF o.r < 0 THEN FailWith(o.c, -1)
        ELSE Then(copy_to_user(o.c), LAMBDA u :
          IF u.r < 0 THEN FailWith(u.c, 1)
          ELSE {R([u.c EXCEPT !.pages = @ - 1], o.r)})))

\* As sys_read; the copy of the bytes to write is not checked, and they are
\* copied back.
sys_write(c) == Then(copy_from_user(c), LAMBDA a :
      IF a.r < 0 THEN FailWith(a.c, -1)
      ELSE Then(copy_from_user(Page(a.c)), LAMBDA b : Then(Do(b.c), LAMBDA o :
        IF o.r < 0 THEN FailWith(o.c, -1)
        ELSE Then(copy_to_user(o.c), LAMBDA u :
          IF u.r < 0 THEN FailWith(u.c, 1)
          ELSE {R([u.c EXCEPT !.pages = @ - 1], o.r)}))))

\* At most one entry; its result, 0 at the end of the directory, goes to
\* kt_errno as it is.
sys_getdents(c) ==
    Then(copy_from_user(c), LAMBDA a :
      IF a.r < 0 THEN FailWith(a.c, -1)
      ELSE {R(a.c, 0)} \cup Then(Outcomes(a.c, {1, 0, -1}), LAMBDA o :
             IF o.r <= 0 THEN FailWith(o.c, o.r) ELSE {o}))

sys_close(c)  == Result(Do(c))
sys_dup(c)    == Result(Do(c))
sys_dup2(c)   == WithArgs(c, LAMBDA d : Result(Do(d)))
sys_mkdir(c)  == PathCall(c)
sys_rmdir(c)  == PathCall(c)
sys_unlink(c) == PathCall(c)
sys_link(c)   == TwoPaths(c)
sys_rename(c) == TwoPaths(c)
sys_chdir(c)  == PathCall(c)
sys_lseek(c)  == WithArgs(c, LAMBDA d : Result(Do(d)))
sys_open(c)   == PathCall(c)
sys_munmap(c) == WithArgs(c, LAMBDA d : Result(Do(d)))
sys_mmap(c)   == WithArgs(c, LAMBDA d : Result(Do(d)))
sys_fork(c)   == Result(Do(c))

\* The child is gone before its status is copied out.
sys_waitpid(c) ==
    WithArgs(c, LAMBDA d : Then(Result(Do(d)), LAMBDA o :
      IF o.r < 0 THEN {o}
      ELSE {o} \cup Then(copy_to_user(o.c), LAMBDA u :
                      IF u.r < 0 THEN FailWith(u.c, 1) ELSE {u})))

\* do_brk answers ENOMEM, not -ENOMEM.
sys_brk(c) == Then(Outcomes(c, {1, 0, -1}), LAMBDA o :
                     IF o.r = 0 THEN {o} ELSE FailWith(o.c, -o.r))

sys_stat(c) ==
    WithArgs(c, LAMBDA d : WithPath(d, LAMBDA p :
      Then(Do(p), LAMBDA o : IF o.r = 0 THEN copy_to_user(o.c) ELSE {o})))

\* Five fields, each copied out; the first that fails ends it.
sys_uname(c) == Result(Then(copy_to_user(c), LAMBDA o : {o}))

\* The cleanup label, with a filename and the vectors copied so far.
ExecCleanup(c, blocks) ==
    {R([c EXCEPT !.blocks = @ - blocks], IF c.errno = 0 THEN 0 ELSE -1)}

\* argv and envp of at most nargs strings; either may be NULL.
Vector(c, nargs) ==
    {[c |-> c, r |-> 1, n |-> 0]} \cup
    UNION {{[c |-> v.c, r |-> v.r, n |-> n + 1] : v \in user_vecdup(c, n)} : n \in 0 .. nargs}

sys_execve(c, nargs) ==
    Then(copy_from_user(c), LAMBDA a :
      IF a.r < 0 THEN ExecCleanup(Errno(a.c, 1), 0)
      ELSE Then(user_strdup(a.c), LAMBDA f :
        IF f.r = 0 THEN ExecCleanup(f.c, 0)
        ELSE Then(Vector(f.c, nargs), LAMBDA v :
          IF v.r = 0 THEN ExecCleanup(v.c, 1)
          ELSE Then(Vector(v.c, nargs), LAMBDA e :
            IF e.r = 0 THEN ExecCleanup(e.c, 1 + v.n)
            ELSE Then(Do(e.c), LAMBDA o :
                   ExecCleanup(Errno(o.c, IF o.r < 0 THEN 1 ELSE 0), 1 + v.n + e.n))))))

\* The message is freed even when it could not be copied.
sys_debug(c) ==
    WithArgs(c, LAMBDA d : Then(user_strdup(d), LAMBDA m :
      {R(IF m.r = 0 THEN Crash(m.c) ELSE kfree(m.c), 0)}))

\* kshell_create returns NULL where there is no such tty.
sys_kshell(c) == FailWith(c, 1) \cup Result(Do(c))

\* The calls that only return: getpid, sync, thr_yield; set_errno takes any.
sys_set_errno(c) == {R(Errno(c, s), 0) : s \in {-1, 0, 1}}
sys_halt(c)      == {R(c, -1)}

Call == {"read", "write", "getdents", "close", "dup", "dup2", "mkdir", "rmdir",
         "unlink", "link", "rename", "chdir", "lseek", "open", "munmap", "mmap",
         "waitpid", "brk", "sync", "halt", "stat", "uname", "fork", "execve",
         "debug", "kshell", "getpid", "thr_yield", "set_errno", "unknown"}

syscall_dispatch(c, call, nargs) ==
    CASE call = "read"     -> sys_read(c)     [] call = "write"  -> sys_write(c)
      [] call = "getdents" -> sys_getdents(c) [] call = "close"  -> sys_close(c)
      [] call = "dup"      -> sys_dup(c)      [] call = "dup2"   -> sys_dup2(c)
      [] call = "mkdir"    -> sys_mkdir(c)    [] call = "rmdir"  -> sys_rmdir(c)
      [] call = "unlink"   -> sys_unlink(c)   [] call = "link"   -> sys_link(c)
      [] call = "rename"   -> sys_rename(c)   [] call = "chdir"  -> sys_chdir(c)
      [] call = "lseek"    -> sys_lseek(c)    [] call = "open"   -> sys_open(c)
      [] call = "munmap"   -> sys_munmap(c)   [] call = "mmap"   -> sys_mmap(c)
      [] call = "waitpid"  -> sys_waitpid(c)  [] call = "brk"    -> sys_brk(c)
      [] call = "stat"     -> sys_stat(c)     [] call = "uname"  -> sys_uname(c)
      [] call = "fork"     -> sys_fork(c)     [] call = "debug"  -> sys_debug(c)
      [] call = "execve"   -> sys_execve(c, nargs)
      [] call = "kshell"   -> sys_kshell(c)   [] call = "halt"   -> sys_halt(c)
      [] call = "set_errno" -> sys_set_errno(c)
      [] call \in {"sync", "getpid", "thr_yield"} -> {R(c, 0)}
      [] call = "unknown"  -> FailWith(c, 1)

-----------------------------------------------------------------------------
(* The thread: each call of the C library traps twice, for the call and for *)
(* its errno (user/include/weenix/trap.h).                                  *)

CONSTANTS NArgs,      \* bound: strings of an argument vector
          MaxPages    \* bound: pages lost to failed reads and writes

VARIABLES thr,         \* c, above
          pc,          \* "user", "kernel" (a call is about to return), "errno"
                       \* (between the traps), "exited" or "panic"
          call, ret,   \* the last call and its result
          errno,       \* the program's errno
          kt_cancelled \* another thread cancelled this one

vars == <<thr, pc, call, ret, errno, kt_cancelled>>

Init ==
    /\ thr = [blocks |-> 0, pages |-> 0, errno |-> 0, panic |-> FALSE]
    /\ pc = "user" /\ call = "getpid" /\ ret = 0 /\ errno = 0
    /\ kt_cancelled = FALSE

Exits == pc' = "exited" /\ UNCHANGED <<thr, call, ret, errno>>

\* A cancelled thread leaves before the call is made.
Trap(n) ==
    /\ pc = "user" /\ thr.pages < MaxPages
    /\ UNCHANGED kt_cancelled
    /\ IF kt_cancelled THEN Exits
       ELSE \E o \in syscall_dispatch(thr, n, NArgs) :
              /\ thr' = o.c /\ ret' = o.r /\ call' = n
              /\ pc' = IF o.c.panic THEN "panic" ELSE "kernel"
              /\ UNCHANGED errno

\* exit and thr_exit.
TrapExit == pc = "user" /\ Exits /\ UNCHANGED kt_cancelled

\* A thread cancelled while it was blocked in the call leaves here.
Return ==
    /\ pc = "kernel"
    /\ UNCHANGED kt_cancelled
    /\ IF kt_cancelled THEN Exits
       ELSE pc' = "errno" /\ UNCHANGED <<thr, call, ret, errno>>

(* Mutant: the handler does not look whether the thread is cancelled.      *)
TrapErrnoAlways ==
    /\ pc = "errno" /\ pc' = "user" /\ errno' = thr.errno
    /\ UNCHANGED <<thr, call, ret, kt_cancelled>>

\* The second trap returns kt_errno.
TrapErrno ==
    /\ pc = "errno"
    /\ UNCHANGED kt_cancelled
    /\ IF kt_cancelled THEN Exits
       ELSE pc' = "user" /\ errno' = thr.errno /\ UNCHANGED <<thr, call, ret>>

Cancel ==
    /\ pc # "exited" /\ ~ kt_cancelled /\ kt_cancelled' = TRUE
    /\ UNCHANGED <<thr, pc, call, ret, errno>>

Next == (\E n \in Call : Trap(n)) \/ TrapExit \/ Return \/ TrapErrno \/ Cancel

Spec == Init /\ [][Next]_vars

-----------------------------------------------------------------------------
(* Properties.                                                             *)

\* Whichever copy, allocation or do_* function of a call fails, the call has
\* freed every string and vector it copied in, and none of them twice, before
\* it returns or its thread exits.
CallsReturnMemory == pc # "panic" => thr.blocks = 0

\* A call that returned -1 has left its reason in errno, a positive number,
\* when the program looks.  Not so for sys_read, sys_write and sys_getdents,
\* which store the negative result, for sys_brk, whose do_brk returns a
\* positive ENOMEM, and for sys_halt, which sets none.
FailuresAreReported ==
    pc = "user" /\ ret < 0 /\ call \notin {"read", "write", "getdents", "brk", "halt"}
      => errno > 0

\* A cancelled thread does not run in user mode again: syscall_handler ends it
\* before and after the call, whatever the call returned.
CancelledStep == kt_cancelled /\ pc # "user" => pc' # "user"
=============================================================================
