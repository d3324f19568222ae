-------------------------------- MODULE Proc --------------------------------
(***************************************************************************)
(* Processes (proc/proc.c, proc/kthread.c, the process side of proc/fork.c *)
(* and of the system call handler) on top of the scheduler: creation and   *)
(* pids, the process tree, exit and reparenting, waitpid, killing.         *)
(*                                                                         *)
(* A process has one thread (the kernel is built without MTP), so a member *)
(* of Thread is a proc_t together with its kthread_t.  Open files appear   *)
(* only as places where proc_cleanup can sleep, address spaces not at all. *)
(***************************************************************************)
EXTENDS Sched

CONSTANTS
  p_wait,          \* the p_wait queue of every process
  PROC_MAX_COUNT,
  Status,          \* the exit statuses
  CleanupQ         \* the device queues on which vput and do_close can make
                   \* proc_cleanup sleep

ASSUME ProcAssumption ==
  /\ p_wait \in [Thread -> WaitQ \ DevQ]
  /\ \A t, u \in Thread : p_wait[t] = p_wait[u] => t = u
  /\ PROC_MAX_COUNT \in Nat \ {0, 1}
  /\ CleanupQ \subseteq DevQ
  /\ 0 \in Status
  /\ NULL \notin Status

PID_IDLE == 0
PID_INIT == 1

VARIABLES
  proc_list,      \* _proc_list, in order
  next_pid,
  proc_initproc,
  p_pid,
  p_pproc,
  p_children,     \* the p_children list of every process, in order
  p_state,
  p_status,
  kt_retval,      \* NULL or the status kt_retval points to
  pc,             \* where a thread is in the process code
  stop            \* why the machine stopped, "none" while it runs

treeVars == <<proc_list, p_pproc, p_children>>
procVars == <<proc_list, next_pid, proc_initproc, p_pid, p_pproc, p_children,
              p_state, p_status, kt_retval, pc, stop>>
vars == <<schedVars, procVars>>

(* "none": no such process; "boot": idleproc_run; "user": between system   *)
(* calls; "waitpid": in the loop of do_waitpid(arg); "sysret": about to    *)
(* return from a system call; "kill": in proc_kill_all, at the arg-th      *)
(* process; "cleanup": in proc_cleanup(arg), the parent has been woken;    *)
(* "closed": as "cleanup", after sleeping in vput or do_close; "dead".     *)
PC(op, arg) == [op |-> op, arg |-> arg]
At(op) == cpu = "run" /\ stop = "none" /\ pc[curthr].op = op
Procs == {proc_list[i] : i \in DOMAIN proc_list}

ProcInit ==
  /\ SchedInit
  /\ proc_list = <<idle>>
  /\ next_pid = 1
  /\ proc_initproc = NULL
  /\ p_pid = [t \in Thread |-> 0]
  /\ p_pproc = [t \in Thread |-> NULL]
  /\ p_children = [t \in Thread |-> << >>]
  /\ p_state = [t \in Thread |-> "PROC_RUNNING"]
  /\ p_status = [t \in Thread |-> 0]
  /\ kt_retval = [t \in Thread |-> NULL]
  /\ pc = [t \in Thread |-> PC(IF t = idle THEN "boot" ELSE "none", 0)]
  /\ stop = "none"

---------------------------------------------------------------------------
(* Mutant: pids are handed out in a circle without looking at the list.    *)
proc_getid_unchecked(pid) == pid = next_pid

(* The pid found: the first from next_pid on, modulo PROC_MAX_COUNT, that  *)
(* no process on the list has; -1 when the search comes back to next_pid.  *)
proc_getid(pid) ==
  LET nth(k) == (next_pid + k) % PROC_MAX_COUNT
      taken(k) == \E p \in Procs : p_pid[p] = nth(k)
  IN IF pid = -1 THEN \A k \in 0..(PROC_MAX_COUNT - 1) : taken(k)
     ELSE \E k \in 0..(PROC_MAX_COUNT - 1) :
            pid = nth(k) /\ ~taken(k) /\ \A j \in 0..(k - 1) : taken(j)

NextPid(pid) == IF pid = -1 THEN next_pid ELSE (pid + 1) % PROC_MAX_COUNT

(* proc_create in the free structure c, parent the current process.        *)
proc_create(c) ==
  /\ c \notin Procs
  /\ \E pid \in -1..(PROC_MAX_COUNT - 1) :
     /\ proc_getid(pid)
     /\ p_pid' = [p_pid EXCEPT ![c] = pid]
     /\ next_pid' = NextPid(pid)
     /\ proc_initproc' = IF pid = PID_INIT THEN c ELSE proc_initproc
     /\ pid = PID_INIT => p_pid[curthr] = PID_IDLE
  /\ proc_list' = Append(proc_list, c)
  /\ p_pproc' = [p_pproc EXCEPT ![c] = curthr]
  /\ p_children' = [p_children EXCEPT ![curthr] = Append(@, c), ![c] = << >>]
  /\ p_state' = [p_state EXCEPT ![c] = "PROC_RUNNING"]
  /\ p_status' = [p_status EXCEPT ![c] = 0]

(* A new process whose thread (kthread_create, or kthread_clone of the     *)
(* caller's) is made runnable; the caller goes on at "next".               *)
Spawn(c, next) ==
  /\ proc_create(c)
  /\ MakeRunnable(tq_list, tq_size, kt_wchan, kt_state, c)
  /\ kt_cancelled' = [kt_cancelled EXCEPT ![c] = kt_cancelled[curthr]]
  /\ kt_retval' = [kt_retval EXCEPT ![c] = kt_retval[curthr]]
  /\ frame' = [frame EXCEPT ![c] = "__context_initial_func"]
  /\ earlier_ipl' = [earlier_ipl EXCEPT ![c] = "IPL_LOW"]
  /\ pc' = [pc EXCEPT ![c] = PC("user", 0), ![curthr] = next]
  /\ ret' = "none"
  /\ UNCHANGED <<curthr, cpu, ipl, cancel, stop>>

(* idleproc_run: create init, make it runnable, do_waitpid(-1).            *)
idleproc_run(c) == At("boot") /\ Spawn(c, PC("waitpid", -1))

(* The system call handler dispatches only for a thread that is not        *)
(* cancelled.                                                              *)
Syscall == At("user") /\ ~kt_cancelled[curthr]

do_fork(c) ==
  /\ Syscall
  /\ p_state[curthr] = "PROC_RUNNING"
  /\ Spawn(c, PC("user", 0))

---------------------------------------------------------------------------
(* Mutant: proc_cleanup does not wake the parent.                          *)
IgnoreParent(s) == kt_state' = s /\ UNCHANGED queueVars
WakeParent(s) == Wakeup(p_wait[p_pproc[curthr]], s)

(* kthread_exit(&status), or kthread_exit(NULL) when rv is NULL:           *)
(* proc_thread_exited reads the status through the pointer.  Up to and     *)
(* including the wakeup of the parent in proc_cleanup.                     *)
KthreadExit(rv) ==
  \/ /\ rv = NULL
     /\ stop' = "null kt_retval"
     /\ UNCHANGED <<schedVars, kt_retval, pc>>
  \/ /\ rv # NULL
     /\ kt_retval' = [kt_retval EXCEPT ![curthr] = rv]
     /\ WakeParent([kt_state EXCEPT ![curthr] = "KT_EXITED"])
     /\ pc' = [pc EXCEPT ![curthr] = PC("cleanup", rv)]
     /\ ret' = "none"
     /\ UNCHANGED <<kt_cancelled, curthr, cpu, ipl, frame, earlier_ipl, cancel,
                    stop>>

do_exit(status) ==
  /\ Syscall
  /\ KthreadExit(status)
  /\ UNCHANGED <<treeVars, next_pid, proc_initproc, p_pid, p_state, p_status>>

(* vput(p_cwd) or a do_close sleeps for a device.                          *)
proc_cleanup_sleep(q) ==
  /\ At("cleanup")
  /\ sched_sleep_on(q)
  /\ pc' = [pc EXCEPT ![curthr].op = "closed"]
  /\ UNCHANGED <<treeVars, next_pid, proc_initproc, p_pid, p_state, p_status, kt_retval, stop>>

(* Mutant: the children of an exiting process keep their parent.           *)
KeepChildren(mine) == UNCHANGED <<p_children, p_pproc>>
Reparent(mine) ==
  /\ p_children' = [p_children EXCEPT
       ![proc_initproc] = @ \o p_children[curthr], ![curthr] = << >>]
  /\ p_pproc' = [t \in Thread |->
                   IF t \in mine THEN proc_initproc ELSE p_pproc[t]]

(* Mutant: the dead thread makes itself runnable before it switches.       *)
LeaveRunnable ==
  Switch("sched_switch", EnqueueList(tq_list, kt_runq, curthr),
         EnqueueSize(tq_size, kt_runq), Channel(kt_wchan, kt_runq, curthr))
LeaveForGood == Switch("sched_switch", tq_list, tq_size, kt_wchan)

(* The rest of proc_cleanup, then sched_switch.  The loop that reparents   *)
(* the children takes the first of the list and appends it to the list of  *)
(* init: when the current process is init it never ends.                   *)
proc_cleanup ==
  LET mine == {p_children[curthr][i] : i \in DOMAIN p_children[curthr]} IN
  /\ At("cleanup") \/ At("closed")
  /\ \/ /\ curthr = proc_initproc
        /\ mine # {}
        /\ stop' = "reparenting init's children"
        /\ UNCHANGED <<schedVars, treeVars, p_state, p_status, pc>>
     \/ /\ curthr # proc_initproc \/ mine = {}
        /\ Reparent(mine)
        /\ p_state' = [p_state EXCEPT ![curthr] = "PROC_DEAD"]
        /\ p_status' = [p_status EXCEPT ![curthr] = pc[curthr].arg]
        /\ pc' = [pc EXCEPT ![curthr] = PC("dead", 0)]
        /\ LeaveForGood
        /\ UNCHANGED <<kt_state, proc_list, stop>>
  /\ UNCHANGED <<next_pid, proc_initproc, p_pid, kt_retval>>

---------------------------------------------------------------------------
(* do_waitpid.  Both loops, for -1 and for a pid, look for any dead child. *)

proc_lookup(pid) == {p \in Procs : p_pid[p] = pid}

do_waitpid(pid) ==
  /\ Syscall
  /\ pc' = [pc EXCEPT ![curthr] =
       IF \/ p_children[curthr] = << >>
          \/ pid # -1 /\ \A p \in proc_lookup(pid) : p_pproc[p] # curthr
       THEN PC("sysret", 0) ELSE PC("waitpid", pid)]
  /\ UNCHANGED <<schedVars, treeVars, next_pid, proc_initproc, p_pid, p_state,
                 p_status, kt_retval, stop>>

FirstDead(i) ==
  /\ p_state[p_children[curthr][i]] = "PROC_DEAD"
  /\ \A j \in 1..(i - 1) : p_state[p_children[curthr][j]] # "PROC_DEAD"

(* The child c is unlinked and destroyed, unless the KASSERT on the state  *)
(* of its thread fails.  idleproc_run goes on to shut the machine down.    *)
Reap(i) ==
  LET c == p_children[curthr][i] IN
  \/ /\ kt_state[c] # "KT_EXITED"
     /\ stop' = "KASSERT(KT_EXITED == kt_state)"
     /\ UNCHANGED <<schedVars, treeVars, pc>>
  \/ /\ kt_state[c] = "KT_EXITED"
     /\ p_children' = [p_children EXCEPT ![curthr] = list_remove_at(@, i)]
     /\ proc_list' = list_remove(proc_list, c)
     /\ p_pproc' = [p_pproc EXCEPT ![c] = NULL]
     /\ kt_state' = [kt_state EXCEPT ![c] = "KT_NO_STATE"]
     /\ pc' = [pc EXCEPT ![c] = PC("none", 0), ![curthr] = PC("sysret", 0)]
     /\ stop' = IF curthr = idle THEN "shutdown" ELSE "none"
     /\ UNCHANGED <<kt_wchan, kt_cancelled, tq_list, tq_size, curthr, cpu, ipl,
                    frame, earlier_ipl, cancel, ret>>

waitpid_scan ==
  /\ At("waitpid")
  /\ \/ \E i \in DOMAIN p_children[curthr] : FirstDead(i) /\ Reap(i)
     \/ /\ \A i \in DOMAIN p_children[curthr] :
             p_state[p_children[curthr][i]] # "PROC_DEAD"
        /\ sched_sleep_on(p_wait[curthr])
        /\ UNCHANGED <<treeVars, pc, stop>>
  /\ UNCHANGED <<next_pid, proc_initproc, p_pid, p_state, p_status, kt_retval>>

---------------------------------------------------------------------------
(* proc_kill_all (system call halt), one process of the list per step.     *)

proc_kill_all ==
  /\ Syscall
  /\ pc' = [pc EXCEPT ![curthr] = PC("kill", 1)]
  /\ UNCHANGED <<schedVars, treeVars, next_pid, proc_initproc, p_pid, p_state,
                 p_status, kt_retval, stop>>

Spared == {p \in Procs : p_pid[p] = PID_IDLE \/ p_pid[p_pproc[p]] = PID_IDLE}

proc_kill ==
  LET i == pc[curthr].arg
      p == proc_list[i]
      step == [pc EXCEPT ![curthr].arg = i + 1]
  IN /\ At("kill")
     /\ \/ /\ i > Len(proc_list)
           /\ pc' = [pc EXCEPT ![curthr] = PC("sysret", 0)]
           /\ UNCHANGED <<schedVars, kt_retval, stop>>
        \/ /\ i <= Len(proc_list)
           /\ p \in Spared
           /\ pc' = step
           /\ UNCHANGED <<schedVars, kt_retval, stop>>
        \/ /\ i <= Len(proc_list)
           /\ p \notin Spared
           /\ \/ p = curthr /\ KthreadExit(p_status[p])
              \/ /\ p # curthr
                 /\ kt_retval' = [kt_retval EXCEPT ![p] = NULL]
                 /\ sched_cancel(p)
                 /\ pc' = step
                 /\ UNCHANGED stop
     /\ UNCHANGED <<treeVars, next_pid, proc_initproc, p_pid, p_state, p_status>>

---------------------------------------------------------------------------
(* The system call handler's two checks of kt_cancelled.                   *)
syscall_handler ==
  /\ At("user") \/ At("sysret")
  /\ \/ kt_cancelled[curthr] /\ KthreadExit(kt_retval[curthr])
     \/ /\ ~kt_cancelled[curthr]
        /\ pc[curthr].op = "sysret"
        /\ pc' = [pc EXCEPT ![curthr] = PC("user", 0)]
        /\ UNCHANGED <<schedVars, kt_retval, stop>>
  /\ UNCHANGED <<treeVars, next_pid, proc_initproc, p_pid, p_state, p_status>>

(* Other system calls that block: on a device, or to yield.                *)
OtherSyscall ==
  /\ Syscall
  /\ \/ thr_yield
     \/ \E q \in DevQ : sched_sleep_on(q) \/ sched_cancellable_sleep_on(q)
  /\ pc' = [pc EXCEPT ![curthr] = PC("sysret", 0)]
  /\ UNCHANGED <<treeVars, next_pid, proc_initproc, p_pid, p_state, p_status, kt_retval, stop>>

Machine ==
  /\ stop = "none"
  /\ CancelStep \/ Idle \/ AnyInterrupt
  /\ UNCHANGED procVars

ProcNext ==
  \/ \E c \in Thread : idleproc_run(c) \/ do_fork(c)
  \/ \E status \in Status : do_exit(status)
  \/ \E q \in CleanupQ : proc_cleanup_sleep(q)
  \/ proc_cleanup
  \/ \E pid \in -1..(PROC_MAX_COUNT - 1) : do_waitpid(pid)
  \/ waitpid_scan
  \/ syscall_handler
  \/ OtherSyscall
  \/ Machine

(* Processes that create, wait for and exit; KillSpec: that also kill.     *)
ProcSpec == ProcInit /\ [][ProcNext]_vars

KillNext == ProcNext \/ proc_kill_all \/ proc_kill
KillSpec == ProcInit /\ [][KillNext]_vars

---------------------------------------------------------------------------
(* Type invariant of the processes.                                        *)
ProcTypeOK ==
  /\ proc_list \in Seq(Thread)
  /\ next_pid \in 0..(PROC_MAX_COUNT - 1)
  /\ proc_initproc \in Thread \cup {NULL}
  /\ p_pid \in [Thread -> -1..(PROC_MAX_COUNT - 1)]
  /\ p_pproc \in [Thread -> Thread \cup {NULL}]
  /\ p_children \in [Thread -> Seq(Thread)]
  /\ p_state \in [Thread -> {"PROC_RUNNING", "PROC_DEAD"}]
  /\ p_status \in [Thread -> Status]
  /\ kt_retval \in [Thread -> Status \cup {NULL}]

(* The process tree: every process but idle is exactly once on the list of *)
(* children of its parent, which is alive, and the lists of children hold  *)
(* nothing else.  Reparenting, reaping and killing never leave a process   *)
(* with a dead or destroyed parent, and none is unreachable for waitpid.   *)
TreeIsSound ==
  /\ ProcTypeOK
  /\ \A i, j \in DOMAIN proc_list : proc_list[i] = proc_list[j] => i = j
  /\ \A p \in Procs \ {idle} :
       /\ p_pproc[p] \in Procs
       /\ p_state[p_pproc[p]] = "PROC_RUNNING"
       /\ \E i \in DOMAIN p_children[p_pproc[p]] : p_children[p_pproc[p]][i] = p
  /\ \A p \in Thread : \A i \in DOMAIN p_children[p] :
       /\ p_children[p][i] \in Procs \ {idle}
       /\ p_pproc[p_children[p][i]] = p
       /\ \A j \in DOMAIN p_children[p] :
            p_children[p][i] = p_children[p][j] => i = j

(* No two processes on the list have the same pid, zombies included, also  *)
(* after next_pid has wrapped around, so proc_lookup finds one process.    *)
PidsAreUnique ==
  \A p, r \in Procs : p_pid[p] = p_pid[r] => p = r

(* A process whose state is PROC_DEAD never has the CPU and is on no       *)
(* queue, so do_waitpid may free its stack and its structures.             *)
DeadStaysOff ==
  \A p \in Procs : p_state[p] = "PROC_DEAD" =>
    kt_wchan[p] = NULL /\ ~Running(p)

(* A process other than init that sleeps in do_waitpid has children and    *)
(* they are all alive: nobody sleeps on a zombie it could dispose of, and  *)
(* nobody sleeps for a child that does not exist.                          *)
WaitsForTheLiving ==
  \A p \in Procs \ {proc_initproc} : kt_wchan[p] = p_wait[p] =>
    /\ p_children[p] # << >>
    /\ \A i \in DOMAIN p_children[p] : p_state[p_children[p][i]] = "PROC_RUNNING"

(* The machine executes what is not a process's choice, and a process does *)
(* not stay in user mode for good.                                         *)
ProcFairness ==
  /\ WF_vars(Machine /\ (CancelStep \/ Idle))
  /\ WF_vars(proc_cleanup)
  /\ WF_vars(waitpid_scan)
  /\ WF_vars(syscall_handler)
  /\ SF_vars(OtherSyscall \/ \E status \in Status : do_exit(status))

HasDeadChild(p) ==
  \E i \in DOMAIN p_children[p] : p_state[p_children[p][i]] = "PROC_DEAD"

(* A process in do_waitpid that has an exited child returns from the call, *)
(* provided the machine keeps running.                                     *)
WaitpidReturns ==
  ([]<>(cpu # "halted") /\ [](stop = "none")) =>
    \A p \in Thread : (p # proc_initproc /\ pc[p].op = "waitpid" /\ HasDeadChild(p))
                        ~> (pc[p].op # "waitpid")

(* proc.c, above do_waitpid: with pid -1 the function blocks "if all       *)
(* children of this process are still running".                            *)
NobodySleepsOnAZombie ==
  \A p \in Procs : kt_wchan[p] = p_wait[p] => ~HasDeadChild(p)

(* proc.c, do_waitpid: KASSERT(KT_EXITED == pThread->kt_state).            *)
ReapedThreadHasExited == stop # "KASSERT(KT_EXITED == kt_state)"

(* proc.c, above do_waitpid: with a pid that is a child's it will "wait    *)
(* for the given pid to exit and dispose of it".                           *)
WaitpidReapsThatPid ==
  [][\A p \in Procs : pc[p].op = "waitpid" /\ pc[p].arg > 0 /\ pc'[p].op = "sysret"
       => \E c \in Procs : p_pid[c] = pc[p].arg /\ p_pproc'[c] = NULL]_vars

(* proc.h: proc_kill's "@param status the status the process should exit   *)
(* with": a killed process exits with a status.                            *)
KilledProcessExits == stop # "null kt_retval"
=============================================================================
