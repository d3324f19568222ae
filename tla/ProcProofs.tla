----------------------------- MODULE ProcProofs -----------------------------
(***************************************************************************)
(* Proofs about Proc, for any number of processes, queues and pids: every  *)
(* step keeps ProcInv, and it implies the properties of the process tree.  *)
(***************************************************************************)
EXTENDS ProcInvariant, SchedProofs, FiniteSetTheorems

(* ProcSched with a name for the value of Off, before and after a step.    *)
LEMMA OffNow == ASSUME NEW off, off = Off PROVE ProcSched <=> SchedBut(off)
  BY Zenon DEF ProcSched

(* The same after the step.                                                *)
LEMMA OffNext == ASSUME NEW off, off = Off' PROVE ProcSched' <=> SchedBut(off)'
  BY Zenon DEF ProcSched, SchedBut

(* A step that changes neither the list of processes nor their states      *)
(* leaves the same threads off the queues.                                 *)
LEMMA SameOff == UNCHANGED <<proc_list, p_state>> => Off' = Off
  BY Zenon DEF Off, Procs

(* A step that only moves threads, exit statuses and places keeps the      *)
(* invariant, if the new places are places.                                *)
LEMMA QuietStep ==
  ASSUME ProcInv, Quiet, ProcSched', Places',
         p_status' \in [Thread -> Status],
         kt_retval' \in [Thread -> Status \cup {NULL}],
         stop' = "none" => pc'[idle].op \in {"boot", "waitpid"},
         pc'[idle].op = "boot" => pc[idle].op = "boot"
  PROVE  ProcInv'
<1>1. Procs' = Procs /\ UNCHANGED <<proc_list, p_pproc, p_children>>
  BY Zenon DEF Quiet, treeVars, Procs
<1>2. ProcTypeOK' /\ Distinct(proc_list')
  BY Zenon, <1>1 DEF Quiet, ProcInv, ProcTypeOK
<1>3. Roots'
  BY Zenon, <1>1 DEF Quiet, ProcInv, Roots
<1>4. Tree' /\ Rooted' /\ Pids'
  BY <1>1 DEF Quiet, ProcInv, Tree, Rooted, Pids
<1>. QED BY Zenon, <1>1, <1>2, <1>3, <1>4 DEF ProcInv

(* The current thread, not idle's, goes to place x.                        *)
LEMMA Moves ==
  ASSUME ProcInv, curthr \in Thread \ {idle}, NEW x, Place(curthr, x),
         pc' = [pc EXCEPT ![curthr] = x]
  PROVE  Places' /\ pc'[idle] = pc[idle]
<1>1. pc \in [Thread -> [op : Op, arg : Int \cup Status]] /\ \A t \in Thread : Place(t, pc[t])
  BY Zenon DEF ProcInv, Places
<1>2. x \in [op : Op, arg : Int \cup Status]
  BY Zenon DEF Place
<1>3. pc' \in [Thread -> [op : Op, arg : Int \cup Status]] /\ pc'[curthr] = x
  BY Zenon, <1>1, <1>2
<1>4. \A t \in Thread \ {curthr} : pc'[t] = pc[t]
  BY Zenon, <1>1
<1>5. \A t \in Thread : Place(t, pc'[t])
  BY Zenon, <1>1, <1>3, <1>4
<1>6. Places'
  BY Zenon, <1>3, <1>5 DEF Places, Place
<1>. QED BY Zenon, <1>4, <1>6, SchedAssumption

(* A step of the process code alone: the scheduler's state stays.          *)
LEMMA SchedStays == ASSUME ProcSched, UNCHANGED <<schedVars, proc_list, p_state>> PROVE ProcSched'
<1>1. Off' = Off
  BY Zenon, SameOff
<1>. QED BY Zenon, <1>1 DEF ProcSched, SchedBut, SchedTypeOK, CancelTarget, IdlesUnmasked, schedVars

(* do_waitpid's checks and the start of proc_kill_all.                     *)
LEMMA CallStep ==
  ASSUME ProcInv, Syscall, NEW x, Place(curthr, x), pc' = [pc EXCEPT ![curthr] = x],
         Quiet, UNCHANGED <<schedVars, p_status, kt_retval, stop>>
  PROVE  ProcInv'
<1>1. curthr \in Thread \ {idle}
  BY Zenon, Current DEF Syscall, At
<1>2. Places' /\ pc'[idle] = pc[idle]
  BY Zenon, <1>1, Moves
<1>3. ProcSched'
  BY Zenon, SchedStays DEF ProcInv, Quiet, treeVars
<1>. QED BY Zenon, <1>2, <1>3, QuietStep DEF ProcInv, ProcTypeOK, Roots

(* do_waitpid up to its loop.                                              *)
LEMMA WaitpidStep ==
  ASSUME ProcInv, NEW pid \in -1..(PROC_MAX_COUNT - 1), do_waitpid(pid)
  PROVE  ProcInv'
<1>1. pid \in Int /\ Place(curthr, PC("waitpid", pid)) /\ Place(curthr, PC("sysret", 0))
  BY ProcAssumption DEF Place, PC, Op
<1>2. PICK x : Place(curthr, x) /\ pc' = [pc EXCEPT ![curthr] = x]
  BY Zenon, <1>1 DEF do_waitpid
<1>. QED BY Zenon, <1>2, CallStep DEF do_waitpid, Quiet

(* The start of proc_kill_all.                                             *)
LEMMA KillAllStep == ASSUME ProcInv, proc_kill_all PROVE ProcInv'
<1>1. Place(curthr, PC("kill", 1))
  BY DEF Place, PC, Op
<1>2. PICK x : Place(curthr, x) /\ pc' = [pc EXCEPT ![curthr] = x]
  BY Zenon, <1>1 DEF proc_kill_all
<1>. QED BY Zenon, <1>2, CallStep DEF proc_kill_all, Quiet

(* kthread_exit up to the wakeup of the parent: the thread is KT_EXITED    *)
(* while it still has the CPU, and the wakeup keeps the queues sound.      *)
LEMMA KthreadExitStep ==
  ASSUME ProcInv, cpu = "run", stop = "none", curthr # idle,
         NEW rv \in Status \cup {NULL}, KthreadExit(rv), Quiet, UNCHANGED p_status
  PROVE  ProcInv'
<1>1. /\ curthr \in Procs /\ curthr \in Thread /\ p_pproc[curthr] \in Thread
  BY Zenon, Current, ProcsAreThreads DEF ProcInv, Tree
<1>2. CASE rv = NULL
  <2>1. stop' = "null kt_retval" /\ UNCHANGED <<schedVars, kt_retval, pc>>
    BY Zenon, <1>2 DEF KthreadExit
  <2>2. ProcSched'
    BY Zenon, <2>1, SchedStays DEF ProcInv, Quiet, treeVars
  <2>3. Places'
    BY Zenon, <2>1 DEF ProcInv, Places, Place
  <2>. QED BY Zenon, <2>1, <2>2, <2>3, QuietStep DEF ProcInv, ProcTypeOK
<1>3. CASE rv # NULL
  <2> DEFINE s == [kt_state EXCEPT ![curthr] = "KT_EXITED"]
             q == p_wait[p_pproc[curthr]]
  <2>1. /\ kt_retval' = [kt_retval EXCEPT ![curthr] = rv]
        /\ Wakeup(q, s)
        /\ pc' = [pc EXCEPT ![curthr] = PC("cleanup", rv)]
        /\ ret' = "none"
        /\ UNCHANGED <<kt_cancelled, curthr, cpu, ipl, frame, earlier_ipl, cancel, stop>>
    BY Zenon, <1>3 DEF KthreadExit, WakeParent
  <2>2. q \in WaitQ
    BY Zenon, <1>1, ProcAssumption
  <2>3. Places' /\ pc'[idle] = pc[idle]
    <3>1. Place(curthr, PC("cleanup", rv))
      BY Zenon, <1>3 DEF Place, PC, Op
    <3>. QED BY Zenon, <1>1, <2>1, <3>1, Moves
  <2>4. PICK off : off = Off
    BY Zenon
  <2>5. SchedBut(off)
    BY Zenon, <2>4, OffNow DEF ProcInv
  <2>6. Placed(kt_wchan, s, Runs(curthr, cpu) \cup off)
    <3>1. kt_wchan[curthr] = NULL /\ NULL \notin WaitQ /\ NULL # kt_runq
      BY Zenon, Current, SchedAssumption
    <3>2. s \in [Thread -> KState]
      BY Zenon, <2>5 DEF SchedBut, SchedTypeOK, KState
    <3>3. \A t \in Thread : s[t] = IF t = curthr THEN "KT_EXITED" ELSE kt_state[t]
      BY Zenon, <2>5 DEF SchedBut, SchedTypeOK
    <3> HIDE DEF s
    <3>. QED BY Zenon, <2>5, <3>1, <3>2, <3>3 DEF SchedBut, Placed, Asleep
  <2> HIDE DEF s, q
  <2>7. /\ Linked(tq_list', kt_wchan') /\ Counted(tq_list', tq_size')
        /\ Placed(kt_wchan', kt_state', Runs(curthr, cpu) \cup off)
    <3>1. PICK run : run = Runs(curthr, cpu) \cup off
      BY Zenon
    <3>2. PICK s1, q1 : s1 = s /\ q1 = q
      BY Zenon
    <3>. QED BY Zenon, <2>1, <2>2, <2>5, <2>6, <3>1, <3>2, WakeupStep DEF SchedBut
  <2>8. SchedBut(off)'
    <3>1. SchedTypeOK'
      BY Zenon, <2>1, <2>5, <2>7 DEF SchedBut, SchedTypeOK, Linked, Counted, Placed, Ret
    <3>. QED BY Zenon, <2>1, <2>5, <2>7, <3>1 DEF SchedBut, CancelTarget, IdlesUnmasked
  <2>9. ProcSched'
    BY Zenon, <2>4, <2>8, OffNext, SameOff DEF Quiet, treeVars
  <2>10. p_status' \in [Thread -> Status] /\ kt_retval' \in [Thread -> Status \cup {NULL}]
    BY Zenon, <2>1 DEF ProcInv, ProcTypeOK
  <2>. QED BY Zenon, <2>1, <2>3, <2>9, <2>10, QuietStep DEF ProcInv, Roots
<1>. QED BY Zenon, <1>2, <1>3

(* A thread other than idle's sleeps or yields, and will go on at x.       *)
LEMMA LeaveStep ==
  ASSUME ProcInv, cpu = "run", curthr # idle, NEW x, Place(curthr, x),
         pc' = [pc EXCEPT ![curthr] = x],
         Leave, Quiet, UNCHANGED <<p_status, kt_retval, stop>>
  PROVE  ProcInv'
<1>1. Places' /\ pc'[idle] = pc[idle]
  BY Zenon, Current, Moves
<1>2. ProcSched'
  <2>1. PICK off : off = Off
    BY Zenon
  <2>2. SchedBut(off)'
    BY Zenon, <2>1, OffNow, LeaveBut DEF ProcInv
  <2>. QED BY Zenon, <2>1, <2>2, OffNext, SameOff DEF Quiet, treeVars
<1>. QED BY Zenon, <1>1, <1>2, QuietStep DEF ProcInv, ProcTypeOK, Roots

(* proc_cleanup sleeps in vput or do_close.                                *)
LEMMA CleanupSleepStep ==
  ASSUME ProcInv, NEW q \in CleanupQ, proc_cleanup_sleep(q)
  PROVE  ProcInv'
<1>1. cpu = "run" /\ stop = "none" /\ pc[curthr].op = "cleanup"
  BY Zenon DEF proc_cleanup_sleep, At
<1>2. curthr \in Thread /\ curthr # idle
  BY Zenon, <1>1, Current
<1>3. pc[curthr].arg \in Status
  BY Zenon, <1>1, <1>2 DEF ProcInv, Places, Place
<1>4. Place(curthr, PC("closed", pc[curthr].arg))
  BY Zenon, <1>3 DEF Place, PC, Op
<1>5. pc' = [pc EXCEPT ![curthr] = PC("closed", pc[curthr].arg)]
  BY Zenon, <1>2, PlaceFields DEF proc_cleanup_sleep
<1>6. Leave
  BY Zenon, ProcAssumption, SchedAssumption DEF proc_cleanup_sleep, Leave
<1>7. PICK x : x = PC("closed", pc[curthr].arg)
  BY Zenon
<1>. QED BY Zenon, <1>1, <1>2, <1>4, <1>5, <1>6, <1>7, LeaveStep DEF proc_cleanup_sleep, Quiet

(* Another system call that blocks or yields.                              *)
LEMMA OtherSyscallStep == ASSUME ProcInv, OtherSyscall PROVE ProcInv'
<1>1. cpu = "run" /\ stop = "none" /\ pc[curthr].op = "user"
  BY Zenon DEF OtherSyscall, Syscall, At
<1>2. curthr # idle
  BY Zenon, <1>1, Current
<1>3. Leave
  BY Zenon, SchedAssumption DEF OtherSyscall, Leave
<1>4. PICK x : x = PC("sysret", 0)
  BY Zenon
<1>5. Place(curthr, x) /\ pc' = [pc EXCEPT ![curthr] = x]
  BY <1>4 DEF Place, PC, Op, OtherSyscall
<1>. QED BY Zenon, <1>1, <1>2, <1>3, <1>5, LeaveStep DEF OtherSyscall, Quiet

(* The scheduler and the devices at work.                                  *)
LEMMA MachineStep == ASSUME ProcInv, Machine PROVE ProcInv'
<1>1. Quiet /\ UNCHANGED <<p_status, kt_retval, stop, pc>>
  BY Zenon DEF Machine, procVars, Quiet, treeVars
<1>2. ProcSched'
  <2>1. PICK off : off = Off
    BY Zenon
  <2>2. SchedBut(off)
    BY Zenon, <2>1, OffNow DEF ProcInv
  <2>3. SchedBut(off)'
    BY Zenon, <2>2, CancelStepBut, IdleBut, InterruptBut DEF Machine
  <2>. QED BY Zenon, <1>1, <2>1, <2>3, OffNext, SameOff DEF Quiet, treeVars
<1>3. Places'
  BY Zenon, <1>1 DEF ProcInv, Places, Place
<1>. QED BY Zenon, <1>1, <1>2, <1>3, QuietStep DEF ProcInv, ProcTypeOK, Roots

(* The checks of kt_cancelled in the system call handler.                  *)
LEMMA SyscallHandlerStep == ASSUME ProcInv, syscall_handler PROVE ProcInv'
<1>1. /\ cpu = "run" /\ stop = "none" /\ pc[curthr].op \in {"user", "sysret"}
      /\ Quiet /\ UNCHANGED p_status
  BY Zenon DEF syscall_handler, At, Quiet
<1>2. curthr \in Thread \ {idle}
  BY Zenon, <1>1, Current
<1>3. CASE KthreadExit(kt_retval[curthr])
  <2>1. PICK rv : rv = kt_retval[curthr]
    BY Zenon
  <2>2. rv \in Status \cup {NULL}
    BY Zenon, <1>2, <2>1 DEF ProcInv, ProcTypeOK
  <2>. QED BY Zenon, <1>1, <1>2, <1>3, <2>1, <2>2, KthreadExitStep
<1>4. CASE /\ pc' = [pc EXCEPT ![curthr] = PC("user", 0)]
           /\ UNCHANGED <<schedVars, kt_retval, stop>>
  <2>1. PICK x : x = PC("user", 0)
    BY Zenon
  <2>2. Place(curthr, x)
    BY <2>1 DEF Place, PC, Op
  <2>3. Places' /\ pc'[idle] = pc[idle]
    BY Zenon, <1>2, <1>4, <2>1, <2>2, Moves
  <2>4. ProcSched'
    BY Zenon, <1>1, <1>4, SchedStays DEF ProcInv, Quiet, treeVars
  <2>. QED BY Zenon, <1>1, <1>4, <2>3, <2>4, QuietStep DEF ProcInv, ProcTypeOK, Roots
<1>. QED BY Zenon, <1>3, <1>4 DEF syscall_handler

(* One process of proc_kill_all: spared, cancelled, or the caller itself.  *)
LEMMA KillStep == ASSUME ProcInv, proc_kill PROVE ProcInv'
<1> DEFINE i == pc[curthr].arg
           p == proc_list[i]
<1>1. /\ cpu = "run" /\ stop = "none" /\ pc[curthr].op = "kill"
      /\ Quiet /\ UNCHANGED p_status
  BY Zenon DEF proc_kill, At, Quiet
<1>2. curthr \in Thread /\ curthr # idle
  BY Zenon, <1>1, Current
<1>3. i \in Nat \ {0}
  BY Zenon, <1>1, <1>2 DEF ProcInv, Places, Place
<1>4. i <= Len(proc_list) => p \in Thread
  BY <1>3 DEF ProcInv, ProcTypeOK
<1>5. Place(curthr, PC("sysret", 0)) /\ Place(curthr, PC("kill", i + 1))
  BY <1>3 DEF Place, PC, Op
<1>6. [pc EXCEPT ![curthr].arg = i + 1] = [pc EXCEPT ![curthr] = PC("kill", i + 1)]
  BY Zenon, <1>1, <1>2, PlaceFields
<1>7. CASE /\ pc' = [pc EXCEPT ![curthr] = PC("sysret", 0)] \/ pc' = [pc EXCEPT ![curthr].arg = i + 1]
           /\ UNCHANGED <<schedVars, kt_retval, stop>>
  <2>1. PICK x : Place(curthr, x) /\ pc' = [pc EXCEPT ![curthr] = x]
    BY Zenon, <1>5, <1>6, <1>7
  <2>2. Places' /\ pc'[idle] = pc[idle]
    BY Zenon, <1>2, <2>1, Moves
  <2>3. ProcSched'
    BY Zenon, <1>1, <1>7, SchedStays DEF ProcInv, Quiet, treeVars
  <2>. QED BY Zenon, <1>1, <1>7, <2>2, <2>3, QuietStep DEF ProcInv, ProcTypeOK, Roots
<1>8. CASE i <= Len(proc_list) /\ p = curthr /\ KthreadExit(p_status[p])
  <2>1. PICK rv : rv = p_status[p]
    BY Zenon
  <2>2. rv \in Status \cup {NULL}
    BY Zenon, <1>4, <1>8, <2>1 DEF ProcInv, ProcTypeOK
  <2>. QED BY Zenon, <1>1, <1>2, <1>8, <2>1, <2>2, KthreadExitStep
<1>9. CASE /\ i <= Len(proc_list) /\ p # curthr
           /\ kt_retval' = [kt_retval EXCEPT ![p] = NULL]
           /\ sched_cancel(p)
           /\ pc' = [pc EXCEPT ![curthr].arg = i + 1]
           /\ UNCHANGED stop
  <2>1. PICK x : Place(curthr, x) /\ pc' = [pc EXCEPT ![curthr] = x]
    BY Zenon, <1>5, <1>6, <1>9
  <2>2. Places' /\ pc'[idle] = pc[idle]
    BY Zenon, <1>2, <2>1, Moves
  <2>3. PICK off, t : off = Off /\ t = p
    BY Zenon
  <2>4. SchedBut(off)'
    BY Zenon, <1>4, <1>9, <2>3, OffNow, CancelBut DEF ProcInv
  <2>5. ProcSched'
    BY Zenon, <1>1, <2>3, <2>4, OffNext, SameOff DEF Quiet, treeVars
  <2>6. kt_retval' \in [Thread -> Status \cup {NULL}]
    BY Zenon, <1>4, <1>9 DEF ProcInv, ProcTypeOK
  <2>. QED BY Zenon, <1>1, <1>9, <2>2, <2>5, <2>6, QuietStep DEF ProcInv, ProcTypeOK, Roots
<1>. QED BY Zenon, <1>7, <1>8, <1>9 DEF proc_kill

(* The new thread leaves Off for the run queue.                            *)
LEMMA SpawnSched ==
  ASSUME ProcInv, cpu = "run", NEW c \in Thread, NEW next, Spawn(c, next),
         Procs' = Procs \cup {c}
  PROVE  ProcSched'
<1>1. PICK off, off2 : off = Off /\ off2 = Off \ {c}
  BY Zenon
<1>2. SchedBut(off)
  BY Zenon, <1>1, OffNow DEF ProcInv
<1>3. c \notin Procs /\ c \in off /\ c # curthr
  BY Zenon, <1>1, Current DEF Off, Spawn, proc_create
<1>4. Off' = off2
  <2>1. p_state' = [p_state EXCEPT ![c] = "PROC_RUNNING"] /\ p_state \in [Thread -> {"PROC_RUNNING", "PROC_DEAD"}]
    BY Zenon DEF Spawn, proc_create, ProcInv, ProcTypeOK
  <2>. QED BY Zenon, <1>1, <2>1 DEF Off
<1>5. MakeRunnable(tq_list, tq_size, kt_wchan, kt_state, c)
  BY Zenon DEF Spawn
<1>6. PICK run : run = Runs(curthr, cpu) \cup off2
  BY Zenon
<1>7. c \in Thread \ run
  BY Zenon, <1>1, <1>3, <1>6 DEF Runs
<1>8. \A u \in Thread \ {c} :
        /\ kt_wchan[u] = kt_runq => kt_state[u] = "KT_RUN"
        /\ kt_wchan[u] \in WaitQ <=> kt_state[u] \in Asleep
        /\ kt_wchan[u] = NULL => u \in run \/ kt_state[u] \in {"KT_NO_STATE", "KT_EXITED"}
        /\ u \in run => kt_wchan[u] = NULL
  <2>1. \A u \in Thread \ {c} : u \in run <=> u \in Runs(curthr, cpu) \cup off
    BY Zenon, <1>1, <1>6
  <2>. QED BY Zenon, <1>2, <2>1 DEF SchedBut, Placed
<1>9. Linked(tq_list', kt_wchan') /\ Counted(tq_list', tq_size') /\ Placed(kt_wchan', kt_state', run)
  <2>1. Linked(tq_list, kt_wchan) /\ Counted(tq_list, tq_size) /\ kt_state \in [Thread -> KState]
    BY Zenon, <1>2 DEF SchedBut, SchedTypeOK
  <2>. QED BY Zenon, <1>5, <1>7, <1>8, <2>1, MakeRunnableStep
<1>10. SchedTypeOK'
  <2>1. SchedTypeOK
    BY Zenon, <1>2 DEF SchedBut
  <2>2. /\ kt_cancelled' \in [Thread -> BOOLEAN] /\ frame' \in [Thread -> Frame]
        /\ earlier_ipl' \in [Thread -> IPL] /\ ret' \in Ret
        /\ UNCHANGED <<curthr, cpu, ipl, cancel>>
    BY Zenon, <2>1 DEF Spawn, SchedTypeOK, Frame, IPL, Ret
  <2>. QED BY Zenon, <1>9, <2>1, <2>2 DEF SchedTypeOK, Linked, Counted, Placed
<1>11. Runs(curthr, cpu)' = Runs(curthr, cpu) /\ cpu' = "run"
  BY Zenon DEF Spawn
<1>12. SchedBut(off2)'
  BY Zenon, <1>1, <1>2, <1>6, <1>9, <1>10, <1>11 DEF SchedBut, CancelTarget, IdlesUnmasked
<1>. QED BY Zenon, <1>4, <1>12, OffNext

(* idleproc_run creates init: it gets PID_INIT.                            *)
LEMMA BootStep == ASSUME ProcInv, NEW c \in Thread, idleproc_run(c) PROVE ProcInv'
<1> DEFINE x == PC("waitpid", -1)
<1>1. /\ cpu = "run" /\ pc[curthr].op = "boot" /\ Spawn(c, x) /\ proc_create(c)
      /\ pc' = [pc EXCEPT ![c] = PC("user", 0), ![curthr] = x]
      /\ kt_retval' = [kt_retval EXCEPT ![c] = kt_retval[curthr]] /\ c \notin Procs
  BY Zenon DEF idleproc_run, At, Spawn, proc_create
<1>2. /\ curthr \in Thread /\ curthr = idle
      /\ Procs = {idle} /\ next_pid = 1 /\ p_pid[idle] = 0 /\ p_state[idle] = "PROC_RUNNING"
      /\ c # idle
  BY Zenon, <1>1, Current DEF ProcInv, Places, Place, Roots, PID_INIT, PID_IDLE
<1>3. PICK pid \in -1..(PROC_MAX_COUNT - 1) :
        /\ proc_getid(pid) /\ p_pid' = [p_pid EXCEPT ![c] = pid]
        /\ proc_initproc' = IF pid = PID_INIT THEN c ELSE proc_initproc
  BY Zenon, <1>1 DEF proc_create
<1>0. pid = 1
  BY Zenon, <1>2, <1>3, GetId DEF ProcInv
<1>4. PICK next : next = x
  BY Zenon
<1>5. Place(curthr, next)
  BY <1>4 DEF Place, PC, Op
<1>6. Places' /\ pc'[curthr] = x
  BY Zenon, <1>1, <1>4, <1>5, SpawnPlaces
<1>7. /\ Tree' /\ Pids' /\ Procs' = {idle, c}
  BY Zenon, <1>1, <1>2, SpawnTree
<1>8. ProcSched'
  BY Zenon, <1>1, <1>2, <1>4, <1>7, SpawnSched
<1>9. ProcTypeOK' /\ Distinct(proc_list')
  BY Zenon, <1>1, <1>2, SpawnTree DEF ProcTypeOK, ProcInv
<1>10. /\ p_pid' = [p_pid EXCEPT ![c] = 1] /\ proc_initproc' = c
       /\ p_pproc' = [p_pproc EXCEPT ![c] = idle]
       /\ p_state' = [p_state EXCEPT ![c] = "PROC_RUNNING"]
  BY Zenon, <1>0, <1>1, <1>2, <1>3 DEF proc_create, PID_INIT
<1>11. /\ p_pid'[c] = 1 /\ p_pid'[idle] = 0 /\ p_pproc'[c] = idle
       /\ p_state'[idle] = "PROC_RUNNING"
  BY Zenon, <1>2, <1>10 DEF ProcInv, ProcTypeOK
<1>12. pc'[idle].op = "waitpid"
  BY <1>2, <1>6 DEF PC
<1>13. Roots'
  BY Zenon, <1>2, <1>7, <1>10, <1>11, <1>12 DEF Roots, PID_INIT, PID_IDLE
<1>14. Rooted'
  BY Zenon, <1>7, <1>10 DEF Rooted
<1>. QED BY Zenon, <1>6, <1>7, <1>8, <1>9, <1>13, <1>14 DEF ProcInv

(* do_fork: the child hangs below its parent, which is not idle, and its   *)
(* pid is not PID_INIT.                                                    *)
LEMMA ForkStep == ASSUME ProcInv, NEW c \in Thread, do_fork(c) PROVE ProcInv'
<1> DEFINE x == PC("user", 0)
<1>1. /\ cpu = "run" /\ stop = "none" /\ pc[curthr].op = "user" /\ Spawn(c, x) /\ proc_create(c)
      /\ pc' = [pc EXCEPT ![c] = PC("user", 0), ![curthr] = x]
      /\ kt_retval' = [kt_retval EXCEPT ![c] = kt_retval[curthr]] /\ c \notin Procs
      /\ stop' = stop
  BY Zenon DEF do_fork, Syscall, At, Spawn, proc_create
<1>2. /\ curthr \in Thread /\ curthr \in Procs \ {idle} /\ p_state[curthr] = "PROC_RUNNING"
      /\ proc_initproc \in Procs \ {idle} /\ c # idle /\ c # proc_initproc
      /\ Procs # {idle} /\ idle \in Procs /\ Procs \subseteq Thread
  BY Zenon, <1>1, Current, ProcsAreThreads DEF ProcInv, Roots
<1>3. PICK pid \in -1..(PROC_MAX_COUNT - 1) :
        p_pid' = [p_pid EXCEPT ![c] = pid] /\ proc_initproc' = proc_initproc
  <2>1. p_pid[curthr] # 0
    BY <1>2 DEF ProcInv, Pids, Roots, PID_IDLE
  <2>. QED BY Zenon, <1>1, <2>1 DEF proc_create, PID_INIT, PID_IDLE
<1>4. PICK next : next = x
  BY Zenon
<1>5. Place(curthr, next)
  BY <1>4 DEF Place, PC, Op
<1>6. Places' /\ pc'[idle] = pc[idle]
  BY Zenon, <1>1, <1>2, <1>4, <1>5, SpawnPlaces
<1>7. /\ Tree' /\ Pids' /\ Procs' = Procs \cup {c}
  BY Zenon, <1>1, <1>2, SpawnTree
<1>8. ProcSched'
  BY Zenon, <1>1, <1>2, <1>4, <1>7, SpawnSched
<1>9. ProcTypeOK' /\ Distinct(proc_list')
  BY Zenon, <1>1, <1>2, SpawnTree DEF ProcTypeOK, ProcInv
<1>10. /\ p_pid' = [p_pid EXCEPT ![c] = pid] /\ proc_initproc' = proc_initproc
       /\ p_pproc' = [p_pproc EXCEPT ![c] = curthr]
       /\ p_state' = [p_state EXCEPT ![c] = "PROC_RUNNING"]
  BY Zenon, <1>1, <1>3 DEF proc_create
<1>11. /\ p_pproc'[c] = curthr
       /\ \A p \in Procs : p_pid'[p] = p_pid[p] /\ p_pproc'[p] = p_pproc[p] /\ p_state'[p] = p_state[p]
  BY Zenon, <1>1, <1>2, <1>10 DEF ProcInv, ProcTypeOK
<1>12. Roots'
  <2>1. p_state[proc_initproc] # "PROC_DEAD"
    BY Zenon, <1>2 DEF ProcInv, Roots
  <2>2. pc[idle].op = "waitpid"
    BY Zenon, <1>1, <1>2 DEF ProcInv, Roots
  <2>3. Roots
    BY Zenon DEF ProcInv
  <2>4. idle \in Procs' /\ p_pid'[idle] = PID_IDLE /\ p_state'[idle] = "PROC_RUNNING"
    BY Zenon, <1>2, <1>7, <1>11, <2>3 DEF Roots
  <2>5. /\ proc_initproc' \in Procs' \ {idle} /\ p_pid'[proc_initproc'] = PID_INIT
        /\ p_pproc'[proc_initproc'] = idle /\ p_state'[proc_initproc'] # "PROC_DEAD"
    BY Zenon, <1>2, <1>7, <1>10, <1>11, <2>1, <2>3 DEF Roots
  <2>6. \A p \in Procs' \ {idle, proc_initproc'} : p_pproc'[p] # idle
    BY Zenon, <1>2, <1>7, <1>10, <1>11, <2>3 DEF Roots
  <2>. QED BY Zenon, <1>6, <2>2, <2>4, <2>5, <2>6 DEF Roots
<1>13. Rooted'
  <2> SUFFICES ASSUME NEW X \in SUBSET (Procs' \ {idle, proc_initproc'}), X # {}
               PROVE  \E y \in X : p_pproc'[y] \notin X
    BY Zenon DEF Rooted
  <2>1. CASE X = {c}
    BY Zenon, <1>1, <1>2, <1>11, <2>1
  <2>2. CASE X # {c}
    <3>1. X \ {c} \in SUBSET (Procs \ {idle, proc_initproc}) /\ X \ {c} # {}
      BY Zenon, <1>7, <1>10, <2>2
    <3>2. PICK y \in X \ {c} : p_pproc[y] \notin X \ {c}
      BY Zenon, <3>1 DEF ProcInv, Rooted
    <3>3. p_pproc[y] \in Procs /\ p_pproc'[y] = p_pproc[y]
      BY Zenon, <1>11, <3>1, <3>2 DEF ProcInv, Tree
    <3>. QED BY Zenon, <1>1, <3>2, <3>3
  <2>. QED BY Zenon, <2>1, <2>2
<1>. QED BY Zenon, <1>6, <1>7, <1>8, <1>9, <1>12, <1>13 DEF ProcInv

(* The dead thread joins Off and the next one gets the CPU.                *)
LEMMA CleanupSched ==
  ASSUME ProcInv, cpu = "run", LeaveForGood, UNCHANGED <<kt_state, proc_list>>,
         p_state' = [p_state EXCEPT ![curthr] = "PROC_DEAD"]
  PROVE  ProcSched'
<1>1. PICK off, off2 : off = Off /\ off2 = Off \cup {curthr}
  BY Zenon
<1>2. SchedBut(off) /\ SchedTypeOK /\ curthr \in Thread
  BY Zenon, <1>1, OffNow DEF ProcInv, SchedBut, SchedTypeOK
<1>3. Off' = off2
  BY Zenon, <1>1, <1>2 DEF Off, Procs, ProcInv, ProcTypeOK
<1>4. Runs(curthr, cpu) \cup off = off2
  BY Zenon, <1>1 DEF Runs
<1>5. Placed(kt_wchan, kt_state', off2)
  BY Zenon, <1>2, <1>4 DEF SchedBut
<1>6. PICK l, z, w : l = tq_list /\ z = tq_size /\ w = kt_wchan
  BY Zenon
<1>7. /\ Linked(l, w) /\ Counted(l, z) /\ Placed(w, kt_state', off2)
      /\ Switch("sched_switch", l, z, w)
  BY Zenon, <1>2, <1>5, <1>6 DEF SchedBut, LeaveForGood
<1>8. PICK f : f = "sched_switch" /\ f \in Frame
  BY Zenon DEF Frame
<1>9. SchedBut(off2)'
  BY Zenon, <1>2, <1>7, <1>8, SwitchStep
<1>. QED BY Zenon, <1>3, <1>9, OffNext

(* The rest of proc_cleanup.                                               *)
LEMMA CleanupStep == ASSUME ProcInv, proc_cleanup PROVE ProcInv'
<1> DEFINE mine == {p_children[curthr][i] : i \in DOMAIN p_children[curthr]}
<1>1. /\ cpu = "run" /\ stop = "none" /\ pc[curthr].op \in {"cleanup", "closed"}
      /\ UNCHANGED <<next_pid, proc_initproc, p_pid, kt_retval>>
  BY Zenon DEF proc_cleanup, At
<1>2. /\ curthr \in Thread /\ curthr \in Procs \ {idle} /\ proc_initproc \in Procs \ {idle}
      /\ Procs \subseteq Thread /\ pc[curthr].arg \in Status
  BY Zenon, <1>1, Current, ProcsAreThreads DEF ProcInv, Places, Place
<1>3. CASE /\ stop' = "reparenting init's children"
           /\ UNCHANGED <<schedVars, treeVars, p_state, p_status, pc>>
  <2>1. ProcSched'
    BY Zenon, <1>3, SchedStays DEF ProcInv, treeVars
  <2>2. Places'
    BY Zenon, <1>3 DEF ProcInv, Places, Place
  <2>. QED BY Zenon, <1>1, <1>3, <2>1, <2>2, QuietStep DEF ProcInv, ProcTypeOK, Quiet
<1>4. CASE /\ curthr # proc_initproc \/ mine = {}
           /\ Reparent(mine)
           /\ p_state' = [p_state EXCEPT ![curthr] = "PROC_DEAD"]
           /\ p_status' = [p_status EXCEPT ![curthr] = pc[curthr].arg]
           /\ pc' = [pc EXCEPT ![curthr] = PC("dead", 0)]
           /\ LeaveForGood
           /\ UNCHANGED <<kt_state, proc_list, stop>>
  <2>1. PICK kids : kids = mine
    BY Zenon
  <2>2. Procs' = Procs
    BY Zenon, <1>4 DEF Procs
  <2>3. /\ Tree' /\ p_children' \in [Thread -> Seq(Thread)]
        /\ p_pproc' \in [Thread -> Thread \cup {NULL}]
        /\ \A p \in Thread : p_pproc'[p] = IF p \in kids THEN proc_initproc ELSE p_pproc[p]
        /\ kids = {p \in Procs \ {idle} : p_pproc[p] = curthr}
    BY Zenon, <1>1, <1>2, <1>4, <2>1, <2>2, ReparentTree
  <2>4. ProcSched'
    BY Zenon, <1>1, <1>4, CleanupSched
  <2>5. PICK x : x = PC("dead", 0)
    BY Zenon
  <2>6. Place(curthr, x)
    BY <2>5 DEF Place, PC, Op
  <2>7. Places' /\ pc'[idle] = pc[idle]
    BY Zenon, <1>2, <1>4, <2>5, <2>6, Moves
  <2>8. ProcTypeOK' /\ Distinct(proc_list')
    BY Zenon, <1>1, <1>2, <1>4, <2>3 DEF ProcInv, ProcTypeOK
  <2>9. Pids'
    BY Zenon, <1>1, <2>2 DEF ProcInv, Pids
  <2>10. \A p \in Procs : p_state'[p] = IF p = curthr THEN "PROC_DEAD" ELSE p_state[p]
    BY Zenon, <1>2, <1>4 DEF ProcInv, ProcTypeOK
  <2>11. Roots'
    <3>1. Roots
      BY Zenon DEF ProcInv
    <3>2. proc_initproc \notin kids
      BY Zenon, <1>2, <2>3, <3>1 DEF Roots
    <3>3. p_state'[proc_initproc] = "PROC_DEAD" => Procs = {idle, proc_initproc}
      <4>1. CASE curthr = proc_initproc
        <5>1. mine = {}
          BY Zenon, <1>4, <4>1
        <5>2. p_children[curthr] \in Seq(Thread)
          BY Zenon, <1>2 DEF ProcInv, ProcTypeOK
        <5>3. Len(p_children[curthr]) # 0 => p_children[curthr][1] \in mine
          BY <5>2
        <5>. QED BY Zenon, <1>2, <4>1, <5>1, <5>3, LastProcess
      <4>2. CASE curthr # proc_initproc
        BY Zenon, <1>2, <2>10, <3>1, <4>2 DEF Roots
      <4>. QED BY Zenon, <4>1, <4>2
    <3>4. \A p \in Procs \ {idle, proc_initproc} : p_pproc'[p] # idle
      BY Zenon, <1>2, <2>3, <3>1 DEF Roots
    <3>5. p_pproc'[proc_initproc] = idle
      BY Zenon, <1>2, <2>3, <3>1, <3>2 DEF Roots
    <3>6. p_state'[idle] = "PROC_RUNNING"
      BY Zenon, <1>2, <2>10, <3>1 DEF Roots
    <3>. QED BY Zenon, <1>1, <1>2, <1>4, <2>2, <2>7, <3>1, <3>3, <3>4, <3>5, <3>6 DEF Roots
  <2>12. Rooted'
    <3> SUFFICES ASSUME NEW X \in SUBSET (Procs \ {idle, proc_initproc}), X # {}
                 PROVE  \E y \in X : p_pproc'[y] \notin X
      BY Zenon, <1>1, <2>2 DEF Rooted
    <3>1. CASE X \cap kids # {}
      <4>1. PICK y \in X : y \in kids
        BY Zenon, <3>1
      <4>. QED BY Zenon, <1>2, <2>3, <4>1
    <3>2. CASE X \cap kids = {}
      <4>1. PICK y \in X : p_pproc[y] \notin X
        BY Zenon DEF ProcInv, Rooted
      <4>. QED BY Zenon, <1>2, <2>3, <3>2, <4>1
    <3>. QED BY Zenon, <3>1, <3>2
  <2>. QED BY Zenon, <2>3, <2>4, <2>7, <2>8, <2>9, <2>11, <2>12 DEF ProcInv
<1>. QED BY Zenon, <1>3, <1>4 DEF proc_cleanup

(* One turn of the loop: reap a dead child, or sleep.                      *)
LEMMA ScanStep == ASSUME ProcInv, waitpid_scan PROVE ProcInv'
<1>1. /\ cpu = "run" /\ stop = "none" /\ pc[curthr].op = "waitpid"
      /\ UNCHANGED <<next_pid, proc_initproc, p_pid, p_state, p_status, kt_retval>>
  BY Zenon DEF waitpid_scan, At
<1>2. /\ curthr \in Thread /\ curthr \in Procs /\ idle \in Procs
      /\ Procs \subseteq Thread /\ p_children[curthr] \in Seq(Thread)
  BY Zenon, <1>1, Current, ProcsAreThreads DEF ProcInv, ProcTypeOK, Roots
<1>3. CASE sched_sleep_on(p_wait[curthr]) /\ UNCHANGED <<treeVars, pc, stop>>
  <2>1. Leave
    BY Zenon, <1>2, <1>3, ProcAssumption DEF Leave
  <2>2. Quiet
    BY Zenon, <1>1, <1>3 DEF Quiet
  <2>3. PICK off : off = Off
    OBVIOUS
  <2>4. SchedBut(off)'
    BY Zenon, <2>1, <2>3, OffNow, LeaveBut DEF ProcInv
  <2>5. ProcSched'
    BY Zenon, <2>2, <2>3, <2>4, OffNext, SameOff DEF Quiet, treeVars
  <2>6. Places'
    BY Zenon, <1>3 DEF ProcInv, Places, Place
  <2>. QED BY Zenon, <1>1, <1>3, <2>2, <2>5, <2>6, QuietStep DEF ProcInv, ProcTypeOK, Roots
<1>4. ASSUME NEW i \in DOMAIN p_children[curthr], FirstDead(i), Reap(i) PROVE ProcInv'
  <2>1. PICK c : c = p_children[curthr][i]
    BY Zenon
  <2>2. i \in 1..Len(p_children[curthr]) /\ p_state[c] = "PROC_DEAD"
    BY <1>2, <1>4, <2>1 DEF FirstDead
  <2>3. CASE /\ stop' = "KASSERT(KT_EXITED == kt_state)"
             /\ UNCHANGED <<schedVars, treeVars, pc>>
    <3>1. Quiet
      BY Zenon, <1>1, <2>3 DEF Quiet
    <3>2. ProcSched'
      BY Zenon, <1>1, <2>3, SchedStays DEF ProcInv, treeVars
    <3>3. Places'
      BY Zenon, <2>3 DEF ProcInv, Places, Place
    <3>. QED BY Zenon, <1>1, <2>3, <3>1, <3>2, <3>3, QuietStep DEF ProcInv, ProcTypeOK
  <2>4. CASE /\ p_children' = [p_children EXCEPT ![curthr] = list_remove_at(@, i)]
             /\ proc_list' = list_remove(proc_list, c)
             /\ p_pproc' = [p_pproc EXCEPT ![c] = NULL]
             /\ kt_state' = [kt_state EXCEPT ![c] = "KT_NO_STATE"]
             /\ pc' = [pc EXCEPT ![c] = PC("none", 0), ![curthr] = PC("sysret", 0)]
             /\ stop' = IF curthr = idle THEN "shutdown" ELSE "none"
             /\ UNCHANGED <<kt_wchan, kt_cancelled, tq_list, tq_size, curthr, cpu, ipl,
                            frame, earlier_ipl, cancel, ret>>
    <3>1. /\ Tree' /\ Procs' = Procs \ {c} /\ c \in Procs \ {idle} /\ p_pproc[c] = curthr
          /\ \A p \in Procs \ {c} : p_pproc'[p] = p_pproc[p]
          /\ Distinct(proc_list') /\ proc_list' \in Seq(Thread)
          /\ p_pproc' \in [Thread -> Thread \cup {NULL}]
          /\ p_children' \in [Thread -> Seq(Thread)]
      BY Zenon, <1>1, <2>1, <2>2, <2>4, ReapTree
    <3>2. ProcTypeOK'
      BY Zenon, <1>1, <3>1 DEF ProcInv, ProcTypeOK
    <3>3. c \in Thread /\ c # curthr /\ c # idle
      BY Zenon, <1>1, <1>2, <2>2, <3>1, Current
    <3>4. ProcSched'
      <4>1. PICK off : off = Off
        BY Zenon
      <4>2. SchedBut(off) /\ SchedTypeOK /\ c \in off
        BY Zenon, <2>2, <3>3, <4>1, OffNow DEF ProcInv, SchedBut, Off
      <4>3. Off' = off
        BY Zenon, <1>1, <2>2, <3>1, <3>3, <4>1 DEF Off
      <4>4. kt_wchan[c] = NULL /\ NULL \notin WaitQ
        BY Zenon, <3>3, <4>2, SchedAssumption DEF SchedBut, Placed
      <4>5. /\ kt_state' \in [Thread -> KState]
            /\ \A t \in Thread : kt_state'[t] = IF t = c THEN "KT_NO_STATE" ELSE kt_state[t]
        BY Zenon, <2>4, <3>3, <4>2 DEF SchedTypeOK, KState
      <4>6. Placed(kt_wchan', kt_state', (Runs(curthr, cpu) \cup off)')
        BY Zenon, <2>4, <3>3, <4>2, <4>4, <4>5, SchedAssumption DEF SchedBut, Placed, Asleep
      <4>7. SchedTypeOK'
        BY Zenon, <2>4, <4>2, <4>5 DEF SchedTypeOK
      <4>8. SchedBut(off)'
        BY Zenon, <2>4, <4>2, <4>6, <4>7 DEF SchedBut, CancelTarget, IdlesUnmasked
      <4>. QED BY Zenon, <4>3, <4>8, OffNext
    <3>5. Places' /\ (curthr # idle => pc'[idle] = pc[idle]) /\ pc'[curthr] = PC("sysret", 0)
      <4>1. PICK x, y : x = PC("sysret", 0) /\ y = PC("none", 0)
        BY Zenon
      <4>2. Place(curthr, x) /\ Place(c, y)
        BY <4>1 DEF Place, PC, Op
      <4>3. pc \in [Thread -> [op : Op, arg : Int \cup Status]] /\ \A t \in Thread : Place(t, pc[t])
        BY Zenon DEF ProcInv, Places
      <4>4. x \in [op : Op, arg : Int \cup Status] /\ y \in [op : Op, arg : Int \cup Status]
        BY Zenon, <4>2 DEF Place
      <4>5. pc' = [pc EXCEPT ![c] = y, ![curthr] = x]
        BY Zenon, <2>4, <4>1
      <4>6. /\ pc' \in [Thread -> [op : Op, arg : Int \cup Status]]
            /\ pc'[curthr] = x /\ pc'[c] = y
            /\ \A t \in Thread \ {c, curthr} : pc'[t] = pc[t]
        BY Zenon, <1>2, <3>3, <4>3, <4>4, <4>5
      <4>7. \A t \in Thread : Place(t, pc'[t])
        BY Zenon, <4>2, <4>3, <4>6
      <4>8. Places'
        BY Zenon, <4>6, <4>7 DEF Places, Place
      <4>. QED BY Zenon, <3>3, <4>1, <4>6, <4>8, SchedAssumption
    <3>6. Roots'
      <4>1. Roots
        BY Zenon DEF ProcInv
      <4>2. pc'[idle].op # "boot"
        <5>1. CASE curthr = idle
          BY <3>5, <5>1 DEF PC
        <5>2. CASE curthr # idle
          BY Zenon, <3>1, <3>5, <4>1, <5>2 DEF Roots
        <5>. QED BY Zenon, <5>1, <5>2
      <4>3. stop' = "none" => pc'[idle].op \in {"boot", "waitpid"}
        BY Zenon, <1>1, <2>4, <3>5, <4>1 DEF Roots
      <4>4. CASE c = proc_initproc
        <5>1. Procs' = {idle}
          BY Zenon, <2>2, <3>1, <4>1, <4>4 DEF Roots
        <5>. QED BY Zenon, <1>1, <4>1, <4>2, <4>3, <5>1 DEF Roots
      <4>5. CASE c # proc_initproc
        <5>1. /\ Procs # {idle} /\ proc_initproc \in Procs' \ {idle}
              /\ p_state[proc_initproc] # "PROC_DEAD" /\ p_pproc'[proc_initproc] = idle
          BY <3>1, <4>1, <4>5 DEF Roots
        <5>2. \A p \in Procs' \ {idle, proc_initproc} : p_pproc'[p] # idle
          BY Zenon, <3>1, <4>1 DEF Roots
        <5>. QED BY Zenon, <1>1, <3>1, <4>1, <4>2, <4>3, <5>1, <5>2 DEF Roots
      <4>. QED BY Zenon, <4>4, <4>5
    <3>7. Rooted'
      <4> SUFFICES ASSUME NEW X \in SUBSET (Procs' \ {idle, proc_initproc}), X # {}
                   PROVE  \E y \in X : p_pproc'[y] \notin X
        BY Zenon, <1>1 DEF Rooted
      <4>1. X \in SUBSET (Procs \ {idle, proc_initproc}) /\ \A y \in X : p_pproc'[y] = p_pproc[y]
        BY Zenon, <3>1
      <4>. QED BY Zenon, <4>1 DEF ProcInv, Rooted
    <3>8. Pids'
      BY Zenon, <1>1, <3>1 DEF ProcInv, Pids
    <3>. QED BY Zenon, <3>1, <3>2, <3>4, <3>5, <3>6, <3>7, <3>8 DEF ProcInv
  <2>. QED BY Zenon, <1>4, <2>1, <2>3, <2>4 DEF Reap
<1>. QED BY Zenon, <1>3, <1>4 DEF waitpid_scan

(* It holds when bootstrap() has made idle the current thread.             *)
LEMMA ProcInitInv == ProcInit => ProcInv
<1> SUFFICES ASSUME ProcInit PROVE ProcInv
  BY Zenon
<1>1. SchedInit /\ SchedInv
  BY Zenon, InitInv DEF ProcInit
<1>2. ProcTypeOK /\ Distinct(proc_list) /\ Procs = {idle}
  BY SchedAssumption, ProcAssumption DEF ProcInit, ProcTypeOK, Distinct, Procs
<1>3. ProcSched
  <2>1. Runs(curthr, cpu) = {idle} /\ Off = Thread \ {idle}
    BY Zenon, <1>1, <1>2 DEF SchedInit, Runs, Off, ProcInit
  <2>2. \A t \in Thread : kt_wchan[t] = NULL
    BY Zenon, <1>1 DEF SchedInit
  <2>3. Placed(kt_wchan, kt_state, Runs(curthr, cpu) \cup Off)
    BY Zenon, <1>1, <2>1, <2>2 DEF SchedInv, Placed
  <2>. QED BY Zenon, <1>1, <2>1, <2>3 DEF ProcSched, SchedBut, SchedInv
<1>4. Places
  <2>1. /\ PC("boot", 0) \in [op : Op, arg : Int \cup Status]
        /\ PC("none", 0) \in [op : Op, arg : Int \cup Status]
        /\ Place(idle, PC("boot", 0)) /\ \A t : Place(t, PC("none", 0))
    BY DEF PC, Place, Op
  <2>2. \A t \in Thread : pc[t] = IF t = idle THEN PC("boot", 0) ELSE PC("none", 0)
    BY Zenon DEF ProcInit
  <2>3. pc = [t \in Thread |-> pc[t]]
    BY Zenon DEF ProcInit
  <2>. QED BY Zenon, <2>1, <2>2, <2>3 DEF Places
<1>5. Roots
  <2>1. pc[idle].op = "boot"
    BY Zenon, SchedAssumption DEF ProcInit, PC
  <2>. QED BY Zenon, <1>2, <2>1, SchedAssumption DEF ProcInit, Roots, PID_IDLE, PID_INIT
<1>6. Tree
  <2>1. \A p \in Thread : Len(p_children[p]) = 0
    BY Zenon DEF ProcInit
  <2>2. \A p \in Thread : 1..Len(p_children[p]) = {}
    BY <2>1
  <2>. QED BY Zenon, <1>2, <2>2 DEF Tree, Distinct
<1>7. Rooted /\ Pids
  BY Zenon, <1>2 DEF Rooted, Pids
<1>. QED BY Zenon, <1>2, <1>3, <1>4, <1>5, <1>6, <1>7 DEF ProcInv

(* Every step of a process, of a kill and of the machine keeps it.         *)
LEMMA ProcNextInv == ProcInv /\ [KillNext]_vars => ProcInv'
<1> SUFFICES ASSUME ProcInv, [KillNext]_vars PROVE ProcInv'
  BY Zenon
<1>1. ASSUME NEW c \in Thread, idleproc_run(c) \/ do_fork(c) PROVE ProcInv'
  BY Zenon, <1>1, BootStep, ForkStep
<1>2. ASSUME NEW status \in Status, do_exit(status) PROVE ProcInv'
  <2>1. /\ cpu = "run" /\ stop = "none" /\ pc[curthr].op = "user"
        /\ KthreadExit(status) /\ Quiet /\ UNCHANGED p_status
    BY Zenon, <1>2 DEF do_exit, Syscall, At, Quiet
  <2>2. curthr # idle
    BY Zenon, <2>1, Current
  <2>. QED BY Zenon, <2>1, <2>2, KthreadExitStep
<1>3. ASSUME NEW q \in CleanupQ, proc_cleanup_sleep(q) PROVE ProcInv'
  BY Zenon, <1>3, CleanupSleepStep
<1>4. CASE proc_cleanup
  BY Zenon, <1>4, CleanupStep
<1>5. ASSUME NEW pid \in -1..(PROC_MAX_COUNT - 1), do_waitpid(pid) PROVE ProcInv'
  BY Zenon, <1>5, WaitpidStep
<1>6. CASE waitpid_scan
  BY <1>6, ScanStep
<1>7. CASE syscall_handler \/ OtherSyscall \/ Machine
  BY Zenon, <1>7, SyscallHandlerStep, OtherSyscallStep, MachineStep
<1>8. CASE proc_kill_all \/ proc_kill
  BY Zenon, <1>8, KillAllStep, KillStep
<1>9. CASE UNCHANGED vars
  <2>1. UNCHANGED schedVars /\ UNCHANGED procVars
    BY Zenon, <1>9 DEF vars
  <2>2. Quiet /\ UNCHANGED <<p_status, kt_retval, stop, pc>>
    BY Zenon, <2>1 DEF procVars, Quiet, treeVars
  <2>3. ProcSched'
    BY Zenon, <2>1, <2>2, SchedStays DEF ProcInv, Quiet, treeVars
  <2>4. Places'
    BY Zenon, <2>2 DEF ProcInv, Places, Place
  <2>. QED BY Zenon, <2>2, <2>3, <2>4, QuietStep DEF ProcInv, ProcTypeOK, Roots
<1>. QED BY Zenon, <1>1, <1>2, <1>3, <1>4, <1>5, <1>6, <1>7, <1>8, <1>9 DEF KillNext, ProcNext

(* ProcInv holds at all times, however processes fork, wait, exit, sleep   *)
(* in proc_cleanup and kill each other.                                    *)
THEOREM ProcInvariance == KillSpec => []ProcInv
  BY ProcInitInv, ProcNextInv, PTL DEF KillSpec

(* The process tree is sound at all times, for any number of processes: no *)
(* order of fork, exit, reparenting, waitpid and kill leaves a process     *)
(* that no waitpid can reach, or one with a dead parent.                   *)
THEOREM TreeIsAlwaysSound == KillSpec => []TreeIsSound
<1>1. ProcInv => TreeIsSound
  <2> SUFFICES ASSUME ProcInv PROVE TreeIsSound
    BY Zenon
  <2>1. /\ ProcTypeOK /\ Tree /\ Distinct(proc_list)
        /\ DOMAIN proc_list = 1..Len(proc_list) /\ Procs \subseteq Thread
        /\ \A p \in Thread : DOMAIN p_children[p] = 1..Len(p_children[p])
    BY ProcsAreThreads DEF ProcInv, ProcTypeOK
  <2>2. \A p \in Procs \ {idle} :
          /\ p_pproc[p] \in Procs
          /\ p_state[p_pproc[p]] = "PROC_RUNNING"
          /\ \E i \in DOMAIN p_children[p_pproc[p]] : p_children[p_pproc[p]][i] = p
    BY Zenon, <2>1 DEF Tree
  <2>3. \A p \in Thread : \A i \in DOMAIN p_children[p] :
          /\ p_children[p][i] \in Procs \ {idle}
          /\ p_pproc[p_children[p][i]] = p
          /\ \A j \in DOMAIN p_children[p] : p_children[p][i] = p_children[p][j] => i = j
    BY <2>1 DEF Tree, Distinct
  <2>. QED BY Zenon, <2>1, <2>2, <2>3 DEF TreeIsSound, Distinct
<1>. QED BY <1>1, ProcInvariance, PTL

(* A dead process is on no queue and never gets the CPU back, although the *)
(* thread of one that slept in proc_cleanup dies in state KT_RUN.          *)
THEOREM DeadAlwaysStaysOff == KillSpec => []DeadStaysOff
<1>1. ProcInv => DeadStaysOff
  <2> SUFFICES ASSUME ProcInv, NEW p \in Procs, p_state[p] = "PROC_DEAD"
               PROVE  kt_wchan[p] = NULL /\ ~Running(p)
    BY Zenon DEF DeadStaysOff
  <2>1. p \in Off /\ p \in Thread
    BY Zenon, ProcsAreThreads DEF ProcInv, Off
  <2>2. kt_wchan[p] = NULL /\ p \notin Runs(curthr, cpu)
    BY Zenon, <2>1 DEF ProcInv, ProcSched, SchedBut, Placed
  <2>. QED BY <2>2 DEF Runs, Running
<1>. QED BY <1>1, ProcInvariance, PTL

(* The wait queues stay sound under the processes too: the states that     *)
(* kthread_exit and do_waitpid give threads outside sched.c do not break   *)
(* what the scheduler relies on.                                           *)
THEOREM ProcessesKeepQueuesSound == KillSpec => []LinkedWhereItWaits
<1>1. ProcInv => LinkedWhereItWaits
  BY DEF ProcInv, ProcSched, SchedBut, Linked, LinkedWhereItWaits
<1>. QED BY <1>1, ProcInvariance, PTL

---------------------------------------------------------------------------
(* A parent that sleeps in do_waitpid.                                     *)

(* Every step keeps Waits, if nothing in proc_cleanup sleeps.              *)
LEMMA WaitsStep ==
  ASSUME CleanupQ = {}, ProcInv, Waits, [KillNext]_vars
  PROVE  Waits'
<1>0. ProcInv'
  BY Zenon, ProcNextInv
<1>1. ASSUME NEW c \in Thread, idleproc_run(c) \/ do_fork(c) PROVE Waits'
  <2>1. PICK x, y : x = PC("waitpid", -1) /\ y = PC("user", 0)
    BY Zenon
  <2>2. x.op = "waitpid" /\ y.op = "user"
    BY Zenon, <2>1 DEF PC
  <2>3. /\ cpu = "run" /\ stop = "none" /\ pc[curthr].op \in {"boot", "user"}
        /\ Spawn(c, x) \/ Spawn(c, y)
    BY Zenon, <1>1, <2>1 DEF idleproc_run, do_fork, Syscall, At
  <2>. QED BY Zenon, <1>0, <2>2, <2>3, SpawnWaits
<1>2. CASE \E q \in CleanupQ : proc_cleanup_sleep(q)
  BY Zenon, <1>2
<1>3. CASE proc_cleanup
  BY Zenon, <1>3, CleanupWaits
<1>4. CASE \/ \E pid \in -1..(PROC_MAX_COUNT - 1) : do_waitpid(pid)
           \/ proc_kill_all \/ OtherSyscall
  BY Zenon, <1>4, CallWaits
<1>5. CASE waitpid_scan
  BY <1>5, ScanWaits
<1>6. CASE syscall_handler \/ proc_kill \/ \E status \in Status : do_exit(status)
  BY Zenon, <1>6, HandlerWaits
<1>7. CASE Machine
  BY <1>7, MachineWaits
<1>8. CASE UNCHANGED vars
  <2>1. UNCHANGED schedVars /\ UNCHANGED procVars
    BY Zenon, <1>8 DEF vars
  <2>. QED BY Zenon, <2>1, StayWaits DEF procVars, Quiet, treeVars
<1>. QED BY Zenon, <1>1, <1>2, <1>3, <1>4, <1>5, <1>6, <1>7, <1>8 DEF KillNext, ProcNext

(* When files and directories are closed without sleeping, a process other *)
(* than init that sleeps in do_waitpid always has children and all of them *)
(* are alive: the wakeup that proc_cleanup sends before it marks the child *)
(* dead is never lost.                                                     *)
THEOREM WaitersAlwaysWaitForTheLiving ==
  ASSUME CleanupQ = {}
  PROVE  KillSpec => []WaitsForTheLiving
<1>1. ProcInit => Waits
  <2> SUFFICES ASSUME ProcInit PROVE Waits
    BY Zenon
  <2>1. \A t \in Thread : kt_wchan[t] = NULL
    BY Zenon DEF ProcInit, SchedInit
  <2>2. \A u \in Thread : p_wait[u] # NULL
    BY Zenon, ProcAssumption, SchedAssumption
  <2>3. \A t \in Thread : pc[t].op \in {"boot", "none"}
    BY Zenon DEF ProcInit, PC
  <2>4. Procs \subseteq Thread
    BY Zenon, ProcsAreThreads, ProcInitInv DEF ProcInv
  <2>. QED BY Zenon, <2>1, <2>2, <2>3, <2>4 DEF Waits
<1>2. ProcInv /\ Waits /\ [KillNext]_vars => Waits'
  BY Zenon, WaitsStep
<1>3. ProcInv /\ Waits => WaitsForTheLiving
  <2> SUFFICES ASSUME ProcInv, Waits, NEW p \in Procs \ {proc_initproc}, kt_wchan[p] = p_wait[p]
               PROVE  /\ p_children[p] # << >>
                      /\ \A i \in DOMAIN p_children[p] : p_state[p_children[p][i]] = "PROC_RUNNING"
    BY Zenon DEF WaitsForTheLiving
  <2>1. p \in Thread /\ p_children[p] \in Seq(Thread)
    BY Zenon, ProcsAreThreads DEF ProcInv, ProcTypeOK
  <2>2. Len(p_children[p]) # 0
    BY <2>1 DEF Waits
  <2>3. \A i \in 1..Len(p_children[p]) : p_state[p_children[p][i]] = "PROC_RUNNING"
    BY Zenon DEF Waits
  <2>. QED BY <2>1, <2>2, <2>3
<1>. QED BY <1>1, <1>2, <1>3, ProcInvariance, PTL DEF KillSpec

---------------------------------------------------------------------------
(* Pids.                                                                   *)

(* There are no more proc_t structures than pids.                          *)
EnoughPids == IsFiniteSet(Thread) /\ Cardinality(Thread) <= PROC_MAX_COUNT

(* While a proc_t is free, proc_getid finds a free pid: its search visits  *)
(* every pid, and there are more pids than processes.                      *)
LEMMA SomePidIsFree ==
  ASSUME ProcTypeOK, EnoughPids, NEW c \in Thread, c \notin Procs
  PROVE  ~proc_getid(-1)
<1> DEFINE M == PROC_MAX_COUNT
           P == 0..(M - 1)
<1>1. M \in Nat /\ M > 1 /\ next_pid \in P
  BY ProcAssumption DEF ProcTypeOK
<1>2. SUFFICES ASSUME proc_getid(-1) PROVE FALSE
  BY Zenon
<1>3. ASSUME NEW v \in P PROVE \E p \in Procs : p_pid[p] = v
  <2>1. \A k \in P : \E p \in Procs : p_pid[p] = (next_pid + k) % M
    BY Zenon, <1>2 DEF proc_getid
  <2>2. PICK k \in P : (next_pid + k) % M = v
    <3>1. CASE v >= next_pid
      <4>1. v - next_pid \in P /\ next_pid + (v - next_pid) = v /\ v % M = v
        BY <1>1, <3>1
      <4>. QED BY Zenon, <4>1
    <3>2. CASE v < next_pid
      <4>1. v - next_pid + M \in P /\ next_pid + (v - next_pid + M) = v + M
        BY <1>1, <3>2
      <4>2. (v + M) % M = v
        BY <1>1
      <4>. QED BY Zenon, <4>1, <4>2
    <3>. QED BY <1>1, <3>1, <3>2
  <2>. QED BY Zenon, <2>1, <2>2
<1> DEFINE f == [v \in P |-> CHOOSE p \in Procs : p_pid[p] = v]
<1>4. \A v \in P : f[v] \in Procs /\ p_pid[f[v]] = v
  BY Zenon, <1>3
<1>5. f \in [P -> Procs]
  BY Zenon, <1>4
<1> HIDE DEF f
<1>6. f \in Injection(P, Procs)
  BY Zenon, <1>4, <1>5 DEF Injection, IsInjective
<1>7. Procs \in SUBSET (Thread \ {c})
  BY Zenon, ProcsAreThreads
<1>8. /\ IsFiniteSet(Thread \ {c}) /\ Cardinality(Thread \ {c}) = Cardinality(Thread) - 1
      /\ Cardinality(Thread) \in Nat
  BY Zenon, FS_RemoveElement, FS_CardinalityType DEF EnoughPids
<1>9. /\ IsFiniteSet(Procs) /\ Cardinality(Procs) <= Cardinality(Thread \ {c})
      /\ Cardinality(Procs) \in Nat
  BY Zenon, <1>7, <1>8, FS_Subset, FS_CardinalityType
<1>10. Cardinality(P) = M
  BY <1>1, FS_Interval
<1>11. Cardinality(P) <= Cardinality(Procs)
  BY <1>6, <1>9, FS_Injection
<1>. QED BY <1>1, <1>8, <1>9, <1>10, <1>11 DEF EnoughPids

HavePids == \A p \in Procs : p_pid[p] # -1

(* No process is created without a pid.                                    *)
LEMMA HavePidsStep ==
  ASSUME EnoughPids, ProcInv, HavePids, [KillNext]_vars
  PROVE  HavePids'
<1>1. ASSUME NEW c \in Thread, cpu = "run", proc_create(c) PROVE HavePids'
  <2>1. Procs' = Procs \cup {c} /\ c \notin Procs
    BY Zenon, <1>1, SpawnTree DEF proc_create
  <2>2. ~proc_getid(-1)
    BY Zenon, <2>1, SomePidIsFree DEF ProcInv
  <2>3. PICK pid \in -1..(PROC_MAX_COUNT - 1) : proc_getid(pid) /\ p_pid' = [p_pid EXCEPT ![c] = pid]
    BY Zenon, <1>1 DEF proc_create
  <2>4. Procs \subseteq Thread /\ p_pid \in [Thread -> -1..(PROC_MAX_COUNT - 1)]
    BY Zenon, ProcsAreThreads DEF ProcInv, ProcTypeOK
  <2>. QED BY Zenon, <2>1, <2>2, <2>3, <2>4 DEF HavePids
<1>2. CASE UNCHANGED <<proc_list, p_pid>>
  BY Zenon, <1>2 DEF HavePids, Procs
<1>3. CASE waitpid_scan
  <2>1. UNCHANGED p_pid
    BY Zenon, <1>3 DEF waitpid_scan
  <2>2. ASSUME NEW c, c \in Procs, proc_list' = list_remove(proc_list, c) PROVE HavePids'
    <3>1. Procs' = Procs \ {c}
      BY Zenon, <2>2, ListRemove DEF ProcInv
    <3>. QED BY Zenon, <2>1, <3>1 DEF HavePids
  <2>3. cpu = "run" /\ curthr \in Thread /\ p_children[curthr] \in Seq(Thread)
    BY Zenon, <1>3, Current DEF waitpid_scan, At, ProcInv, ProcTypeOK
  <2>4. \A i \in DOMAIN p_children[curthr] : p_children[curthr][i] \in Procs
    BY <2>3 DEF ProcInv, Tree
  <2>. QED BY Zenon, <1>2, <1>3, <2>1, <2>2, <2>4 DEF waitpid_scan, Reap, treeVars
<1>4. CASE UNCHANGED vars
  BY Zenon, <1>2, <1>4 DEF vars, procVars
<1>5. CASE \E c \in Thread : idleproc_run(c) \/ do_fork(c)
  BY Zenon, <1>1, <1>5 DEF idleproc_run, do_fork, Syscall, At, Spawn
<1>6. CASE proc_cleanup
  BY Zenon, <1>2, <1>6 DEF proc_cleanup, treeVars
<1>7. CASE \/ \E status \in Status : do_exit(status)
           \/ \E q \in CleanupQ : proc_cleanup_sleep(q)
           \/ \E pid \in -1..(PROC_MAX_COUNT - 1) : do_waitpid(pid)
  BY Zenon, <1>2, <1>7 DEF do_exit, proc_cleanup_sleep, do_waitpid, treeVars
<1>8. CASE syscall_handler \/ OtherSyscall \/ Machine
  BY Zenon, <1>2, <1>8 DEF syscall_handler, OtherSyscall, Machine, treeVars, procVars
<1>9. CASE proc_kill_all \/ proc_kill
  BY Zenon, <1>2, <1>9 DEF proc_kill_all, proc_kill, treeVars
<1>. QED BY Zenon, <1>3, <1>4, <1>5, <1>6, <1>7, <1>8, <1>9 DEF KillNext, ProcNext

(* No two processes ever have the same pid, zombies included, however      *)
(* often next_pid wraps around, provided that there are no more proc_t     *)
(* structures than pids (proc_create does not check proc_getid for -1).    *)
THEOREM PidsAreAlwaysUnique ==
  ASSUME EnoughPids
  PROVE  KillSpec => []PidsAreUnique
<1>1. ProcInit => HavePids
  BY SchedAssumption DEF ProcInit, HavePids, Procs
<1>2. ProcInv /\ HavePids /\ [KillNext]_vars => HavePids'
  BY Zenon, HavePidsStep
<1>3. ProcInv /\ HavePids => PidsAreUnique
  BY DEF ProcInv, Pids, HavePids, PidsAreUnique
<1>. QED BY <1>1, <1>2, <1>3, ProcInvariance, PTL DEF KillSpec
=============================================================================
