--------------------------- MODULE ProcInvariant ----------------------------
(***************************************************************************)
(* The inductive invariant of Proc, and the lemmas about the process tree: *)
(* what proc_create, proc_cleanup and do_waitpid's reaping do to it, for   *)
(* any number of processes and pids.                                       *)
(*                                                                         *)
(* The process tree is not inductive by itself.  That a parent is alive    *)
(* needs to know that the process that dies is not init while others live, *)
(* and that follows only if every process descends from init (Rooted):     *)
(* init's list of children is empty exactly when it is the last one.  That *)
(* a dead process stays off the CPU cannot be read off its thread's state  *)
(* (a sleep inside proc_cleanup overwrites KT_EXITED), so the invariant of *)
(* the scheduler is carried with a set Off of threads on no queue: of dead *)
(* processes and of structures not in use.  Idle's part of the code, which *)
(* makes init its only child, is Roots; where each thread is, Places.      *)
(* Pids are unique up to those that proc_getid did not find (Pids).        *)
(*                                                                         *)
(* proc_cleanup wakes the parent before it marks the child dead.  This is  *)
(* right as long as nothing between the two gives up the CPU, which Waits  *)
(* says of a thread at "cleanup": it has the CPU, and its parent does not  *)
(* sleep on p_wait.  vput and do_close stand between the two in the code,  *)
(* so these lemmas assume that they do not sleep (CleanupQ = {}).  That    *)
(* the wakeup reaches the parent needs one more fact: nobody but the       *)
(* process itself sleeps on its p_wait.                                    *)
(***************************************************************************)
EXTENDS Proc, SchedInvariant, SequenceLemmas, Functions

---------------------------------------------------------------------------
(* The inductive invariant.                                                *)

(* The threads that must stay off every queue: those of processes that     *)
(* died, and the structures no process has.                                *)
Off == {t \in Thread : t \notin Procs \/ p_state[t] = "PROC_DEAD"}

(* Where the threads are in the process code.                              *)
Op == {"none", "boot", "user", "waitpid", "sysret", "kill", "cleanup",
       "closed", "dead"}

Place(t, x) ==
  /\ x \in [op : Op, arg : Int \cup Status]
  /\ x.op \in {"cleanup", "closed"} => x.arg \in Status
  /\ x.op = "kill" => x.arg \in Nat \ {0}
  /\ x.op = "boot" => t = idle

Places ==
  /\ pc \in [Thread -> [op : Op, arg : Int \cup Status]]
  /\ \A t \in Thread : Place(t, pc[t])

(* Idle and init: idle only ever waits for init, which is its one child,   *)
(* and init dies last.                                                     *)
Roots ==
  /\ idle \in Procs /\ p_pid[idle] = PID_IDLE /\ p_state[idle] = "PROC_RUNNING"
  /\ stop = "none" => pc[idle].op \in {"boot", "waitpid"}
  /\ pc[idle].op = "boot" => Procs = {idle} /\ next_pid = PID_INIT
  /\ Procs # {idle} =>
       /\ proc_initproc \in Procs \ {idle}
       /\ p_pid[proc_initproc] = PID_INIT
       /\ p_pproc[proc_initproc] = idle
       /\ p_state[proc_initproc] = "PROC_DEAD" => Procs = {idle, proc_initproc}
  /\ \A p \in Procs \ {idle, proc_initproc} : p_pproc[p] # idle

(* TreeIsSound without its types and without the order of _proc_list.      *)
Tree ==
  /\ \A p \in Procs \ {idle} :
       /\ p_pproc[p] \in Procs
       /\ p_state[p_pproc[p]] = "PROC_RUNNING"
       /\ \E i \in 1..Len(p_children[p_pproc[p]]) : p_children[p_pproc[p]][i] = p
  /\ \A p \in Thread : \A i \in 1..Len(p_children[p]) :
       /\ p_children[p][i] \in Procs \ {idle}
       /\ p_pproc[p_children[p][i]] = p
  /\ \A p \in Thread : Distinct(p_children[p])

(* Following parents from any process leads to init: no set of processes   *)
(* holds the parents of all its members.                                   *)
Rooted ==
  \A X \in SUBSET (Procs \ {idle, proc_initproc}) :
    X # {} => \E x \in X : p_pproc[x] \notin X

(* Pids are unique, except for those proc_getid did not find.              *)
Pids == \A p, r \in Procs : p_pid[p] = p_pid[r] /\ p_pid[p] # -1 => p = r

(* The scheduler's invariant, with the threads of Off on no queue.         *)
ProcSched == SchedBut(Off)

ProcInv ==
  /\ ProcTypeOK /\ Distinct(proc_list) /\ ProcSched /\ Places /\ Roots
  /\ Tree /\ Rooted /\ Pids

---------------------------------------------------------------------------
(* Lists and pids.                                                         *)

(* The elements of a list, and of the list with one more or one less.      *)
LEMMA Elements ==
  ASSUME NEW S, NEW s \in Seq(S), NEW f, NEW r
  PROVE  /\ Range(s) = {s[i] : i \in 1..Len(s)}
         /\ Added(S, s, f, r) => Range(r) = Range(s) \cup {f}
         /\ Removed(S, s, f, r) => Range(r) = Range(s) \ {f}
<1>1. \A x \in Seq(S) : Range(x) = {x[i] : i \in 1..Len(x)}
  BY DEF Range
<1>2. ASSUME Added(S, s, f, r) PROVE Range(r) = Range(s) \cup {f}
  <2>1. r \in Seq(S) /\ Range(r) = {r[i] : i \in 1..Len(r)} /\ Range(s) = {s[i] : i \in 1..Len(s)}
    BY Zenon, <1>1, <1>2 DEF Added
  <2>2. \A x : x \in Range(r) => x \in Range(s) \/ x = f
    BY Zenon, <1>2, <2>1 DEF Added
  <2>3. \A x : x \in Range(s) \/ x = f => x \in Range(r)
    BY Zenon, <1>2, <2>1 DEF Added
  <2>. QED BY Zenon, <2>2, <2>3
<1>3. ASSUME Removed(S, s, f, r) PROVE Range(r) = Range(s) \ {f}
  <2>1. r \in Seq(S) /\ Range(r) = {r[i] : i \in 1..Len(r)} /\ Range(s) = {s[i] : i \in 1..Len(s)}
    BY Zenon, <1>1, <1>3 DEF Removed
  <2>2. \A x : x \in Range(r) => x \in Range(s) /\ x # f
    BY Zenon, <1>3, <2>1 DEF Removed
  <2>3. \A x : x \in Range(s) /\ x # f => x \in Range(r)
    BY Zenon, <1>3, <2>1 DEF Removed
  <2>. QED BY Zenon, <2>2, <2>3
<1>. QED BY Zenon, <1>1, <1>2, <1>3

(* The processes after proc_create has put c at the end of _proc_list.     *)
LEMMA ListAdd ==
  ASSUME ProcTypeOK, Distinct(proc_list), NEW c \in Thread, c \notin Procs,
         proc_list' = Append(proc_list, c)
  PROVE  /\ proc_list' \in Seq(Thread) /\ Distinct(proc_list')
         /\ Procs' = Procs \cup {c}
<1>1. proc_list \in Seq(Thread) /\ Procs = Range(proc_list) /\ Procs' = Range(proc_list')
  BY Zenon DEF ProcTypeOK, Procs, Range
<1>2. \A i \in 1..Len(proc_list) : proc_list[i] # c
  BY <1>1, Elements
<1>3. Added(Thread, proc_list, c, proc_list')
  BY Zenon, <1>1, <1>2, AppendDistinct
<1>4. Range(proc_list') = Range(proc_list) \cup {c}
  BY <1>1, <1>3, Elements
<1>. QED BY Zenon, <1>1, <1>3, <1>4 DEF Added

(* The processes after do_waitpid has unlinked c.                          *)
LEMMA ListRemove ==
  ASSUME ProcTypeOK, Distinct(proc_list), NEW c \in Procs,
         proc_list' = list_remove(proc_list, c)
  PROVE  /\ proc_list' \in Seq(Thread) /\ Distinct(proc_list')
         /\ Procs' = Procs \ {c}
<1>1. proc_list \in Seq(Thread) /\ Procs = Range(proc_list) /\ Procs' = Range(proc_list')
  BY Zenon DEF ProcTypeOK, Procs, Range
<1>2. Range(proc_list) = {proc_list[i] : i \in 1..Len(proc_list)}
  BY <1>1, Elements
<1>3. PICK k \in 1..Len(proc_list) : proc_list[k] = c
  BY Zenon, <1>1, <1>2
<1>4. Removed(Thread, proc_list, c, proc_list')
  BY Zenon, <1>1, <1>3, RemoveFirstFacts
<1>5. Range(proc_list') = Range(proc_list) \ {c}
  BY Zenon, <1>1, <1>4, Elements
<1>. QED BY Zenon, <1>1, <1>4, <1>5 DEF Removed

(* proc_getid finds a pid no process has, or -1 when all are taken; in a   *)
(* kernel that has only the idle process it finds PID_INIT.                *)
LEMMA GetId ==
  ASSUME ProcTypeOK, NEW pid \in -1..(PROC_MAX_COUNT - 1), proc_getid(pid)
  PROVE  /\ pid # -1 => \A p \in Procs : p_pid[p] # pid
         /\ NextPid(pid) \in 0..(PROC_MAX_COUNT - 1)
         /\ (Procs = {idle} /\ p_pid[idle] = 0 /\ next_pid = 1) => pid = 1
         /\ pid = -1 => \A k \in 0..(PROC_MAX_COUNT - 1) :
              \E p \in Procs : p_pid[p] = (next_pid + k) % PROC_MAX_COUNT
<1> DEFINE nth(k) == (next_pid + k) % PROC_MAX_COUNT
           taken(k) == \E p \in Procs : p_pid[p] = nth(k)
<1>1. PROC_MAX_COUNT \in Nat /\ PROC_MAX_COUNT > 1 /\ next_pid \in 0..(PROC_MAX_COUNT - 1)
  BY ProcAssumption DEF ProcTypeOK
<1>2. pid = -1 => \A k \in 0..(PROC_MAX_COUNT - 1) : taken(k)
  BY Zenon DEF proc_getid
<1>3. pid # -1 => \E k \in 0..(PROC_MAX_COUNT - 1) :
                    pid = nth(k) /\ ~taken(k) /\ \A j \in 0..(k - 1) : taken(j)
  BY Zenon DEF proc_getid
<1>4. NextPid(pid) \in 0..(PROC_MAX_COUNT - 1)
  BY <1>1 DEF NextPid
<1>5. pid # -1 => \A p \in Procs : p_pid[p] # pid
  BY Zenon, <1>3
<1>6. ASSUME Procs = {idle}, p_pid[idle] = 0, next_pid = 1 PROVE pid = 1
  <2>1. nth(0) = 1
    BY <1>1, <1>6
  <2>2. ~taken(0)
    BY <1>6, <2>1
  <2> HIDE DEF taken, nth
  <2>3. pid # -1
    BY <1>1, <1>2, <2>2
  <2>4. PICK k \in 0..(PROC_MAX_COUNT - 1) : pid = nth(k) /\ \A j \in 0..(k - 1) : taken(j)
    BY Zenon, <1>3, <2>3
  <2>5. k = 0
    BY <1>1, <2>2, <2>4
  <2>. QED BY Zenon, <2>1, <2>4, <2>5
<1>. QED BY Zenon, <1>2, <1>4, <1>5, <1>6

---------------------------------------------------------------------------
(* The threads of the processes.                                           *)

(* The thread that executes is that of a living process, and idle executes *)
(* nothing but idleproc_run and its do_waitpid.                            *)
LEMMA Current ==
  ASSUME ProcInv, cpu = "run"
  PROVE  /\ curthr \in Procs /\ curthr \in Thread /\ p_state[curthr] = "PROC_RUNNING"
         /\ kt_wchan[curthr] = NULL
         /\ stop = "none" /\ pc[curthr].op \notin {"boot", "waitpid"} => curthr # idle
         /\ curthr # idle => Procs # {idle} /\ proc_initproc \in Procs \ {idle}
<1>1. curthr \in Thread /\ curthr \notin Off /\ curthr \in Runs(curthr, cpu)
  BY Zenon DEF ProcInv, ProcSched, SchedBut, SchedTypeOK, Runs
<1>2. curthr \in Procs /\ p_state[curthr] = "PROC_RUNNING"
  BY Zenon, <1>1 DEF Off, ProcInv, ProcTypeOK
<1>3. kt_wchan[curthr] = NULL
  BY Zenon, <1>1 DEF ProcInv, ProcSched, SchedBut, Placed
<1>. QED BY Zenon, <1>1, <1>2, <1>3 DEF ProcInv, Roots

(* Processes are threads, idle and init among them.                        *)
LEMMA ProcsAreThreads == ASSUME ProcTypeOK PROVE Procs \subseteq Thread
<1>1. proc_list \in Seq(Thread) /\ Procs = Range(proc_list)
  BY Zenon DEF ProcTypeOK, Procs, Range
<1>2. Range(proc_list) = {proc_list[i] : i \in 1..Len(proc_list)}
  BY <1>1, Elements
<1>. QED BY <1>1, <1>2

(* Replacing one field of the place of the current thread.                 *)
LEMMA PlaceFields ==
  ASSUME ProcInv, curthr \in Thread
  PROVE  /\ \A o : [pc EXCEPT ![curthr].op = o] = [pc EXCEPT ![curthr] = PC(o, pc[curthr].arg)]
         /\ \A a : [pc EXCEPT ![curthr].arg = a] = [pc EXCEPT ![curthr] = PC(pc[curthr].op, a)]
<1>1. pc[curthr] \in [op : Op, arg : Int \cup Status] /\ DOMAIN pc = Thread
  BY Zenon DEF ProcInv, Places
<1>2. \A o : [pc[curthr] EXCEPT !.op = o] = PC(o, pc[curthr].arg)
  BY <1>1 DEF PC
<1>3. \A a : [pc[curthr] EXCEPT !.arg = a] = PC(pc[curthr].op, a)
  BY <1>1 DEF PC
<1>. QED BY Zenon, <1>1, <1>2, <1>3

(* What a step that only moves threads through the process code has to     *)
(* keep.                                                                   *)
Quiet == UNCHANGED <<treeVars, next_pid, proc_initproc, p_pid, p_state>>

---------------------------------------------------------------------------
(* A new process.                                                          *)

(* The new process is the last child of its parent, and has no children.   *)
LEMMA SpawnTree ==
  ASSUME ProcInv, cpu = "run", NEW c \in Thread, proc_create(c)
  PROVE  Tree' /\ Pids' /\ Procs' = Procs \cup {c} /\ Distinct(proc_list')
         /\ proc_list' \in Seq(Thread)
         /\ next_pid' \in 0..(PROC_MAX_COUNT - 1)
         /\ proc_initproc' \in Thread \cup {NULL}
         /\ p_pid' \in [Thread -> -1..(PROC_MAX_COUNT - 1)]
         /\ p_pproc' \in [Thread -> Thread \cup {NULL}]
         /\ p_children' \in [Thread -> Seq(Thread)]
         /\ p_state' \in [Thread -> {"PROC_RUNNING", "PROC_DEAD"}]
         /\ p_status' \in [Thread -> Status]
<1>1. /\ ProcTypeOK /\ Tree /\ Distinct(proc_list)
      /\ curthr \in Procs /\ curthr \in Thread /\ p_state[curthr] = "PROC_RUNNING"
      /\ c \notin Procs /\ c # curthr /\ Procs \subseteq Thread
  BY Zenon, Current, ProcsAreThreads DEF ProcInv, proc_create
<1>2. Procs' = Procs \cup {c} /\ Distinct(proc_list') /\ proc_list' \in Seq(Thread)
  BY Zenon, <1>1, ListAdd DEF proc_create
<1>0. PICK pid \in -1..(PROC_MAX_COUNT - 1) :
        /\ proc_getid(pid) /\ p_pid' = [p_pid EXCEPT ![c] = pid] /\ next_pid' = NextPid(pid)
        /\ proc_initproc' \in {c, proc_initproc}
  BY Zenon DEF proc_create
<1>3. /\ p_pproc' = [p_pproc EXCEPT ![c] = curthr]
      /\ p_state' = [p_state EXCEPT ![c] = "PROC_RUNNING"]
      /\ p_status' = [p_status EXCEPT ![c] = 0]
      /\ p_children' = [p_children EXCEPT ![curthr] = Append(@, c), ![c] = << >>]
  BY Zenon DEF proc_create
<1>4. /\ next_pid' \in 0..(PROC_MAX_COUNT - 1) /\ proc_initproc' \in Thread \cup {NULL}
      /\ p_pid' \in [Thread -> -1..(PROC_MAX_COUNT - 1)]
      /\ p_pproc' \in [Thread -> Thread \cup {NULL}]
      /\ p_state' \in [Thread -> {"PROC_RUNNING", "PROC_DEAD"}]
      /\ p_status' \in [Thread -> Status]
  BY Zenon, <1>0, <1>1, <1>3, GetId, ProcAssumption DEF ProcTypeOK
<1>5. Pids'
  <2>1. p_pid'[c] = pid /\ \A p \in Procs : p_pid'[p] = p_pid[p]
    BY Zenon, <1>0, <1>1 DEF ProcTypeOK
  <2>2. pid # -1 => \A p \in Procs : p_pid[p] # pid
    BY Zenon, <1>0, <1>1, GetId
  <2>. QED BY <1>2, <2>1, <2>2 DEF ProcInv, Pids
<1>6. /\ p_pproc'[c] = curthr /\ p_state'[c] = "PROC_RUNNING"
      /\ \A p \in Procs : p_pproc'[p] = p_pproc[p] /\ p_state'[p] = p_state[p]
  BY Zenon, <1>1, <1>3 DEF ProcTypeOK
<1>7. Added(Thread, p_children[curthr], c, Append(p_children[curthr], c))
  <2>1. p_children[curthr] \in Seq(Thread) /\ Distinct(p_children[curthr])
    BY Zenon, <1>1 DEF ProcTypeOK, Tree
  <2>2. \A i \in 1..Len(p_children[curthr]) : p_children[curthr][i] # c
    BY <1>1 DEF Tree
  <2>. QED BY Zenon, <2>1, <2>2, AppendDistinct
<1>8. /\ p_children'[c] = << >> /\ p_children' \in [Thread -> Seq(Thread)]
      /\ p_children'[curthr] = Append(p_children[curthr], c)
      /\ \A p \in Thread \ {c, curthr} : p_children'[p] = p_children[p]
  <2>1. p_children \in [Thread -> Seq(Thread)] /\ Append(p_children[curthr], c) \in Seq(Thread)
    BY Zenon, <1>1, <1>7 DEF ProcTypeOK, Added
  <2>2. PICK l, e : l = Append(p_children[curthr], c) /\ e = << >>
    BY Zenon
  <2>3. /\ p_children' = [p_children EXCEPT ![curthr] = l, ![c] = e]
        /\ l \in Seq(Thread) /\ e \in Seq(Thread)
    BY <1>3, <2>1, <2>2
  <2>4. /\ p_children'[c] = e /\ p_children' \in [Thread -> Seq(Thread)]
        /\ p_children'[curthr] = l
        /\ \A p \in Thread \ {c, curthr} : p_children'[p] = p_children[p]
    BY Zenon, <1>1, <2>1, <2>3
  <2>. QED BY Zenon, <2>2, <2>4
<1>9. ASSUME NEW p \in Procs' \ {idle}
      PROVE  /\ p_pproc'[p] \in Procs'
             /\ p_state'[p_pproc'[p]] = "PROC_RUNNING"
             /\ \E i \in 1..Len(p_children'[p_pproc'[p]]) : p_children'[p_pproc'[p]][i] = p
  <2>1. CASE p = c
    <3>1. p_pproc'[p] = curthr /\ p_children'[p_pproc'[p]] = Append(p_children[curthr], c)
      BY Zenon, <1>6, <1>8, <2>1
    <3>2. \E i \in 1..Len(Append(p_children[curthr], c)) : Append(p_children[curthr], c)[i] = c
      BY Zenon, <1>7 DEF Added
    <3>. QED BY Zenon, <1>1, <1>2, <1>6, <2>1, <3>1, <3>2
  <2>2. CASE p # c
    <3> DEFINE u == p_pproc[p]
    <3>1. p \in Procs \ {idle} /\ p_pproc'[p] = u
      BY Zenon, <1>2, <1>6, <2>2
    <3>2. /\ u \in Procs /\ u # c /\ p_state[u] = "PROC_RUNNING"
          /\ \E i \in 1..Len(p_children[u]) : p_children[u][i] = p
      BY <1>1, <3>1 DEF Tree
    <3> HIDE DEF u
    <3>3. \E i \in 1..Len(p_children'[u]) : p_children'[u][i] = p
      <4>1. CASE u = curthr
        <5>1. \E i \in 1..Len(Append(p_children[curthr], c)) : Append(p_children[curthr], c)[i] = p
          BY Zenon, <1>7, <3>2, <4>1 DEF Added
        <5>. QED BY Zenon, <1>8, <4>1, <5>1
      <4>2. CASE u # curthr
        BY Zenon, <1>1, <1>8, <3>2, <4>2
      <4>. QED BY Zenon, <4>1, <4>2
    <3>. QED BY Zenon, <1>2, <1>6, <3>1, <3>2, <3>3
  <2>. QED BY Zenon, <2>1, <2>2
<1>10. ASSUME NEW p \in Thread
       PROVE  /\ Distinct(p_children'[p])
              /\ \A i \in 1..Len(p_children'[p]) :
                   p_children'[p][i] \in Procs' \ {idle} /\ p_pproc'[p_children'[p][i]] = p
  <2>1. CASE p = c
    BY <1>8, <2>1 DEF Distinct
  <2>2. CASE p = curthr
    <3>1. c # idle
      BY Zenon, <1>1 DEF ProcInv, Roots
    <3>2. \A i \in 1..Len(p_children[p]) : p_children[p][i] \in Procs \ {idle} /\ p_pproc[p_children[p][i]] = p
      BY Zenon, <1>1 DEF Tree
    <3>3. PICK l : l = p_children'[p]
      BY Zenon
    <3>4. Added(Thread, p_children[p], c, l)
      BY Zenon, <1>7, <1>8, <2>2, <3>3
    <3>5. \A i \in 1..Len(l) : l[i] \in Procs' \ {idle} /\ p_pproc'[l[i]] = p
      <4> TAKE i \in 1..Len(l)
      <4>1. l[i] = c \/ \E j \in 1..Len(p_children[p]) : p_children[p][j] = l[i]
        BY Zenon, <3>4 DEF Added
      <4>2. l[i] = c \/ (l[i] \in Procs \ {idle} /\ p_pproc[l[i]] = p)
        BY Zenon, <3>2, <4>1
      <4>. QED BY Zenon, <1>2, <1>6, <2>2, <3>1, <4>2
    <3>. QED BY Zenon, <3>3, <3>4, <3>5 DEF Added
  <2>3. CASE p \notin {c, curthr}
    <3>1. p_children'[p] = p_children[p] /\ Distinct(p_children[p])
      BY Zenon, <1>1, <1>8, <2>3 DEF Tree
    <3>2. \A i \in 1..Len(p_children[p]) : p_children[p][i] \in Procs \ {idle} /\ p_pproc[p_children[p][i]] = p
      BY <1>1 DEF Tree
    <3>. QED BY Zenon, <1>2, <1>6, <3>1, <3>2
  <2>. QED BY Zenon, <2>1, <2>2, <2>3
<1>11. Tree'
  BY Zenon, <1>9, <1>10 DEF Tree
<1>. QED BY Zenon, <1>2, <1>4, <1>5, <1>8, <1>11

(* The places of the caller and of the new process.                        *)
LEMMA SpawnPlaces ==
  ASSUME ProcInv, cpu = "run", NEW c \in Thread, c \notin Procs, NEW x, Place(curthr, x),
         pc' = [pc EXCEPT ![c] = PC("user", 0), ![curthr] = x]
  PROVE  Places' /\ pc'[curthr] = x /\ (curthr # idle => pc'[idle] = pc[idle])
<1>1. c # curthr /\ c # idle /\ curthr \in Thread /\ idle \in Thread
  BY Zenon, Current, SchedAssumption DEF ProcInv, Roots
<1>2. PICK y : y = PC("user", 0)
  BY Zenon
<1>3. Place(c, y)
  BY <1>2 DEF Place, PC, Op
<1>4. pc \in [Thread -> [op : Op, arg : Int \cup Status]] /\ \A t \in Thread : Place(t, pc[t])
  BY Zenon DEF ProcInv, Places
<1>5. x \in [op : Op, arg : Int \cup Status] /\ y \in [op : Op, arg : Int \cup Status]
  BY Zenon, <1>3 DEF Place
<1>6. pc' = [pc EXCEPT ![c] = y, ![curthr] = x]
  BY Zenon, <1>2
<1>7. /\ pc' \in [Thread -> [op : Op, arg : Int \cup Status]]
      /\ pc'[curthr] = x /\ pc'[c] = y
      /\ \A t \in Thread \ {c, curthr} : pc'[t] = pc[t]
  BY <1>1, <1>4, <1>5, <1>6
<1>8. \A t \in Thread : Place(t, pc'[t])
  BY Zenon, <1>3, <1>4, <1>7
<1>9. Places'
  BY Zenon, <1>7, <1>8 DEF Places, Place
<1>. QED BY Zenon, <1>1, <1>7, <1>9

---------------------------------------------------------------------------
(* The death of a process, and its removal.                                *)

(* Only idle and init are left when init has no children.                  *)
LEMMA LastProcess ==
  ASSUME ProcInv, proc_initproc \in Procs \ {idle}, Len(p_children[proc_initproc]) = 0
  PROVE  Procs = {idle, proc_initproc}
<1> DEFINE X == Procs \ {idle, proc_initproc}
<1>1. ASSUME X # {} PROVE FALSE
  <2>1. PICK x \in X : p_pproc[x] \notin X
    BY Zenon, <1>1 DEF ProcInv, Rooted
  <2>2. /\ p_pproc[x] \in Procs /\ p_pproc[x] # idle
        /\ \E i \in 1..Len(p_children[p_pproc[x]]) : p_children[p_pproc[x]][i] = x
    BY Zenon, <2>1 DEF ProcInv, Tree, Roots
  <2>3. p_pproc[x] = proc_initproc
    BY Zenon, <2>1, <2>2
  <2>. QED BY <2>2, <2>3
<1>. QED BY Zenon, <1>1 DEF ProcInv, Roots

(* The tree after Reparent: every child of the dying process hangs below   *)
(* init, which is alive.                                                   *)
LEMMA ReparentTree ==
  ASSUME ProcInv, cpu = "run", curthr # idle,
         NEW mine, mine = {p_children[curthr][i] : i \in DOMAIN p_children[curthr]},
         curthr # proc_initproc \/ mine = {}, Reparent(mine),
         p_state' = [p_state EXCEPT ![curthr] = "PROC_DEAD"], Procs' = Procs
  PROVE  /\ Tree'
         /\ p_children' \in [Thread -> Seq(Thread)]
         /\ p_pproc' \in [Thread -> Thread \cup {NULL}]
         /\ \A p \in Thread : p_pproc'[p] = IF p \in mine THEN proc_initproc ELSE p_pproc[p]
         /\ mine = {p \in Procs \ {idle} : p_pproc[p] = curthr}
<1>1. /\ ProcTypeOK /\ Tree /\ Procs \subseteq Thread
      /\ curthr \in Procs /\ curthr \in Thread /\ idle \in Procs
      /\ proc_initproc \in Procs \ {idle}
      /\ p_pproc[proc_initproc] = idle
  BY Zenon, Current, ProcsAreThreads DEF ProcInv, Roots
<1> DEFINE own == p_children[curthr]
           inits == p_children[proc_initproc]
<1>2. own \in Seq(Thread) /\ inits \in Seq(Thread)
  BY Zenon, <1>1 DEF ProcTypeOK
<1>3. mine = {own[i] : i \in 1..Len(own)}
  BY <1>2
<1>4. mine = {p \in Procs \ {idle} : p_pproc[p] = curthr}
  <2>1. \A i \in 1..Len(own) : own[i] \in Procs \ {idle} /\ p_pproc[own[i]] = curthr
    BY Zenon, <1>1 DEF Tree
  <2>2. \A p \in Procs \ {idle} : p_pproc[p] = curthr => \E i \in 1..Len(own) : own[i] = p
    BY <1>1 DEF Tree
  <2> HIDE DEF own
  <2>. QED BY <1>3, <2>1, <2>2
<1>5. /\ p_pproc' \in [Thread -> Thread \cup {NULL}]
      /\ \A p \in Thread : p_pproc'[p] = IF p \in mine THEN proc_initproc ELSE p_pproc[p]
  BY Zenon, <1>1 DEF Reparent, ProcTypeOK
<1>6. \A p \in Procs : p_state'[p] = IF p = curthr THEN "PROC_DEAD" ELSE p_state[p]
  BY Zenon, <1>1 DEF ProcTypeOK
<1>7. /\ Len(own) \in Nat /\ Len(inits) \in Nat
      /\ \A i \in 1..Len(own) : own[i] \in Procs \ {idle} /\ p_pproc[own[i]] = curthr
      /\ \A i \in 1..Len(inits) : inits[i] \in Procs \ {idle} /\ p_pproc[inits[i]] = proc_initproc
      /\ Distinct(own) /\ Distinct(inits)
  BY <1>1, <1>2 DEF Tree
<1>8. PICK both, e : both = inits \o own /\ e = << >>
  BY Zenon
<1>9. both \in Seq(Thread) /\ e \in Seq(Thread) /\ Len(e) = 0
  BY <1>2, <1>8
<1>10. p_children' = [p_children EXCEPT ![proc_initproc] = both, ![curthr] = e]
  BY Zenon, <1>8 DEF Reparent
<1>11. /\ p_children' \in [Thread -> Seq(Thread)] /\ p_children'[curthr] = e
       /\ curthr # proc_initproc => p_children'[proc_initproc] = both
       /\ \A p \in Thread \ {curthr, proc_initproc} : p_children'[p] = p_children[p]
  BY Zenon, <1>1, <1>9, <1>10 DEF ProcTypeOK
<1>12. CASE curthr = proc_initproc
  <2>1. mine = {} /\ Len(own) = 0
    <3> HIDE DEF own
    <3>1. mine = {}
      BY Zenon, <1>12
    <3>2. Len(own) # 0 => 1 \in 1..Len(own)
      BY <1>7
    <3>. QED BY Zenon, <1>3, <3>1, <3>2
  <2>2. Procs = {idle, proc_initproc}
    BY Zenon, <1>1, <1>12, <2>1, LastProcess
  <2>3. \A p \in Thread : p_pproc'[p] = p_pproc[p]
    BY Zenon, <1>5, <2>1
  <2>4. Roots
    BY Zenon DEF ProcInv
  <2>5. ASSUME NEW p \in Procs' \ {idle}
        PROVE  /\ p_pproc'[p] \in Procs' /\ p_state'[p_pproc'[p]] = "PROC_RUNNING"
               /\ \E i \in 1..Len(p_children'[p_pproc'[p]]) : p_children'[p_pproc'[p]][i] = p
    <3>1. p = proc_initproc /\ p_pproc'[p] = idle /\ idle # curthr
      BY Zenon, <1>1, <1>12, <2>2, <2>3, <2>5
    <3>2. p_children'[idle] = p_children[idle] /\ p_state'[idle] = "PROC_RUNNING"
      BY Zenon, <1>1, <1>6, <1>11, <1>12, <2>4 DEF Roots
    <3>. QED BY <1>1, <3>1, <3>2 DEF Tree
  <2>6. ASSUME NEW p \in Thread
        PROVE  /\ Distinct(p_children'[p])
               /\ \A i \in 1..Len(p_children'[p]) :
                    p_children'[p][i] \in Procs' \ {idle} /\ p_pproc'[p_children'[p][i]] = p
    <3>1. CASE p = curthr
      BY <1>9, <1>11, <3>1 DEF Distinct
    <3>2. CASE p # curthr
      <4>1. p_children'[p] = p_children[p]
        BY Zenon, <1>11, <1>12, <3>2
      <4>. QED BY <1>1, <2>3, <4>1 DEF Tree
    <3>. QED BY Zenon, <3>1, <3>2
  <2>7. Tree'
    BY Zenon, <2>5, <2>6 DEF Tree
  <2>. QED BY Zenon, <1>4, <1>5, <1>11, <2>7
<1>13. CASE curthr # proc_initproc
  <2>1. p_state[proc_initproc] = "PROC_RUNNING"
    BY Zenon, <1>1, <1>13 DEF ProcInv, Roots, ProcTypeOK
  <2>2. Joined(Thread, inits, own, both)
    <3>1. \A i \in 1..Len(inits) : \A j \in 1..Len(own) : inits[i] # own[j]
      BY Zenon, <1>7, <1>13
    <3> HIDE DEF own, inits
    <3>. QED BY Zenon, <1>2, <1>7, <1>8, <3>1, ConcatDistinct
  <2>3. Distinct(both)
    BY Zenon, <2>2 DEF Joined
  <2>4. \A k \in 1..Len(both) : both[k] \in Procs \ {idle} /\ p_pproc'[both[k]] = proc_initproc
    <3> HIDE DEF own, inits
    <3> TAKE k \in 1..Len(both)
    <3>1. both[k] \in Procs \ {idle} /\ p_pproc[both[k]] \in {curthr, proc_initproc}
      <4>1. (\E i \in 1..Len(inits) : inits[i] = both[k]) \/ (\E j \in 1..Len(own) : own[j] = both[k])
        BY Zenon, <2>2 DEF Joined
      <4>. QED BY Zenon, <1>7, <4>1
    <3>. QED BY Zenon, <1>1, <1>4, <1>5, <3>1
  <2>5. ASSUME NEW p \in Procs' \ {idle}
        PROVE  /\ p_pproc'[p] \in Procs' /\ p_state'[p_pproc'[p]] = "PROC_RUNNING"
               /\ \E i \in 1..Len(p_children'[p_pproc'[p]]) : p_children'[p_pproc'[p]][i] = p
    <3>1. CASE p \in mine
      <4>1. p_pproc'[p] = proc_initproc
        BY Zenon, <1>1, <1>5, <2>5, <3>1
      <4>2. \E i \in 1..Len(both) : both[i] = p
        <5> HIDE DEF own, inits
        <5>1. \E j \in 1..Len(own) : own[j] = p
          BY Zenon, <1>3, <3>1
        <5>. QED BY Zenon, <2>2, <5>1 DEF Joined
      <4>. QED BY Zenon, <1>1, <1>6, <1>11, <1>13, <2>1, <4>1, <4>2
    <3>2. CASE p \notin mine
      <4> DEFINE u == p_pproc[p]
      <4>1. p_pproc'[p] = u /\ u # curthr /\ u \in Procs /\ p_state[u] = "PROC_RUNNING"
        BY Zenon, <1>1, <1>4, <1>5, <2>5, <3>2 DEF Tree
      <4>2. PICK i \in 1..Len(p_children[u]) : p_children[u][i] = p
        BY Zenon, <1>1, <2>5 DEF Tree
      <4>3. \E j \in 1..Len(p_children'[u]) : p_children'[u][j] = p
        <5>1. CASE u = proc_initproc
          <6>1. i \in 1..Len(inits) /\ inits[i] = p
            BY Zenon, <4>2, <5>1
          <6> HIDE DEF inits
          <6>2. \E j \in 1..Len(both) : both[j] = p
            BY Zenon, <2>2, <6>1 DEF Joined
          <6>. QED BY Zenon, <1>11, <1>13, <5>1, <6>2
        <5>2. CASE u # proc_initproc
          <6>1. p_children'[u] = p_children[u]
            BY Zenon, <1>1, <1>11, <4>1, <5>2
          <6>. QED BY Zenon, <4>2, <6>1
        <5>. QED BY Zenon, <5>1, <5>2
      <4>. QED BY Zenon, <1>6, <4>1, <4>3
    <3>. QED BY Zenon, <3>1, <3>2
  <2>6. ASSUME NEW p \in Thread
        PROVE  /\ Distinct(p_children'[p])
               /\ \A i \in 1..Len(p_children'[p]) :
                    p_children'[p][i] \in Procs' \ {idle} /\ p_pproc'[p_children'[p][i]] = p
    <3>1. CASE p = curthr
      BY <1>9, <1>11, <3>1 DEF Distinct
    <3>2. CASE p = proc_initproc
      BY Zenon, <1>11, <1>13, <2>3, <2>4, <3>2
    <3>3. CASE p \notin {curthr, proc_initproc}
      <4>1. p_children'[p] = p_children[p]
        BY Zenon, <1>11, <3>3
      <4>2. \A i \in 1..Len(p_children[p]) : p_children[p][i] \in Procs \ {idle} /\ p_pproc[p_children[p][i]] = p
        BY Zenon, <1>1 DEF Tree
      <4>3. \A i \in 1..Len(p_children[p]) : p_children[p][i] \notin mine
        BY Zenon, <1>4, <3>3, <4>2
      <4>. QED BY <1>1, <1>5, <4>1, <4>2, <4>3 DEF Tree
    <3>. QED BY Zenon, <3>1, <3>2, <3>3
  <2>7. Tree'
    BY <2>5, <2>6 DEF Tree
  <2>. QED BY <1>4, <1>5, <1>11, <2>7
<1>. QED BY Zenon, <1>12, <1>13

(* Reaping c takes it out of the tree; it has no children, since a parent  *)
(* is alive.                                                               *)
LEMMA ReapTree ==
  ASSUME ProcInv, cpu = "run", NEW i \in 1..Len(p_children[curthr]),
         NEW c, c = p_children[curthr][i], p_state[c] = "PROC_DEAD",
         p_children' = [p_children EXCEPT ![curthr] = list_remove_at(@, i)],
         proc_list' = list_remove(proc_list, c),
         p_pproc' = [p_pproc EXCEPT ![c] = NULL],
         UNCHANGED p_state
  PROVE  /\ Tree' /\ Procs' = Procs \ {c} /\ c \in Procs \ {idle} /\ p_pproc[c] = curthr
         /\ \A p \in Procs \ {c} : p_pproc'[p] = p_pproc[p]
         /\ Distinct(proc_list') /\ proc_list' \in Seq(Thread)
         /\ p_pproc' \in [Thread -> Thread \cup {NULL}]
         /\ p_children' \in [Thread -> Seq(Thread)]
<1>1. /\ ProcTypeOK /\ Tree /\ Distinct(proc_list) /\ Procs \subseteq Thread
      /\ curthr \in Procs /\ curthr \in Thread
  BY Zenon, Current, ProcsAreThreads DEF ProcInv
<1>2. /\ p_children[curthr] \in Seq(Thread) /\ Distinct(p_children[curthr])
      /\ c \in Procs \ {idle} /\ c \in Thread /\ p_pproc[c] = curthr
  BY Zenon, <1>1 DEF ProcTypeOK, Tree
<1>3. Procs' = Procs \ {c} /\ Distinct(proc_list') /\ proc_list' \in Seq(Thread)
  BY Zenon, <1>1, <1>2, ListRemove
<1>4. PICK l : l = list_remove_at(p_children[curthr], i)
  BY Zenon
<1>5. Removed(Thread, p_children[curthr], c, l)
  BY Zenon, <1>2, <1>4, RemoveAtRemoves
<1>6. /\ p_children' \in [Thread -> Seq(Thread)] /\ p_children'[curthr] = l
      /\ \A p \in Thread \ {curthr} : p_children'[p] = p_children[p]
  <2>1. l \in Seq(Thread) /\ p_children' = [p_children EXCEPT ![curthr] = l]
    BY Zenon, <1>4, <1>5 DEF Removed
  <2>. QED BY <1>1, <2>1 DEF ProcTypeOK
<1>7. /\ p_pproc' \in [Thread -> Thread \cup {NULL}]
      /\ \A p \in Thread \ {c} : p_pproc'[p] = p_pproc[p]
  BY Zenon, <1>1, <1>2 DEF ProcTypeOK
<1>8. ASSUME NEW p \in Procs' \ {idle}
      PROVE  /\ p_pproc'[p] \in Procs' /\ p_state'[p_pproc'[p]] = "PROC_RUNNING"
             /\ \E k \in 1..Len(p_children'[p_pproc'[p]]) : p_children'[p_pproc'[p]][k] = p
  <2>1. /\ p \in Procs \ {idle} /\ p # c /\ p_pproc'[p] = p_pproc[p]
        /\ p_pproc[p] \in Procs /\ p_state[p_pproc[p]] = "PROC_RUNNING"
        /\ \E k \in 1..Len(p_children[p_pproc[p]]) : p_children[p_pproc[p]][k] = p
    BY Zenon, <1>1, <1>3, <1>7, <1>8 DEF Tree
  <2>2. p_pproc[p] \in Procs'
    BY Zenon, <1>3, <2>1
  <2>3. CASE p_pproc[p] = curthr
    <3>1. \E k \in 1..Len(l) : l[k] = p
      <4>1. PICK j \in 1..Len(p_children[curthr]) : p_children[curthr][j] = p
        BY Zenon, <2>1, <2>3
      <4>. QED BY Zenon, <1>5, <2>1, <4>1 DEF Removed
    <3>. QED BY Zenon, <1>6, <2>1, <2>2, <2>3, <3>1
  <2>4. CASE p_pproc[p] # curthr
    <3>1. p_children'[p_pproc[p]] = p_children[p_pproc[p]]
      BY Zenon, <1>1, <1>6, <2>1, <2>4
    <3>. QED BY Zenon, <2>1, <2>2, <3>1
  <2>. QED BY Zenon, <2>3, <2>4
<1>9. ASSUME NEW p \in Thread
      PROVE  /\ Distinct(p_children'[p])
             /\ \A k \in 1..Len(p_children'[p]) :
                  p_children'[p][k] \in Procs' \ {idle} /\ p_pproc'[p_children'[p][k]] = p
  <2>1. /\ Distinct(p_children[p])
        /\ \A k \in 1..Len(p_children[p]) : p_children[p][k] \in Procs \ {idle} /\ p_pproc[p_children[p][k]] = p
    BY Zenon, <1>1 DEF Tree
  <2>2. CASE p = curthr
    <3>1. \A k \in 1..Len(l) : l[k] # c /\ \E j \in 1..Len(p_children[p]) : p_children[p][j] = l[k]
      BY Zenon, <1>5, <2>2 DEF Removed
    <3>2. \A k \in 1..Len(l) : l[k] # c /\ l[k] \in Procs \ {idle} /\ p_pproc[l[k]] = p
      BY Zenon, <2>1, <3>1
    <3>3. Distinct(l)
      BY Zenon, <1>5 DEF Removed
    <3>4. \A k \in 1..Len(l) : l[k] \in Procs' \ {idle} /\ p_pproc'[l[k]] = p
      BY Zenon, <1>1, <1>3, <1>7, <3>2
    <3>. QED BY Zenon, <1>6, <2>2, <3>3, <3>4
  <2>3. CASE p # curthr
    <3>1. p_children'[p] = p_children[p]
      BY Zenon, <1>6, <2>3
    <3>2. \A k \in 1..Len(p_children[p]) : p_children[p][k] # c
      BY Zenon, <1>2, <2>1, <2>3
    <3>. QED BY <1>1, <1>3, <1>7, <2>1, <3>1, <3>2
  <2>. QED BY Zenon, <2>2, <2>3
<1>10. Tree'
  BY Zenon, <1>8, <1>9 DEF Tree
<1>. QED BY Zenon, <1>1, <1>2, <1>3, <1>6, <1>7, <1>10

---------------------------------------------------------------------------
(* A parent that sleeps in do_waitpid, and the steps that wake it.         *)

(* Only a process in do_waitpid sleeps on its p_wait, and it has children; *)
(* nothing comes between the wakeup of the parent and the child's death;   *)
(* the children of a sleeper other than init are alive.                    *)
Waits ==
  /\ \A t, u \in Thread : kt_wchan[t] = p_wait[u] => t = u /\ pc[t].op = "waitpid"
  /\ \A t \in Procs : pc[t].op = "waitpid" => Len(p_children[t]) # 0
  /\ \A t \in Thread :
       /\ pc[t].op # "closed"
       /\ pc[t].op = "cleanup" =>
            t = curthr /\ cpu = "run" /\ kt_wchan[p_pproc[t]] # p_wait[p_pproc[t]]
  /\ \A p \in Procs \ {proc_initproc} : kt_wchan[p] = p_wait[p] =>
       \A i \in 1..Len(p_children[p]) : p_state[p_children[p][i]] = "PROC_RUNNING"

(* With the wait channels w before and w2 after, nobody has begun to wait  *)
(* on a queue that no interrupt handler touches.                           *)
NoNewWaiter(w, w2) == \A t \in Thread : w2[t] \in WaitQ \ DevQ => w2[t] = w[t]

(* A context switch makes nobody wait.                                     *)
LEMMA SwitchWakes ==
  ASSUME NEW f, NEW l, NEW z, NEW w \in [Thread -> Queue \cup {NULL}], Switch(f, l, z, w)
  PROVE  NoNewWaiter(w, kt_wchan')
<1>1. kt_wchan' = w \/ \E n : kt_wchan' = [w EXCEPT ![n] = NULL]
  BY Zenon DEF Switch, Dispatch, Resume, Channel
<1>. QED BY Zenon, <1>1, SchedAssumption DEF NoNewWaiter

(* Neither does a wakeup.                                                  *)
LEMMA WakeupWakes ==
  ASSUME SchedTypeOK, NEW q, NEW s, Wakeup(q, s)
  PROVE  NoNewWaiter(kt_wchan, kt_wchan')
<1>1. CASE kt_wchan' = kt_wchan
  BY Zenon, <1>1 DEF NoNewWaiter
<1>2. CASE ~sched_queue_empty(q)
  <2>1. PICK t : t = Head(tq_list[q])
    BY Zenon
  <2>2. kt_wchan' = [[kt_wchan EXCEPT ![t] = NULL] EXCEPT ![t] = kt_runq]
    BY Zenon, <1>2, <2>1 DEF Wakeup, MakeRunnable, Channel
  <2>. QED BY Zenon, <2>2, SchedAssumption DEF NoNewWaiter, SchedTypeOK
<1>. QED BY Zenon, <1>1, <1>2 DEF Wakeup, queueVars

(* Nor do the machine's own steps.                                         *)
LEMMA MachineWakes ==
  ASSUME SchedTypeOK, CancelStep \/ Idle \/ AnyInterrupt
  PROVE  /\ NoNewWaiter(kt_wchan, kt_wchan')
         /\ cpu = "run" => curthr' = curthr /\ cpu' = "run"
<1>1. CASE CancelStep
  <2>1. CASE sched_cancel_wchan
    BY Zenon, <2>1 DEF sched_cancel_wchan, NoNewWaiter
  <2>2. CASE sched_cancel_remove
    <3>1. PICK t : t = cancel.thr
      BY Zenon
    <3>2. kt_wchan' = [[kt_wchan EXCEPT ![t] = NULL] EXCEPT ![t] = kt_runq] /\ cpu = "cancel"
      BY Zenon, <2>2, <3>1 DEF sched_cancel_remove, MakeRunnable, Channel
    <3>. QED BY Zenon, <3>2, SchedAssumption DEF NoNewWaiter, SchedTypeOK
  <2>. QED BY Zenon, <1>1, <2>1, <2>2 DEF CancelStep
<1>2. CASE Idle
  <2>1. kt_wchan' = kt_wchan \/ \E n : kt_wchan' = [kt_wchan EXCEPT ![n] = NULL]
    BY Zenon, <1>2 DEF Idle, IdleTest, intr_wait, Dispatch, Resume, Channel, queueVars
  <2>2. cpu # "run"
    BY Zenon, <1>2 DEF Idle, IdleTest, intr_wait
  <2>. QED BY Zenon, <2>1, <2>2, SchedAssumption DEF NoNewWaiter, SchedTypeOK
<1>3. ASSUME NEW q \in DevQ, Interrupt(q)
      PROVE  NoNewWaiter(kt_wchan, kt_wchan') /\ (cpu = "run" => curthr' = curthr /\ cpu' = "run")
  <2>1. CASE Wakeup(q, kt_state)
    <3>1. PICK s : s = kt_state
      BY Zenon
    <3>. QED BY Zenon, <1>3, <2>1, <3>1, WakeupWakes DEF Interrupt
  <2>2. CASE Broadcast(q)
    <3>1. \A t \in Thread : kt_wchan'[t] = kt_runq \/ kt_wchan'[t] = kt_wchan[t]
      BY Zenon, <2>2 DEF Broadcast
    <3>. QED BY Zenon, <1>3, <3>1, SchedAssumption DEF Interrupt, NoNewWaiter
  <2>. QED BY Zenon, <1>3, <2>1, <2>2 DEF Interrupt
<1>. QED BY Zenon, <1>1, <1>2, <1>3 DEF AnyInterrupt

(* A step that leaves the tree alone and makes nobody wait keeps Waits if  *)
(* the threads it moves were not waiting, and end up where Waits allows.   *)
LEMMA QuietWaits ==
  ASSUME ProcInv, Waits, Quiet, NoNewWaiter(kt_wchan, kt_wchan'),
         \A t \in Thread :
           /\ pc'[t].op = pc[t].op \/ kt_wchan[t] = NULL
           /\ pc'[t].op = "waitpid" => pc[t].op = "waitpid" \/ Len(p_children[t]) # 0
           /\ pc'[t].op # "closed"
           /\ pc'[t].op = "cleanup" =>
                t = curthr' /\ cpu' = "run" /\ kt_wchan'[p_pproc[t]] # p_wait[p_pproc[t]]
  PROVE  Waits'
<1>1. Procs' = Procs /\ UNCHANGED <<p_children, p_pproc, p_state, proc_initproc>> /\ Procs \subseteq Thread
  BY Zenon, ProcsAreThreads DEF Quiet, treeVars, Procs, ProcInv
<1>2. \A u \in Thread : p_wait[u] \in WaitQ \ DevQ /\ p_wait[u] # NULL
  BY Zenon, ProcAssumption, SchedAssumption
<1>3. \A t, u \in Thread : kt_wchan'[t] = p_wait[u] => kt_wchan[t] = p_wait[u]
  BY Zenon, <1>2 DEF NoNewWaiter
<1>4. \A t, u \in Thread : kt_wchan'[t] = p_wait[u] => t = u /\ pc'[t].op = "waitpid"
  BY <1>2, <1>3 DEF Waits
<1>5. \A t \in Procs : pc'[t].op = "waitpid" => Len(p_children[t]) # 0
  BY Zenon, <1>1 DEF Waits
<1>6. \A p \in Procs \ {proc_initproc} : kt_wchan'[p] = p_wait[p] =>
        \A i \in 1..Len(p_children[p]) : p_state[p_children[p][i]] = "PROC_RUNNING"
  BY <1>1, <1>3 DEF Waits
<1>. QED BY <1>1, <1>4, <1>5, <1>6 DEF Waits

(* The current thread, which is not dying, goes to x.                      *)
LEMMA MoveWaits ==
  ASSUME ProcInv, Waits, Quiet, cpu = "run", NoNewWaiter(kt_wchan, kt_wchan'),
         NEW x, pc' = [pc EXCEPT ![curthr] = x], pc[curthr].op # "cleanup",
         x.op # "closed", x.op = "waitpid" => Len(p_children[curthr]) # 0,
         x.op = "cleanup" =>
           /\ curthr' = curthr /\ cpu' = "run"
           /\ kt_wchan'[p_pproc[curthr]] # p_wait[p_pproc[curthr]]
  PROVE  Waits'
<1>1. curthr \in Thread /\ kt_wchan[curthr] = NULL /\ pc \in [Thread -> [op : Op, arg : Int \cup Status]]
  BY Zenon, Current DEF ProcInv, Places
<1>2. pc'[curthr] = x /\ \A t \in Thread \ {curthr} : pc'[t] = pc[t] /\ pc[t].op # "cleanup" /\ pc[t].op # "closed"
  BY Zenon, <1>1 DEF Waits
<1>3. \A t \in Thread :
           /\ pc'[t].op = pc[t].op \/ kt_wchan[t] = NULL
           /\ pc'[t].op = "waitpid" => pc[t].op = "waitpid" \/ Len(p_children[t]) # 0
           /\ pc'[t].op # "closed"
           /\ pc'[t].op = "cleanup" =>
                t = curthr' /\ cpu' = "run" /\ kt_wchan'[p_pproc[t]] # p_wait[p_pproc[t]]
  BY Zenon, <1>1, <1>2
<1>. QED BY Zenon, <1>3, QuietWaits

(* do_waitpid goes into its loop only with a child to wait for; the other  *)
(* system calls leave the wait queues of processes alone.                  *)
LEMMA CallWaits ==
  ASSUME ProcInv, Waits,
         (\E pid \in -1..(PROC_MAX_COUNT - 1) : do_waitpid(pid)) \/ proc_kill_all \/ OtherSyscall
  PROVE  Waits'
<1>1. cpu = "run" /\ stop = "none" /\ pc[curthr].op = "user" /\ Quiet
  BY Zenon DEF do_waitpid, proc_kill_all, OtherSyscall, Syscall, At, Quiet
<1>2. curthr \in Thread /\ kt_wchan[curthr] = NULL /\ SchedTypeOK
  BY Zenon, <1>1, Current DEF ProcInv, ProcSched, SchedBut
<1>3. NoNewWaiter(kt_wchan, kt_wchan')
  <2>1. CASE UNCHANGED schedVars
    BY Zenon, <2>1 DEF schedVars, NoNewWaiter
  <2>2. ASSUME NEW f, NEW l, NEW z, NEW q \in DevQ \cup {kt_runq},
               Switch(f, l, z, Channel(kt_wchan, q, curthr))
        PROVE  NoNewWaiter(kt_wchan, kt_wchan')
    <3>1. PICK w : w = Channel(kt_wchan, q, curthr)
      BY Zenon
    <3>2. w \in [Thread -> Queue \cup {NULL}] /\ \A t \in Thread : w[t] = kt_wchan[t] \/ w[t] = q
      BY Zenon, <1>2, <2>2, <3>1, SchedAssumption DEF Channel, SchedTypeOK, Queue
    <3>3. NoNewWaiter(w, kt_wchan')
      BY Zenon, <2>2, <3>1, <3>2, SwitchWakes
    <3>. QED BY Zenon, <2>2, <3>2, <3>3, SchedAssumption DEF NoNewWaiter
  <2>3. CASE thr_yield
    BY Zenon, <2>2, <2>3 DEF thr_yield
  <2>4. ASSUME NEW q \in DevQ, sched_sleep_on(q) \/ sched_cancellable_sleep_on(q)
        PROVE  NoNewWaiter(kt_wchan, kt_wchan')
    <3>1. CASE kt_wchan' = kt_wchan
      BY Zenon, <3>1 DEF NoNewWaiter
    <3>. QED BY Zenon, <2>2, <2>4, <3>1 DEF sched_sleep_on, sched_cancellable_sleep_on, SleepOn
  <2>. QED BY Zenon, <2>1, <2>3, <2>4 DEF do_waitpid, proc_kill_all, OtherSyscall
<1>4. PICK x : /\ pc' = [pc EXCEPT ![curthr] = x] /\ x.op \notin {"closed", "cleanup"}
               /\ x.op = "waitpid" => p_children[curthr] # << >>
  <2>1. \A o, a : PC(o, a).op = o
    BY Zenon DEF PC
  <2>2. \/ pc' = [pc EXCEPT ![curthr] = PC("kill", 1)]
        \/ pc' = [pc EXCEPT ![curthr] = PC("sysret", 0)]
        \/ \E pid : /\ pc' = [pc EXCEPT ![curthr] = PC("waitpid", pid)]
                    /\ p_children[curthr] # << >>
    <3>1. CASE proc_kill_all \/ OtherSyscall
      BY Zenon, <3>1 DEF proc_kill_all, OtherSyscall
    <3>2. ASSUME NEW pid, do_waitpid(pid)
          PROVE  \/ pc' = [pc EXCEPT ![curthr] = PC("sysret", 0)]
                 \/ /\ pc' = [pc EXCEPT ![curthr] = PC("waitpid", pid)]
                    /\ p_children[curthr] # << >>
      BY Zenon, <3>2 DEF do_waitpid
    <3>. QED BY Zenon, <3>1, <3>2
  <2>3. PICK x : /\ pc' = [pc EXCEPT ![curthr] = x]
                 /\ \/ x = PC("kill", 1) \/ x = PC("sysret", 0)
                    \/ (\E pid : x = PC("waitpid", pid)) /\ p_children[curthr] # << >>
    BY Zenon, <2>2
  <2>4. x.op \in {"kill", "sysret"} \/ (x.op = "waitpid" /\ p_children[curthr] # << >>)
    BY Zenon, <2>1, <2>3
  <2>. QED BY Zenon, <2>3, <2>4
<1>5. x.op = "waitpid" => Len(p_children[curthr]) # 0
  <2>1. p_children[curthr] \in Seq(Thread)
    BY Zenon, <1>2 DEF ProcInv, ProcTypeOK
  <2>. QED BY <1>4, <2>1
<1>. QED BY Zenon, <1>1, <1>3, <1>4, <1>5, MoveWaits

(* kthread_exit wakes the parent, which is the only thread that sleeps on  *)
(* its p_wait.                                                             *)
LEMMA ExitWaits ==
  ASSUME ProcInv, Waits, cpu = "run", stop = "none", curthr # idle, pc[curthr].op # "cleanup",
         NEW rv, KthreadExit(rv), Quiet
  PROVE  Waits'
<1> DEFINE u == p_pproc[curthr]
           q == p_wait[u]
<1>1. curthr \in Thread /\ u \in Thread /\ u # curthr /\ kt_wchan[curthr] = NULL
  <2>1. curthr \in Procs /\ curthr \in Thread /\ u \in Thread /\ kt_wchan[curthr] = NULL
    BY Zenon, Current, ProcsAreThreads DEF ProcInv, Tree
  <2>2. u # curthr
    <3>1. CASE curthr = proc_initproc
      BY Zenon, <2>1, <3>1 DEF ProcInv, Roots
    <3>2. CASE curthr # proc_initproc
      <4>1. {curthr} \in SUBSET (Procs \ {idle, proc_initproc})
        BY Zenon, <2>1, <3>2
      <4>. QED BY Zenon, <4>1 DEF ProcInv, Rooted
    <3>. QED BY Zenon, <3>1, <3>2
  <2>. QED BY Zenon, <2>1, <2>2
<1>2. SchedTypeOK /\ Linked(tq_list, kt_wchan)
  BY Zenon DEF ProcInv, ProcSched, SchedBut
<1>3. CASE rv = NULL
  <2>1. UNCHANGED <<schedVars, pc>>
    BY Zenon, <1>3 DEF KthreadExit
  <2>2. UNCHANGED <<kt_wchan, curthr, cpu, pc>>
    BY Zenon, <2>1 DEF schedVars
  <2>3. NoNewWaiter(kt_wchan, kt_wchan')
    BY Zenon, <2>2 DEF NoNewWaiter
  <2>. QED BY Zenon, <2>2, <2>3, QuietWaits DEF Waits
<1>4. CASE rv # NULL
  <2>1. PICK s : Wakeup(q, s)
    BY Zenon, <1>4 DEF KthreadExit, WakeParent
  <2>2. NoNewWaiter(kt_wchan, kt_wchan')
    <3>1. PICK q1 : q1 = q
      BY Zenon
    <3>. QED BY Zenon, <1>2, <2>1, <3>1, WakeupWakes
  <2>3. /\ pc' = [pc EXCEPT ![curthr] = PC("cleanup", rv)] /\ curthr' = curthr /\ cpu' = "run"
    BY Zenon, <1>4 DEF KthreadExit
  <2>4. q \in WaitQ \ DevQ /\ q # NULL /\ q \in Queue /\ q # kt_runq
    BY <1>1, ProcAssumption, SchedAssumption DEF Queue
  <2>5. kt_wchan'[u] # q
    <3> HIDE DEF u, q
    <3>1. CASE kt_wchan[u] # q
      BY Zenon, <1>1, <2>2, <2>4, <3>1 DEF NoNewWaiter
    <3>2. CASE kt_wchan[u] = q
      <4>1. PICK i \in 1..Len(tq_list[q]) : tq_list[q][i] = u
        BY Zenon, <1>1, <1>2, <2>4, <3>2 DEF Linked
      <4>2. tq_list[q] \in Seq(Thread) /\ tq_list[q] # << >>
        BY <1>2, <2>4, <4>1 DEF Linked
      <4>3. Head(tq_list[q]) = u
        <5>1. Head(tq_list[q]) = tq_list[q][1] /\ 1 \in 1..Len(tq_list[q]) /\ Head(tq_list[q]) \in Thread
          BY <4>2
        <5>2. kt_wchan[tq_list[q][1]] = q
          BY Zenon, <1>2, <2>4, <5>1 DEF Linked
        <5>3. \A t \in Thread : kt_wchan[t] = q => t = u
          BY <1>1 DEF Waits, q
        <5>. QED BY Zenon, <5>1, <5>2, <5>3
      <4>4. kt_wchan' = [[kt_wchan EXCEPT ![u] = NULL] EXCEPT ![u] = kt_runq]
        BY Zenon, <2>1, <4>2, <4>3 DEF Wakeup, sched_queue_empty, MakeRunnable, Channel
      <4>5. kt_wchan'[u] = kt_runq
        BY Zenon, <1>1, <1>2, <4>4 DEF SchedTypeOK
      <4>. QED BY Zenon, <2>4, <4>5
    <3>. QED BY Zenon, <3>1, <3>2
  <2>6. PICK x : x = PC("cleanup", rv)
    BY Zenon
  <2>7. x.op = "cleanup" /\ pc' = [pc EXCEPT ![curthr] = x]
    BY Zenon, <2>3, <2>6 DEF PC
  <2>. QED BY Zenon, <2>2, <2>3, <2>5, <2>7, MoveWaits
<1>. QED BY Zenon, <1>3, <1>4

(* The system call handler and proc_kill.                                  *)
LEMMA HandlerWaits ==
  ASSUME ProcInv, Waits, syscall_handler \/ proc_kill \/ \E status \in Status : do_exit(status)
  PROVE  Waits'
<1>1. /\ cpu = "run" /\ stop = "none" /\ pc[curthr].op \in {"user", "sysret", "kill"} /\ Quiet
  BY Zenon DEF syscall_handler, proc_kill, do_exit, Syscall, At, Quiet
<1>2. curthr \in Thread /\ curthr # idle
  BY Zenon, <1>1, Current
<1>3. ASSUME NEW rv, KthreadExit(rv) PROVE Waits'
  BY Zenon, <1>1, <1>2, <1>3, ExitWaits
<1>4. ASSUME NEW x, pc' = [pc EXCEPT ![curthr] = x], x.op \in {"user", "sysret", "kill"},
             UNCHANGED kt_wchan
      PROVE  Waits'
  <2>1. NoNewWaiter(kt_wchan, kt_wchan')
    BY Zenon, <1>4 DEF NoNewWaiter
  <2>. QED BY Zenon, <1>1, <1>4, <2>1, MoveWaits
<1>5. CASE syscall_handler
  <2>1. CASE pc' = [pc EXCEPT ![curthr] = PC("user", 0)] /\ UNCHANGED schedVars
    <3>1. PICK x : x = PC("user", 0)
      BY Zenon
    <3>. QED BY Zenon, <1>4, <2>1, <3>1 DEF PC, schedVars
  <2>. QED BY Zenon, <1>3, <1>5, <2>1 DEF syscall_handler
<1>6. CASE proc_kill
  <2> DEFINE i == pc[curthr].arg
  <2>1. [pc EXCEPT ![curthr].arg = i + 1] = [pc EXCEPT ![curthr] = PC(pc[curthr].op, i + 1)]
    BY Zenon, <1>2, PlaceFields
  <2>2. PICK x, y : x = PC("sysret", 0) /\ y = PC(pc[curthr].op, i + 1)
    BY Zenon
  <2>3. x.op = "sysret" /\ y.op = pc[curthr].op
    BY Zenon, <2>2 DEF PC
  <2>4. CASE (\E rv : KthreadExit(rv))
    BY Zenon, <1>3, <2>4
  <2>5. CASE /\ pc' = [pc EXCEPT ![curthr] = PC("sysret", 0)] \/ pc' = [pc EXCEPT ![curthr].arg = i + 1]
             /\ UNCHANGED kt_wchan
    <3>1. pc' = [pc EXCEPT ![curthr] = x] \/ pc' = [pc EXCEPT ![curthr] = y]
      BY Zenon, <2>1, <2>2, <2>5
    <3>. QED BY Zenon, <1>1, <1>4, <2>3, <2>5, <3>1
  <2>6. (\E rv : KthreadExit(rv)) \/ (/\ pc' = [pc EXCEPT ![curthr] = PC("sysret", 0)] \/ pc' = [pc EXCEPT ![curthr].arg = i + 1]
             /\ UNCHANGED kt_wchan)
    BY Zenon, <1>6 DEF proc_kill, sched_cancel, schedVars
  <2>. QED BY Zenon, <2>4, <2>5, <2>6
<1>7. CASE \E status \in Status : do_exit(status)
  BY Zenon, <1>3, <1>7 DEF do_exit
<1>. QED BY Zenon, <1>5, <1>6, <1>7

(* The machine's steps.                                                    *)
LEMMA MachineWaits == ASSUME ProcInv, Waits, Machine PROVE Waits'
<1>1. Quiet /\ UNCHANGED pc
  BY Zenon DEF Machine, procVars, Quiet, treeVars
<1>2. NoNewWaiter(kt_wchan, kt_wchan') /\ (cpu = "run" => curthr' = curthr /\ cpu' = "run")
  BY Zenon, MachineWakes DEF Machine, ProcInv, ProcSched, SchedBut
<1>3. ASSUME NEW t \in Thread, pc[t].op = "cleanup"
      PROVE  kt_wchan'[p_pproc[t]] # p_wait[p_pproc[t]]
  <2>1. t = curthr /\ cpu = "run" /\ kt_wchan[p_pproc[t]] # p_wait[p_pproc[t]] /\ stop = "none"
    BY Zenon, <1>3 DEF Waits, Machine
  <2>2. t \in Procs \ {idle}
    BY Zenon, <1>3, <2>1, Current
  <2>3. p_pproc[t] \in Thread
    BY Zenon, <2>2, ProcsAreThreads DEF ProcInv, Tree
  <2>4. p_wait[p_pproc[t]] \in WaitQ \ DevQ
    BY Zenon, <2>3, ProcAssumption
  <2>. QED BY Zenon, <1>2, <2>1, <2>3, <2>4 DEF NoNewWaiter
<1>. QED BY Zenon, <1>1, <1>2, <1>3, QuietWaits DEF Waits

(* A new process: its parent has the CPU.                                  *)
LEMMA SpawnWaits ==
  ASSUME ProcInv, ProcInv', Waits, cpu = "run", stop = "none", NEW c \in Thread, NEW next, Spawn(c, next),
         pc[curthr].op \in {"boot", "user"}, next.op \in {"waitpid", "user"}
  PROVE  Waits'
<1>1. /\ curthr \in Thread /\ curthr \in Procs /\ kt_wchan[curthr] = NULL /\ c \notin Procs /\ c # curthr
      /\ Procs \subseteq Thread /\ SchedTypeOK
  BY Zenon, Current, ProcsAreThreads DEF ProcInv, ProcSched, SchedBut, Spawn, proc_create
<1>2. Procs' = Procs \cup {c}
  BY Zenon, SpawnTree DEF Spawn
<1>3. /\ kt_wchan' = [kt_wchan EXCEPT ![c] = kt_runq] /\ kt_wchan[c] = NULL
      /\ pc' = [pc EXCEPT ![c] = PC("user", 0), ![curthr] = next]
      /\ p_pproc' = [p_pproc EXCEPT ![c] = curthr]
      /\ p_state' = [p_state EXCEPT ![c] = "PROC_RUNNING"]
      /\ p_children' = [p_children EXCEPT ![curthr] = Append(@, c), ![c] = << >>]
      /\ proc_initproc' \in {proc_initproc, c}
  BY Zenon DEF Spawn, proc_create, MakeRunnable, Channel
<1>4. \A t \in Thread : kt_wchan'[t] = IF t = c THEN kt_runq ELSE kt_wchan[t]
  BY Zenon, <1>1, <1>3 DEF SchedTypeOK
<1>5. pc \in [Thread -> [op : Op, arg : Int \cup Status]]
  BY Zenon DEF ProcInv, Places
<1>6. /\ \A t \in Thread \ {c, curthr} : pc'[t] = pc[t]
      /\ pc'[c].op = "user" /\ pc'[curthr] = next
  <2>1. PICK y : y = PC("user", 0)
    BY Zenon
  <2>2. pc' = [pc EXCEPT ![c] = y, ![curthr] = next] /\ y.op = "user"
    BY Zenon, <1>3, <2>1 DEF PC
  <2>. QED BY Zenon, <1>1, <1>5, <2>2
<1>7. \A t \in Thread \ {c, curthr} : p_children'[t] = p_children[t]
  BY Zenon, <1>3 DEF ProcInv, ProcTypeOK
<1>8. Len(p_children'[curthr]) # 0
  <2>1. p_children[curthr] \in Seq(Thread) /\ p_children \in [Thread -> Seq(Thread)]
    BY Zenon, <1>1 DEF ProcInv, ProcTypeOK
  <2>2. PICK l, e : l = Append(p_children[curthr], c) /\ e = << >>
    BY Zenon
  <2>3. p_children' = [p_children EXCEPT ![curthr] = l, ![c] = e] /\ Len(l) # 0
    BY <1>3, <2>1, <2>2
  <2>4. p_children'[curthr] = l
    BY Zenon, <1>1, <2>1, <2>3
  <2>. QED BY Zenon, <2>3, <2>4
<1>9. \A u \in Thread : p_wait[u] # kt_runq /\ p_wait[u] # NULL
  BY ProcAssumption, SchedAssumption
<1>10. \A t, u \in Thread : kt_wchan'[t] = p_wait[u] => t = u /\ pc'[t].op = "waitpid" /\ t \notin {c, curthr}
  BY <1>1, <1>4, <1>6, <1>9 DEF Waits
<1>11. \A t \in Procs' : pc'[t].op = "waitpid" => Len(p_children'[t]) # 0
  BY <1>1, <1>2, <1>6, <1>7, <1>8 DEF Waits
<1>12. \A t \in Thread : pc'[t].op # "closed" /\ pc'[t].op # "cleanup"
  BY <1>1, <1>6 DEF Waits
<1>13. ASSUME NEW p \in Procs' \ {proc_initproc'}, kt_wchan'[p] = p_wait[p], NEW i \in 1..Len(p_children'[p])
       PROVE  p_state'[p_children'[p][i]] = "PROC_RUNNING"
  <2>1. p \in Thread /\ p \notin {c, curthr}
    BY Zenon, <1>1, <1>2, <1>10, <1>13
  <2>2. p \in Procs /\ kt_wchan[p] = p_wait[p] /\ p_children'[p] = p_children[p]
    BY Zenon, <1>1, <1>2, <1>4, <1>7, <1>13, <2>1
  <2>3. PICK k : k = p_children[p][i]
    BY Zenon
  <2>4. k \in Procs /\ p_children'[p][i] = k
    BY Zenon, <1>13, <2>1, <2>2, <2>3 DEF ProcInv, Tree
  <2>5. p # proc_initproc
    <3> SUFFICES ASSUME p = proc_initproc PROVE FALSE
      BY Zenon
    <3>1. Procs # {idle} /\ p_pid[p] = PID_INIT
      BY Zenon, <1>1, <2>1, <2>2 DEF ProcInv, Roots
    <3>2. PICK pid \in -1..(PROC_MAX_COUNT - 1) :
            proc_getid(pid) /\ proc_initproc' = IF pid = PID_INIT THEN c ELSE proc_initproc
      BY Zenon DEF Spawn, proc_create
    <3>3. pid # -1 => \A r \in Procs : p_pid[r] # pid
      BY Zenon, <3>2, GetId DEF ProcInv
    <3>4. PID_INIT # -1
      BY DEF PID_INIT
    <3>5. proc_initproc' = proc_initproc
      BY Zenon, <2>2, <3>1, <3>2, <3>3, <3>4
    <3>. QED BY Zenon, <1>13, <3>5
  <2>6. p_state[k] = "PROC_RUNNING"
    <3>1. \A j \in 1..Len(p_children[p]) : p_state[p_children[p][j]] = "PROC_RUNNING"
      BY Zenon, <1>13, <2>2, <2>5 DEF Waits
    <3>. QED BY Zenon, <1>13, <2>2, <2>3, <3>1
  <2>7. k # c /\ k \in Thread
    BY Zenon, <1>1, <2>4
  <2>. QED BY Zenon, <1>3, <2>4, <2>6, <2>7 DEF ProcInv, ProcTypeOK
<1>. QED BY <1>10, <1>11, <1>12, <1>13 DEF Waits

(* A step that changes neither the tree, nor the places in the code, nor   *)
(* the scheduler.                                                          *)
LEMMA StayWaits ==
  ASSUME ProcInv, Waits, Quiet, UNCHANGED <<schedVars, pc>>
  PROVE  Waits'
<1>1. Procs' = Procs /\ UNCHANGED <<p_children, p_pproc, p_state, proc_initproc, kt_wchan, curthr, cpu>>
  BY Zenon DEF Quiet, treeVars, Procs, schedVars
<1>. QED BY <1>1 DEF Waits

(* proc_cleanup: the parent of the process that dies does not sleep.       *)
LEMMA CleanupWaits == ASSUME ProcInv, Waits, proc_cleanup PROVE Waits'
<1> DEFINE mine == {p_children[curthr][i] : i \in DOMAIN p_children[curthr]}
<1>1. /\ cpu = "run" /\ stop = "none" /\ pc[curthr].op \in {"cleanup", "closed"}
      /\ UNCHANGED <<next_pid, proc_initproc, p_pid, kt_retval>>
  BY Zenon DEF proc_cleanup, At
<1>2. /\ curthr \in Thread /\ curthr \in Procs \ {idle} /\ proc_initproc \in Procs \ {idle}
      /\ Procs \subseteq Thread /\ kt_wchan[curthr] = NULL
  BY Zenon, <1>1, Current, ProcsAreThreads DEF ProcInv
<1>3. CASE UNCHANGED <<schedVars, treeVars, p_state, pc>>
  BY Zenon, <1>1, <1>3, StayWaits DEF Quiet
<1>4. CASE /\ Reparent(mine)
           /\ p_state' = [p_state EXCEPT ![curthr] = "PROC_DEAD"]
           /\ pc' = [pc EXCEPT ![curthr] = PC("dead", 0)]
           /\ LeaveForGood
           /\ UNCHANGED proc_list
  <2>1. Procs' = Procs
    BY Zenon, <1>4 DEF Procs
  <2>2. NoNewWaiter(kt_wchan, kt_wchan')
    <3>1. PICK l, z, w : l = tq_list /\ z = tq_size /\ w = kt_wchan
      BY Zenon
    <3>2. w \in [Thread -> Queue \cup {NULL}]
      BY Zenon, <3>1 DEF ProcInv, ProcSched, SchedBut, SchedTypeOK
    <3>3. Switch("sched_switch", l, z, w)
      BY Zenon, <1>4, <3>1 DEF LeaveForGood
    <3>. QED BY Zenon, <3>1, <3>2, <3>3, SwitchWakes
  <2>3. \A u \in Thread : p_wait[u] \in WaitQ \ DevQ /\ p_wait[u] # NULL
    BY ProcAssumption, SchedAssumption
  <2>4. \A t, u \in Thread : kt_wchan'[t] = p_wait[u] => kt_wchan[t] = p_wait[u] /\ t # curthr
    BY Zenon, <1>2, <2>2, <2>3 DEF NoNewWaiter
  <2>5. pc'[curthr].op = "dead" /\ \A t \in Thread \ {curthr} : pc'[t] = pc[t]
    <3>1. PICK y : y = PC("dead", 0)
      BY Zenon
    <3>2. pc' = [pc EXCEPT ![curthr] = y] /\ y.op = "dead" /\ pc \in [Thread -> [op : Op, arg : Int \cup Status]]
      BY Zenon, <1>4, <3>1 DEF PC, ProcInv, Places
    <3>. QED BY Zenon, <1>2, <3>2
  <2>6. /\ \A t \in Thread \ {curthr, proc_initproc} : p_children'[t] = p_children[t]
        /\ curthr # proc_initproc =>
             p_children'[proc_initproc] = p_children[proc_initproc] \o p_children[curthr]
    <3>1. p_children \in [Thread -> Seq(Thread)] /\ proc_initproc \in Thread
      BY Zenon, <1>2 DEF ProcInv, ProcTypeOK
    <3>2. PICK l, e : l = p_children[proc_initproc] \o p_children[curthr] /\ e = << >>
      BY Zenon
    <3>3. p_children' = [p_children EXCEPT ![proc_initproc] = l, ![curthr] = e]
      BY Zenon, <1>4, <3>2 DEF Reparent
    <3>. QED BY Zenon, <1>2, <3>1, <3>2, <3>3
  <2>7. \A t, u \in Thread : kt_wchan'[t] = p_wait[u] => t = u /\ pc'[t].op = "waitpid"
    BY <2>4, <2>5 DEF Waits
  <2>8. ASSUME NEW t \in Procs, pc'[t].op = "waitpid" PROVE Len(p_children'[t]) # 0
    <3>1. t # curthr /\ t \in Thread /\ Len(p_children[t]) # 0
      BY Zenon, <1>2, <2>5, <2>8 DEF Waits
    <3>2. p_children[t] \in Seq(Thread) /\ p_children[curthr] \in Seq(Thread)
      BY Zenon, <1>2, <3>1 DEF ProcInv, ProcTypeOK
    <3>3. CASE t = proc_initproc
      <4>1. p_children'[t] = p_children[t] \o p_children[curthr]
        BY Zenon, <2>6, <3>1, <3>3
      <4>2. \A a, b \in Seq(Thread) : Len(a) # 0 => Len(a \o b) # 0
        OBVIOUS
      <4>. QED BY Zenon, <3>1, <3>2, <4>1, <4>2
    <3>. QED BY Zenon, <2>6, <3>1, <3>3
  <2>9. \A t \in Thread : pc'[t].op # "closed" /\ pc'[t].op # "cleanup"
    BY Zenon, <2>5 DEF Waits
  <2>10. ASSUME NEW p \in Procs \ {proc_initproc}, kt_wchan'[p] = p_wait[p], NEW i \in 1..Len(p_children'[p])
         PROVE  p_state'[p_children'[p][i]] = "PROC_RUNNING"
    <3>1. p \in Thread /\ p # curthr /\ kt_wchan[p] = p_wait[p] /\ p_children'[p] = p_children[p]
      BY Zenon, <1>2, <2>4, <2>6, <2>10
    <3>2. PICK k : k = p_children[p][i]
      BY Zenon
    <3>3. k \in Procs /\ p_pproc[k] = p /\ p_state[k] = "PROC_RUNNING"
      <4>1. Tree /\ i \in 1..Len(p_children[p])
        BY Zenon, <2>10, <3>1 DEF ProcInv
      <4>2. k \in Procs /\ p_pproc[k] = p
        BY Zenon, <3>1, <3>2, <4>1 DEF Tree
      <4>3. p_state[k] = "PROC_RUNNING"
        BY ZenonT(60), <2>10, <3>1, <3>2, <4>1 DEF Waits
      <4>. QED BY Zenon, <4>2, <4>3
    <3>4. k # curthr
      BY Zenon, <1>1, <1>2, <3>1, <3>3 DEF Waits
    <3>. QED BY Zenon, <1>2, <1>4, <3>1, <3>2, <3>3, <3>4 DEF ProcInv, ProcTypeOK
  <2>. QED BY Zenon, <1>1, <2>1, <2>7, <2>8, <2>9, <2>10 DEF Waits
<1>5. \/ UNCHANGED <<schedVars, treeVars, p_state, p_status, pc>>
      \/ /\ Reparent(mine)
         /\ p_state' = [p_state EXCEPT ![curthr] = "PROC_DEAD"]
         /\ pc' = [pc EXCEPT ![curthr] = PC("dead", 0)]
         /\ LeaveForGood
         /\ UNCHANGED <<kt_state, proc_list, stop>>
  BY Zenon DEF proc_cleanup
<1>. QED BY Zenon, <1>3, <1>4, <1>5

(* do_waitpid goes to sleep only when no child is dead.                    *)
LEMMA SleepWaits ==
  ASSUME ProcInv, Waits, At("waitpid"),
         \A i \in DOMAIN p_children[curthr] : p_state[p_children[curthr][i]] # "PROC_DEAD",
         sched_sleep_on(p_wait[curthr]), UNCHANGED pc, Quiet
  PROVE  Waits'
<1>1. /\ cpu = "run" /\ pc[curthr].op = "waitpid" /\ curthr \in Thread /\ curthr \in Procs
      /\ Procs \subseteq Thread /\ kt_wchan[curthr] = NULL /\ SchedTypeOK
      /\ p_children[curthr] \in Seq(Thread)
  BY Zenon, Current, ProcsAreThreads DEF At, ProcInv, ProcTypeOK, ProcSched, SchedBut
<1>2. \A i \in 1..Len(p_children[curthr]) : p_state[p_children[curthr][i]] # "PROC_DEAD"
  BY <1>1
<1>3. \A i \in 1..Len(p_children[curthr]) : p_state[p_children[curthr][i]] = "PROC_RUNNING"
  <2>1. \A i \in 1..Len(p_children[curthr]) : p_children[curthr][i] \in Procs
    BY Zenon, <1>1 DEF ProcInv, Tree
  <2>2. \A p \in Thread : p_state[p] \in {"PROC_RUNNING", "PROC_DEAD"}
    BY Zenon DEF ProcInv, ProcTypeOK
  <2>. QED BY Zenon, <1>1, <1>2, <2>1, <2>2
<1>4. PICK w : w = Channel(kt_wchan, p_wait[curthr], curthr)
  BY Zenon
<1>5. \A u \in Thread : /\ p_wait[u] \in WaitQ \ DevQ /\ p_wait[u] # NULL
                        /\ p_wait[u] = p_wait[curthr] => u = curthr
  BY Zenon, <1>1, ProcAssumption, SchedAssumption
<1>6. /\ w \in [Thread -> Queue \cup {NULL}]
      /\ \A t \in Thread : w[t] = IF t = curthr THEN p_wait[curthr] ELSE kt_wchan[t]
  BY Zenon, <1>1, <1>4, <1>5 DEF Channel, SchedTypeOK, Queue
<1>7. NoNewWaiter(w, kt_wchan')
  BY Zenon, <1>4, <1>6, SwitchWakes DEF sched_sleep_on, SleepOn
<1>8. \A t, u \in Thread : kt_wchan'[t] = p_wait[u] =>
        (t = curthr /\ u = curthr) \/ (t # curthr /\ kt_wchan[t] = p_wait[u])
  BY Zenon, <1>5, <1>6, <1>7 DEF NoNewWaiter
<1>9. Procs' = Procs /\ UNCHANGED <<p_children, p_pproc, p_state, proc_initproc>>
  BY Zenon DEF Quiet, treeVars, Procs
<1>10. ASSUME NEW t \in Thread, NEW u \in Thread, kt_wchan'[t] = p_wait[u]
       PROVE  t = u /\ pc[t].op = "waitpid"
  <2>1. CASE t = curthr /\ u = curthr
    BY Zenon, <1>1, <2>1
  <2>2. CASE kt_wchan[t] = p_wait[u]
    BY Zenon, <2>2 DEF Waits
  <2>. QED BY Zenon, <1>8, <1>10, <2>1, <2>2
<1>11. \A t \in Thread : pc[t].op # "closed" /\ pc[t].op # "cleanup"
  BY Zenon, <1>1 DEF Waits
<1>12. \A p \in Procs \ {proc_initproc} : kt_wchan'[p] = p_wait[p] =>
         \A i \in 1..Len(p_children[p]) : p_state[p_children[p][i]] = "PROC_RUNNING"
  <2>1. ASSUME NEW p \in Procs \ {proc_initproc}, kt_wchan'[p] = p_wait[p], p # curthr
        PROVE  \A i \in 1..Len(p_children[p]) : p_state[p_children[p][i]] = "PROC_RUNNING"
    <3>1. kt_wchan[p] = p_wait[p]
      BY Zenon, <1>1, <1>8, <2>1
    <3>. QED BY Zenon, <2>1, <3>1 DEF Waits
  <2>. QED BY Zenon, <1>3, <2>1
<1>. QED BY Zenon, <1>9, <1>10, <1>11, <1>12 DEF Waits

(* do_waitpid, one turn of its loop: it sleeps, or disposes of a child.    *)
LEMMA ScanWaits == ASSUME ProcInv, Waits, waitpid_scan PROVE Waits'
<1>1. /\ cpu = "run" /\ stop = "none" /\ pc[curthr].op = "waitpid" /\ At("waitpid")
      /\ UNCHANGED <<next_pid, proc_initproc, p_pid, p_state>>
  BY Zenon DEF waitpid_scan, At
<1>2. /\ curthr \in Thread /\ curthr \in Procs /\ kt_wchan[curthr] = NULL
      /\ Procs \subseteq Thread /\ p_children \in [Thread -> Seq(Thread)]
  BY Zenon, <1>1, Current, ProcsAreThreads DEF ProcInv, ProcTypeOK
<1>3. ASSUME \A i \in DOMAIN p_children[curthr] : p_state[p_children[curthr][i]] # "PROC_DEAD",
             sched_sleep_on(p_wait[curthr]), UNCHANGED <<treeVars, pc>>
      PROVE  Waits'
  BY Zenon, <1>1, <1>3, SleepWaits DEF Quiet
<1>4. ASSUME NEW i \in DOMAIN p_children[curthr], FirstDead(i), Reap(i) PROVE Waits'
  <2>1. PICK c : c = p_children[curthr][i]
    BY Zenon
  <2>2. i \in 1..Len(p_children[curthr]) /\ p_state[c] = "PROC_DEAD"
    BY <1>2, <1>4, <2>1 DEF FirstDead
  <2>3. CASE UNCHANGED <<schedVars, treeVars, pc>>
    BY Zenon, <1>1, <2>3, StayWaits DEF Quiet
  <2>4. CASE /\ p_children' = [p_children EXCEPT ![curthr] = list_remove_at(@, i)]
             /\ proc_list' = list_remove(proc_list, c)
             /\ p_pproc' = [p_pproc EXCEPT ![c] = NULL]
             /\ pc' = [pc EXCEPT ![c] = PC("none", 0), ![curthr] = PC("sysret", 0)]
             /\ UNCHANGED <<kt_wchan, curthr, cpu>>
    <3>1. Procs' = Procs \ {c} /\ c \in Procs
      BY ZenonT(60), <1>1, <2>1, <2>2, <2>4, ReapTree
    <3>2. c # curthr /\ c \in Thread
      BY Zenon, <1>1, <1>2, <2>2, <3>1, Current
    <3>3. /\ pc'[c].op = "none" /\ pc'[curthr].op = "sysret"
          /\ \A t \in Thread \ {c, curthr} : pc'[t] = pc[t]
      <4>1. PICK x, y : x = PC("sysret", 0) /\ y = PC("none", 0)
        BY Zenon
      <4>2. x.op = "sysret" /\ y.op = "none" /\ pc' = [pc EXCEPT ![c] = y, ![curthr] = x]
        BY Zenon, <2>4, <4>1 DEF PC
      <4>3. pc \in [Thread -> [op : Op, arg : Int \cup Status]]
        BY Zenon DEF ProcInv, Places
      <4>. QED BY Zenon, <1>2, <3>2, <4>2, <4>3
    <3>4. \A t \in Thread \ {curthr} : p_children'[t] = p_children[t]
      BY Zenon, <1>2, <2>4
    <3>5. kt_wchan[c] = NULL
      <4>1. c \in Off
        BY Zenon, <2>2, <3>2 DEF Off
      <4>. QED BY Zenon, <3>2, <4>1 DEF ProcInv, ProcSched, SchedBut, Placed
    <3>6. \A u \in Thread : p_wait[u] # NULL
      BY ProcAssumption, SchedAssumption
    <3>7. \A t, u \in Thread : kt_wchan[t] = p_wait[u] =>
            t = u /\ pc'[t].op = "waitpid" /\ t \notin {c, curthr}
      <4>1. \A t, u \in Thread : kt_wchan[t] = p_wait[u] => t \notin {c, curthr}
        BY Zenon, <1>2, <3>5, <3>6
      <4>2. \A t, u \in Thread : kt_wchan[t] = p_wait[u] => t = u /\ pc[t].op = "waitpid"
        BY Zenon DEF Waits
      <4>. QED BY <3>3, <4>1, <4>2
    <3>8. \A t \in Procs \ {c} : pc'[t].op = "waitpid" => Len(p_children'[t]) # 0
      <4>1. \A t \in Procs \ {c} : pc'[t].op = "waitpid" => t \in Thread \ {c, curthr}
        BY Zenon, <1>2, <3>3
      <4>2. \A t \in Procs : pc[t].op = "waitpid" => Len(p_children[t]) # 0
        BY Zenon DEF Waits
      <4>. QED BY <3>3, <3>4, <4>1, <4>2
    <3>9. \A t \in Thread : pc'[t].op # "closed" /\ pc'[t].op # "cleanup"
      BY Zenon, <1>1, <3>3 DEF Waits
    <3>10. \A p \in Procs \ {c, proc_initproc} : kt_wchan[p] = p_wait[p] =>
             \A k \in 1..Len(p_children'[p]) : p_state[p_children'[p][k]] = "PROC_RUNNING"
      BY <1>2, <3>4, <3>7 DEF Waits
    <3>11. UNCHANGED <<kt_wchan, p_state, proc_initproc>>
      BY Zenon, <1>1, <2>4
    <3>12. \A t, u \in Thread : kt_wchan'[t] = p_wait[u] => t = u /\ pc'[t].op = "waitpid"
      BY Zenon, <3>7, <3>11
    <3>13. \A p \in Procs' \ {proc_initproc'} : kt_wchan'[p] = p_wait[p] =>
             \A k \in 1..Len(p_children'[p]) : p_state'[p_children'[p][k]] = "PROC_RUNNING"
      BY Zenon, <3>1, <3>10, <3>11
    <3>14. \A t \in Procs' : pc'[t].op = "waitpid" => Len(p_children'[t]) # 0
      BY Zenon, <3>1, <3>8
    <3>. QED BY Zenon, <3>9, <3>12, <3>13, <3>14 DEF Waits
  <2>. QED BY Zenon, <1>4, <2>1, <2>3, <2>4 DEF Reap
<1>. QED BY Zenon, <1>3, <1>4 DEF waitpid_scan
=============================================================================
