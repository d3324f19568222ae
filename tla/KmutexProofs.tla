---------------------------- MODULE KmutexProofs ----------------------------
(***************************************************************************)
(* Proofs about Kmutex, for any set of threads, queues and mutexes.        *)
(*                                                                         *)
(* Every step of the mutexes is a step of the scheduler or leaves the      *)
(* scheduler alone, so the scheduler's invariant carries over.  The        *)
(* mutexes' own invariant speaks of wait channels only (which thread waits *)
(* for which mutex); the queues enter through the scheduler's invariant.   *)
(***************************************************************************)
EXTENDS Kmutex, SchedProofs

(* A thread on a mutex's queue is inside kmutex_lock for that mutex and    *)
(* sleeps without being cancellable, and the mutex has a holder.           *)
Waits ==
  \A t \in Thread : \A m \in Mutex : kt_wchan[t] = m =>
    /\ call[t] = LockCall("kmutex_lock", m)
    /\ kt_state[t] = "KT_SLEEP"
    /\ km_holder[m] # NULL

(* A thread inside a lock call is inside kmutex_lock for a mutex.          *)
Calls ==
  \A t \in Thread :
    call[t] # NoCall => \E m \in Mutex : call[t] = LockCall("kmutex_lock", m)

(* sched_cancel never works on a thread that waits for a mutex.            *)
CancelsNoWaiter == cpu = "cancel" => kt_wchan[cancel.thr] \notin Mutex

(* The inductive invariant of the mutexes.                                 *)
KmutexInv ==
  /\ SchedInv
  /\ KmutexTypeOK
  /\ Waits
  /\ Calls
  /\ CancelsNoWaiter
  /\ WaiterIsQueued
  /\ HoldsWhatItLocked
  /\ HolderIsOnItsWay

(* A step that neither puts a thread on a mutex's queue nor takes one off. *)
Undisturbed ==
  \A t \in Thread : \A m \in Mutex :
    /\ kt_wchan'[t] = m <=> kt_wchan[t] = m
    /\ kt_wchan[t] = m => kt_state'[t] = kt_state[t]

(* The only thread the context switch takes off a queue gets kt_wchan      *)
(* NULL: sched_switch puts nobody on a queue.                              *)
LEMMA SwitchArrivals ==
  ASSUME NEW f, NEW l, NEW z, NEW w \in [Thread -> Queue \cup {NULL}],
         Switch(f, l, z, w)
  PROVE  \A t \in Thread : kt_wchan'[t] \in {w[t], NULL}
BY Zenon DEF Switch, Dispatch, Resume, Channel, EnterIdle

(* curthr going to sleep on q changes the waiters of q only.               *)
LEMMA SleepArrivals ==
  ASSUME SchedInv, cpu = "run", NEW q \in WaitQ,
         NEW f \in Frame, NEW s \in Asleep, SleepOn(f, q, s)
  PROVE  /\ SchedInv'
         /\ cpu' # "cancel"
         /\ kt_wchan'[curthr] = q
         /\ kt_state' = [kt_state EXCEPT ![curthr] = s]
         /\ \A t \in Thread \ {curthr} :
              /\ kt_wchan[t] \in WaitQ => kt_wchan'[t] = kt_wchan[t]
              /\ kt_wchan'[t] \in {kt_wchan[t], NULL}
<1> DEFINE l == EnqueueList(tq_list, q, curthr)
           z == EnqueueSize(tq_size, q)
           w == Channel(kt_wchan, q, curthr)
<1>1. /\ curthr \in Thread /\ q \in Queue /\ q # NULL /\ q # kt_runq
      /\ kt_wchan[curthr] = NULL
      /\ w = [kt_wchan EXCEPT ![curthr] = q]
      /\ w \in [Thread -> Queue \cup {NULL}]
      /\ Switch(f, l, z, w)
      /\ kt_state' = [kt_state EXCEPT ![curthr] = s]
      /\ kt_wchan \in [Thread -> Queue \cup {NULL}]
  BY Zenon, SchedAssumption DEF SleepOn, SchedInv, SchedTypeOK, Queue, Channel
<1>2. SchedInv' /\ WaitersStay(kt_wchan)
  BY Zenon, SleepInv
<1>3. cpu' # "cancel"
  BY Zenon, <1>1 DEF Switch, Dispatch, Resume, EnterIdle
<1>4. \A t \in Thread : kt_wchan'[t] \in {w[t], NULL}
  <2> HIDE DEF l, z, w
  <2>. QED BY ZenonT(60), <1>1, SwitchArrivals
<1>5. kt_wchan'[curthr] = q
  <2>1. kt_state'[curthr] = s
    BY Zenon, <1>1 DEF SchedInv, SchedTypeOK
  <2>2. kt_wchan'[curthr] = q \/ kt_wchan'[curthr] = NULL
    BY Zenon, <1>1, <1>4
  <2>3. kt_wchan'[curthr] # NULL
    <3>1. l[kt_runq] = tq_list[kt_runq]
      BY <1>1 DEF EnqueueList, SchedInv, SchedTypeOK
    <3>2. \/ kt_wchan' = w
          \/ /\ tq_list[kt_runq] # << >>
             /\ kt_wchan' = Channel(w, NULL, Head(tq_list[kt_runq]))
      BY Zenon, <1>1, <3>1 DEF Switch, Dispatch, Resume, EnterIdle
    <3>3. CASE kt_wchan' = w
      BY Zenon, <1>1, <3>3
    <3>4. CASE /\ tq_list[kt_runq] # << >>
               /\ kt_wchan' = Channel(w, NULL, Head(tq_list[kt_runq]))
      <4>1. kt_runq \in Queue /\ kt_runq # NULL /\ Linked(tq_list, kt_wchan)
        BY Zenon, SchedAssumption DEF SchedInv, Queue
      <4>2. kt_wchan[Head(tq_list[kt_runq])] = kt_runq
        BY ZenonT(60), <3>4, <4>1, DequeueLinked
      <4>. QED BY Zenon, <1>1, <3>4, <4>1, <4>2 DEF Channel
    <3>. QED BY Zenon, <3>2, <3>3, <3>4
  <2>. QED BY Zenon, <2>2, <2>3
<1>6. \A t \in Thread \ {curthr} : w[t] = kt_wchan[t]
  BY Zenon, <1>1
<1>. QED BY Zenon, <1>1, <1>2, <1>3, <1>4, <1>5, <1>6 DEF WaitersStay

(* A step that leaves the mutexes and their queues alone preserves the     *)
(* invariant.                                                              *)
LEMMA UndisturbedInv ==
  ASSUME KmutexInv, SchedInv', Undisturbed, CancelsNoWaiter', UNCHANGED kmutexVars
  PROVE  KmutexInv'
<1>1. /\ km_holder' = km_holder /\ call' = call /\ held' = held
  BY Zenon DEF kmutexVars
<1>2. KmutexTypeOK' /\ Calls' /\ HoldsWhatItLocked'
  BY Zenon, <1>1 DEF KmutexInv, KmutexTypeOK, Calls, HoldsWhatItLocked
<1>3. Waits'
  BY <1>1 DEF KmutexInv, Waits, Undisturbed
<1>4. WaiterIsQueued'
  <2> SUFFICES ASSUME NEW t \in Thread, call[t] # NoCall
               PROVE  kt_wchan'[t] = call[t].mtx \/ km_holder[call[t].mtx] = t
    BY Zenon, <1>1 DEF WaiterIsQueued
  <2>1. PICK m \in Mutex : call[t] = LockCall("kmutex_lock", m)
    BY Zenon DEF KmutexInv, Calls
  <2>2. call[t].mtx = m
    BY <2>1 DEF LockCall
  <2>. QED BY Zenon, <2>2 DEF KmutexInv, WaiterIsQueued, Undisturbed
<1>5. HolderIsOnItsWay'
  <2> SUFFICES ASSUME NEW m \in Mutex, km_holder[m] # NULL
               PROVE  \/ m \in held[km_holder[m]] /\ call[km_holder[m]].mtx # m
                      \/ /\ call[km_holder[m]].mtx = m /\ m \notin held[km_holder[m]]
                         /\ kt_wchan'[km_holder[m]] # m
    BY Zenon, <1>1 DEF HolderIsOnItsWay
  <2>1. km_holder[m] \in Thread
    BY Zenon DEF KmutexInv, KmutexTypeOK
  <2>. QED BY Zenon, <2>1 DEF KmutexInv, HolderIsOnItsWay, Undisturbed
<1>. QED BY Zenon, <1>2, <1>3, <1>4, <1>5 DEF KmutexInv

(* The invariant holds initially.                                          *)
LEMMA KmutexInitInv == KmutexInit => KmutexInv
<1> SUFFICES ASSUME KmutexInit PROVE KmutexInv
  BY Zenon
<1>1. SchedInv
  BY Zenon, InitInv DEF KmutexInit
<1>2. /\ km_holder = [m \in Mutex |-> NULL] /\ call = [t \in Thread |-> NoCall]
      /\ held = [t \in Thread |-> {}] /\ kt_wchan = [t \in Thread |-> NULL]
      /\ cpu = "run"
  BY Zenon DEF KmutexInit, SchedInit
<1>3. NULL \notin Mutex
  BY Zenon, SchedAssumption, KmutexAssumption
<1>4. KmutexTypeOK
  BY Zenon, <1>2 DEF KmutexTypeOK, NoCall
<1>5. Waits /\ Calls /\ CancelsNoWaiter
  BY Zenon, <1>2, <1>3 DEF Waits, Calls, CancelsNoWaiter
<1>6. WaiterIsQueued /\ HoldsWhatItLocked /\ HolderIsOnItsWay
  BY Zenon, <1>2, <1>3 DEF WaiterIsQueued, HoldsWhatItLocked, HolderIsOnItsWay
<1>. QED BY Zenon, <1>1, <1>4, <1>5, <1>6 DEF KmutexInv

(* Every step of the mutexes is a step of the scheduler, or none: what is  *)
(* proved of the scheduler under every client holds under these.           *)
LEMMA KmutexIsSched == KmutexNext => [SchedNext]_schedVars
<1> SUFFICES ASSUME KmutexNext PROVE SchedNext \/ UNCHANGED schedVars
  BY Zenon
<1>1. ASSUME NEW m \in Mutex, kmutex_lock(m) PROVE SchedNext \/ UNCHANGED schedVars
  BY Zenon, <1>1, KmutexAssumption DEF kmutex_lock, TakeFree, SchedNext, Leave
<1>2. ASSUME NEW m \in Mutex, kmutex_unlock(m) PROVE SchedNext \/ UNCHANGED schedVars
  BY Zenon, <1>2, KmutexAssumption DEF kmutex_unlock, WakeHeir, SchedNext, Call
<1>3. LockReturns => UNCHANGED schedVars
  BY Zenon DEF LockReturns
<1>4. OtherCall => SchedNext
  <2> SUFFICES ASSUME OtherCall PROVE SchedNext
    BY Zenon
  <2>1. CASE \E q \in WaitQ \ Mutex : sched_sleep_on(q) \/ sched_cancellable_sleep_on(q)
    BY Zenon, <2>1 DEF SchedNext, Leave
  <2>2. CASE \E q \in (WaitQ \ DevQ) \ Mutex : sched_wakeup_on(q) \/ sched_broadcast_on(q)
    BY Zenon, <2>2 DEF SchedNext, Call
  <2>. QED BY Zenon, <2>1, <2>2 DEF OtherCall, SchedNext, Leave, Call
<1>5. Machine => SchedNext
  BY Zenon DEF Machine, SchedNext
<1>. QED BY Zenon, <1>1, <1>2, <1>3, <1>4, <1>5 DEF KmutexNext

(* Wakeups on a queue that is no mutex's disturb no mutex.                 *)
LEMMA WakeUndisturbed ==
  ASSUME SchedInv, NEW p \in WaitQ \ Mutex, Wakeup(p, kt_state) \/ Broadcast(p)
  PROVE  /\ Undisturbed
         /\ \A t \in Thread : kt_wchan'[t] \in {kt_wchan[t], kt_runq}
<1>1. /\ p \in Queue /\ Linked(tq_list, kt_wchan) /\ kt_runq \notin Mutex
      /\ kt_wchan \in [Thread -> Queue \cup {NULL}]
      /\ kt_state \in [Thread -> KState]
  BY Zenon, SchedAssumption, KmutexAssumption DEF SchedInv, SchedTypeOK, Queue
<1>2. CASE Wakeup(p, kt_state)
  <2>1. \/ kt_wchan' = kt_wchan
        \/ kt_wchan' = [kt_wchan EXCEPT ![Head(tq_list[p])] = kt_runq]
    BY Zenon, <1>2, WakeupStep DEF SchedInv
  <2>2. CASE sched_queue_empty(p)
    <3>1. kt_wchan' = kt_wchan /\ kt_state' = kt_state
      BY Zenon, <1>2, <2>2 DEF Wakeup, queueVars
    <3>. QED BY Zenon, <3>1 DEF Undisturbed
  <2>3. CASE ~sched_queue_empty(p)
    <3>1. kt_wchan[Head(tq_list[p])] = p
      BY ZenonT(60), <1>1, <2>3, DequeueLinked DEF sched_queue_empty
    <3>2. kt_state' = [kt_state EXCEPT ![Head(tq_list[p])] = "KT_RUN"]
      BY Zenon, <1>2, <2>3 DEF Wakeup, MakeRunnable, RunState
    <3>. QED BY Zenon, <1>1, <2>1, <3>1, <3>2 DEF Undisturbed
  <2>. QED BY Zenon, <2>2, <2>3
<1>3. CASE Broadcast(p)
  <2>1. \A t \in Thread :
          kt_wchan'[t] = IF kt_wchan[t] = p THEN kt_runq ELSE kt_wchan[t]
    BY Zenon, <1>3, BroadcastStep DEF SchedInv
  <2>2. \A t \in Thread : kt_wchan[t] # p => kt_state'[t] = kt_state[t]
    <3> SUFFICES ASSUME NEW t \in Thread, kt_wchan[t] # p
                 PROVE  kt_state'[t] = kt_state[t]
      BY Zenon
    <3>1. tq_list[p] \in Seq(Thread) /\ DOMAIN tq_list[p] = 1..Len(tq_list[p])
      BY <1>1 DEF Linked
    <3>2. ~ \E i \in DOMAIN tq_list[p] : tq_list[p][i] = t
      BY <1>1, <3>1 DEF Linked
    <3>. QED BY Zenon, <1>3, <3>2 DEF Broadcast
  <2>. QED BY Zenon, <1>1, <2>1, <2>2 DEF Undisturbed
<1>. QED BY Zenon, <1>2, <1>3

(* What clients do besides locking and unlocking preserves the invariant.  *)
LEMMA OtherCallInv == ASSUME KmutexInv, OtherCall PROVE KmutexInv'
<1>1. /\ SchedInv /\ SchedInv' /\ Waits /\ UNCHANGED kmutexVars /\ cpu = "run"
      /\ kt_runq \notin Mutex /\ NULL \notin Mutex /\ Mutex \subseteq WaitQ
      /\ kt_wchan \in [Thread -> Queue \cup {NULL}]
      /\ kt_state \in [Thread -> KState] /\ curthr \in Thread
      /\ kt_wchan[curthr] = NULL
  <2>1. SchedInv'
    BY Zenon, KmutexIsSched, NextInv DEF KmutexInv, KmutexNext
  <2>2. cpu = "run" /\ UNCHANGED kmutexVars
    BY Zenon DEF OtherCall, Client
  <2>3. kt_wchan[curthr] = NULL
    BY Zenon, <2>2 DEF KmutexInv, SchedInv, SchedTypeOK, Placed, Runs
  <2>. QED BY Zenon, <2>1, <2>2, <2>3, SchedAssumption, KmutexAssumption
           DEF KmutexInv, SchedInv, SchedTypeOK
<1> SUFFICES Undisturbed /\ CancelsNoWaiter'
  BY Zenon, <1>1, UndisturbedInv
<1>2. ASSUME NEW q \in WaitQ \ Mutex, NEW f \in Frame, NEW s \in Asleep,
             SleepOn(f, q, s)
      PROVE  Undisturbed /\ CancelsNoWaiter'
  <2>1. /\ cpu' # "cancel"
        /\ kt_wchan'[curthr] = q
        /\ kt_state' = [kt_state EXCEPT ![curthr] = s]
        /\ \A t \in Thread \ {curthr} :
             /\ kt_wchan[t] \in WaitQ => kt_wchan'[t] = kt_wchan[t]
             /\ kt_wchan'[t] \in {kt_wchan[t], NULL}
    BY Zenon, <1>1, <1>2, SleepArrivals
  <2>. QED BY Zenon, <1>1, <2>1 DEF Undisturbed, CancelsNoWaiter
<1>3. ASSUME NEW q \in WaitQ \ Mutex, sched_sleep_on(q) \/ sched_cancellable_sleep_on(q)
      PROVE  Undisturbed /\ CancelsNoWaiter'
  <2>1. CASE sched_sleep_on(q)
    BY Zenon, <1>2, <2>1 DEF sched_sleep_on, Frame, Asleep
  <2>2. CASE sched_cancellable_sleep_on(q) /\ ~kt_cancelled[curthr]
    BY Zenon, <1>2, <2>2 DEF sched_cancellable_sleep_on, Frame, Asleep
  <2>3. CASE sched_cancellable_sleep_on(q) /\ kt_cancelled[curthr]
    BY Zenon, <1>1, <2>3 DEF sched_cancellable_sleep_on, Undisturbed, CancelsNoWaiter
  <2>. QED BY Zenon, <1>3, <2>1, <2>2, <2>3
<1>4. ASSUME NEW q \in (WaitQ \ DevQ) \ Mutex, sched_wakeup_on(q) \/ sched_broadcast_on(q)
      PROVE  Undisturbed /\ CancelsNoWaiter'
  <2>1. (Wakeup(q, kt_state) \/ Broadcast(q)) /\ cpu' = cpu
    BY Zenon, <1>4 DEF sched_wakeup_on, sched_broadcast_on
  <2>. QED BY Zenon, <1>1, <2>1, WakeUndisturbed DEF CancelsNoWaiter
<1>5. ASSUME NEW t \in Thread \ {curthr}, sched_cancel(t)
      PROVE  Undisturbed /\ CancelsNoWaiter'
  <2>1. /\ kt_wchan' = kt_wchan /\ kt_state' = kt_state
        /\ \/ /\ kt_state[t] = "KT_SLEEP_CANCELLABLE"
              /\ cancel' = [thr |-> t, q |-> NULL]
           \/ cpu' = "run"
    BY Zenon, <1>1, <1>5 DEF sched_cancel, CancelsSleep
  <2>2. kt_state[t] = "KT_SLEEP_CANCELLABLE" => kt_wchan[t] \notin Mutex
    BY Zenon, <1>1 DEF Waits
  <2>. QED BY <2>1, <2>2 DEF Undisturbed, CancelsNoWaiter
<1>6. ASSUME NEW t \in Thread \ {curthr}, sched_make_runnable(t)
      PROVE  Undisturbed /\ CancelsNoWaiter'
  <2>1. /\ kt_wchan[t] = NULL /\ kt_wchan' = [kt_wchan EXCEPT ![t] = kt_runq]
        /\ kt_state' = [kt_state EXCEPT ![t] = "KT_RUN"] /\ cpu' = cpu
    BY Zenon, <1>6 DEF sched_make_runnable, MakeRunnable, Channel, RunState
  <2>. QED BY Zenon, <1>1, <2>1 DEF Undisturbed, CancelsNoWaiter
<1>7. ASSUME NEW t \in Thread \ {curthr}, kthread_create(t)
      PROVE  Undisturbed /\ CancelsNoWaiter'
  <2>1. /\ kt_state[t] = "KT_EXITED" /\ kt_wchan' = kt_wchan /\ cpu' = cpu
        /\ kt_state' = [kt_state EXCEPT ![t] = "KT_NO_STATE"]
    BY Zenon, <1>7 DEF kthread_create
  <2>2. kt_wchan[t] \notin Mutex
    BY Zenon, <1>1, <2>1 DEF Waits
  <2>. QED BY Zenon, <1>1, <2>1, <2>2 DEF Undisturbed, CancelsNoWaiter
<1>8. ASSUME NEW l, NEW z, NEW w \in [Thread -> Queue \cup {NULL}], NEW s,
             WaitersStay(kt_wchan), Switch("sched_switch", l, z, w),
             \A t \in Thread : w[t] \in {kt_wchan[t], kt_runq},
             kt_state' = [kt_state EXCEPT ![curthr] = s]
      PROVE  Undisturbed /\ CancelsNoWaiter'
  <2>1. \A t \in Thread : kt_wchan'[t] \in {w[t], NULL}
    BY Zenon, <1>8, SwitchArrivals
  <2>2. cpu' # "cancel"
    BY Zenon, <1>8 DEF Switch, Dispatch, Resume, EnterIdle
  <2>. QED BY <1>1, <1>8, <2>1, <2>2 DEF Undisturbed, CancelsNoWaiter, WaitersStay
<1>9. CASE thr_yield
  <2>1. WaitersStay(kt_wchan)
    BY Zenon, <1>1, <1>9, LeaveInv DEF Leave
  <2>2. /\ Channel(kt_wchan, kt_runq, curthr) \in [Thread -> Queue \cup {NULL}]
        /\ \A t \in Thread :
             Channel(kt_wchan, kt_runq, curthr)[t] \in {kt_wchan[t], kt_runq}
    BY Zenon, <1>1 DEF Channel, Queue
  <2>. QED BY ZenonT(60), <1>8, <1>9, <2>1, <2>2 DEF thr_yield
<1>10. CASE curthr # idle /\ kthread_exit
  <2>1. WaitersStay(kt_wchan)
    BY Zenon, <1>1, <1>10, LeaveInv DEF Leave
  <2>. QED BY ZenonT(60), <1>1, <1>8, <1>10, <2>1 DEF kthread_exit
<1>. QED BY Zenon, <1>3, <1>4, <1>5, <1>6, <1>7, <1>9, <1>10 DEF OtherCall

(* sched_cancel's later steps, the idle loop and interrupts preserve the   *)
(* invariant.                                                              *)
LEMMA MachineInv == ASSUME KmutexInv, Machine PROVE KmutexInv'
<1>1. /\ SchedInv /\ SchedInv' /\ CancelsNoWaiter /\ UNCHANGED kmutexVars
      /\ kt_runq \notin Mutex /\ NULL \notin Mutex /\ Mutex \subseteq WaitQ
      /\ kt_wchan \in [Thread -> Queue \cup {NULL}]
      /\ kt_state \in [Thread -> KState]
  <2>1. SchedInv'
    BY Zenon, KmutexIsSched, NextInv DEF KmutexInv, KmutexNext
  <2>. QED BY Zenon, <2>1, SchedAssumption, KmutexAssumption
           DEF Machine, KmutexInv, SchedInv, SchedTypeOK
<1> SUFFICES Undisturbed /\ CancelsNoWaiter'
  BY Zenon, <1>1, UndisturbedInv
<1>2. CASE sched_cancel_wchan
  <2>1. /\ kt_wchan' = kt_wchan /\ kt_state' = kt_state /\ cpu = "cancel"
        /\ cancel' = [cancel EXCEPT !.q = kt_wchan[cancel.thr]]
    BY Zenon, <1>2 DEF sched_cancel_wchan
  <2>2. cancel'.thr = cancel.thr
    BY Zenon, <1>1, <2>1 DEF SchedInv, SchedTypeOK
  <2>. QED BY Zenon, <1>1, <2>1, <2>2 DEF Undisturbed, CancelsNoWaiter
<1>3. CASE sched_cancel_remove
  <2>1. /\ cpu = "cancel" /\ cpu' = "run"
        /\ kt_wchan' = Channel(Channel(kt_wchan, NULL, cancel.thr), kt_runq, cancel.thr)
        /\ kt_state' = [kt_state EXCEPT ![cancel.thr] = "KT_RUN"]
    BY Zenon, <1>3 DEF sched_cancel_remove, MakeRunnable, RunState
  <2>2. kt_wchan[cancel.thr] \notin Mutex
    BY Zenon, <1>1, <2>1 DEF CancelsNoWaiter
  <2>. QED BY Zenon, <1>1, <2>1, <2>2 DEF Undisturbed, CancelsNoWaiter, Channel
<1>4. CASE Idle
  <2>1. WaitersStay(kt_wchan)
    BY Zenon, <1>1, <1>4, IdleInv
  <2>2. /\ kt_state' = kt_state /\ cpu' # "cancel"
        /\ \A t \in Thread : kt_wchan'[t] \in {kt_wchan[t], NULL}
    BY Zenon, <1>1, <1>4 DEF Idle, IdleTest, intr_wait, Dispatch, Resume, Channel, queueVars
  <2>. QED BY Zenon, <1>1, <2>1, <2>2 DEF Undisturbed, CancelsNoWaiter, WaitersStay
<1>5. CASE AnyInterrupt
  <2> PICK q \in DevQ : Interrupt(q)
    BY Zenon, <1>5 DEF AnyInterrupt
  <2>1. q \in WaitQ \ Mutex
    BY Zenon, SchedAssumption, KmutexAssumption
  <2>2. /\ Wakeup(q, kt_state) \/ Broadcast(q)
        /\ cpu' = "cancel" => cpu = "cancel"
        /\ cancel' = cancel
    BY Zenon DEF Interrupt
  <2>3. /\ Undisturbed
        /\ \A t \in Thread : kt_wchan'[t] \in {kt_wchan[t], kt_runq}
    BY Zenon, <1>1, <2>1, <2>2, WakeUndisturbed
  <2>4. cpu = "cancel" => cancel.thr \in Thread
    BY Zenon, <1>1 DEF SchedInv, CancelTarget
  <2>. QED BY Zenon, <1>1, <2>2, <2>3, <2>4 DEF CancelsNoWaiter
<1>. QED BY Zenon, <1>2, <1>3, <1>4, <1>5 DEF Machine, CancelStep

(* kmutex_lock preserves the invariant: the caller takes a free mutex, or  *)
(* queues up behind its holder.                                            *)
LEMMA LockInv ==
  ASSUME KmutexInv, NEW m \in Mutex, kmutex_lock(m)
  PROVE  KmutexInv'
<1>1. /\ SchedInv /\ SchedInv' /\ cpu = "run" /\ curthr \in Thread
      /\ call[curthr] = NoCall /\ curthr # km_holder[m]
      /\ m \in WaitQ /\ NULL \notin Mutex /\ NULL \notin Thread
      /\ Mutex \subseteq WaitQ
      /\ km_holder \in [Mutex -> Thread \cup {NULL}]
      /\ held \in [Thread -> SUBSET Mutex]
      /\ NoCall.mtx = NULL
  <2>1. SchedInv'
    BY Zenon, KmutexIsSched, NextInv DEF KmutexInv, KmutexNext
  <2>2. cpu = "run" /\ call[curthr] = NoCall /\ curthr # km_holder[m]
    BY Zenon DEF kmutex_lock, Client
  <2>. QED BY Zenon, <2>1, <2>2, SchedAssumption, KmutexAssumption
           DEF KmutexInv, SchedInv, SchedTypeOK, KmutexTypeOK, NoCall
<1>2. CASE TakeFree(m)
  <2>1. /\ km_holder[m] = NULL
        /\ km_holder' = [km_holder EXCEPT ![m] = curthr]
        /\ held' = [held EXCEPT ![curthr] = @ \cup {m}]
        /\ call' = call /\ kt_wchan' = kt_wchan /\ kt_state' = kt_state
        /\ cpu' = cpu /\ cancel' = cancel
    BY Zenon, <1>2 DEF TakeFree, schedVars
  <2>2. KmutexTypeOK'
    BY Zenon, <1>1, <2>1 DEF KmutexInv, KmutexTypeOK
  <2>3. Waits' /\ Calls' /\ CancelsNoWaiter'
    BY <1>1, <2>1 DEF KmutexInv, Waits, Calls, CancelsNoWaiter
  <2>4. WaiterIsQueued'
    <3> SUFFICES ASSUME NEW t \in Thread, call[t] # NoCall
                 PROVE  kt_wchan[t] = call[t].mtx \/ km_holder'[call[t].mtx] = t
      BY Zenon, <2>1 DEF WaiterIsQueued
    <3>1. PICK n \in Mutex : call[t] = LockCall("kmutex_lock", n)
      BY Zenon DEF KmutexInv, Calls
    <3>2. call[t].mtx = n
      BY <3>1 DEF LockCall
    <3>. QED BY Zenon, <1>1, <2>1, <3>2 DEF KmutexInv, WaiterIsQueued
  <2>5. HoldsWhatItLocked'
    <3> SUFFICES ASSUME NEW t \in Thread, NEW n \in held'[t] PROVE km_holder'[n] = t
      BY Zenon DEF HoldsWhatItLocked
    <3>1. n \in Mutex /\ (n \in held[t] \/ (t = curthr /\ n = m))
      BY Zenon, <1>1, <2>1
    <3>. QED BY Zenon, <1>1, <2>1, <3>1 DEF KmutexInv, HoldsWhatItLocked
  <2>6. HolderIsOnItsWay'
    <3> SUFFICES ASSUME NEW n \in Mutex, NEW t \in Thread, t = km_holder'[n]
                 PROVE  \/ n \in held'[t] /\ call[t].mtx # n
                        \/ call[t].mtx = n /\ n \notin held'[t] /\ kt_wchan[t] # n
      BY <1>1, <2>1, <2>2 DEF HolderIsOnItsWay, KmutexTypeOK
    <3>1. CASE n = m
      BY Zenon, <1>1, <2>1, <3>1
    <3>2. CASE n # m
      <4>1. km_holder[n] = t /\ (n \in held'[t] <=> n \in held[t])
        BY Zenon, <1>1, <2>1, <3>2
      <4>. QED BY <1>1, <4>1 DEF KmutexInv, HolderIsOnItsWay
    <3>. QED BY Zenon, <3>1, <3>2
  <2>. QED BY Zenon, <1>1, <2>2, <2>3, <2>4, <2>5, <2>6 DEF KmutexInv
<1>3. CASE km_holder[m] # NULL /\ sched_sleep_on(m)
  <2>1. /\ km_holder' = km_holder /\ held' = held
        /\ call' = [call EXCEPT ![curthr] = LockCall("kmutex_lock", m)]
    BY Zenon, <1>3 DEF kmutex_lock, TakeFree
  <2>2. /\ cpu' # "cancel"
        /\ kt_wchan'[curthr] = m
        /\ kt_state' = [kt_state EXCEPT ![curthr] = "KT_SLEEP"]
        /\ \A t \in Thread \ {curthr} :
             /\ kt_wchan[t] \in WaitQ => kt_wchan'[t] = kt_wchan[t]
             /\ kt_wchan'[t] \in {kt_wchan[t], NULL}
    BY Zenon, <1>1, <1>3, SleepArrivals DEF sched_sleep_on, Frame, Asleep
  <2>3. /\ call \in [Thread -> [fn : {"none", "kmutex_lock", "kmutex_lock_cancellable"},
                                mtx : Mutex \cup {NULL}]]
        /\ kt_state \in [Thread -> KState]
        /\ LockCall("kmutex_lock", m).mtx = m
        /\ LockCall("kmutex_lock", m) # NoCall
        /\ LockCall("kmutex_lock", m) \in
             [fn : {"none", "kmutex_lock", "kmutex_lock_cancellable"},
              mtx : Mutex \cup {NULL}]
    BY Zenon, <1>1 DEF KmutexInv, KmutexTypeOK, SchedInv, SchedTypeOK, LockCall, NoCall
  <2>4. KmutexTypeOK' /\ CancelsNoWaiter'
    BY Zenon, <1>1, <2>1, <2>2, <2>3 DEF KmutexTypeOK, CancelsNoWaiter
  <2>5. Waits'
    <3> SUFFICES ASSUME NEW t \in Thread, NEW n \in Mutex, kt_wchan'[t] = n
                 PROVE  /\ call'[t] = LockCall("kmutex_lock", n)
                        /\ kt_state'[t] = "KT_SLEEP" /\ km_holder[n] # NULL
      BY Zenon, <2>1 DEF Waits
    <3>1. CASE t = curthr
      BY Zenon, <1>3, <2>1, <2>2, <2>3, <3>1
    <3>2. CASE t # curthr
      <4>1. kt_wchan[t] = n
        BY Zenon, <1>1, <2>2, <3>2
      <4>. QED BY Zenon, <2>1, <2>2, <2>3, <3>2, <4>1 DEF KmutexInv, Waits
    <3>. QED BY Zenon, <3>1, <3>2
  <2>6. Calls'
    BY Zenon, <2>1, <2>3 DEF KmutexInv, Calls
  <2>7. WaiterIsQueued'
    <3> SUFFICES ASSUME NEW t \in Thread, call'[t] # NoCall
                 PROVE  kt_wchan'[t] = call'[t].mtx \/ km_holder[call'[t].mtx] = t
      BY Zenon, <2>1 DEF WaiterIsQueued
    <3>1. CASE t = curthr
      BY Zenon, <2>1, <2>2, <2>3, <3>1
    <3>2. CASE t # curthr
      <4>1. call'[t] = call[t]
        BY Zenon, <2>1, <2>3, <3>2
      <4>2. PICK n \in Mutex : call[t] = LockCall("kmutex_lock", n)
        BY Zenon, <4>1 DEF KmutexInv, Calls
      <4>3. call[t].mtx = n
        BY <4>2 DEF LockCall
      <4>4. kt_wchan[t] = n \/ km_holder[n] = t
        BY Zenon, <4>1, <4>3 DEF KmutexInv, WaiterIsQueued
      <4>. QED BY Zenon, <1>1, <2>2, <3>2, <4>1, <4>3, <4>4
    <3>. QED BY Zenon, <3>1, <3>2
  <2>8. HoldsWhatItLocked'
    BY Zenon, <2>1 DEF KmutexInv, HoldsWhatItLocked
  <2>9. HolderIsOnItsWay'
    <3> SUFFICES ASSUME NEW n \in Mutex, NEW t \in Thread, t = km_holder[n]
                 PROVE  \/ n \in held[t] /\ call'[t].mtx # n
                        \/ call'[t].mtx = n /\ n \notin held[t] /\ kt_wchan'[t] # n
      BY <1>1, <2>1 DEF HolderIsOnItsWay
    <3>0. \/ n \in held[t] /\ call[t].mtx # n
          \/ call[t].mtx = n /\ n \notin held[t] /\ kt_wchan[t] # n
      BY Zenon, <1>1 DEF KmutexInv, HolderIsOnItsWay
    <3>1. CASE t = curthr
      BY ZenonT(60), <1>1, <2>1, <2>3, <3>0, <3>1
    <3>2. CASE t # curthr
      BY Zenon, <1>1, <2>1, <2>2, <2>3, <3>0, <3>2
    <3>. QED BY Zenon, <3>1, <3>2
  <2>. QED BY Zenon, <1>1, <2>4, <2>5, <2>6, <2>7, <2>8, <2>9 DEF KmutexInv
<1>. QED BY Zenon, <1>2, <1>3 DEF kmutex_lock

(* kmutex_unlock preserves the invariant: the thread it wakes is the       *)
(* holder before it runs, and with no thread to wake nobody is queued.     *)
LEMMA UnlockInv ==
  ASSUME KmutexInv, NEW m \in Mutex, kmutex_unlock(m)
  PROVE  KmutexInv'
<1>1. /\ SchedInv /\ SchedInv' /\ cpu = "run" /\ curthr \in Thread
      /\ call[curthr] = NoCall /\ curthr = km_holder[m] /\ call' = call
      /\ held' = [held EXCEPT ![curthr] = @ \ {m}]
      /\ m \in WaitQ \ DevQ /\ m \in Queue /\ NULL \notin Mutex /\ NULL \notin Thread
      /\ kt_runq \notin Mutex
      /\ km_holder \in [Mutex -> Thread \cup {NULL}]
      /\ held \in [Thread -> SUBSET Mutex]
      /\ kt_wchan \in [Thread -> Queue \cup {NULL}]
      /\ kt_state \in [Thread -> KState]
      /\ NoCall.mtx = NULL
  <2>1. SchedInv'
    BY Zenon, KmutexIsSched, NextInv DEF KmutexInv, KmutexNext
  <2>2. /\ cpu = "run" /\ call[curthr] = NoCall /\ curthr = km_holder[m]
        /\ call' = call /\ held' = [held EXCEPT ![curthr] = @ \ {m}]
    BY Zenon DEF kmutex_unlock, Client
  <2>. QED BY Zenon, <2>1, <2>2, SchedAssumption, KmutexAssumption
           DEF KmutexInv, SchedInv, SchedTypeOK, KmutexTypeOK, NoCall, Queue
<1>2. kt_wchan[curthr] = NULL
  BY Zenon, <1>1 DEF SchedInv, Placed, Runs
<1>3. PICK h \in Thread \cup {NULL} :
        /\ km_holder' = [km_holder EXCEPT ![m] = h]
        /\ h # NULL => /\ kt_wchan[h] = m
                       /\ kt_wchan' = [kt_wchan EXCEPT ![h] = kt_runq]
                       /\ kt_state' = [kt_state EXCEPT ![h] = "KT_RUN"]
        /\ h = NULL => /\ \A t \in Thread : kt_wchan[t] # m
                       /\ kt_wchan' = kt_wchan /\ kt_state' = kt_state
        /\ cpu' = "run"
  <2>1. tq_size[m] = Len(tq_list[m]) /\ Linked(tq_list, kt_wchan)
    BY Zenon, <1>1 DEF SchedInv, Counted
  <2>2. CASE Waiting(m)
    <3>1. tq_list[m] # << >>
      BY Zenon, <2>1, <2>2 DEF Waiting
    <3>2. Head(tq_list[m]) \in Thread /\ kt_wchan[Head(tq_list[m])] = m
      <4>1. m \in Queue
        BY Zenon, <1>1
      <4>. QED BY ZenonT(60), <2>1, <3>1, <4>1, DequeueLinked
    <3>3. /\ km_holder' = [km_holder EXCEPT ![m] = Head(tq_list[m])]
          /\ Wakeup(m, kt_state) /\ cpu' = cpu
      BY Zenon, <2>2, <3>1 DEF kmutex_unlock, WakeHeir, Heir, sched_wakeup_on, sched_queue_empty
    <3>4. /\ kt_wchan' = Channel(Channel(kt_wchan, NULL, Head(tq_list[m])), kt_runq,
                                 Head(tq_list[m]))
          /\ kt_state' = [kt_state EXCEPT ![Head(tq_list[m])] = "KT_RUN"]
      BY Zenon, <3>1, <3>3 DEF Wakeup, MakeRunnable, RunState, sched_queue_empty
    <3>5. kt_wchan' = [kt_wchan EXCEPT ![Head(tq_list[m])] = kt_runq]
      BY ZenonT(60), <1>1, <3>4 DEF Channel
    <3>. QED BY ZenonT(60), <1>1, <3>2, <3>3, <3>4, <3>5
  <2>3. CASE ~Waiting(m)
    <3>1. \A t \in Thread : kt_wchan[t] # m
      <4> SUFFICES ASSUME NEW t \in Thread, kt_wchan[t] = m PROVE FALSE
        BY Zenon
      <4>1. \E i \in 1..Len(tq_list[m]) : tq_list[m][i] = t
        BY Zenon, <1>1, <2>1 DEF Linked
      <4>. QED BY <2>1, <2>3, <4>1 DEF Waiting
    <3>2. /\ km_holder' = [km_holder EXCEPT ![m] = NULL]
          /\ kt_wchan' = kt_wchan /\ kt_state' = kt_state /\ cpu' = cpu
      BY Zenon, <2>3 DEF kmutex_unlock, schedVars
    <3>. QED BY ZenonT(60), <1>1, <3>1, <3>2
  <2>. QED BY Zenon, <2>2, <2>3
<1>4. /\ h # curthr
      /\ h # NULL => call[h] = LockCall("kmutex_lock", m) /\ call[h].mtx = m
      /\ h # NULL => m \notin held[h]
      /\ \A t \in Thread : m \notin held'[t]
  <2>1. h # curthr
    BY Zenon, <1>1, <1>2, <1>3
  <2>2. h # NULL => call[h] = LockCall("kmutex_lock", m) /\ call[h].mtx = m
    BY <1>1, <1>3 DEF KmutexInv, Waits, LockCall
  <2>. QED BY Zenon, <1>1, <2>1, <2>2 DEF KmutexInv, HoldsWhatItLocked
<1>5. KmutexTypeOK' /\ Calls' /\ CancelsNoWaiter'
  BY <1>1, <1>3 DEF KmutexInv, KmutexTypeOK, Calls, CancelsNoWaiter
<1>6. Waits'
  <2> SUFFICES ASSUME NEW t \in Thread, NEW n \in Mutex, kt_wchan'[t] = n
               PROVE  /\ call[t] = LockCall("kmutex_lock", n)
                      /\ kt_state'[t] = "KT_SLEEP" /\ km_holder'[n] # NULL
    BY <1>1 DEF Waits
  <2>1. kt_wchan[t] = n /\ t # h /\ kt_state'[t] = kt_state[t]
    BY <1>1, <1>3
  <2>. QED BY Zenon, <1>1, <1>3, <2>1 DEF KmutexInv, Waits
<1>7. WaiterIsQueued'
  <2> SUFFICES ASSUME NEW t \in Thread, call[t] # NoCall
               PROVE  kt_wchan'[t] = call[t].mtx \/ km_holder'[call[t].mtx] = t
    BY Zenon, <1>1 DEF WaiterIsQueued
  <2>1. PICK n \in Mutex : call[t] = LockCall("kmutex_lock", n)
    BY Zenon DEF KmutexInv, Calls
  <2>2. call[t].mtx = n
    BY <2>1 DEF LockCall
  <2>3. kt_wchan[t] = n \/ km_holder[n] = t
    BY Zenon, <2>2 DEF KmutexInv, WaiterIsQueued
  <2>4. CASE t = h
    BY Zenon, <1>1, <1>3, <1>4, <2>2, <2>4
  <2>5. CASE t # h
    <3>1. kt_wchan'[t] = kt_wchan[t] /\ t # curthr
      BY Zenon, <1>1, <1>3, <2>5
    <3>. QED BY Zenon, <1>1, <1>3, <2>2, <2>3, <3>1
  <2>. QED BY Zenon, <2>4, <2>5
<1>8. HoldsWhatItLocked'
  <2> SUFFICES ASSUME NEW t \in Thread, NEW n \in held'[t] PROVE km_holder'[n] = t
    BY Zenon DEF HoldsWhatItLocked
  <2>1. n # m /\ n \in Mutex /\ n \in held[t]
    BY Zenon, <1>1, <1>4
  <2>. QED BY Zenon, <1>3, <2>1 DEF KmutexInv, HoldsWhatItLocked, KmutexTypeOK
<1>9. HolderIsOnItsWay'
  <2> SUFFICES ASSUME NEW n \in Mutex, NEW t \in Thread, t = km_holder'[n]
               PROVE  \/ n \in held'[t] /\ call[t].mtx # n
                      \/ call[t].mtx = n /\ n \notin held'[t] /\ kt_wchan'[t] # n
    BY SMTT(60), <1>1, <1>5 DEF HolderIsOnItsWay, KmutexTypeOK
  <2>1. CASE n = m
    <3>1. t = h /\ h # NULL
      BY Zenon, <1>1, <1>3, <2>1
    <3>2. kt_wchan'[h] = kt_runq
      BY Zenon, <1>1, <1>3, <3>1
    <3>. QED BY Zenon, <1>1, <1>4, <2>1, <3>1, <3>2
  <2>2. CASE n # m
    <3>1. km_holder[n] = t /\ (n \in held'[t] <=> n \in held[t])
      BY Zenon, <1>1, <1>3, <2>2
    <3>2. kt_wchan[t] # n => kt_wchan'[t] # n
      BY Zenon, <1>1, <1>3
    <3>. QED BY SMTT(60), <1>1, <3>1, <3>2 DEF KmutexInv, HolderIsOnItsWay
  <2>. QED BY Zenon, <2>1, <2>2
<1>. QED BY Zenon, <1>1, <1>5, <1>6, <1>7, <1>8, <1>9 DEF KmutexInv

(* The return from kmutex_lock's sleep preserves the invariant: the        *)
(* scheduler resumed the thread, so it is off the mutex's queue and has    *)
(* been made the holder.                                                   *)
LEMMA LockReturnsInv == ASSUME KmutexInv, LockReturns PROVE KmutexInv'
<1>1. PICK m \in Mutex : call[curthr] = LockCall("kmutex_lock", m)
  BY Zenon DEF KmutexInv, Calls, LockReturns, SchedInv, SchedTypeOK
<1>2. /\ SchedInv' /\ curthr \in Thread /\ cpu = "run"
      /\ kt_wchan[curthr] = NULL /\ m # NULL /\ NULL \notin Mutex /\ NULL \notin Thread
      /\ call[curthr].mtx = m /\ call[curthr] # NoCall
      /\ held' = [held EXCEPT ![curthr] = @ \cup {m}]
      /\ call' = [call EXCEPT ![curthr] = NoCall]
      /\ km_holder' = km_holder /\ kt_wchan' = kt_wchan /\ kt_state' = kt_state
      /\ cpu' = cpu /\ cancel' = cancel
      /\ held \in [Thread -> SUBSET Mutex]
      /\ km_holder \in [Mutex -> Thread \cup {NULL}]
      /\ call \in [Thread -> [fn : {"none", "kmutex_lock", "kmutex_lock_cancellable"},
                              mtx : Mutex \cup {NULL}]]
      /\ NoCall.mtx = NULL
  <2>1. SchedInv'
    BY Zenon, KmutexIsSched, NextInv DEF KmutexInv, KmutexNext
  <2>2. call[curthr].mtx = m /\ NoCall.mtx = NULL
    BY SMTT(60), <1>1 DEF LockCall, NoCall
  <2>3. kt_wchan[curthr] = NULL
    BY Zenon DEF LockReturns, KmutexInv, SchedInv, SchedTypeOK, Placed, Runs
  <2>. QED BY Zenon, <2>1, <2>2, <2>3, SchedAssumption, KmutexAssumption
           DEF LockReturns, Granted, schedVars, KmutexInv, SchedInv, SchedTypeOK,
               KmutexTypeOK
<1>3. km_holder[m] = curthr
  BY Zenon, <1>2 DEF KmutexInv, WaiterIsQueued
<1>4. KmutexTypeOK'
  BY Zenon, <1>2 DEF KmutexTypeOK, NoCall
<1>5. Waits' /\ Calls' /\ CancelsNoWaiter'
  BY SMTT(60), <1>2 DEF KmutexInv, Waits, Calls, CancelsNoWaiter
<1>6. WaiterIsQueued'
  BY Zenon, <1>2 DEF KmutexInv, WaiterIsQueued
<1>7. HoldsWhatItLocked'
  BY Zenon, <1>2, <1>3 DEF KmutexInv, HoldsWhatItLocked
<1>8. HolderIsOnItsWay'
  <2> SUFFICES ASSUME NEW n \in Mutex, NEW t \in Thread, t = km_holder[n]
               PROVE  \/ n \in held'[t] /\ call'[t].mtx # n
                      \/ call'[t].mtx = n /\ n \notin held'[t] /\ kt_wchan[t] # n
    BY <1>2 DEF HolderIsOnItsWay
  <2>1. \/ n \in held[t] /\ call[t].mtx # n
        \/ call[t].mtx = n /\ n \notin held[t] /\ kt_wchan[t] # n
    BY Zenon, <1>2 DEF KmutexInv, HolderIsOnItsWay
  <2>2. CASE t = curthr
    BY Zenon, <1>2, <2>1, <2>2
  <2>3. CASE t # curthr
    BY Zenon, <1>2, <2>1, <2>3
  <2>. QED BY Zenon, <2>2, <2>3
<1>. QED BY Zenon, <1>2, <1>4, <1>5, <1>6, <1>7, <1>8 DEF KmutexInv

(* Every step preserves the invariant.                                     *)
LEMMA KmutexNextInv == KmutexInv /\ [KmutexNext]_vars => KmutexInv'
<1> SUFFICES ASSUME KmutexInv, [KmutexNext]_vars PROVE KmutexInv'
  BY Zenon
<1>1. CASE UNCHANGED vars
  <2>1. UNCHANGED schedVars /\ UNCHANGED kmutexVars
    BY Zenon, <1>1 DEF vars
  <2>2. SchedInv'
    BY Zenon, <2>1, NextInv DEF KmutexInv
  <2>3. Undisturbed /\ CancelsNoWaiter'
    BY Zenon, <2>1 DEF schedVars, KmutexInv, Undisturbed, CancelsNoWaiter
  <2>. QED BY Zenon, <2>1, <2>2, <2>3, UndisturbedInv
<1>. QED BY Zenon, <1>1, LockInv, UnlockInv, LockReturnsInv, OtherCallInv, MachineInv
         DEF KmutexNext

(* The invariant holds in every state of the kernel's own use of mutexes.  *)
THEOREM KmutexInvariance == KmutexSpec => []KmutexInv
BY KmutexInitInv, KmutexNextInv, PTL DEF KmutexSpec

(* The mutexes run on the scheduler: with mutexes as its clients the       *)
(* scheduler is the one of SchedSpec, so its theorems hold here.           *)
THEOREM RunsOnTheScheduler == KmutexSpec => SchedSpec
<1>1. KmutexInit => SchedInit
  BY Zenon DEF KmutexInit
<1>2. [KmutexNext]_vars => [SchedNext]_schedVars
  BY KmutexIsSched DEF vars
<1>. QED BY <1>1, <1>2, PTL DEF KmutexSpec, SchedSpec

(* The state of the mutexes keeps its type.                                *)
THEOREM KmutexTypeCorrect == KmutexSpec => []KmutexTypeOK
<1>1. KmutexInv => KmutexTypeOK
  BY DEF KmutexInv
<1>. QED BY <1>1, KmutexInvariance, PTL

(* Mutual exclusion: a thread whose kmutex_lock returned and that has not  *)
(* called kmutex_unlock is the mutex's km_holder, so no two threads hold   *)
(* one mutex and the KASSERT of kmutex_unlock holds.                       *)
THEOREM MutualExclusion == KmutexSpec => []HoldsWhatItLocked
<1>1. KmutexInv => HoldsWhatItLocked
  BY SMTT(60) DEF KmutexInv
<1>. QED BY <1>1, KmutexInvariance, PTL

(* kmutex_unlock leaves nobody asleep on a free mutex.                     *)
THEOREM NoSleeperOnAFreeMutex == KmutexSpec => []FreeHasNoWaiters
<1>1. KmutexInv => FreeHasNoWaiters
  <2> SUFFICES ASSUME KmutexInv, NEW m \in Mutex, km_holder[m] = NULL,
                      tq_list[m] # << >>
               PROVE  FALSE
    BY Zenon DEF FreeHasNoWaiters
  <2>1. m \in Queue /\ Linked(tq_list, kt_wchan)
    BY Zenon, KmutexAssumption DEF KmutexInv, SchedInv, Queue
  <2>2. Head(tq_list[m]) \in Thread /\ kt_wchan[Head(tq_list[m])] = m
    BY ZenonT(60), <2>1, DequeueLinked
  <2>. QED BY <2>2 DEF KmutexInv, Waits
<1>. QED BY <1>1, KmutexInvariance, PTL

(* The holder of a mutex knows it or is on its way back from kmutex_lock.  *)
THEOREM HandedOver == KmutexSpec => []HolderIsOnItsWay
<1>1. KmutexInv => HolderIsOnItsWay
  BY DEF KmutexInv
<1>. QED BY <1>1, KmutexInvariance, PTL

(* A thread blocked in kmutex_lock is on the mutex's queue until           *)
(* kmutex_unlock makes it the holder.                                      *)
THEOREM QueuedUntilHolder == KmutexSpec => []WaiterIsQueued
<1>1. KmutexInv => WaiterIsQueued
  BY DEF KmutexInv
<1>. QED BY <1>1, KmutexInvariance, PTL
=============================================================================
