------------------------------- MODULE Kmutex -------------------------------
(***************************************************************************)
(* Kernel mutexes (proc/kmutex.c) on top of the scheduler.                 *)
(*                                                                         *)
(* A mutex is named by its wait queue km_waitq.  kmutex_unlock hands the   *)
(* mutex to the thread it wakes, so a thread that slept in kmutex_lock     *)
(* owns the mutex before it runs again and does not look at it when it     *)
(* does.  A lock call that sleeps is two steps of its thread: going to     *)
(* sleep, and returning after the scheduler resumed it.                    *)
(***************************************************************************)
EXTENDS Sched

CONSTANT Mutex

ASSUME KmutexAssumption == Mutex \subseteq WaitQ \ DevQ

VARIABLES
  km_holder,  \* km_holder of every mutex, or NULL
  call,       \* the lock call a thread is inside of, NoCall when none
  held        \* the mutexes a thread's lock calls told it that it holds

kmutexVars == <<km_holder, call, held>>
vars == <<schedVars, kmutexVars>>

NoCall == [fn |-> "none", mtx |-> NULL]
LockCall(f, m) == [fn |-> f, mtx |-> m]

KmutexInit ==
  /\ SchedInit
  /\ km_holder = [m \in Mutex |-> NULL]
  /\ call = [t \in Thread |-> NoCall]
  /\ held = [t \in Thread |-> {}]

(* The current thread is in its own code, not inside a lock call.          *)
Client == cpu = "run" /\ call[curthr] = NoCall

(* km_holder is NULL: the caller takes the mutex and returns.              *)
TakeFree(m) ==
  /\ km_holder[m] = NULL
  /\ km_holder' = [km_holder EXCEPT ![m] = curthr]
  /\ held' = [held EXCEPT ![curthr] = @ \cup {m}]
  /\ UNCHANGED <<schedVars, call>>

kmutex_lock(m) ==
  /\ Client
  /\ curthr # km_holder[m]
  /\ \/ TakeFree(m)
     \/ /\ km_holder[m] # NULL
        /\ sched_sleep_on(m)
        /\ call' = [call EXCEPT ![curthr] = LockCall("kmutex_lock", m)]
        /\ UNCHANGED <<km_holder, held>>

kmutex_lock_cancellable(m) ==
  /\ Client
  /\ curthr # km_holder[m]
  /\ \/ TakeFree(m)
     \/ /\ km_holder[m] # NULL
        /\ sched_cancellable_sleep_on(m)
        /\ call' = IF ret' = "-EINTR" THEN call ELSE
             [call EXCEPT ![curthr] = LockCall("kmutex_lock_cancellable", m)]
        /\ UNCHANGED <<km_holder, held>>

Granted == call[curthr].mtx

(* The sleep inside a lock call returns, and with it the lock call: the    *)
(* caller takes a lock call that returns nothing, or 0, to have succeeded. *)
LockReturns ==
  /\ cpu = "run"
  /\ call[curthr] # NoCall
  /\ \/ call[curthr].fn = "kmutex_lock"
     \/ call[curthr].fn = "kmutex_lock_cancellable" /\ ret = "0"
  /\ held' = [held EXCEPT ![curthr] = @ \cup {Granted}]
  /\ call' = [call EXCEPT ![curthr] = NoCall]
  /\ UNCHANGED <<schedVars, km_holder>>

(* Mutant: a single waiter is overlooked.                                  *)
WaitingOffByOne(m) == tq_size[m] > 1
Waiting(m) == tq_size[m] # 0

(* Mutants: the mutex is free until the thread that is woken runs; it goes *)
(* to the end of the queue nobody is woken from.                           *)
NoHeir(m) == NULL
WrongHeir(m) == IF sched_queue_empty(m) THEN NULL ELSE tq_list[m][Len(tq_list[m])]
(* What sched_wakeup_on returns.                                           *)
Heir(m) == IF sched_queue_empty(m) THEN NULL ELSE Head(tq_list[m])

(* Mutant: every waiter is woken.                                          *)
WakeAll(m) == sched_broadcast_on(m)
WakeHeir(m) == sched_wakeup_on(m)

kmutex_unlock(m) ==
  /\ Client
  /\ m \in held[curthr]
  /\ curthr = km_holder[m]
  /\ held' = [held EXCEPT ![curthr] = @ \ {m}]
  /\ \/ /\ Waiting(m)
        /\ WakeHeir(m)
        /\ km_holder' = [km_holder EXCEPT ![m] = Heir(m)]
     \/ /\ ~Waiting(m)
        /\ km_holder' = [km_holder EXCEPT ![m] = NULL]
        /\ UNCHANGED schedVars
  /\ km_holder'[m] # curthr
  /\ UNCHANGED call

(* What the clients of mutexes do besides: they sleep on other queues      *)
(* while they hold mutexes, wake and cancel each other, start threads, and *)
(* exit when they hold nothing.                                            *)
OtherCall ==
  /\ Client
  /\ \/ \E q \in WaitQ \ Mutex : sched_sleep_on(q) \/ sched_cancellable_sleep_on(q)
     \/ \E q \in (WaitQ \ DevQ) \ Mutex : sched_wakeup_on(q) \/ sched_broadcast_on(q)
     \/ \E t \in Thread \ {curthr} :
          \/ kt_state[t] # "KT_NO_STATE" /\ sched_cancel(t)
          \/ kt_state[t] = "KT_NO_STATE" /\ sched_make_runnable(t)
          \/ kthread_create(t)
     \/ thr_yield
     \/ curthr # idle /\ held[curthr] = {} /\ kthread_exit
  /\ UNCHANGED kmutexVars

Machine == (CancelStep \/ Idle \/ AnyInterrupt) /\ UNCHANGED kmutexVars

KmutexNext ==
  \/ \E m \in Mutex : kmutex_lock(m) \/ kmutex_unlock(m)
  \/ LockReturns
  \/ OtherCall
  \/ Machine

CancellableNext == KmutexNext \/ \E m \in Mutex : kmutex_lock_cancellable(m)

(* The kernel's own use of mutexes, kmutex_lock and kmutex_unlock only.    *)
KmutexSpec == KmutexInit /\ [][KmutexNext]_vars

(* Clients release the mutexes they hold and give up the CPU; the machine  *)
(* executes what is not a client's choice.  Nothing is assumed of devices. *)
GiveUpCPU == (OtherCall \/ \E m \in Mutex : kmutex_lock(m)) /\ GiveUp
KmutexFairness ==
  /\ WF_vars((CancelStep \/ Idle) /\ UNCHANGED kmutexVars)
  /\ WF_vars(LockReturns)
  /\ SF_vars(GiveUpCPU)
  /\ \A t \in Thread, m \in Mutex : SF_vars(curthr = t /\ kmutex_unlock(m))

(* The same with callers of kmutex_lock_cancellable.                       *)
CancellableSpec == KmutexInit /\ [][CancellableNext]_vars

---------------------------------------------------------------------------
(* Type invariant of the mutexes.                                          *)
KmutexTypeOK ==
  /\ km_holder \in [Mutex -> Thread \cup {NULL}]
  /\ call \in [Thread -> [fn : {"none", "kmutex_lock", "kmutex_lock_cancellable"},
                          mtx : Mutex \cup {NULL}]]
  /\ held \in [Thread -> SUBSET Mutex]

(* A free mutex has no waiters: kmutex_unlock never leaves a sleeper       *)
(* behind, and no sleeper is left over when the counter it tests and the   *)
(* list it wakes from are changed by others' cancels and interrupts.       *)
FreeHasNoWaiters ==
  \A m \in Mutex : km_holder[m] = NULL => tq_list[m] = << >>

(* kmutex.h: a lock call that returns 0 means "the current thread now      *)
(* holds the mutex": mutual exclusion as the callers see it, which is also *)
(* the KASSERT at the head of kmutex_unlock.                               *)
HoldsWhatItLocked ==
  \A t \in Thread : \A m \in held[t] : km_holder[m] = t

(* A mutex's holder is a thread that knows it holds it or that has been    *)
(* handed the mutex and is on its way back from the sleep in the lock      *)
(* call; a holder never waits for its own mutex.                           *)
HolderIsOnItsWay ==
  \A m \in Mutex : km_holder[m] # NULL =>
    LET t == km_holder[m] IN
    \/ m \in held[t] /\ call[t].mtx # m
    \/ call[t].mtx = m /\ m \notin held[t] /\ kt_wchan[t] # m

(* A thread inside a lock call waits on that mutex's queue until it is the *)
(* holder.                                                                 *)
WaiterIsQueued ==
  \A t \in Thread : call[t] # NoCall =>
    \/ kt_wchan[t] = call[t].mtx
    \/ km_holder[call[t].mtx] = t

(* A thread blocked in kmutex_lock gets the mutex, provided the processor  *)
(* does not stay halted for good and no thread sleeps for good on a queue  *)
(* that is not a mutex's (a device answers, a condition comes true).       *)
LockIsGranted ==
  /\ []<>(cpu # "halted")
  /\ \A t \in Thread : []<>(kt_wchan[t] \notin WaitQ \ Mutex)
  => \A t \in Thread, m \in Mutex : (call[t].mtx = m) ~> (m \in held[t])
=============================================================================
