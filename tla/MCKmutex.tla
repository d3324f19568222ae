------------------------------ MODULE MCKmutex ------------------------------
(* A mutex on the scheduler: three threads, a wait queue that threads wake *)
(* (a process's p_wait) and one that a device's interrupt handler wakes.   *)
EXTENDS Kmutex

CONSTANTS t0, t1, t2, m1, q1, dev

MCThread == {t0, t1, t2}
OneMutex == {m1}
MCDevQ == {dev}
LiveQ == {m1, dev}
OneMutexQ == {m1, q1, dev}

(* The count of a device's queue can drift away from its length without    *)
(* bound (see RunQueueSizeIsLength); exploration stops at this drift.      *)
MaxDrift == 1
DriftBound == tq_size[dev] >= -MaxDrift

(* Liveness: no thread is cancelled (a sleep in kmutex_lock ignores it)    *)
(* and no thread structure is used again.                                  *)
NoReuse == \A t \in Thread : kt_state[t] = "KT_EXITED" => kt_state'[t] = "KT_EXITED"
LiveSpec ==
  /\ KmutexInit
  /\ [][KmutexNext /\ NoReuse /\ UNCHANGED kt_cancelled]_vars
  /\ KmutexFairness
=============================================================================
