--------------------------- MODULE SchedInvariant ---------------------------
(***************************************************************************)
(* The inductive invariant of Sched.                                       *)
(*                                                                         *)
(* None of the scheduler's properties is inductive by itself.  SchedInv    *)
(* joins them with two facts they need: CancelTarget, what an interrupt    *)
(* may and may not have changed between the steps of sched_cancel, and     *)
(* IdlesUnmasked.  SchedProofs shows that every step keeps it.             *)
(***************************************************************************)
EXTENDS Sched

(* Queues l and wait channels w agree: a queue holds exactly the threads   *)
(* whose channel names it, each of them once.                              *)
Linked(l, w) ==
  /\ l \in [Queue -> Seq(Thread)]
  /\ w \in [Thread -> Queue \cup {NULL}]
  /\ \A q \in Queue : \A i \in 1..Len(l[q]) :
       /\ w[l[q][i]] = q
       /\ \A j \in 1..Len(l[q]) : l[q][i] = l[q][j] => i = j
  /\ \A t \in Thread : w[t] # NULL =>
       \E i \in 1..Len(l[w[t]]) : l[w[t]][i] = t

(* On a queue no interrupt handler touches, the size z is the length of l. *)
Counted(l, z) ==
  /\ z \in [Queue -> Int]
  /\ \A q \in WaitQ \ DevQ : z[q] = Len(l[q])

(* The states s fit the wait channels w when the threads of run have the   *)
(* CPU, or are off every queue for another reason.                         *)
Placed(w, s, run) ==
  /\ s \in [Thread -> KState]
  /\ \A t \in Thread :
       /\ w[t] = kt_runq => s[t] = "KT_RUN"
       /\ w[t] \in WaitQ <=> s[t] \in Asleep
       /\ w[t] = NULL => t \in run \/ s[t] \in {"KT_NO_STATE", "KT_EXITED"}
       /\ t \in run => w[t] = NULL

(* The set of the threads that have the CPU.                               *)
Runs(t, c) == IF c \in {"run", "cancel"} THEN {t} ELSE {}

(* While sched_cancel is between its test and the removal, its thread is   *)
(* marked cancelled and still linked, and the queue it read is the one the *)
(* thread is on unless a device interrupt has woken the thread since.      *)
CancelTarget ==
  cpu = "cancel" =>
    /\ cancel.thr \in Thread \ {curthr}
    /\ kt_cancelled[cancel.thr]
    /\ kt_wchan[cancel.thr] # NULL
    /\ cancel.q # NULL =>
         ((cancel.q \in WaitQ \ DevQ \/ kt_wchan[cancel.thr] \in WaitQ \ DevQ) =>
            cancel.q = kt_wchan[cancel.thr])

(* The idle loop runs at IPL_LOW.                                          *)
IdlesUnmasked == cpu \in {"idle", "hlt", "halted"} => ipl = "IPL_LOW"

(* The inductive invariant of the scheduler.                               *)
SchedInv ==
  /\ SchedTypeOK
  /\ Linked(tq_list, kt_wchan)
  /\ Counted(tq_list, tq_size)
  /\ Placed(kt_wchan, kt_state, Runs(curthr, cpu))
  /\ CancelTarget
  /\ IdlesUnmasked

(* The same, when the threads of off are off every queue and never get the *)
(* CPU, in whatever state they are: the processes that died.               *)
SchedBut(off) ==
  /\ SchedTypeOK
  /\ Linked(tq_list, kt_wchan)
  /\ Counted(tq_list, tq_size)
  /\ Placed(kt_wchan, kt_state, Runs(curthr, cpu) \cup off)
  /\ Runs(curthr, cpu) \cap off = {}
  /\ CancelTarget
  /\ IdlesUnmasked
=============================================================================
