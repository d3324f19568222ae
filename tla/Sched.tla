------------------------------- MODULE Sched -------------------------------
(***************************************************************************)
(* The thread scheduler of the kernel (proc/sched.c): the run queue, the   *)
(* wait queues, sleeping, waking, cancelling, switching and the idle loop  *)
(* that every switch falls into when nothing is runnable.                  *)
(*                                                                         *)
(* There is one processor.  Kernel threads are never preempted: a thread   *)
(* keeps the processor until it sleeps, yields or exits.  What does        *)
(* interleave with a thread is an interrupt handler, whenever the          *)
(* interrupt priority level (IPL) is low, so code that runs at IPL_HIGH is *)
(* one atomic step and code that runs at IPL_LOW is cut where an interrupt *)
(* can make a difference.                                                  *)
(***************************************************************************)
EXTENDS List

CONSTANTS
  Thread,    \* the kthread_t structures
  WaitQ,     \* the wait queues, every ktqueue_t other than the run queue
  DevQ,      \* the wait queues whose sleepers are woken by interrupt handlers
  kt_runq,   \* the run queue
  idle,      \* the thread bootstrap() makes active
  NULL

ASSUME SchedAssumption ==
  /\ idle \in Thread
  /\ DevQ \subseteq WaitQ
  /\ kt_runq \notin WaitQ
  /\ NULL \notin WaitQ \cup {kt_runq}
  /\ NULL \notin Thread

Queue == WaitQ \cup {kt_runq}

VARIABLES
  kt_state,      \* kt_state of every thread
  kt_wchan,      \* the queue a thread is linked on, or NULL
  kt_cancelled,  \* kt_cancelled of every thread
  tq_list,       \* tq_list of every queue, the thread queued first in front
  tq_size,       \* tq_size of every queue
  curthr,        \* the current thread; while the CPU idles, the thread whose
                 \* stack the idle loop runs on
  cpu,           \* where the CPU is, see CPUState
  ipl,           \* the interrupt priority level
  frame,         \* the function a switched-out thread will return into
  earlier_ipl,   \* the IPL saved on the stack of a switched-out thread
  cancel,        \* the arguments of the sched_cancel being executed
  ret            \* what sched_cancellable_sleep_on just returned

queueVars == <<tq_list, tq_size, kt_wchan>>
schedVars == <<kt_state, kt_wchan, kt_cancelled, tq_list, tq_size, curthr, cpu,
               ipl, frame, earlier_ipl, cancel, ret>>

KState == {"KT_NO_STATE", "KT_RUN", "KT_SLEEP", "KT_SLEEP_CANCELLABLE",
           "KT_EXITED"}
Asleep == {"KT_SLEEP", "KT_SLEEP_CANCELLABLE"}

(* "run": curthr executes; "cancel": curthr is inside sched_cancel, past    *)
(* the test of kt_state; "idle": about to test the run queue in the idle    *)
(* loop; "hlt": the test said empty and intr_wait is next; "halted": the    *)
(* processor stopped in hlt.                                                *)
CPUState == {"run", "cancel", "idle", "hlt", "halted"}
IPL == {"IPL_LOW", "IPL_HIGH"}
Frame == {"__context_initial_func", "sched_sleep_on",
          "sched_cancellable_sleep_on", "sched_switch"}
Ret == {"none", "0", "-EINTR"}
NoCancel == [thr |-> NULL, q |-> NULL]

SchedInit ==
  /\ kt_state = [t \in Thread |-> "KT_NO_STATE"]
  /\ kt_wchan = [t \in Thread |-> NULL]
  /\ kt_cancelled = [t \in Thread |-> FALSE]
  /\ tq_list = [q \in Queue |-> << >>]
  /\ tq_size = [q \in Queue |-> 0]
  /\ curthr = idle
  /\ cpu = "run"
  /\ ipl = "IPL_LOW"
  /\ frame = [t \in Thread |-> "__context_initial_func"]
  /\ earlier_ipl = [t \in Thread |-> "IPL_LOW"]
  /\ cancel = NoCancel
  /\ ret = "none"

---------------------------------------------------------------------------
(* The private queue functions, on the lists l, the sizes z and the wait   *)
(* channels w.                                                             *)

(* Mutant: ktqueue_enqueue inserts at the end ktqueue_dequeue takes from.  *)
EnqueueListAtTail(l, q, t) == [l EXCEPT ![q] = <<t>> \o @]
EnqueueList(l, q, t) == [l EXCEPT ![q] = Append(@, t)]
EnqueueSize(z, q) == [z EXCEPT ![q] = @ + 1]
DequeueList(l, q) == [l EXCEPT ![q] = Tail(@)]
DequeueSize(z, q) == [z EXCEPT ![q] = @ - 1]
Channel(w, q, t) == [w EXCEPT ![t] = q]

sched_queue_empty(q) == tq_list[q] = << >>

(* The oldest thread of the run queue of l resumes with the wait channels  *)
(* w and the IPL level.  sched_cancellable_sleep_on returns 0 from here,   *)
(* whatever happened during the sleep.                                     *)
Resume(l, z, w, fr, level) ==
  LET n == Head(l[kt_runq]) IN
  /\ tq_list' = DequeueList(l, kt_runq)
  /\ tq_size' = DequeueSize(z, kt_runq)
  /\ kt_wchan' = w
  /\ curthr' = n
  /\ cpu' = "run"
  /\ ipl' = level
  /\ ret' = IF fr[n] = "sched_cancellable_sleep_on" THEN "0" ELSE "none"

(* Mutant: ktqueue_dequeue does not reset kt_wchan.                        *)
DispatchKeepsChannel(l, z, w, fr, eipl) ==
  Resume(l, z, w, fr, eipl[Head(l[kt_runq])])

(* Mutant: the IPL saved before the switch is not restored.                *)
DispatchMasked(l, z, w, fr, eipl) ==
  Resume(l, z, Channel(w, NULL, Head(l[kt_runq])), fr, "IPL_HIGH")

Dispatch(l, z, w, fr, eipl) ==
  Resume(l, z, Channel(w, NULL, Head(l[kt_runq])), fr, eipl[Head(l[kt_runq])])

(* The idle loop starts, on the stack of the thread that left.             *)
EnterIdle == cpu' = "idle" /\ ipl' = "IPL_LOW" /\ UNCHANGED curthr

(* The tail shared by sched_switch, sched_sleep_on and                     *)
(* sched_cancellable_sleep_on (function f), which runs at IPL_HIGH up to   *)
(* the context switch or up to the idle loop.                              *)
Switch(f, l, z, w) ==
  LET fr == [frame EXCEPT ![curthr] = f]
      eipl == [earlier_ipl EXCEPT ![curthr] = ipl]
  IN /\ frame' = fr
     /\ earlier_ipl' = eipl
     /\ \/ l[kt_runq] # << >> /\ Dispatch(l, z, w, fr, eipl)
        \/ /\ l[kt_runq] = << >>
           /\ tq_list' = l
           /\ tq_size' = z
           /\ kt_wchan' = w
           /\ ret' = "none"
           /\ EnterIdle
     /\ UNCHANGED <<kt_cancelled, cancel>>

(* curthr leaves the CPU for queue q in state s.                           *)
SleepOn(f, q, s) ==
  /\ kt_wchan[curthr] = NULL
  /\ kt_state' = [kt_state EXCEPT ![curthr] = s]
  /\ Switch(f, EnqueueList(tq_list, q, curthr), EnqueueSize(tq_size, q),
            Channel(kt_wchan, q, curthr))

sched_sleep_on(q) ==
  /\ cpu = "run"
  /\ SleepOn("sched_sleep_on", q, "KT_SLEEP")

sched_cancellable_sleep_on(q) ==
  /\ cpu = "run"
  /\ \/ /\ kt_cancelled[curthr]
        /\ ret' = "-EINTR"
        /\ UNCHANGED <<kt_state, kt_wchan, kt_cancelled, tq_list, tq_size,
                       curthr, cpu, ipl, frame, earlier_ipl, cancel>>
     \/ /\ ~kt_cancelled[curthr]
        /\ SleepOn("sched_cancellable_sleep_on", q, "KT_SLEEP_CANCELLABLE")

---------------------------------------------------------------------------
(* Waking: sched_wakeup_on and sched_broadcast_on end in                   *)
(* sched_make_runnable for every thread they dequeue.  s is kt_state.      *)

(* Mutant: the thread put on the run queue keeps its state.                *)
RunStateKept(s, t) == s
RunState(s, t) == [s EXCEPT ![t] = "KT_RUN"]

MakeRunnable(l, z, w, s, t) ==
  /\ w[t] = NULL
  /\ tq_list' = EnqueueList(l, kt_runq, t)
  /\ tq_size' = EnqueueSize(z, kt_runq)
  /\ kt_wchan' = Channel(w, kt_runq, t)
  /\ kt_state' = RunState(s, t)

Wakeup(q, s) ==
  \/ /\ sched_queue_empty(q)
     /\ kt_state' = s
     /\ UNCHANGED queueVars
  \/ LET t == Head(tq_list[q]) IN
     /\ ~sched_queue_empty(q)
     /\ s[t] \in Asleep
     /\ MakeRunnable(DequeueList(tq_list, q), DequeueSize(tq_size, q),
                     Channel(kt_wchan, NULL, t), s, t)

Broadcast(q) ==
  LET woken == {t \in Thread : \E i \in DOMAIN tq_list[q] : tq_list[q][i] = t}
      n == Len(tq_list[q])
  IN /\ tq_list' = [tq_list EXCEPT ![q] = << >>,
                                   ![kt_runq] = @ \o tq_list[q]]
     /\ tq_size' = [tq_size EXCEPT ![q] = @ - n, ![kt_runq] = @ + n]
     /\ kt_wchan' = [t \in Thread |->
                       IF t \in woken THEN kt_runq ELSE kt_wchan[t]]
     /\ kt_state' = [t \in Thread |->
                       IF t \in woken THEN "KT_RUN" ELSE kt_state[t]]

sched_wakeup_on(q) ==
  /\ cpu = "run"
  /\ Wakeup(q, kt_state)
  /\ ret' = "none"
  /\ UNCHANGED <<kt_cancelled, curthr, cpu, ipl, frame, earlier_ipl, cancel>>

sched_broadcast_on(q) ==
  /\ cpu = "run"
  /\ Broadcast(q)
  /\ ret' = "none"
  /\ UNCHANGED <<kt_cancelled, curthr, cpu, ipl, frame, earlier_ipl, cancel>>

---------------------------------------------------------------------------
(* sched_cancel runs at the caller's IPL: an interrupt can come between    *)
(* the test of kt_state, the read of kt_wchan that becomes the argument of *)
(* ktqueue_remove, and the removal.                                        *)

(* Mutant: sched_cancel does not look at kt_state.                         *)
CancelsAnySleep(t) == TRUE
CancelsSleep(t) == kt_state[t] = "KT_SLEEP_CANCELLABLE"

sched_cancel(t) ==
  /\ cpu = "run"
  /\ kt_cancelled' = [kt_cancelled EXCEPT ![t] = TRUE]
  /\ ret' = "none"
  /\ \/ CancelsSleep(t) /\ cpu' = "cancel" /\ cancel' = [thr |-> t, q |-> NULL]
     \/ ~CancelsSleep(t) /\ UNCHANGED <<cpu, cancel>>
  /\ UNCHANGED <<kt_state, kt_wchan, tq_list, tq_size, curthr, ipl, frame,
                 earlier_ipl>>

sched_cancel_wchan ==
  /\ cpu = "cancel"
  /\ cancel.q = NULL
  /\ cancel' = [cancel EXCEPT !.q = kt_wchan[cancel.thr]]
  /\ UNCHANGED <<kt_state, kt_wchan, kt_cancelled, tq_list, tq_size, curthr,
                 cpu, ipl, frame, earlier_ipl, ret>>

(* Mutant: ktqueue_remove does not decrement tq_size.                      *)
RemoveSizeKept(z, q) == z
RemoveSize(z, q) == [z EXCEPT ![q] = @ - 1]

(* list_remove unlinks the thread from the queue it is on by then, the     *)
(* tq_size that goes down is that of the queue the argument named.         *)
sched_cancel_remove ==
  /\ cpu = "cancel"
  /\ cancel.q # NULL
  /\ LET t == cancel.thr
         on == kt_wchan[t]
     IN \E i \in DOMAIN tq_list[on] :
          /\ tq_list[on][i] = t
          /\ MakeRunnable([tq_list EXCEPT ![on] = list_remove_at(@, i)],
                          RemoveSize(tq_size, cancel.q),
                          Channel(kt_wchan, NULL, t), kt_state, t)
  /\ cpu' = "run"
  /\ cancel' = NoCancel
  /\ UNCHANGED <<kt_cancelled, curthr, ipl, frame, earlier_ipl, ret>>

---------------------------------------------------------------------------
(* Creating, starting, yielding, exiting.                                  *)

(* kthread_create in the structure of a thread that exited and was         *)
(* destroyed since.                                                        *)
kthread_create(t) ==
  /\ cpu = "run"
  /\ t # curthr
  /\ kt_state[t] = "KT_EXITED"
  /\ kt_state' = [kt_state EXCEPT ![t] = "KT_NO_STATE"]
  /\ kt_cancelled' = [kt_cancelled EXCEPT ![t] = FALSE]
  /\ frame' = [frame EXCEPT ![t] = "__context_initial_func"]
  /\ earlier_ipl' = [earlier_ipl EXCEPT ![t] = "IPL_LOW"]
  /\ ret' = "none"
  /\ UNCHANGED <<kt_wchan, tq_list, tq_size, curthr, cpu, ipl, cancel>>

sched_make_runnable(t) ==
  /\ cpu = "run"
  /\ MakeRunnable(tq_list, tq_size, kt_wchan, kt_state, t)
  /\ ret' = "none"
  /\ UNCHANGED <<kt_cancelled, curthr, cpu, ipl, frame, earlier_ipl, cancel>>

(* SYS_thr_yield: sched_make_runnable(curthr); sched_switch().             *)
thr_yield ==
  /\ cpu = "run"
  /\ kt_wchan[curthr] = NULL
  /\ kt_state' = [kt_state EXCEPT ![curthr] = "KT_RUN"]
  /\ Switch("sched_switch", EnqueueList(tq_list, kt_runq, curthr),
            EnqueueSize(tq_size, kt_runq), Channel(kt_wchan, kt_runq, curthr))

(* The scheduler's part of kthread_exit: KT_EXITED, then sched_switch for  *)
(* the last time.                                                          *)
kthread_exit ==
  /\ cpu = "run"
  /\ kt_wchan[curthr] = NULL
  /\ kt_state' = [kt_state EXCEPT ![curthr] = "KT_EXITED"]
  /\ Switch("sched_switch", tq_list, tq_size, kt_wchan)

intr_setipl(level) ==
  /\ cpu = "run"
  /\ ipl' = level
  /\ ret' = "none"
  /\ UNCHANGED <<kt_state, kt_wchan, kt_cancelled, tq_list, tq_size, curthr,
                 cpu, frame, earlier_ipl, cancel>>

---------------------------------------------------------------------------
(* The idle loop, while (sched_queue_empty(&kt_runq)) intr_wait(), at      *)
(* IPL_LOW, and the interrupts.                                            *)

IdleTest ==
  /\ cpu = "idle"
  /\ \/ /\ sched_queue_empty(kt_runq)
        /\ cpu' = "hlt"
        /\ UNCHANGED <<queueVars, curthr, ipl, ret>>
     \/ /\ ~sched_queue_empty(kt_runq)
        /\ Dispatch(tq_list, tq_size, kt_wchan, frame, earlier_ipl)
  /\ UNCHANGED <<kt_state, kt_cancelled, frame, earlier_ipl, cancel>>

intr_wait ==
  /\ cpu = "hlt"
  /\ cpu' = "halted"
  /\ UNCHANGED <<kt_state, kt_wchan, kt_cancelled, tq_list, tq_size, curthr,
                 ipl, frame, earlier_ipl, cancel, ret>>

(* A device's interrupt handler wakes one or all of the threads that sleep *)
(* on the device's queue; any interrupt ends hlt.                          *)
Interrupt(q) ==
  /\ ipl = "IPL_LOW"
  /\ Wakeup(q, kt_state) \/ Broadcast(q)
  /\ cpu' = IF cpu = "halted" THEN "idle" ELSE cpu
  /\ UNCHANGED <<kt_cancelled, curthr, ipl, frame, earlier_ipl, cancel, ret>>

---------------------------------------------------------------------------
(* The scheduler under every client: any thread may make any call the      *)
(* kernel's own callers make.                                              *)

Idle == IdleTest \/ intr_wait
Leave ==
  \/ \E q \in WaitQ : sched_sleep_on(q) \/ sched_cancellable_sleep_on(q)
  \/ thr_yield
  \/ curthr # idle /\ kthread_exit
Call ==
  \/ \E q \in WaitQ \ DevQ : sched_wakeup_on(q) \/ sched_broadcast_on(q)
  \/ \E t \in Thread \ {curthr} :
       \/ kt_state[t] # "KT_NO_STATE" /\ sched_cancel(t)
       \/ kt_state[t] = "KT_NO_STATE" /\ sched_make_runnable(t)
       \/ kthread_create(t)
  \/ \E level \in IPL : intr_setipl(level)
CancelStep == sched_cancel_wchan \/ sched_cancel_remove
AnyInterrupt == \E q \in DevQ : Interrupt(q)

SchedNext == Leave \/ Call \/ CancelStep \/ Idle \/ AnyInterrupt

SchedSpec == SchedInit /\ [][SchedNext]_schedVars

(* A call that makes curthr give up the CPU.                               *)
GiveUp == Leave /\ ret' # "-EINTR"

---------------------------------------------------------------------------
(* Type invariant of the scheduler's state.                                *)
SchedTypeOK ==
  /\ kt_state \in [Thread -> KState]
  /\ kt_wchan \in [Thread -> Queue \cup {NULL}]
  /\ kt_cancelled \in [Thread -> BOOLEAN]
  /\ tq_list \in [Queue -> Seq(Thread)]
  /\ tq_size \in [Queue -> Int]
  /\ curthr \in Thread
  /\ cpu \in CPUState
  /\ ipl \in IPL
  /\ frame \in [Thread -> Frame]
  /\ earlier_ipl \in [Thread -> IPL]
  /\ cancel \in [thr : Thread \cup {NULL}, q : Queue \cup {NULL}]
  /\ ret \in Ret

Running(t) == t = curthr /\ cpu \in {"run", "cancel"}

(* A queue holds exactly the threads whose kt_wchan names it, each once,   *)
(* whatever interrupts do between the steps of sched_cancel.               *)
LinkedWhereItWaits ==
  /\ \A q \in Queue : \A i \in 1..Len(tq_list[q]) :
       /\ kt_wchan[tq_list[q][i]] = q
       /\ \A j \in 1..Len(tq_list[q]) : tq_list[q][i] = tq_list[q][j] => i = j
  /\ \A t \in Thread : kt_wchan[t] # NULL =>
       \E i \in 1..Len(tq_list[kt_wchan[t]]) : tq_list[kt_wchan[t]][i] = t

(* sched.c, above sched_cancel: "unless the thread is in the KT_NO_STATE   *)
(* or KT_EXITED state, it should be on some queue.  Otherwise, it will     *)
(* never be run again": the only exception is the thread that has the CPU. *)
(* A thread on the run queue is KT_RUN and one on a wait queue sleeps.     *)
NeverLost ==
  \A t \in Thread :
    /\ kt_wchan[t] = kt_runq => kt_state[t] = "KT_RUN"
    /\ kt_wchan[t] \in WaitQ => kt_state[t] \in Asleep
    /\ kt_wchan[t] = NULL =>
         Running(t) \/ kt_state[t] \in {"KT_NO_STATE", "KT_EXITED"}
    /\ Running(t) => kt_wchan[t] = NULL

(* The KASSERTs of the queue functions hold whenever the function can be   *)
(* called: sched_wakeup_on and an interrupt handler only ever find a       *)
(* sleeping thread at the end of a wait queue, a thread about to sleep or  *)
(* to be made runnable is on no queue, and the thread sched_cancel is      *)
(* about to unlink is still linked even if an interrupt woke it since the  *)
(* test of its state.                                                      *)
KAssertsHold ==
  /\ cpu = "run" => kt_wchan[curthr] = NULL
  /\ \A q \in WaitQ : tq_list[q] # << >> => kt_state[Head(tq_list[q])] \in Asleep
  /\ \A t \in Thread : kt_state[t] = "KT_NO_STATE" => kt_wchan[t] = NULL
  /\ cpu = "cancel" => kt_wchan[cancel.thr] # NULL

(* kmutex_unlock decides by tq_size, not by the list, whether somebody     *)
(* waits: on a queue no interrupt handler touches tq_size is the length.   *)
SizeIsLength ==
  \A q \in WaitQ \ DevQ : tq_size[q] = Len(tq_list[q])

Ahead(l, q, t, u) ==
  \E i, j \in DOMAIN l[q] : i < j /\ l[q][i] = t /\ l[q][j] = u

(* No overtaking in a wait queue: ktqueue_enqueue and ktqueue_dequeue work *)
(* on opposite ends, so a thread u that is not ahead of t on t's queue,    *)
(* be it on the queue or not, does not get ahead of t, and when it leaves  *)
(* the queue without having been cancelled t leaves it too.                *)
WokenInOrder ==
  [][\A q \in WaitQ : \A t, u \in Thread :
       kt_wchan[t] = q /\ t # u /\ ~Ahead(tq_list, q, u, t) =>
         /\ ~Ahead(tq_list', q, u, t)
         /\ kt_wchan[u] = q /\ kt_wchan'[u] # q /\ ~kt_cancelled[u] =>
              kt_wchan'[t] # q]_schedVars

(* A thread that returns from a switch has the IPL it had when it was      *)
(* switched out ("The IPL is process specific"), although the idle loop    *)
(* and other threads change it in between; the idle loop itself never runs *)
(* with interrupts masked.                                                 *)
OwnIPL ==
  [][/\ cpu' \in {"idle", "hlt", "halted"} => ipl' = "IPL_LOW"
     /\ cpu' = "run" /\ (curthr' # curthr \/ cpu = "idle") =>
          ipl' = earlier_ipl[curthr']]_schedVars

(* A thread on the run queue gets the CPU, provided the processor does not *)
(* stay halted for good.                                                   *)
RunnableRuns ==
  ([]<>(cpu # "halted")) =>
    \A t \in Thread : (kt_wchan[t] = kt_runq) ~> (curthr = t /\ cpu = "run")

(* interrupt.h, intr_wait: the code is said not to be susceptible to "a    *)
(* bug where an interrupt occurs between the sti and hlt commands and does *)
(* not wake us up from the hlt": the processor never halts while a thread  *)
(* is runnable.                                                            *)
HaltsOnlyWhenIdle == cpu = "halted" => sched_queue_empty(kt_runq)

(* sched.c: "you need to mask all interrupts before reading or modifying   *)
(* the run queue": then its tq_size would be its length.                   *)
RunQueueSizeIsLength == tq_size[kt_runq] = Len(tq_list[kt_runq])
=============================================================================
