---------------------------- MODULE SchedProofs -----------------------------
(***************************************************************************)
(* Proofs about Sched, for any set of threads and queues: SchedInv holds   *)
(* in every state, and implies the scheduler's properties.                 *)
(*                                                                         *)
(* The queue functions are first shown to keep queues, channels, sizes and *)
(* states in agreement, for arbitrary arguments, since one call composes   *)
(* several of them; each action then applies those lemmas to the state.    *)
(***************************************************************************)
EXTENDS SchedInvariant, SequenceLemmas

---------------------------------------------------------------------------
(* The queue functions.                                                    *)

(* ktqueue_enqueue of a thread that is on no queue keeps queues and        *)
(* channels in agreement.                                                  *)
LEMMA EnqueueLinked ==
  ASSUME NEW l, NEW w, NEW q \in Queue, NEW t \in Thread,
         Linked(l, w), w[t] = NULL
  PROVE  Linked(EnqueueList(l, q, t), Channel(w, q, t))
<1> DEFINE l2 == EnqueueList(l, q, t)
           w2 == Channel(w, q, t)
<1>1. /\ l[q] \in Seq(Thread)
      /\ Append(l[q], t) \in Seq(Thread)
      /\ Len(l[q]) \in Nat
      /\ Len(Append(l[q], t)) = Len(l[q]) + 1
      /\ \A i \in 1..Len(l[q]) : Append(l[q], t)[i] = l[q][i]
      /\ Append(l[q], t)[Len(l[q]) + 1] = t
  BY AppendFacts DEF Linked
<1>2. l2 \in [Queue -> Seq(Thread)] /\ w2 \in [Thread -> Queue \cup {NULL}]
  BY Zenon, <1>1 DEF Linked, EnqueueList, Channel
<1>3. ASSUME NEW p \in Queue, NEW i \in 1..Len(l[p])
      PROVE  l[p][i] \in Thread /\ l[p][i] # t
  BY <1>3, SchedAssumption DEF Linked, Queue
<1>4. ASSUME NEW p \in Queue, NEW i \in 1..Len(l2[p])
      PROVE  /\ w2[l2[p][i]] = p
             /\ \A j \in 1..Len(l2[p]) : l2[p][i] = l2[p][j] => i = j
  <2>1. CASE p = q
    BY <2>1, <1>1, <1>3, <1>4 DEF Linked, EnqueueList, Channel
  <2>2. CASE p # q
    BY <2>2, <1>3, <1>4 DEF Linked, EnqueueList, Channel
  <2>. QED BY Zenon, <2>1, <2>2
<1>5. ASSUME NEW u \in Thread, w2[u] # NULL
      PROVE  \E i \in 1..Len(l2[w2[u]]) : l2[w2[u]][i] = u
  <2>1. CASE u = t
    BY <2>1, <1>1 DEF Linked, EnqueueList, Channel
  <2>2. CASE u # t
    <3>1. w2[u] = w[u] /\ w[u] \in Queue
      BY <2>2, <1>5 DEF Linked, Channel
    <3>2. PICK i \in 1..Len(l[w[u]]) : l[w[u]][i] = u
      BY Zenon, <1>5, <3>1 DEF Linked
    <3>3. i \in 1..Len(l2[w[u]]) /\ l2[w[u]][i] = u
      BY <3>1, <3>2, <1>1 DEF Linked, EnqueueList
    <3>. QED BY Zenon, <3>1, <3>3
  <2>. QED BY Zenon, <2>1, <2>2
<1>. QED BY Zenon, <1>2, <1>4, <1>5 DEF Linked

(* ktqueue_dequeue from a queue that is not empty takes a thread whose     *)
(* channel is that queue, and keeps the agreement.                         *)
LEMMA DequeueLinked ==
  ASSUME NEW l, NEW w, NEW q \in Queue, Linked(l, w), l[q] # << >>
  PROVE  /\ Head(l[q]) \in Thread
         /\ w[Head(l[q])] = q
         /\ Linked(DequeueList(l, q), Channel(w, NULL, Head(l[q])))
<1> DEFINE h == Head(l[q])
           l2 == DequeueList(l, q)
           w2 == Channel(w, NULL, h)
<1>1. /\ Len(l[q]) \in Nat \ {0}
      /\ h = l[q][1]
      /\ h \in Thread
      /\ Tail(l[q]) \in Seq(Thread)
      /\ Len(Tail(l[q])) = Len(l[q]) - 1
      /\ \A i \in 1..(Len(l[q]) - 1) : Tail(l[q])[i] = l[q][i + 1]
  BY TailFacts DEF Linked
<1> HIDE DEF h
<1>2. w[h] = q /\ q # NULL
  BY <1>1, SchedAssumption DEF Linked, Queue
<1>3. l2 \in [Queue -> Seq(Thread)] /\ w2 \in [Thread -> Queue \cup {NULL}]
  BY Zenon, <1>1 DEF Linked, DequeueList, Channel
<1>4. ASSUME NEW p \in Queue, NEW i \in 1..Len(l2[p])
      PROVE  /\ w2[l2[p][i]] = p
             /\ \A j \in 1..Len(l2[p]) : l2[p][i] = l2[p][j] => i = j
  <2>1. CASE p = q
    <3>1. l2[p] = Tail(l[q])
      BY Zenon, <2>1 DEF Linked, DequeueList
    <3>2. i + 1 \in 1..Len(l[q]) /\ l2[p][i] = l[q][i + 1] /\ i \in Nat
      BY <3>1, <1>1, <1>4
    <3>3. l[q][i + 1] # h /\ w[l[q][i + 1]] = q /\ l[q][i + 1] \in Thread
      BY SMTT(60), <3>2, <1>1 DEF Linked
    <3>4. \A j \in 1..Len(l2[p]) : j \in Int /\ j + 1 \in 1..Len(l[q]) /\ l2[p][j] = l[q][j + 1]
      BY <3>1, <1>1
    <3>5. \A j \in 1..Len(l2[p]) : l2[p][i] = l2[p][j] => i + 1 = j + 1
      BY <3>2, <3>4 DEF Linked
    <3>. QED BY <2>1, <3>2, <3>3, <3>4, <3>5 DEF Linked, Channel
  <2>2. CASE p # q
    <3>1. l2[p] = l[p] /\ l[p][i] \in Thread /\ w[l[p][i]] = p
      BY <2>2, <1>4 DEF Linked, DequeueList
    <3>. QED BY <2>2, <3>1, <1>2, <1>4 DEF Linked, Channel
  <2>. QED BY Zenon, <2>1, <2>2
<1>5. ASSUME NEW u \in Thread, w2[u] # NULL
      PROVE  \E i \in 1..Len(l2[w2[u]]) : l2[w2[u]][i] = u
  <2>1. u # h /\ w2[u] = w[u] /\ w[u] \in Queue
    BY <1>5, <1>1 DEF Linked, Channel
  <2>2. PICK i \in 1..Len(l[w[u]]) : l[w[u]][i] = u
    BY Zenon, <1>5, <2>1 DEF Linked
  <2>3. CASE w[u] = q
    <3>1. i # 1
      BY Zenon, <2>1, <2>2, <2>3, <1>1
    <3>2. l2[w2[u]] = Tail(l[q])
      BY <2>1, <2>3 DEF Linked, DequeueList
    <3>3. i - 1 \in 1..(Len(l[q]) - 1) /\ (i - 1) + 1 = i
      BY <3>1, <2>2, <2>3, <1>1
    <3>. QED BY <2>2, <2>3, <3>2, <3>3, <1>1
  <2>4. CASE w[u] # q
    BY <2>1, <2>2, <2>4 DEF Linked, DequeueList
  <2>. QED BY Zenon, <2>3, <2>4
<1>. QED BY Zenon, <1>1, <1>2, <1>3, <1>4, <1>5 DEF Linked, h

(* list_remove of a linked thread, with its channel reset, keeps the       *)
(* agreement.                                                              *)
LEMMA RemoveLinked ==
  ASSUME NEW l, NEW w, NEW t \in Thread, Linked(l, w), w[t] # NULL,
         NEW i \in 1..Len(l[w[t]]), l[w[t]][i] = t
  PROVE  Linked([l EXCEPT ![w[t]] = list_remove_at(@, i)], Channel(w, NULL, t))
<1> DEFINE q == w[t]
           l2 == [l EXCEPT ![q] = list_remove_at(@, i)]
           w2 == Channel(w, NULL, t)
<1>1. q \in Queue /\ l[q] \in Seq(Thread)
  BY DEF Linked
<1>2. /\ list_remove_at(l[q], i) \in Seq(Thread)
      /\ Len(list_remove_at(l[q], i)) = Len(l[q]) - 1
      /\ \A k \in 1..(Len(l[q]) - 1) :
           list_remove_at(l[q], i)[k] = l[q][IF k < i THEN k ELSE k + 1]
      /\ Len(l[q]) \in Nat
  <2>1. i \in 1..Len(l[q]) /\ Len(l[q]) \in Nat
    BY <1>1
  <2> HIDE DEF q
  <2>. QED BY ZenonT(60), <1>1, <2>1, RemoveAtFacts
<1>3. l2 \in [Queue -> Seq(Thread)] /\ w2 \in [Thread -> Queue \cup {NULL}]
  BY Zenon, <1>1, <1>2 DEF Linked, Channel
<1>4. ASSUME NEW p \in Queue, NEW k \in 1..Len(l2[p])
      PROVE  /\ w2[l2[p][k]] = p
             /\ \A j \in 1..Len(l2[p]) : l2[p][k] = l2[p][j] => k = j
  <2>1. CASE p = q
    <3> DEFINE old(j) == IF j < i THEN j ELSE j + 1
    <3>1. l2[p] = list_remove_at(l[q], i) /\ Len(l2[p]) = Len(l[q]) - 1
      BY <2>1, <1>1, <1>2 DEF Linked
    <3>2. \A j \in 1..Len(l2[p]) :
            old(j) \in 1..Len(l[q]) /\ old(j) # i /\ l2[p][j] = l[q][old(j)]
      BY SMTT(60), <3>1, <1>2
    <3>3. \A j \in 1..Len(l2[p]) : old(k) = old(j) => k = j
      BY <1>4, <3>1, <1>2
    <3> HIDE DEF old
    <3>4. \A a, b \in 1..Len(l[q]) :
            l[q][a] \in Thread /\ w[l[q][a]] = q /\ (l[q][a] = l[q][b] => a = b)
      BY <1>1 DEF Linked
    <3>5. \A j \in 1..Len(l2[p]) : l2[p][k] = l2[p][j] => old(k) = old(j)
      BY SMTT(60), <3>2, <3>4, <1>4
    <3>6. l2[p][k] \in Thread /\ l2[p][k] # t /\ w[l2[p][k]] = q
      <4>1. k \in 1..Len(l2[p]) /\ i \in 1..Len(l[q]) /\ l[q][i] = t
        BY Zenon, <1>4
      <4>2. old(k) \in 1..Len(l[q]) /\ old(k) # i /\ l2[p][k] = l[q][old(k)]
        BY Zenon, <3>2, <4>1
      <4> HIDE DEF l2, q
      <4>. QED BY Zenon, <3>4, <4>1, <4>2
    <3>. QED BY Zenon, <2>1, <3>3, <3>5, <3>6 DEF Linked, Channel
  <2>2. CASE p # q
    <3>1. l2[p] = l[p] /\ l[p][k] \in Thread /\ w[l[p][k]] = p
      BY <2>2, <1>1, <1>4 DEF Linked
    <3>. QED BY <2>2, <3>1, <1>4 DEF Linked, Channel
  <2>. QED BY Zenon, <2>1, <2>2
<1>5. ASSUME NEW u \in Thread, w2[u] # NULL
      PROVE  \E k \in 1..Len(l2[w2[u]]) : l2[w2[u]][k] = u
  <2>1. u # t /\ w2[u] = w[u] /\ w[u] \in Queue
    BY <1>5 DEF Linked, Channel
  <2>2. PICK j \in 1..Len(l[w[u]]) : l[w[u]][j] = u
    BY Zenon, <1>5, <2>1 DEF Linked
  <2>3. CASE w[u] = q
    <3> DEFINE k == IF j < i THEN j ELSE j - 1
    <3>1. l2[w2[u]] = list_remove_at(l[q], i)
      BY <2>1, <2>3, <1>1 DEF Linked
    <3>2. j # i
      BY Zenon, <2>1, <2>2, <2>3
    <3>3. k \in 1..(Len(l[q]) - 1) /\ (IF k < i THEN k ELSE k + 1) = j
      BY <3>2, <2>2, <2>3, <1>2
    <3>. QED BY ZenonT(60), <2>2, <2>3, <3>1, <3>3, <1>2
  <2>4. CASE w[u] # q
    BY Zenon, <2>1, <2>2, <2>4, <1>1 DEF Linked
  <2>. QED BY Zenon, <2>3, <2>4
<1>. QED BY ZenonT(60), <1>3, <1>4, <1>5 DEF Linked

(* ktqueue_enqueue keeps sizes and lengths equal.                          *)
LEMMA EnqueueCounted ==
  ASSUME NEW l \in [Queue -> Seq(Thread)], NEW z, NEW q \in Queue,
         NEW t \in Thread, Counted(l, z)
  PROVE  Counted(EnqueueList(l, q, t), EnqueueSize(z, q))
<1>1. \A p \in WaitQ \ DevQ :
        EnqueueSize(z, q)[p] = Len(EnqueueList(l, q, t)[p])
  <2> TAKE p \in WaitQ \ DevQ
  <2>1. p \in Queue /\ z[p] = Len(l[p]) /\ l[p] \in Seq(Thread)
    BY Zenon DEF Counted, Queue
  <2>2. CASE p = q
    BY <2>1, <2>2, AppendFacts DEF Counted, EnqueueList, EnqueueSize
  <2>3. CASE p # q
    BY Zenon, <2>1, <2>3 DEF Counted, EnqueueList, EnqueueSize
  <2>. QED BY Zenon, <2>2, <2>3
<1>. QED BY <1>1 DEF Counted, EnqueueSize

(* ktqueue_dequeue keeps sizes and lengths equal.                          *)
LEMMA DequeueCounted ==
  ASSUME NEW l \in [Queue -> Seq(Thread)], NEW z, NEW q \in Queue,
         l[q] # << >>, Counted(l, z)
  PROVE  Counted(DequeueList(l, q), DequeueSize(z, q))
<1>1. \A p \in WaitQ \ DevQ :
        DequeueSize(z, q)[p] = Len(DequeueList(l, q)[p])
  <2> TAKE p \in WaitQ \ DevQ
  <2>1. p \in Queue /\ z[p] = Len(l[p]) /\ l[p] \in Seq(Thread)
    BY Zenon DEF Counted, Queue
  <2>2. CASE p = q
    BY Zenon, <2>1, <2>2, TailFacts DEF Counted, DequeueList, DequeueSize
  <2>3. CASE p # q
    BY Zenon, <2>1, <2>3 DEF Counted, DequeueList, DequeueSize
  <2>. QED BY Zenon, <2>2, <2>3
<1>. QED BY <1>1 DEF Counted, DequeueSize

(* sched_make_runnable keeps the three agreements when the thread is on no *)
(* queue and does not have the CPU.                                        *)
LEMMA MakeRunnableStep ==
  ASSUME NEW l, NEW z, NEW w, NEW s, NEW run, NEW t \in Thread \ run,
         Linked(l, w), Counted(l, z), s \in [Thread -> KState],
         \A u \in Thread \ {t} :
           /\ w[u] = kt_runq => s[u] = "KT_RUN"
           /\ w[u] \in WaitQ <=> s[u] \in Asleep
           /\ w[u] = NULL => u \in run \/ s[u] \in {"KT_NO_STATE", "KT_EXITED"}
           /\ u \in run => w[u] = NULL,
         MakeRunnable(l, z, w, s, t)
  PROVE  /\ Linked(tq_list', kt_wchan')
         /\ Counted(tq_list', tq_size')
         /\ Placed(kt_wchan', kt_state', run)
         /\ kt_wchan' = [w EXCEPT ![t] = kt_runq]
<1>1. w[t] = NULL /\ kt_runq \in Queue /\ kt_runq \notin WaitQ /\ kt_runq # NULL
  BY Zenon, SchedAssumption DEF MakeRunnable, Queue
<1>2. Linked(tq_list', kt_wchan')
  BY Zenon, <1>1, EnqueueLinked DEF MakeRunnable
<1>3. Counted(tq_list', tq_size')
  BY Zenon, <1>1, EnqueueCounted DEF MakeRunnable, Linked
<1>4. Placed(kt_wchan', kt_state', run)
  <2>1. /\ kt_state' = [s EXCEPT ![t] = "KT_RUN"]
        /\ kt_wchan' = [w EXCEPT ![t] = kt_runq]
        /\ w \in [Thread -> Queue \cup {NULL}]
    BY Zenon DEF MakeRunnable, RunState, Channel, Linked
  <2>2. kt_state' \in [Thread -> KState]
    BY Zenon, <2>1 DEF KState
  <2>. QED BY Zenon, <1>1, <2>1, <2>2 DEF Placed, Asleep
<1>. QED BY Zenon, <1>2, <1>3, <1>4 DEF MakeRunnable, Channel

(* sched_wakeup_on keeps the three agreements, and moves at most the       *)
(* oldest thread of its queue to the run queue.                            *)
LEMMA WakeupStep ==
  ASSUME NEW s, NEW run, NEW q \in WaitQ, Linked(tq_list, kt_wchan),
         Counted(tq_list, tq_size), Placed(kt_wchan, s, run), Wakeup(q, s)
  PROVE  /\ Linked(tq_list', kt_wchan')
         /\ Counted(tq_list', tq_size')
         /\ Placed(kt_wchan', kt_state', run)
         /\ \/ kt_wchan' = kt_wchan
            \/ /\ tq_list[q] # << >>
               /\ kt_wchan' = [kt_wchan EXCEPT ![Head(tq_list[q])] = kt_runq]
<1>1. q \in Queue
  BY Zenon DEF Queue
<1>2. CASE sched_queue_empty(q)
  BY Zenon, <1>2 DEF Wakeup, sched_queue_empty, queueVars
<1>3. CASE ~sched_queue_empty(q)
  <2> DEFINE t == Head(tq_list[q])
             l == DequeueList(tq_list, q)
             z == DequeueSize(tq_size, q)
             w == Channel(kt_wchan, NULL, t)
  <2>1. tq_list[q] # << >> /\ MakeRunnable(l, z, w, s, t)
    BY Zenon, <1>3 DEF Wakeup, sched_queue_empty
  <2>2. t \in Thread /\ kt_wchan[t] = q /\ Linked(l, w)
    BY ZenonT(60), <1>1, <2>1, DequeueLinked
  <2>3. Counted(l, z)
    BY Zenon, <1>1, <2>1, DequeueCounted DEF Linked
  <2> HIDE DEF t, l, z
  <2>4. t \notin run
    BY Zenon, <2>2, SchedAssumption DEF Placed
  <2>5. \A u \in Thread \ {t} : w[u] = kt_wchan[u]
    BY DEF Channel, Linked
  <2>6. /\ Linked(tq_list', kt_wchan')
        /\ Counted(tq_list', tq_size')
        /\ Placed(kt_wchan', kt_state', run)
        /\ kt_wchan' = [w EXCEPT ![t] = kt_runq]
    <3> HIDE DEF w
    <3>. QED BY SMTT(60), <2>1, <2>2, <2>3, <2>4, <2>5, MakeRunnableStep DEF Placed
  <2>7. kt_wchan' = [kt_wchan EXCEPT ![t] = kt_runq]
    BY ZenonT(60), <2>2, <2>6 DEF Channel, Linked
  <2>. QED BY ZenonT(60), <2>1, <2>6, <2>7 DEF t
<1>. QED BY Zenon, <1>2, <1>3

(* sched_broadcast_on keeps the three agreements, and moves exactly the    *)
(* threads of its queue to the run queue.                                  *)
LEMMA BroadcastStep ==
  ASSUME NEW run, NEW q \in WaitQ, Linked(tq_list, kt_wchan),
         Counted(tq_list, tq_size), Placed(kt_wchan, kt_state, run),
         Broadcast(q)
  PROVE  /\ Linked(tq_list', kt_wchan')
         /\ Counted(tq_list', tq_size')
         /\ Placed(kt_wchan', kt_state', run)
         /\ \A t \in Thread :
              kt_wchan'[t] = IF kt_wchan[t] = q THEN kt_runq ELSE kt_wchan[t]
<1> DEFINE woken == {t \in Thread : \E i \in DOMAIN tq_list[q] : tq_list[q][i] = t}
           sq == tq_list[q]
           rq == tq_list[kt_runq]
<1>1. /\ q \in Queue /\ kt_runq \in Queue /\ q # kt_runq
      /\ NULL \notin Queue
      /\ kt_runq \notin WaitQ
  BY Zenon, SchedAssumption DEF Queue
<1>2. /\ sq \in Seq(Thread) /\ rq \in Seq(Thread)
      /\ Len(sq) \in Nat /\ Len(rq) \in Nat
      /\ DOMAIN sq = 1..Len(sq)
  BY <1>1 DEF Linked
<1> HIDE DEF sq, rq
<1>3. \A t \in Thread : t \in woken <=> kt_wchan[t] = q
  <2> TAKE t \in Thread
  <2>1. ASSUME t \in woken PROVE kt_wchan[t] = q
    BY <2>1, <1>1, <1>2 DEF Linked, sq
  <2>2. ASSUME kt_wchan[t] = q PROVE t \in woken
    BY ZenonT(60), <2>2, <1>1, <1>2 DEF Linked, sq
  <2>. QED BY Zenon, <2>1, <2>2
<1>4. /\ tq_list' = [tq_list EXCEPT ![q] = << >>, ![kt_runq] = rq \o sq]
      /\ tq_size' = [tq_size EXCEPT ![q] = @ - Len(sq),
                                    ![kt_runq] = @ + Len(sq)]
      /\ kt_wchan' = [t \in Thread |-> IF t \in woken THEN kt_runq ELSE kt_wchan[t]]
      /\ kt_state' = [t \in Thread |-> IF t \in woken THEN "KT_RUN" ELSE kt_state[t]]
  BY Zenon, <1>1 DEF Broadcast, Linked, sq, rq
<1> DEFINE c == rq \o sq
<1>5. /\ c \in Seq(Thread)
      /\ Len(c) = Len(rq) + Len(sq)
      /\ \A i \in 1..Len(rq) : i \in 1..Len(c) /\ c[i] = rq[i]
      /\ \A i \in 1..Len(sq) : Len(rq) + i \in 1..Len(c) /\ c[Len(rq) + i] = sq[i]
      /\ \A k \in 1..Len(c) : \/ k \in 1..Len(rq) /\ c[k] = rq[k]
                              \/ k - Len(rq) \in 1..Len(sq) /\ c[k] = sq[k - Len(rq)]
  BY <1>2, ConcatFacts
<1> HIDE DEF c
<1>6. /\ tq_list'[q] = << >>
      /\ tq_list'[kt_runq] = c
      /\ \A p \in Queue \ {q, kt_runq} : tq_list'[p] = tq_list[p]
      /\ tq_list' \in [Queue -> Seq(Thread)]
      /\ Len(tq_list'[q]) = 0
  <2>1. tq_list' = [tq_list EXCEPT ![q] = << >>, ![kt_runq] = c]
    BY Zenon, <1>4 DEF c
  <2>2. << >> \in Seq(Thread) /\ Len(<< >>) = 0
    OBVIOUS
  <2>3. tq_list \in [Queue -> Seq(Thread)]
    BY Zenon DEF Linked
  <2>4. tq_list'[q] = << >> /\ tq_list'[kt_runq] = c
    BY Zenon, <1>1, <2>1, <2>3
  <2>5. \A p \in Queue \ {q, kt_runq} : tq_list'[p] = tq_list[p]
    BY Zenon, <2>1, <2>3
  <2>6. tq_list' \in [Queue -> Seq(Thread)]
    BY ZenonT(60), <1>1, <1>5, <2>1, <2>2, <2>3
  <2>. QED BY Zenon, <2>2, <2>4, <2>5, <2>6
<1>7. /\ \A t \in Thread :
           kt_wchan'[t] = IF kt_wchan[t] = q THEN kt_runq ELSE kt_wchan[t]
      /\ kt_wchan' \in [Thread -> Queue \cup {NULL}]
  BY Zenon, <1>1, <1>3, <1>4 DEF Linked
<1>8. Placed(kt_wchan', kt_state', run)
  <2>1. \A t \in Thread :
          kt_state'[t] = IF kt_wchan[t] = q THEN "KT_RUN" ELSE kt_state[t]
    BY Zenon, <1>3, <1>4
  <2>2. kt_state' \in [Thread -> KState]
    BY Zenon, <1>4 DEF Placed, KState
  <2>. QED BY Zenon, <1>1, <1>7, <2>1, <2>2 DEF Placed, Asleep
<1>9. Counted(tq_list', tq_size')
  <2>1. tq_size' \in [Queue -> Int]
    BY <1>1, <1>2, <1>4 DEF Counted
  <2>2. \A p \in WaitQ \ DevQ : tq_size'[p] = Len(tq_list'[p])
    <3> TAKE p \in WaitQ \ DevQ
    <3>1. p \in Queue /\ p # kt_runq /\ tq_size[p] = Len(tq_list[p])
      BY Zenon, <1>1 DEF Counted, Queue
    <3>2. CASE p = q
      BY SMTT(60), <3>1, <3>2, <1>2, <1>4, <1>6 DEF Counted, sq
    <3>3. CASE p # q
      BY Zenon, <3>1, <3>3, <1>4, <1>6 DEF Counted
    <3>. QED BY Zenon, <3>2, <3>3
  <2>. QED BY Zenon, <2>1, <2>2 DEF Counted
<1>10. ASSUME NEW p \in Queue, NEW i \in 1..Len(tq_list'[p])
       PROVE  /\ kt_wchan'[tq_list'[p][i]] = p
              /\ \A j \in 1..Len(tq_list'[p]) :
                   tq_list'[p][i] = tq_list'[p][j] => i = j
  <2>1. CASE p = q
    BY <2>1, <1>6, <1>10
  <2>2. CASE p = kt_runq
    <3>1. \A k \in 1..Len(rq) : /\ rq[k] \in Thread /\ kt_wchan[rq[k]] = kt_runq
                                /\ \A j \in 1..Len(rq) : rq[k] = rq[j] => k = j
      BY <1>1, <1>2 DEF Linked, rq
    <3>2. \A k \in 1..Len(sq) : /\ sq[k] \in Thread /\ kt_wchan[sq[k]] = q
                                /\ \A j \in 1..Len(sq) : sq[k] = sq[j] => k = j
      BY <1>1, <1>2 DEF Linked, sq
    <3>3. \A k \in 1..Len(c) : kt_wchan'[c[k]] = kt_runq
      <4> TAKE k \in 1..Len(c)
      <4>1. CASE k \in 1..Len(rq) /\ c[k] = rq[k]
        BY Zenon, <4>1, <3>1, <1>1, <1>7
      <4>2. CASE k - Len(rq) \in 1..Len(sq) /\ c[k] = sq[k - Len(rq)]
        BY Zenon, <4>2, <3>2, <1>1, <1>7
      <4>. QED BY Zenon, <4>1, <4>2, <1>5
    <3>4. ASSUME NEW k \in 1..Len(c), NEW j \in 1..Len(c), c[k] = c[j]
          PROVE  k = j
      <4>1. CASE k \in 1..Len(rq) /\ c[k] = rq[k]
        <5>1. j \in 1..Len(rq) /\ c[j] = rq[j]
          <6>1. kt_wchan[c[k]] = kt_runq
            BY Zenon, <4>1, <3>1
          <6>2. ASSUME j - Len(rq) \in 1..Len(sq), c[j] = sq[j - Len(rq)]
                PROVE  kt_wchan[c[j]] = q
            BY Zenon, <6>2, <3>2
          <6>. QED BY Zenon, <6>1, <6>2, <3>4, <1>1, <1>5
        <5>. QED BY ZenonT(60), <4>1, <5>1, <3>1, <3>4
      <4>2. CASE k - Len(rq) \in 1..Len(sq) /\ c[k] = sq[k - Len(rq)]
        <5>1. j - Len(rq) \in 1..Len(sq) /\ c[j] = sq[j - Len(rq)]
          <6>1. kt_wchan[c[k]] = q
            BY Zenon, <4>2, <3>2
          <6>2. ASSUME j \in 1..Len(rq), c[j] = rq[j]
                PROVE  kt_wchan[c[j]] = kt_runq
            BY Zenon, <6>2, <3>1
          <6>. QED BY Zenon, <6>1, <6>2, <3>4, <1>1, <1>5
        <5>2. k - Len(rq) = j - Len(rq)
          BY ZenonT(60), <4>2, <5>1, <3>2, <3>4
        <5>. QED BY SMTT(60), <5>2, <1>2
      <4>. QED BY Zenon, <4>1, <4>2, <1>5
    <3>. QED BY Zenon, <2>2, <3>3, <3>4, <1>6, <1>10
  <2>3. CASE p \notin {q, kt_runq}
    BY <2>3, <1>6, <1>7, <1>10 DEF Linked
  <2>. QED BY Zenon, <2>1, <2>2, <2>3
<1>11. ASSUME NEW t \in Thread, kt_wchan'[t] # NULL
       PROVE  \E i \in 1..Len(tq_list'[kt_wchan'[t]]) :
                tq_list'[kt_wchan'[t]][i] = t
  <2>1. kt_wchan[t] # NULL /\ kt_wchan[t] \in Queue
    BY <1>1, <1>7, <1>11 DEF Linked
  <2>2. PICK i \in 1..Len(tq_list[kt_wchan[t]]) : tq_list[kt_wchan[t]][i] = t
    BY Zenon, <2>1 DEF Linked
  <2>3. CASE kt_wchan[t] = q
    <3>1. Len(rq) + i \in 1..Len(c) /\ c[Len(rq) + i] = t
      BY Zenon, <2>2, <2>3, <1>5 DEF sq
    <3>. QED BY Zenon, <2>3, <3>1, <1>6, <1>7
  <2>4. CASE kt_wchan[t] = kt_runq
    <3>1. i \in 1..Len(c) /\ c[i] = t
      BY Zenon, <2>2, <2>4, <1>5 DEF rq
    <3>. QED BY Zenon, <2>4, <3>1, <1>1, <1>6, <1>7
  <2>5. CASE kt_wchan[t] \notin {q, kt_runq}
    BY SMTT(60), <2>1, <2>2, <2>5, <1>6, <1>7
  <2>. QED BY Zenon, <2>3, <2>4, <2>5
<1>12. Linked(tq_list', kt_wchan')
  BY Zenon, <1>6, <1>7, <1>10, <1>11 DEF Linked
<1>. QED BY Zenon, <1>7, <1>8, <1>9, <1>12

(* With no such thread the two agree.                                      *)
LEMMA NoneOff == (SchedInv <=> SchedBut({})) /\ (SchedInv' <=> SchedBut({})')
<1>1. Runs(curthr, cpu) \cup {} = Runs(curthr, cpu) /\ Runs(curthr, cpu) \cap {} = {}
  BY Zenon
<1>2. Runs(curthr', cpu') \cup {} = Runs(curthr', cpu') /\ Runs(curthr', cpu') \cap {} = {}
  BY Zenon
<1>3. SchedInv <=> SchedBut({})
  BY ZenonT(60), <1>1 DEF SchedInv, SchedBut
<1>4. SchedInv' <=> SchedBut({})'
  BY ZenonT(60), <1>2 DEF SchedInv, SchedBut
<1>. QED BY Zenon, <1>3, <1>4

(* The thread at the head of the run queue of w is resumed with its IPL.   *)
Dispatched(w, eipl, off) ==
  /\ Linked(tq_list', kt_wchan')
  /\ Counted(tq_list', tq_size')
  /\ Placed(kt_wchan', kt_state', Runs(curthr', cpu') \cup off)
  /\ curthr' \in Thread /\ cpu' = "run" /\ ipl' \in IPL /\ ret' \in Ret
  /\ ipl' = eipl[curthr']
  /\ w[curthr'] = kt_runq
  /\ kt_wchan' = [w EXCEPT ![curthr'] = NULL]

(* Resuming the oldest thread of the run queue, when nobody has the CPU,   *)
(* keeps the agreements and gives that thread the IPL it saved.            *)
LEMMA DispatchStep ==
  ASSUME NEW l, NEW z, NEW w, NEW off, NEW fr \in [Thread -> Frame],
         NEW eipl \in [Thread -> IPL], l[kt_runq] # << >>,
         Linked(l, w), Counted(l, z), Placed(w, kt_state', off),
         Dispatch(l, z, w, fr, eipl)
  PROVE  Dispatched(w, eipl, off)
<1>1. kt_runq \in Queue /\ kt_runq \notin WaitQ /\ NULL \notin Queue
  BY Zenon, SchedAssumption DEF Queue
<1>2. /\ curthr' = Head(l[kt_runq])
      /\ tq_list' = DequeueList(l, kt_runq)
      /\ tq_size' = DequeueSize(z, kt_runq)
      /\ kt_wchan' = Channel(w, NULL, curthr')
      /\ cpu' = "run"
      /\ ipl' = eipl[curthr']
      /\ ret' \in Ret
  BY Zenon DEF Dispatch, Resume, Ret
<1>3. /\ curthr' \in Thread
      /\ w[curthr'] = kt_runq
      /\ Linked(tq_list', kt_wchan')
  BY ZenonT(60), <1>1, <1>2, DequeueLinked
<1>4. Counted(tq_list', tq_size')
  BY Zenon, <1>1, <1>2, DequeueCounted DEF Linked
<1>5. kt_wchan' = [w EXCEPT ![curthr'] = NULL] /\ w \in [Thread -> Queue \cup {NULL}]
  BY Zenon, <1>2 DEF Channel, Linked
<1>6. Placed(kt_wchan', kt_state', {curthr'} \cup off)
  BY Zenon, <1>1, <1>3, <1>5 DEF Placed, Queue
<1>7. Runs(curthr', cpu') = {curthr'}
  BY Zenon, <1>2 DEF Runs
<1>. QED BY ZenonT(60), <1>2, <1>3, <1>4, <1>5, <1>6, <1>7 DEF Dispatched

(* A step that leaves every thread on a wait queue of w where it is.       *)
WaitersStay(w) == \A t \in Thread : w[t] \in WaitQ => kt_wchan'[t] = w[t]

(* The step part of OwnIPL.                                                *)
RestoresIPL ==
  /\ cpu' \in {"idle", "hlt", "halted"} => ipl' = "IPL_LOW"
  /\ cpu' = "run" /\ (curthr' # curthr \/ cpu = "idle") =>
       ipl' = earlier_ipl[curthr']

(* The common tail of sched_switch and the two sleeps establishes the      *)
(* invariant, from a state in which curthr has been queued (or has exited) *)
(* and no longer counts as running.                                        *)
LEMMA SwitchStep ==
  ASSUME NEW f \in Frame, NEW l, NEW z, NEW w, NEW off, SchedTypeOK,
         Linked(l, w), Counted(l, z), Placed(w, kt_state', off),
         Switch(f, l, z, w), cpu = "run"
  PROVE  SchedBut(off)' /\ WaitersStay(w) /\ RestoresIPL
<1> DEFINE fr == [frame EXCEPT ![curthr] = f]
           eipl == [earlier_ipl EXCEPT ![curthr] = ipl]
<1>1. /\ fr \in [Thread -> Frame] /\ eipl \in [Thread -> IPL]
      /\ frame' = fr /\ earlier_ipl' = eipl
      /\ kt_cancelled' = kt_cancelled /\ cancel' = cancel
  BY Zenon DEF SchedTypeOK, Switch
<1>2. kt_state' \in [Thread -> KState]
  BY Zenon DEF Placed
<1>3. CASE l[kt_runq] # << >>
  <2>1. Dispatch(l, z, w, fr, eipl)
    BY Zenon, <1>3 DEF Switch
  <2> HIDE DEF fr, eipl
  <2>2. Dispatched(w, eipl, off)
    BY ZenonT(60), <1>1, <1>3, <2>1, DispatchStep
  <2>3. SchedTypeOK'
    BY Zenon, <1>1, <1>2, <2>2 DEF SchedTypeOK, Linked, Counted, CPUState, Dispatched
  <2>4. WaitersStay(w)
    BY <2>2, SchedAssumption DEF WaitersStay, Linked, Dispatched
  <2>5. RestoresIPL
    BY Zenon, <2>2 DEF RestoresIPL, SchedTypeOK, eipl, Dispatched
  <2>6. Runs(curthr', cpu') \cap off = {}
    BY Zenon, <2>2, SchedAssumption DEF Runs, Placed, Dispatched
  <2>7. CancelTarget' /\ IdlesUnmasked'
    BY Zenon, <2>2 DEF CancelTarget, IdlesUnmasked, Dispatched
  <2>. QED BY ZenonT(60), <2>2, <2>3, <2>4, <2>5, <2>6, <2>7 DEF SchedBut, Dispatched
<1>4. CASE l[kt_runq] = << >>
  <2>1. /\ tq_list' = l /\ tq_size' = z /\ kt_wchan' = w /\ ret' = "none"
        /\ cpu' = "idle" /\ ipl' = "IPL_LOW" /\ curthr' = curthr
    BY Zenon, <1>4 DEF Switch, EnterIdle
  <2>2. SchedTypeOK'
    BY ZenonT(60), <1>1, <1>2, <2>1 DEF SchedTypeOK, Linked, Counted, CPUState, IPL, Ret
  <2>3. Runs(curthr', cpu') \cup off = off /\ Runs(curthr', cpu') \cap off = {}
    BY Zenon, <2>1 DEF Runs
  <2>4. CancelTarget' /\ IdlesUnmasked' /\ WaitersStay(w) /\ RestoresIPL
    BY Zenon, <2>1 DEF CancelTarget, IdlesUnmasked, WaitersStay, RestoresIPL
  <2>. QED BY ZenonT(60), <2>1, <2>2, <2>3, <2>4 DEF SchedBut
<1>. QED BY Zenon, <1>3, <1>4

(* The invariant holds when bootstrap() has made the idle thread active.   *)
LEMMA InitInv == SchedInit => SchedInv
<1> SUFFICES ASSUME SchedInit PROVE SchedInv
  BY Zenon
<1>1. SchedTypeOK
  BY SchedAssumption DEF SchedInit, SchedTypeOK, KState, CPUState, IPL, Frame,
     Ret, NoCancel
<1>2. \A q \in Queue : tq_list[q] = << >> /\ Len(tq_list[q]) = 0
  BY Zenon DEF SchedInit
<1>3. Linked(tq_list, kt_wchan)
  BY <1>1, <1>2 DEF SchedInit, Linked, SchedTypeOK
<1>4. Counted(tq_list, tq_size)
  BY Zenon, <1>1, <1>2 DEF SchedInit, Counted, SchedTypeOK, Queue
<1>5. Placed(kt_wchan, kt_state, Runs(curthr, cpu))
  BY Zenon, <1>1, SchedAssumption DEF SchedInit, Placed, Runs, SchedTypeOK, Queue, Asleep
<1>. QED BY Zenon, <1>1, <1>3, <1>4, <1>5 DEF SchedInit, SchedInv, CancelTarget, IdlesUnmasked

---------------------------------------------------------------------------
(* Every action preserves it.                                              *)

(* sched_sleep_on and the sleeping branch of sched_cancellable_sleep_on    *)
(* preserve the invariant.                                                 *)
LEMMA SleepBut ==
  ASSUME NEW off, SchedBut(off), cpu = "run", NEW q \in WaitQ,
         NEW f \in Frame, NEW s \in Asleep, SleepOn(f, q, s)
  PROVE  SchedBut(off)' /\ WaitersStay(kt_wchan) /\ RestoresIPL
<1> DEFINE l == EnqueueList(tq_list, q, curthr)
           z == EnqueueSize(tq_size, q)
           w == Channel(kt_wchan, q, curthr)
<1>1. /\ curthr \in Thread /\ kt_wchan[curthr] = NULL /\ q \in Queue
      /\ q # kt_runq /\ q # NULL
      /\ kt_wchan \in [Thread -> Queue \cup {NULL}]
      /\ kt_state' = [kt_state EXCEPT ![curthr] = s]
      /\ Switch(f, l, z, w)
  BY Zenon, SchedAssumption DEF SleepOn, SchedBut, SchedTypeOK, Queue
<1>2. Linked(l, w)
  BY Zenon, <1>1, EnqueueLinked DEF SchedBut
<1>3. Counted(l, z)
  BY Zenon, <1>1, EnqueueCounted DEF SchedBut, SchedTypeOK
<1>4. Placed(w, kt_state', off)
  <2>1. kt_state' \in [Thread -> KState]
    BY Zenon, <1>1 DEF SchedBut, SchedTypeOK, KState, Asleep
  <2>2. w = [kt_wchan EXCEPT ![curthr] = q]
    BY Zenon DEF Channel
  <2>3. Runs(curthr, cpu) = {curthr}
    BY Zenon DEF Runs
  <2>. QED BY SMTT(60), <1>1, <2>1, <2>2, <2>3 DEF Placed, SchedBut, SchedTypeOK
<1>5. \A t \in Thread : kt_wchan[t] \in WaitQ => w[t] = kt_wchan[t]
  BY Zenon, <1>1, SchedAssumption DEF Channel
<1>. QED
  <2> HIDE DEF l, z, w
  <2>1. SchedBut(off)' /\ WaitersStay(w) /\ RestoresIPL
    BY ZenonT(60), <1>1, <1>2, <1>3, <1>4, SwitchStep DEF SchedBut
  <2>. QED BY Zenon, <1>5, <2>1 DEF WaitersStay

(* The calls by which curthr leaves the CPU preserve the invariant and     *)
(* move no thread off a wait queue.                                        *)
LEMMA LeaveBut ==
  ASSUME NEW off, SchedBut(off), Leave
  PROVE  SchedBut(off)' /\ WaitersStay(kt_wchan) /\ RestoresIPL
<1>1. CASE \E q \in WaitQ : sched_sleep_on(q)
  BY Zenon, <1>1, SleepBut DEF sched_sleep_on, Frame, Asleep
<1>2. CASE \E q \in WaitQ : sched_cancellable_sleep_on(q)
  <2> PICK q \in WaitQ : sched_cancellable_sleep_on(q)
    BY Zenon, <1>2
  <2>1. CASE kt_cancelled[curthr]
    <3>1. /\ ret' = "-EINTR"
          /\ UNCHANGED <<kt_state, kt_wchan, kt_cancelled, tq_list, tq_size,
                         curthr, cpu, ipl, frame, earlier_ipl, cancel>>
      BY Zenon, <2>1 DEF sched_cancellable_sleep_on
    <3>. QED BY Zenon, <3>1 DEF SchedBut, SchedTypeOK, CancelTarget, IdlesUnmasked, Ret,
                WaitersStay, RestoresIPL, sched_cancellable_sleep_on
  <2>2. CASE ~kt_cancelled[curthr]
    BY Zenon, <2>2, SleepBut DEF sched_cancellable_sleep_on, Frame, Asleep
  <2>. QED BY Zenon, <2>1, <2>2
<1>3. CASE thr_yield
  <2> DEFINE l == EnqueueList(tq_list, kt_runq, curthr)
             z == EnqueueSize(tq_size, kt_runq)
             w == Channel(kt_wchan, kt_runq, curthr)
  <2>1. /\ curthr \in Thread /\ kt_wchan[curthr] = NULL /\ kt_runq \in Queue
        /\ kt_runq \notin WaitQ /\ kt_runq # NULL
        /\ kt_wchan \in [Thread -> Queue \cup {NULL}]
        /\ kt_state' = [kt_state EXCEPT ![curthr] = "KT_RUN"]
        /\ Switch("sched_switch", l, z, w)
        /\ cpu = "run"
    BY Zenon, <1>3, SchedAssumption DEF thr_yield, SchedBut, SchedTypeOK, Queue
  <2>2. Linked(l, w)
    BY Zenon, <2>1, EnqueueLinked DEF SchedBut
  <2>3. Counted(l, z)
    BY ZenonT(60), <2>1, EnqueueCounted DEF SchedBut, SchedTypeOK
  <2>4. Placed(w, kt_state', off)
    <3>1. kt_state' \in [Thread -> KState]
      BY Zenon, <2>1 DEF SchedBut, SchedTypeOK, KState
    <3>2. w = [kt_wchan EXCEPT ![curthr] = kt_runq]
      BY Zenon DEF Channel
    <3>3. Runs(curthr, cpu) = {curthr}
      BY Zenon, <2>1 DEF Runs
    <3>. QED BY SMTT(60), <2>1, <3>1, <3>2, <3>3 DEF Placed, SchedBut, SchedTypeOK, Asleep
  <2>5. \A t \in Thread : kt_wchan[t] \in WaitQ => w[t] = kt_wchan[t]
    BY Zenon, <2>1, SchedAssumption DEF Channel
  <2> HIDE DEF l, z, w
  <2>6. SchedBut(off)' /\ WaitersStay(w) /\ RestoresIPL
    BY ZenonT(60), <2>1, <2>2, <2>3, <2>4, SwitchStep DEF SchedBut, Frame
  <2>. QED BY Zenon, <2>5, <2>6 DEF WaitersStay
<1>4. CASE kthread_exit
  <2>1. /\ cpu = "run" /\ kt_wchan[curthr] = NULL
        /\ kt_state' = [kt_state EXCEPT ![curthr] = "KT_EXITED"]
        /\ Switch("sched_switch", tq_list, tq_size, kt_wchan)
    BY Zenon, <1>4 DEF kthread_exit
  <2>2. kt_state' \in [Thread -> KState]
    BY Zenon, <2>1 DEF SchedBut, SchedTypeOK, KState
  <2>3. Runs(curthr, cpu) = {curthr}
    BY Zenon, <2>1 DEF Runs
  <2>4. Placed(kt_wchan, kt_state', off)
    BY SMTT(60), <2>1, <2>2, <2>3, SchedAssumption DEF Placed, SchedBut, SchedTypeOK, Queue, Asleep
  <2>. QED BY ZenonT(60), <2>1, <2>4, SwitchStep DEF SchedBut, Frame
<1>. QED BY Zenon, <1>1, <1>2, <1>3, <1>4 DEF Leave

(* sched_cancel up to its test of kt_state preserves the invariant: a      *)
(* thread in a cancellable sleep is on a queue.                            *)
LEMMA CancelBut ==
  ASSUME NEW off, SchedBut(off), NEW t \in Thread \ {curthr}, sched_cancel(t)
  PROVE  SchedBut(off)'
<1>1. /\ cpu = "run" /\ ret' = "none"
      /\ kt_cancelled' = [kt_cancelled EXCEPT ![t] = TRUE]
      /\ UNCHANGED <<kt_state, kt_wchan, tq_list, tq_size, curthr, ipl, frame,
                     earlier_ipl>>
      /\ \/ /\ kt_state[t] = "KT_SLEEP_CANCELLABLE"
            /\ cpu' = "cancel" /\ cancel' = [thr |-> t, q |-> NULL]
         \/ UNCHANGED <<cpu, cancel>>
  BY Zenon DEF sched_cancel, CancelsSleep
<1>2. Runs(curthr', cpu') = Runs(curthr, cpu) /\ Runs(curthr, cpu) = {curthr}
  BY Zenon, <1>1 DEF Runs
<1>3. SchedTypeOK'
  BY <1>1 DEF SchedBut, SchedTypeOK, CPUState, Ret
<1>4. CancelTarget'
  <2>1. CASE UNCHANGED <<cpu, cancel>>
    BY Zenon, <1>1, <2>1 DEF CancelTarget
  <2>2. CASE /\ kt_state[t] = "KT_SLEEP_CANCELLABLE"
             /\ cpu' = "cancel" /\ cancel' = [thr |-> t, q |-> NULL]
    <3>1. kt_wchan[t] # NULL
      BY Zenon, <2>2, SchedAssumption DEF SchedBut, Placed, Asleep
    <3>2. kt_cancelled'[t]
      BY Zenon, <1>1 DEF SchedBut, SchedTypeOK
    <3>3. cancel'.thr = t /\ cancel'.q = NULL /\ curthr' = curthr
      BY Zenon, <1>1, <2>2
    <3>4. kt_wchan' = kt_wchan
      BY Zenon, <1>1
    <3>. QED BY Zenon, <3>1, <3>2, <3>3, <3>4 DEF CancelTarget
  <2>. QED BY Zenon, <1>1, <2>1, <2>2
<1>. QED BY Zenon, <1>1, <1>2, <1>3, <1>4 DEF SchedBut, IdlesUnmasked

(* The calls curthr makes without leaving the CPU preserve the invariant.  *)
LEMMA CallInv == ASSUME SchedInv, Call PROVE SchedInv'
<1>1. CASE \E q \in WaitQ \ DevQ : sched_wakeup_on(q)
  <2> PICK q \in WaitQ \ DevQ : sched_wakeup_on(q)
    BY Zenon, <1>1
  <2>1. /\ cpu = "run" /\ Wakeup(q, kt_state) /\ ret' = "none"
        /\ UNCHANGED <<kt_cancelled, curthr, cpu, ipl, frame, earlier_ipl, cancel>>
    BY Zenon DEF sched_wakeup_on
  <2>2. /\ Linked(tq_list', kt_wchan')
        /\ Counted(tq_list', tq_size')
        /\ Placed(kt_wchan', kt_state', Runs(curthr, cpu))
    BY ZenonT(60), <2>1, WakeupStep DEF SchedInv
  <2>. QED BY Zenon, <2>1, <2>2 DEF SchedInv, SchedTypeOK, Linked, Counted, Placed,
              CancelTarget, IdlesUnmasked, Ret
<1>2. CASE \E q \in WaitQ \ DevQ : sched_broadcast_on(q)
  <2> PICK q \in WaitQ \ DevQ : sched_broadcast_on(q)
    BY <1>2
  <2>1. /\ cpu = "run" /\ Broadcast(q) /\ ret' = "none"
        /\ UNCHANGED <<kt_cancelled, curthr, cpu, ipl, frame, earlier_ipl, cancel>>
    BY Zenon DEF sched_broadcast_on
  <2>2. /\ Linked(tq_list', kt_wchan')
        /\ Counted(tq_list', tq_size')
        /\ Placed(kt_wchan', kt_state', Runs(curthr, cpu))
    BY Zenon, <2>1, BroadcastStep DEF SchedInv
  <2>. QED BY Zenon, <2>1, <2>2 DEF SchedInv, SchedTypeOK, Linked, Counted, Placed,
              CancelTarget, IdlesUnmasked, Ret
<1>3. ASSUME NEW t \in Thread \ {curthr}, sched_cancel(t)
      PROVE  SchedInv'
  BY Zenon, <1>3, NoneOff, CancelBut
<1>4. ASSUME NEW t \in Thread \ {curthr}, kt_state[t] = "KT_NO_STATE",
             sched_make_runnable(t)
      PROVE  SchedInv'
  <2>1. /\ cpu = "run" /\ ret' = "none"
        /\ MakeRunnable(tq_list, tq_size, kt_wchan, kt_state, t)
        /\ UNCHANGED <<kt_cancelled, curthr, cpu, ipl, frame, earlier_ipl, cancel>>
    BY Zenon, <1>4 DEF sched_make_runnable
  <2>2. Runs(curthr, cpu) = {curthr}
    BY Zenon, <2>1 DEF Runs
  <2>3. /\ Linked(tq_list', kt_wchan')
        /\ Counted(tq_list', tq_size')
        /\ Placed(kt_wchan', kt_state', Runs(curthr, cpu))
    BY SMTT(60), <1>4, <2>1, <2>2, MakeRunnableStep DEF SchedInv, Placed
  <2>. QED BY Zenon, <2>1, <2>3 DEF SchedInv, SchedTypeOK, Linked, Counted, Placed,
              CancelTarget, IdlesUnmasked, Ret
<1>5. ASSUME NEW t \in Thread \ {curthr}, kthread_create(t)
      PROVE  SchedInv'
  <2>1. /\ cpu = "run" /\ ret' = "none" /\ kt_state[t] = "KT_EXITED"
        /\ kt_state' = [kt_state EXCEPT ![t] = "KT_NO_STATE"]
        /\ kt_cancelled' = [kt_cancelled EXCEPT ![t] = FALSE]
        /\ frame' = [frame EXCEPT ![t] = "__context_initial_func"]
        /\ earlier_ipl' = [earlier_ipl EXCEPT ![t] = "IPL_LOW"]
        /\ UNCHANGED <<kt_wchan, tq_list, tq_size, curthr, cpu, ipl, cancel>>
    BY Zenon, <1>5 DEF kthread_create
  <2>2. SchedTypeOK'
    BY Zenon, <2>1 DEF SchedInv, SchedTypeOK, KState, Frame, IPL, Ret
  <2>3. Placed(kt_wchan', kt_state', Runs(curthr', cpu'))
    <3>1. Runs(curthr', cpu') = Runs(curthr, cpu)
      BY Zenon, <2>1
    <3>2. kt_wchan[t] = NULL
      BY Zenon, <2>1 DEF SchedInv, SchedTypeOK, Placed, Queue, Asleep
    <3>. QED BY Zenon, <2>1, <2>2, <3>1, <3>2, SchedAssumption DEF SchedInv, SchedTypeOK, Placed, Queue, Asleep
  <2>. QED BY Zenon, <2>1, <2>2, <2>3 DEF SchedInv, CancelTarget, IdlesUnmasked
<1>6. ASSUME NEW level \in IPL, intr_setipl(level)
      PROVE  SchedInv'
  BY Zenon, <1>6 DEF intr_setipl, SchedInv, SchedTypeOK, CancelTarget, IdlesUnmasked, Ret
<1>. QED BY Zenon, <1>1, <1>2, <1>3, <1>4, <1>5, <1>6 DEF Call

(* The two later steps of sched_cancel preserve the invariant: the size of *)
(* the right queue goes down, although it was read from kt_wchan before.   *)
LEMMA CancelStepBut == ASSUME NEW off, SchedBut(off), CancelStep PROVE SchedBut(off)'
<1>1. CASE sched_cancel_wchan
  <2>1. /\ cpu = "cancel"
        /\ cancel' = [cancel EXCEPT !.q = kt_wchan[cancel.thr]]
        /\ UNCHANGED <<kt_state, kt_wchan, kt_cancelled, tq_list, tq_size, curthr,
                       cpu, ipl, frame, earlier_ipl, ret>>
    BY Zenon, <1>1 DEF sched_cancel_wchan
  <2>2. cancel.thr \in Thread /\ kt_wchan[cancel.thr] \in Queue
    BY Zenon, <2>1 DEF SchedBut, SchedTypeOK, CancelTarget
  <2>3. /\ cancel' \in [thr : Thread \cup {NULL}, q : Queue \cup {NULL}]
        /\ cancel'.thr = cancel.thr /\ cancel'.q = kt_wchan[cancel.thr]
    BY ZenonT(60), <2>1, <2>2 DEF SchedBut, SchedTypeOK
  <2>. QED BY Zenon, <2>1, <2>3 DEF SchedBut, SchedTypeOK, CancelTarget, IdlesUnmasked
<1>2. CASE sched_cancel_remove
  <2> DEFINE t == cancel.thr
             on == kt_wchan[t]
             w == Channel(kt_wchan, NULL, t)
             z == RemoveSize(tq_size, cancel.q)
  <2>1. /\ cpu = "cancel" /\ cancel.q # NULL /\ cpu' = "run" /\ cancel' = NoCancel
        /\ UNCHANGED <<kt_cancelled, curthr, ipl, frame, earlier_ipl, ret>>
    BY ZenonT(60), <1>2 DEF sched_cancel_remove
  <2>2. PICK i \in DOMAIN tq_list[on] :
          /\ tq_list[on][i] = t
          /\ MakeRunnable([tq_list EXCEPT ![on] = list_remove_at(@, i)], z, w, kt_state, t)
    BY Zenon, <1>2 DEF sched_cancel_remove
  <2> DEFINE l == [tq_list EXCEPT ![on] = list_remove_at(@, i)]
  <2>3. /\ t \in Thread \ {curthr} /\ on \in Queue /\ on # NULL
        /\ cancel.q \in Queue
        /\ cancel.q \in WaitQ \ DevQ \/ on \in WaitQ \ DevQ => cancel.q = on
    BY Zenon, <2>1 DEF SchedBut, SchedTypeOK, CancelTarget
  <2>4. tq_list[on] \in Seq(Thread) /\ i \in 1..Len(tq_list[on])
    <3>1. tq_list[on] \in Seq(Thread)
      BY Zenon, <2>3 DEF SchedBut, SchedTypeOK
    <3> HIDE DEF on, t, w, z, l
    <3>2. DOMAIN tq_list[on] = 1..Len(tq_list[on])
      BY SMTT(60), <3>1
    <3>. QED BY ONLY <3>1, <3>2, i \in DOMAIN tq_list[on]
  <2>5. Linked(l, w)
    BY ZenonT(60), <2>2, <2>3, <2>4, RemoveLinked DEF SchedBut
  <2>6. Counted(l, z)
    <3>1. z = [tq_size EXCEPT ![cancel.q] = @ - 1] /\ z \in [Queue -> Int]
      BY SMTT(60), <2>3 DEF SchedBut, SchedTypeOK, RemoveSize
    <3>2. Len(list_remove_at(tq_list[on], i)) = Len(tq_list[on]) - 1
      <4> HIDE DEF on
      <4>. QED BY Zenon, <2>4, RemoveAtFacts
    <3>3. \A p \in WaitQ \ DevQ : z[p] = Len(l[p])
      <4> TAKE p \in WaitQ \ DevQ
      <4>1. p \in Queue /\ tq_size[p] = Len(tq_list[p]) /\ tq_size[p] \in Int
        BY Zenon DEF SchedBut, SchedTypeOK, Counted, Queue
      <4>2. CASE p = on
        <5>1. p = cancel.q
          BY Zenon, <4>2, <2>3
        <5>. QED BY SMTT(60), <4>1, <4>2, <5>1, <3>1, <3>2, <2>3 DEF SchedBut, SchedTypeOK
      <4>3. CASE p # on
        <5>1. p # cancel.q
          BY Zenon, <4>3, <2>3
        <5>. QED BY Zenon, <4>1, <4>3, <5>1, <3>1, <2>3 DEF SchedBut, SchedTypeOK
      <4>. QED BY Zenon, <4>2, <4>3
    <3>. QED BY Zenon, <3>1, <3>3 DEF Counted
  <2>7. Runs(curthr, cpu) = {curthr} /\ Runs(curthr', cpu') = {curthr}
    BY Zenon, <2>1 DEF Runs
  <2>8. \A u \in Thread \ {t} : w[u] = kt_wchan[u]
    BY Zenon DEF Channel, SchedBut, SchedTypeOK
  <2>9. /\ Linked(tq_list', kt_wchan')
        /\ Counted(tq_list', tq_size')
        /\ Placed(kt_wchan', kt_state', {curthr} \cup off)
    <3>1. MakeRunnable(l, z, w, kt_state, t) /\ t \in Thread \ {curthr}
      BY Zenon, <2>2, <2>3
    <3> HIDE DEF l, z, w, t
    <3>2. t \in Thread \ ({curthr} \cup off)
      BY Zenon, <2>3, <3>1 DEF SchedBut, Placed, on
    <3>3. kt_state \in [Thread -> KState]
      BY Zenon DEF SchedBut, SchedTypeOK
    <3>4. ASSUME NEW u \in Thread \ {t}
          PROVE  /\ w[u] = kt_runq => kt_state[u] = "KT_RUN"
                 /\ w[u] \in WaitQ <=> kt_state[u] \in Asleep
                 /\ w[u] = NULL => u \in {curthr} \cup off \/ kt_state[u] \in {"KT_NO_STATE", "KT_EXITED"}
                 /\ u \in {curthr} \cup off => w[u] = NULL
      BY Zenon, <2>7, <2>8 DEF SchedBut, Placed
    <3>. QED BY ZenonT(60), <3>1, <3>2, <3>3, <3>4, <2>5, <2>6, MakeRunnableStep
  <2> HIDE DEF t, on, w, z, l
  <2>10. SchedTypeOK'
    BY Zenon, <2>1, <2>9 DEF SchedBut, SchedTypeOK, Linked, Counted, Placed, CPUState, NoCancel
  <2>11. CancelTarget' /\ IdlesUnmasked'
    BY Zenon, <2>1 DEF CancelTarget, IdlesUnmasked
  <2>. QED BY ZenonT(60), <2>1, <2>7, <2>9, <2>10, <2>11 DEF SchedBut
<1>. QED BY Zenon, <1>1, <1>2 DEF CancelStep

(* The idle loop preserves the invariant.                                  *)
LEMMA IdleBut ==
  ASSUME NEW off, SchedBut(off), Idle
  PROVE  SchedBut(off)' /\ WaitersStay(kt_wchan) /\ RestoresIPL
<1>1. CASE IdleTest
  <2>1. /\ cpu = "idle"
        /\ UNCHANGED <<kt_state, kt_cancelled, frame, earlier_ipl, cancel>>
    BY Zenon, <1>1 DEF IdleTest
  <2>2. Runs(curthr, cpu) = {}
    BY Zenon, <2>1 DEF Runs
  <2>3. CASE sched_queue_empty(kt_runq)
    <3>1. cpu' = "hlt" /\ UNCHANGED <<tq_list, tq_size, kt_wchan, curthr, ipl, ret>>
      BY Zenon, <1>1, <2>3 DEF IdleTest, queueVars
    <3>2. Runs(curthr', cpu') = {}
      BY Zenon, <3>1 DEF Runs
    <3>. QED BY ZenonT(60), <2>1, <2>2, <3>1, <3>2 DEF SchedBut, SchedTypeOK, CancelTarget,
                IdlesUnmasked, CPUState, WaitersStay, RestoresIPL
  <2>4. CASE ~sched_queue_empty(kt_runq)
    <3>1. /\ tq_list[kt_runq] # << >>
          /\ Dispatch(tq_list, tq_size, kt_wchan, frame, earlier_ipl)
          /\ Placed(kt_wchan, kt_state', off)
      <4>1. tq_list[kt_runq] # << >> /\ Dispatch(tq_list, tq_size, kt_wchan, frame, earlier_ipl)
        BY Zenon, <1>1, <2>4 DEF IdleTest, sched_queue_empty
      <4>2. Runs(curthr, cpu) \cup off = off /\ kt_state' = kt_state
        BY Zenon, <2>1, <2>2
      <4>. QED BY Zenon, <4>1, <4>2 DEF SchedBut
    <3>2. Dispatched(kt_wchan, earlier_ipl, off)
      BY ZenonT(60), <3>1, DispatchStep DEF SchedBut, SchedTypeOK
    <3>3. SchedTypeOK'
      BY Zenon, <2>1, <3>2 DEF SchedBut, SchedTypeOK, Linked, Counted, CPUState, Dispatched
    <3>4. WaitersStay(kt_wchan) /\ RestoresIPL
      BY Zenon, <3>2, SchedAssumption DEF WaitersStay, RestoresIPL, SchedBut, SchedTypeOK,
         Dispatched
    <3>5. CancelTarget' /\ IdlesUnmasked'
      BY Zenon, <3>2 DEF CancelTarget, IdlesUnmasked, Dispatched
    <3>6. Runs(curthr', cpu') \cap off = {}
      BY <2>2, <3>2, SchedAssumption DEF Runs, Placed, SchedBut, Dispatched
    <3>. QED BY ZenonT(60), <3>2, <3>3, <3>4, <3>5, <3>6 DEF SchedBut, Dispatched
  <2>. QED BY Zenon, <2>3, <2>4
<1>2. CASE intr_wait
  <2>1. /\ cpu = "hlt" /\ cpu' = "halted"
        /\ UNCHANGED <<kt_state, kt_wchan, kt_cancelled, tq_list, tq_size, curthr,
                       ipl, frame, earlier_ipl, cancel, ret>>
    BY Zenon, <1>2 DEF intr_wait
  <2>2. Runs(curthr, cpu) = {} /\ Runs(curthr', cpu') = {}
    BY Zenon, <2>1 DEF Runs
  <2>. QED BY ZenonT(60), <2>1, <2>2 DEF SchedBut, SchedTypeOK, CancelTarget, IdlesUnmasked,
              CPUState, WaitersStay, RestoresIPL
<1>. QED BY Zenon, <1>1, <1>2 DEF Idle

(* An interrupt handler preserves the invariant wherever it comes: it may  *)
(* wake the thread sched_cancel is working on, but that thread is then     *)
(* linked on the run queue.                                                *)
LEMMA InterruptBut == ASSUME NEW off, SchedBut(off), AnyInterrupt PROVE SchedBut(off)'
<1> PICK q \in DevQ : Interrupt(q)
  BY Zenon DEF AnyInterrupt
<1>1. /\ q \in WaitQ /\ q \in DevQ /\ kt_runq \notin WaitQ /\ kt_runq # NULL
  BY Zenon, SchedAssumption
<1>2. /\ Wakeup(q, kt_state) \/ Broadcast(q)
      /\ ipl = "IPL_LOW"
      /\ cpu' = IF cpu = "halted" THEN "idle" ELSE cpu
      /\ UNCHANGED <<kt_cancelled, curthr, ipl, frame, earlier_ipl, cancel, ret>>
  BY Zenon DEF Interrupt
<1>3. Runs(curthr', cpu') = Runs(curthr, cpu)
  BY Zenon, <1>2 DEF Runs
<1>4. /\ Linked(tq_list', kt_wchan')
      /\ Counted(tq_list', tq_size')
      /\ Placed(kt_wchan', kt_state', Runs(curthr, cpu) \cup off)
      /\ \A t \in Thread :
           kt_wchan'[t] = kt_wchan[t] \/ (kt_wchan[t] = q /\ kt_wchan'[t] = kt_runq)
  <2>1. CASE Wakeup(q, kt_state)
    <3>1. /\ Linked(tq_list', kt_wchan')
          /\ Counted(tq_list', tq_size')
          /\ Placed(kt_wchan', kt_state', Runs(curthr, cpu) \cup off)
          /\ \/ kt_wchan' = kt_wchan
             \/ /\ tq_list[q] # << >>
                /\ kt_wchan' = [kt_wchan EXCEPT ![Head(tq_list[q])] = kt_runq]
      BY Zenon, <1>1, <2>1, WakeupStep DEF SchedBut
    <3>2. CASE kt_wchan' = kt_wchan
      BY Zenon, <3>1, <3>2
    <3>3. CASE /\ tq_list[q] # << >>
               /\ kt_wchan' = [kt_wchan EXCEPT ![Head(tq_list[q])] = kt_runq]
      <4>1. q \in Queue /\ Linked(tq_list, kt_wchan)
        BY Zenon, <1>1 DEF SchedBut, Queue
      <4>2. kt_wchan[Head(tq_list[q])] = q
        BY ZenonT(60), <3>3, <4>1, DequeueLinked
      <4>. QED BY Zenon, <3>1, <3>3, <4>2 DEF SchedBut, SchedTypeOK
    <3>. QED BY Zenon, <3>1, <3>2, <3>3
  <2>2. CASE Broadcast(q)
    <3>1. /\ Linked(tq_list', kt_wchan')
          /\ Counted(tq_list', tq_size')
          /\ Placed(kt_wchan', kt_state', Runs(curthr, cpu) \cup off)
          /\ \A t \in Thread :
               kt_wchan'[t] = IF kt_wchan[t] = q THEN kt_runq ELSE kt_wchan[t]
      BY Zenon, <1>1, <2>2, BroadcastStep DEF SchedBut
    <3>. QED BY Zenon, <3>1
  <2>. QED BY Zenon, <1>2, <2>1, <2>2
<1>5. CancelTarget'
  BY Zenon, <1>1, <1>2, <1>4 DEF SchedBut, SchedTypeOK, CancelTarget
<1>6. SchedTypeOK'
  BY ZenonT(60), <1>2, <1>4 DEF SchedBut, SchedTypeOK, Linked, Counted, Placed, CPUState
<1>. QED BY Zenon, <1>2, <1>3, <1>4, <1>5, <1>6 DEF SchedBut, IdlesUnmasked

(* With every thread accounted for: going to sleep,                        *)
LEMMA SleepInv ==
  ASSUME SchedInv, cpu = "run", NEW q \in WaitQ,
         NEW f \in Frame, NEW s \in Asleep, SleepOn(f, q, s)
  PROVE  SchedInv' /\ WaitersStay(kt_wchan) /\ RestoresIPL
  BY ZenonT(60), NoneOff, SleepBut

(* leaving the CPU,                                                        *)
LEMMA LeaveInv ==
  ASSUME SchedInv, Leave
  PROVE  SchedInv' /\ WaitersStay(kt_wchan) /\ RestoresIPL
  BY ZenonT(60), NoneOff, LeaveBut

(* and the idle loop.                                                      *)
LEMMA IdleInv ==
  ASSUME SchedInv, Idle
  PROVE  SchedInv' /\ WaitersStay(kt_wchan) /\ RestoresIPL
  BY ZenonT(60), NoneOff, IdleBut

(* Every step of the scheduler preserves the invariant.                    *)
LEMMA NextInv == SchedInv /\ [SchedNext]_schedVars => SchedInv'
<1> SUFFICES ASSUME SchedInv, [SchedNext]_schedVars PROVE SchedInv'
  BY Zenon
<1>1. CASE UNCHANGED schedVars
  BY Zenon, <1>1 DEF schedVars, SchedInv, SchedTypeOK, CancelTarget, IdlesUnmasked
<1>2. CASE Leave \/ CancelStep \/ Idle \/ AnyInterrupt
  BY ZenonT(60), <1>2, NoneOff, LeaveInv, CancelStepBut, IdleInv, InterruptBut
<1>. QED BY Zenon, <1>1, <1>2, CallInv DEF SchedNext

---------------------------------------------------------------------------
(* The theorems.                                                           *)

(* The invariant holds in every state, for any set of threads and queues.  *)
THEOREM Invariance == SchedSpec => []SchedInv
BY InitInv, NextInv, PTL DEF SchedSpec

(* The invariant says which threads ktqueue_enqueue left on which queue.   *)
LEMMA InvLinked == SchedInv => LinkedWhereItWaits
BY ZenonT(60) DEF SchedInv, SchedTypeOK, Linked, LinkedWhereItWaits

(* The invariant accounts for every thread, as the comment above           *)
(* sched_cancel asks.                                                      *)
LEMMA InvNeverLost == SchedInv => NeverLost
<1> SUFFICES ASSUME SchedInv PROVE NeverLost
  BY Zenon
<1>1. \A t : t \in Runs(curthr, cpu) <=> Running(t)
  BY Zenon DEF Runs, Running
<1>. QED BY Zenon, <1>1 DEF SchedInv, Placed, NeverLost

(* The invariant implies the KASSERTs of the queue functions.              *)
LEMMA InvAsserts == SchedInv => KAssertsHold
<1> SUFFICES ASSUME SchedInv PROVE KAssertsHold
  OBVIOUS
<1>1. cpu = "run" => kt_wchan[curthr] = NULL
  BY Zenon DEF SchedInv, SchedTypeOK, Placed, Runs
<1>2. ASSUME NEW q \in WaitQ, tq_list[q] # << >>
      PROVE  kt_state[Head(tq_list[q])] \in Asleep
  <2>1. Head(tq_list[q]) \in Thread /\ kt_wchan[Head(tq_list[q])] = q
    BY ZenonT(60), <1>2, DequeueLinked DEF SchedInv, Queue
  <2>. QED BY Zenon, <2>1 DEF SchedInv, Placed
<1>3. ASSUME NEW t \in Thread, kt_state[t] = "KT_NO_STATE" PROVE kt_wchan[t] = NULL
  BY Zenon, <1>3 DEF SchedInv, SchedTypeOK, Placed, Queue, Asleep
<1>4. cpu = "cancel" => kt_wchan[cancel.thr] # NULL
  BY Zenon DEF SchedInv, CancelTarget
<1>. QED BY Zenon, <1>1, <1>2, <1>3, <1>4 DEF KAssertsHold

(* The state of the scheduler keeps its type; in particular curthr is      *)
(* always a thread, so sched_switch never switches to a NULL thread.       *)
THEOREM TypeCorrect == SchedSpec => []SchedTypeOK
<1>1. SchedInv => SchedTypeOK
  BY SMTT(60) DEF SchedInv
<1>. QED BY <1>1, Invariance, PTL

(* ktqueue_enqueue, ktqueue_dequeue and ktqueue_remove never leave a       *)
(* thread linked on two queues, twice on one, or on a queue other than its *)
(* kt_wchan, wherever interrupts come.                                     *)
THEOREM QueuesAreSound == SchedSpec => []LinkedWhereItWaits
BY InvLinked, Invariance, PTL

(* A thread that is neither new nor gone is on a queue or has the CPU, and *)
(* its kt_state fits the queue it is on.                                   *)
THEOREM NoThreadIsLost == SchedSpec => []NeverLost
BY InvNeverLost, Invariance, PTL

(* The KASSERTs of sched_wakeup_on, sched_make_runnable, ktqueue_enqueue   *)
(* and ktqueue_remove never fail.                                          *)
THEOREM AssertsNeverFail == SchedSpec => []KAssertsHold
BY InvAsserts, Invariance, PTL

(* On a wait queue no handler touches tq_size is the number of waiters,    *)
(* which is what kmutex_unlock relies on.                                  *)
THEOREM SizesAreLengths == SchedSpec => []SizeIsLength
<1>1. SchedInv => SizeIsLength
  BY DEF SchedInv, Counted, SizeIsLength
<1>. QED BY <1>1, Invariance, PTL

(* A thread resumes at the IPL it saved in sched_switch or in the sleep    *)
(* functions, and the idle loop is never masked.                           *)
THEOREM EachItsOwnIPL == SchedSpec => OwnIPL
<1>1. SchedInv /\ [SchedNext]_schedVars => [RestoresIPL]_schedVars
  <2> SUFFICES ASSUME SchedInv, SchedNext PROVE RestoresIPL
    BY Zenon
  <2>1. CASE Leave \/ Idle
    BY Zenon, <2>1, LeaveInv, IdleInv
  <2>2. CASE Call \/ CancelStep
    <3>1. cpu \in {"run", "cancel"} /\ cpu' \in {"run", "cancel"} /\ curthr' = curthr
      BY Zenon, <2>2 DEF Call, CancelStep, sched_wakeup_on, sched_broadcast_on,
         sched_cancel, sched_make_runnable, kthread_create, intr_setipl,
         sched_cancel_wchan, sched_cancel_remove
    <3>. QED BY Zenon, <3>1 DEF RestoresIPL
  <2>3. CASE AnyInterrupt
    BY Zenon, <2>3 DEF AnyInterrupt, Interrupt, RestoresIPL
  <2>. QED BY <2>1, <2>2, <2>3 DEF SchedNext
<1>. QED BY <1>1, Invariance, PTL DEF SchedSpec, OwnIPL, RestoresIPL

(* The two step parts of WokenInOrder, for one queue.                      *)
KeepsOrder(q) ==
  \A i, j \in 1..Len(tq_list'[q]) : i < j =>
    \/ kt_wchan[tq_list'[q][j]] # q
    \/ Ahead(tq_list, q, tq_list'[q][i], tq_list'[q][j])

LeavesInOrder(q) ==
  \A t, u \in Thread :
    /\ kt_wchan[t] = q /\ t # u /\ ~Ahead(tq_list, q, u, t)
    /\ kt_wchan[u] = q /\ kt_wchan'[u] # q /\ ~kt_cancelled[u]
    => kt_wchan'[t] # q

(* A queue that ktqueue_enqueue, ktqueue_dequeue, list_remove or the loop  *)
(* of sched_broadcast_on changes, or none of them, keeps its order, and a  *)
(* new thread comes last.                                                  *)
LEMMA ListOrder ==
  ASSUME SchedInv, NEW q \in WaitQ,
         \/ tq_list'[q] = tq_list[q]
         \/ \E t \in Thread : kt_wchan[t] # q /\ tq_list'[q] = Append(tq_list[q], t)
         \/ tq_list[q] # << >> /\ tq_list'[q] = Tail(tq_list[q])
         \/ \E k \in 1..Len(tq_list[q]) : tq_list'[q] = list_remove_at(tq_list[q], k)
         \/ tq_list'[q] = << >>
  PROVE  KeepsOrder(q)
<1> DEFINE s == tq_list[q]
           r == tq_list'[q]
<1>1. s \in Seq(Thread) /\ Len(s) \in Nat /\ DOMAIN s = 1..Len(s)
  BY SMTT(60) DEF SchedInv, Linked, Queue
<1>2. \A i, j \in 1..Len(s) : i < j => Ahead(tq_list, q, s[i], s[j])
  BY Zenon, <1>1 DEF Ahead
<1> HIDE DEF s, r
<1> SUFFICES ASSUME NEW i \in 1..Len(r), NEW j \in 1..Len(r), i < j
             PROVE  kt_wchan[r[j]] # q \/ Ahead(tq_list, q, r[i], r[j])
  BY Zenon DEF KeepsOrder, r
<1>3. CASE r = s
  BY Zenon, <1>2, <1>3
<1>4. ASSUME NEW t \in Thread, kt_wchan[t] # q, r = Append(s, t)
      PROVE  kt_wchan[r[j]] # q \/ Ahead(tq_list, q, r[i], r[j])
  <2>1. /\ Len(r) = Len(s) + 1 /\ r[Len(s) + 1] = t
        /\ \A k \in 1..Len(s) : r[k] = s[k]
    BY SMTT(60), <1>1, <1>4, AppendFacts
  <2>2. CASE j = Len(s) + 1
    BY Zenon, <1>4, <2>1, <2>2
  <2>3. CASE j # Len(s) + 1
    <3>1. i \in 1..Len(s) /\ j \in 1..Len(s)
      BY SMTT(60), <1>1, <2>1, <2>3
    <3>. QED BY Zenon, <1>2, <2>1, <3>1
  <2>. QED BY Zenon, <2>2, <2>3
<1>5. CASE s # << >> /\ r = Tail(s)
  <2>1. Len(r) = Len(s) - 1 /\ \A k \in 1..(Len(s) - 1) : r[k] = s[k + 1]
    BY Zenon, <1>1, <1>5, TailFacts
  <2>2. /\ i + 1 \in 1..Len(s) /\ j + 1 \in 1..Len(s) /\ i + 1 < j + 1
        /\ r[i] = s[i + 1] /\ r[j] = s[j + 1]
    BY SMTT(60), <1>1, <2>1
  <2>. QED BY Zenon, <1>2, <2>2
<1>6. ASSUME NEW k \in 1..Len(s), r = list_remove_at(s, k)
      PROVE  kt_wchan[r[j]] # q \/ Ahead(tq_list, q, r[i], r[j])
  <2> DEFINE old(n) == IF n < k THEN n ELSE n + 1
  <2>1. Len(r) = Len(s) - 1 /\ \A n \in 1..(Len(s) - 1) : r[n] = s[old(n)]
    BY ZenonT(60), <1>1, <1>6, RemoveAtFacts
  <2>2. /\ old(i) \in 1..Len(s) /\ old(j) \in 1..Len(s) /\ old(i) < old(j)
        /\ r[i] = s[old(i)] /\ r[j] = s[old(j)]
    BY <1>1, <2>1
  <2>. QED BY Zenon, <1>2, <2>2
<1>7. CASE r = << >>
  BY <1>7
<1>. QED BY Zenon, <1>3, <1>4, <1>5, <1>6, <1>7 DEF s, r

(* Of two threads on a queue one is ahead of the other, and the one at the *)
(* end ktqueue_dequeue takes from is ahead of all.                         *)
LEMMA HeadIsAhead ==
  ASSUME SchedInv, NEW q \in WaitQ, NEW t \in Thread, kt_wchan[t] = q,
         t # Head(tq_list[q])
  PROVE  Ahead(tq_list, q, Head(tq_list[q]), t)
<1>1. q \in Queue /\ q # NULL
  BY Zenon, SchedAssumption DEF Queue
<1>2. tq_list[q] \in Seq(Thread) /\ Len(tq_list[q]) \in Nat
  BY <1>1 DEF SchedInv, Linked
<1>3. PICK j \in 1..Len(tq_list[q]) : tq_list[q][j] = t
  BY Zenon, <1>1 DEF SchedInv, Linked
<1>4. tq_list[q] # << >>
  BY <1>2, <1>3
<1>5. Head(tq_list[q]) = tq_list[q][1] /\ DOMAIN tq_list[q] = 1..Len(tq_list[q])
  BY <1>2, <1>4, TailFacts
<1>6. 1 < j /\ 1 \in 1..Len(tq_list[q])
  BY <1>2, <1>3, <1>5
<1>. QED BY Zenon, <1>3, <1>5, <1>6 DEF Ahead

(* sched_wakeup_on takes the thread ahead of all, and appends to the run   *)
(* queue only.                                                             *)
LEMMA WakeupOrdered ==
  ASSUME SchedInv, NEW p \in WaitQ, NEW q \in WaitQ, Wakeup(p, kt_state)
  PROVE  KeepsOrder(q) /\ LeavesInOrder(q)
<1>1. /\ p \in Queue /\ Linked(tq_list, kt_wchan) /\ q # kt_runq /\ p # kt_runq
      /\ kt_wchan \in [Thread -> Queue \cup {NULL}]
      /\ tq_list \in [Queue -> Seq(Thread)] /\ q \in Queue
  BY Zenon, SchedAssumption DEF SchedInv, SchedTypeOK, Queue
<1>2. CASE sched_queue_empty(p)
  <2>1. kt_wchan' = kt_wchan /\ tq_list' = tq_list
    BY Zenon, <1>2 DEF Wakeup, queueVars
  <2>. QED BY Zenon, <2>1, ListOrder DEF LeavesInOrder
<1>3. CASE ~sched_queue_empty(p)
  <2> DEFINE h == Head(tq_list[p])
  <2>1. /\ tq_list[p] # << >>
        /\ tq_list' = EnqueueList(DequeueList(tq_list, p), kt_runq, h)
        /\ kt_wchan' = Channel(Channel(kt_wchan, NULL, h), kt_runq, h)
    BY Zenon, <1>3 DEF Wakeup, MakeRunnable, sched_queue_empty
  <2>2. h \in Thread /\ kt_wchan[h] = p
    BY Zenon, <1>1, <2>1, DequeueLinked
  <2>3. tq_list'[q] = IF q = p THEN Tail(tq_list[p]) ELSE tq_list[q]
    BY Zenon, <1>1, <2>1 DEF EnqueueList, DequeueList
  <2>4. KeepsOrder(q)
    BY Zenon, <2>1, <2>3, ListOrder
  <2>5. \A u \in Thread : u # h => kt_wchan'[u] = kt_wchan[u]
    BY Zenon, <1>1, <2>1 DEF Channel
  <2>6. LeavesInOrder(q)
    <3> SUFFICES ASSUME NEW t \in Thread, NEW u \in Thread,
                        kt_wchan[t] = q, t # u, ~Ahead(tq_list, q, u, t),
                        kt_wchan[u] = q, kt_wchan'[u] # q
                 PROVE  FALSE
      BY Zenon DEF LeavesInOrder
    <3>1. u = h /\ q = p
      BY Zenon, <2>2, <2>5
    <3>. QED BY Zenon, <3>1, HeadIsAhead
  <2>. QED BY Zenon, <2>4, <2>6
<1>. QED BY Zenon, <1>2, <1>3

(* sched_broadcast_on takes all threads of its queue.                      *)
LEMMA BroadcastOrdered ==
  ASSUME SchedInv, NEW p \in WaitQ, NEW q \in WaitQ, Broadcast(p)
  PROVE  KeepsOrder(q) /\ LeavesInOrder(q)
<1>1. kt_runq \notin WaitQ /\ q \in Queue /\ tq_list \in [Queue -> Seq(Thread)]
  BY Zenon, SchedAssumption DEF SchedInv, SchedTypeOK, Queue
<1>2. \A t \in Thread :
        kt_wchan'[t] = IF kt_wchan[t] = p THEN kt_runq ELSE kt_wchan[t]
  BY Zenon, BroadcastStep DEF SchedInv
<1>3. tq_list'[q] = << >> \/ tq_list'[q] = tq_list[q]
  BY ZenonT(60), <1>1 DEF Broadcast
<1>4. KeepsOrder(q)
  BY Zenon, <1>3, ListOrder
<1>5. LeavesInOrder(q)
  BY Zenon, <1>1, <1>2 DEF LeavesInOrder
<1>. QED BY Zenon, <1>4, <1>5

(* A call by which curthr leaves the CPU appends curthr to at most one     *)
(* wait queue and takes nobody off one.                                    *)
LEMMA LeaveOrdered ==
  ASSUME SchedInv, NEW q \in WaitQ, Leave
  PROVE  KeepsOrder(q)
<1>1. /\ q \in Queue /\ q # kt_runq /\ q # NULL /\ tq_list \in [Queue -> Seq(Thread)]
      /\ curthr \in Thread
  BY Zenon, SchedAssumption DEF SchedInv, SchedTypeOK, Queue
<1>2. ASSUME NEW f, NEW l, NEW z, NEW w, Switch(f, l, z, w),
             l \in [Queue -> Seq(Thread)]
      PROVE  tq_list'[q] = l[q]
  BY Zenon, <1>1, <1>2 DEF Switch, Dispatch, Resume, DequeueList, EnterIdle
<1>3. ASSUME NEW p \in Queue, NEW f, NEW z, NEW w, kt_wchan[curthr] = NULL,
             Switch(f, EnqueueList(tq_list, p, curthr), z, w)
      PROVE  KeepsOrder(q)
  <2>1. EnqueueList(tq_list, p, curthr) \in [Queue -> Seq(Thread)]
    BY <1>1 DEF EnqueueList
  <2>2. tq_list'[q] = EnqueueList(tq_list, p, curthr)[q]
    BY Zenon, <1>2, <1>3, <2>1
  <2>3. tq_list'[q] = tq_list[q] \/ tq_list'[q] = Append(tq_list[q], curthr)
    BY Zenon, <1>1, <2>2 DEF EnqueueList
  <2>. QED BY Zenon, <1>1, <1>3, <2>3, ListOrder
<1>4. CASE \E p \in WaitQ : sched_sleep_on(p) \/ sched_cancellable_sleep_on(p)
  <2> PICK p \in WaitQ : sched_sleep_on(p) \/ sched_cancellable_sleep_on(p)
    BY Zenon, <1>4
  <2>1. p \in Queue
    BY Zenon DEF Queue
  <2>2. CASE UNCHANGED tq_list
    BY Zenon, <2>2, ListOrder
  <2>3. ASSUME NEW f, NEW s, SleepOn(f, p, s) PROVE KeepsOrder(q)
    BY Zenon, <1>3, <2>1, <2>3 DEF SleepOn
  <2>. QED BY Zenon, <2>2, <2>3 DEF sched_sleep_on, sched_cancellable_sleep_on
<1>5. CASE thr_yield
  <2>1. kt_runq \in Queue
    BY Zenon DEF Queue
  <2>. QED BY Zenon, <1>3, <1>5, <2>1 DEF thr_yield
<1>6. CASE kthread_exit
  <2>1. tq_list'[q] = tq_list[q]
    BY Zenon, <1>1, <1>2, <1>6 DEF kthread_exit
  <2>. QED BY Zenon, <2>1, ListOrder
<1>. QED BY Zenon, <1>4, <1>5, <1>6 DEF Leave

(* Threads leave a wait queue in the order in which they came, except for  *)
(* those sched_cancel takes out.                                           *)
THEOREM NoOvertaking == SchedSpec => WokenInOrder
<1>1. ASSUME SchedInv, SchedNext, NEW q \in WaitQ
      PROVE  KeepsOrder(q) /\ LeavesInOrder(q)
  <2>0. /\ q \in Queue /\ q # kt_runq /\ q # NULL
        /\ tq_list \in [Queue -> Seq(Thread)] /\ kt_wchan \in [Thread -> Queue \cup {NULL}]
    BY Zenon, <1>1, SchedAssumption DEF SchedInv, SchedTypeOK, Queue
  <2>1. CASE Leave
    BY Zenon, <1>1, <2>1, LeaveInv, LeaveOrdered DEF WaitersStay, LeavesInOrder
  <2>2. CASE Idle
    <3>1. tq_list'[q] = tq_list[q]
      BY Zenon, <2>0, <2>2 DEF Idle, IdleTest, intr_wait, queueVars, Dispatch, Resume, DequeueList
    <3>. QED BY Zenon, <1>1, <2>2, <3>1, IdleInv, ListOrder DEF WaitersStay, LeavesInOrder
  <2>3. CASE Call
    <3>1. CASE \E p \in WaitQ \ DevQ : sched_wakeup_on(p)
      BY Zenon, <1>1, <3>1, WakeupOrdered DEF sched_wakeup_on
    <3>2. CASE \E p \in WaitQ \ DevQ : sched_broadcast_on(p)
      BY Zenon, <1>1, <3>2, BroadcastOrdered DEF sched_broadcast_on
    <3>3. ASSUME NEW t \in Thread \ {curthr}, sched_make_runnable(t)
          PROVE  KeepsOrder(q) /\ LeavesInOrder(q)
      <4>1. /\ kt_wchan[t] = NULL /\ kt_wchan' = [kt_wchan EXCEPT ![t] = kt_runq]
            /\ tq_list'[q] = tq_list[q]
        BY Zenon, <2>0, <3>3 DEF sched_make_runnable, MakeRunnable, Channel, EnqueueList
      <4>. QED BY Zenon, <1>1, <2>0, <4>1, ListOrder DEF LeavesInOrder
    <3>4. CASE \/ \E t \in Thread \ {curthr} : sched_cancel(t) \/ kthread_create(t)
               \/ \E level \in IPL : intr_setipl(level)
      <4>1. kt_wchan' = kt_wchan /\ tq_list' = tq_list
        BY Zenon, <3>4 DEF sched_cancel, kthread_create, intr_setipl
      <4>. QED BY Zenon, <1>1, <4>1, ListOrder DEF LeavesInOrder
    <3>. QED BY Zenon, <2>3, <3>1, <3>2, <3>3, <3>4 DEF Call
  <2>4. CASE sched_cancel_wchan
    <3>1. kt_wchan' = kt_wchan /\ tq_list' = tq_list
      BY Zenon, <2>4 DEF sched_cancel_wchan
    <3>. QED BY <1>1, <3>1, ListOrder DEF LeavesInOrder
  <2>5. CASE sched_cancel_remove
    <3>1. /\ kt_cancelled[cancel.thr] /\ cancel.thr \in Thread
          /\ kt_wchan[cancel.thr] \in Queue
      BY ZenonT(60), <1>1, <2>5 DEF sched_cancel_remove, SchedInv, SchedTypeOK, CancelTarget
    <3>2. \A t \in Thread : t # cancel.thr => kt_wchan'[t] = kt_wchan[t]
      BY ZenonT(60), <2>0, <2>5, <3>1 DEF sched_cancel_remove, MakeRunnable, Channel
    <3>3. PICK i \in DOMAIN tq_list[kt_wchan[cancel.thr]] :
            tq_list' = EnqueueList([tq_list EXCEPT ![kt_wchan[cancel.thr]] =
                                      list_remove_at(@, i)], kt_runq, cancel.thr)
      BY ZenonT(60), <2>5 DEF sched_cancel_remove, MakeRunnable
    <3>4. \/ tq_list'[q] = tq_list[q]
          \/ \E k \in 1..Len(tq_list[q]) : tq_list'[q] = list_remove_at(tq_list[q], k)
      <4>1. CASE kt_wchan[cancel.thr] = q
        <5>1. i \in 1..Len(tq_list[q])
          BY SMTT(60), <2>0, <3>3, <4>1
        <5>2. tq_list'[q] = list_remove_at(tq_list[q], i)
          BY Zenon, <2>0, <3>3, <4>1 DEF EnqueueList
        <5>. QED BY Zenon, <5>1, <5>2
      <4>2. CASE kt_wchan[cancel.thr] # q
        BY Zenon, <2>0, <3>3, <4>2 DEF EnqueueList
      <4>. QED BY Zenon, <4>1, <4>2
    <3>. QED BY Zenon, <1>1, <3>1, <3>2, <3>4, ListOrder DEF LeavesInOrder
  <2>6. CASE AnyInterrupt
    BY Zenon, <1>1, <2>6, WakeupOrdered, BroadcastOrdered, SchedAssumption
       DEF AnyInterrupt, Interrupt
  <2>. QED BY Zenon, <1>1, <2>1, <2>2, <2>3, <2>4, <2>5, <2>6 DEF SchedNext, CancelStep
<1>2. ASSUME SchedInv, SchedInv', [SchedNext]_schedVars
      PROVE  [\A q \in WaitQ : \A t, u \in Thread :
                kt_wchan[t] = q /\ t # u /\ ~Ahead(tq_list, q, u, t) =>
                  /\ ~Ahead(tq_list', q, u, t)
                  /\ kt_wchan[u] = q /\ kt_wchan'[u] # q /\ ~kt_cancelled[u] =>
                       kt_wchan'[t] # q]_schedVars
  <2> SUFFICES ASSUME SchedNext, NEW q \in WaitQ, NEW t \in Thread, NEW u \in Thread,
                      kt_wchan[t] = q, t # u, ~Ahead(tq_list, q, u, t)
               PROVE  /\ ~Ahead(tq_list', q, u, t)
                      /\ kt_wchan[u] = q /\ kt_wchan'[u] # q /\ ~kt_cancelled[u] =>
                           kt_wchan'[t] # q
    BY Zenon, <1>2
  <2>1. KeepsOrder(q) /\ LeavesInOrder(q)
    BY Zenon, <1>1, <1>2
  <2>2. DOMAIN tq_list'[q] = 1..Len(tq_list'[q])
    BY SMTT(60), <1>2 DEF SchedInv, Linked, Queue
  <2>3. ~Ahead(tq_list', q, u, t)
    BY <2>1, <2>2 DEF KeepsOrder, Ahead
  <2>. QED BY SMTT(60), <2>1, <2>3 DEF LeavesInOrder
<1>. QED BY <1>2, Invariance, PTL DEF SchedSpec, WokenInOrder
=============================================================================
