--------------------------- MODULE SequenceLemmas ---------------------------
(***************************************************************************)
(* What the sequence operators that model the kernel's linked lists        *)
(* (include/util/list.h) do, element by element, for the proofs of the     *)
(* modules that use them.                                                  *)
(***************************************************************************)
EXTENDS List, TLAPS

(* What Append, the model of list_insert_head in ktqueue_enqueue, does to  *)
(* a queue.                                                                *)
LEMMA AppendFacts ==
  ASSUME NEW S, NEW s \in Seq(S), NEW e \in S
  PROVE  /\ Append(s, e) \in Seq(S)
         /\ Len(Append(s, e)) = Len(s) + 1
         /\ \A i \in 1..Len(s) : Append(s, e)[i] = s[i]
         /\ Append(s, e)[Len(s) + 1] = e
  OBVIOUS

(* What Tail, the model of the removal in ktqueue_dequeue, leaves of a     *)
(* queue.                                                                  *)
LEMMA TailFacts ==
  ASSUME NEW S, NEW s \in Seq(S), s # << >>
  PROVE  /\ Len(s) \in Nat \ {0}
         /\ Head(s) = s[1]
         /\ Head(s) \in S
         /\ Tail(s) \in Seq(S)
         /\ Len(Tail(s)) = Len(s) - 1
         /\ \A i \in 1..(Len(s) - 1) : Tail(s)[i] = s[i + 1]
  OBVIOUS

(* What moving a whole wait queue behind the run queue                     *)
(* (sched_broadcast_on) does to the run queue.                             *)
LEMMA ConcatFacts ==
  ASSUME NEW S, NEW s \in Seq(S), NEW r \in Seq(S)
  PROVE  /\ s \o r \in Seq(S)
         /\ Len(s \o r) = Len(s) + Len(r)
         /\ \A i \in 1..Len(s) : i \in 1..Len(s \o r) /\ (s \o r)[i] = s[i]
         /\ \A i \in 1..Len(r) :
              Len(s) + i \in 1..Len(s \o r) /\ (s \o r)[Len(s) + i] = r[i]
         /\ \A k \in 1..Len(s \o r) :
              \/ k \in 1..Len(s) /\ (s \o r)[k] = s[k]
              \/ k - Len(s) \in 1..Len(r) /\ (s \o r)[k] = r[k - Len(s)]
<1>1. Len(s) \in Nat /\ Len(r) \in Nat
  OBVIOUS
<1>2. s \o r \in Seq(S) /\ Len(s \o r) = Len(s) + Len(r)
  OBVIOUS
<1>3. \A i \in 1..Len(s) : (s \o r)[i] = s[i]
  OBVIOUS
<1>4. \A i \in 1..Len(r) : (s \o r)[Len(s) + i] = r[i]
  OBVIOUS
<1>5. ASSUME NEW k \in 1..Len(s \o r), k > Len(s)
      PROVE  k - Len(s) \in 1..Len(r) /\ (s \o r)[k] = r[k - Len(s)]
  <2>1. k - Len(s) \in 1..Len(r) /\ Len(s) + (k - Len(s)) = k
    BY <1>1, <1>2, <1>5
  <2>. QED BY <2>1, <1>4
<1>. QED BY <1>1, <1>2, <1>3, <1>4, <1>5

(* What unlinking one thread from the middle (list_remove, as sched_cancel *)
(* uses it) leaves of a queue.                                             *)
LEMMA RemoveAtFacts ==
  ASSUME NEW S, NEW s \in Seq(S), NEW i \in 1..Len(s)
  PROVE  /\ list_remove_at(s, i) \in Seq(S)
         /\ Len(list_remove_at(s, i)) = Len(s) - 1
         /\ \A k \in 1..(Len(s) - 1) :
              list_remove_at(s, i)[k] = s[IF k < i THEN k ELSE k + 1]
<1> DEFINE a == SubSeq(s, 1, i - 1)
           b == SubSeq(s, i + 1, Len(s))
<1>1. a \in Seq(S) /\ Len(a) = i - 1 /\ \A k \in 1..(i - 1) : a[k] = s[k]
  OBVIOUS
<1>2. /\ b \in Seq(S)
      /\ Len(b) = Len(s) - i
      /\ \A k \in 1..(Len(s) - i) : b[k] = s[k + i]
  OBVIOUS
<1>3. list_remove_at(s, i) = a \o b
  BY DEF list_remove_at
<1> HIDE DEF a, b
<1>4. Len(a \o b) = Len(s) - 1 /\ a \o b \in Seq(S)
  <2>1. a \o b \in Seq(S) /\ Len(a \o b) = Len(a) + Len(b)
    BY ZenonT(60), <1>1, <1>2, ConcatFacts
  <2>2. Len(s) \in Nat
    OBVIOUS
  <2>. QED BY <1>1, <1>2, <2>1, <2>2
<1>5. ASSUME NEW k \in 1..(Len(s) - 1), k < i
      PROVE  (a \o b)[k] = s[k]
  BY <1>1, <1>2, <1>5
<1>6. ASSUME NEW k \in 1..(Len(s) - 1), ~(k < i)
      PROVE  (a \o b)[k] = s[k + 1]
  <2>1. (a \o b)[k] = b[k - (i - 1)]
    BY <1>1, <1>2, <1>6
  <2>2. k - (i - 1) \in 1..(Len(s) - i)
    BY <1>6
  <2>. QED BY <2>1, <2>2, <1>2
<1>. QED BY <1>3, <1>4, <1>5, <1>6

\* No element occurs twice.
Distinct(s) == \A i, j \in 1..Len(s) : s[i] = s[j] => i = j

\* r is s without f.
Removed(S, s, f, r) ==
  /\ r \in Seq(S) /\ Len(r) = Len(s) - 1 /\ Distinct(r)
  /\ \A i \in 1..Len(r) : r[i] # f /\ \E j \in 1..Len(s) : s[j] = r[i]
  /\ \A j \in 1..Len(s) : s[j] # f => \E i \in 1..Len(r) : r[i] = s[j]

\* r is s with f at its end.
Added(S, s, f, r) ==
  /\ r \in Seq(S) /\ Len(r) = Len(s) + 1 /\ Distinct(r)
  /\ \A i \in 1..Len(r) : r[i] = f \/ \E j \in 1..Len(s) : s[j] = r[i]
  /\ \A j \in 1..Len(s) : \E i \in 1..Len(r) : r[i] = s[j]
  /\ \E i \in 1..Len(r) : r[i] = f

\* r is s in another order.
Reordered(S, s, r) ==
  /\ r \in Seq(S) /\ Len(r) = Len(s) /\ Distinct(r)
  /\ \A i \in 1..Len(r) : \E j \in 1..Len(s) : s[j] = r[i]
  /\ \A j \in 1..Len(s) : \E i \in 1..Len(r) : r[i] = s[j]

\* b holds what s and r hold.
Joined(S, s, r, b) ==
  /\ b \in Seq(S) /\ Distinct(b)
  /\ \A k \in 1..Len(b) : (\E i \in 1..Len(s) : s[i] = b[k]) \/ (\E j \in 1..Len(r) : r[j] = b[k])
  /\ \A i \in 1..Len(s) : \E k \in 1..Len(b) : b[k] = s[i]
  /\ \A j \in 1..Len(r) : \E k \in 1..Len(b) : b[k] = r[j]

(* Two lists with no common element, one after the other.                   *)
LEMMA ConcatDistinct ==
  ASSUME NEW S, NEW s \in Seq(S), NEW r \in Seq(S), Distinct(s), Distinct(r),
         \A i \in 1..Len(s) : \A j \in 1..Len(r) : s[i] # r[j]
  PROVE  Joined(S, s, r, s \o r)
<1> DEFINE b == s \o r
<1>1. /\ b \in Seq(S) /\ Len(s) \in Nat /\ Len(r) \in Nat
      /\ \A i \in 1..Len(s) : i \in 1..Len(b) /\ b[i] = s[i]
      /\ \A i \in 1..Len(r) : Len(s) + i \in 1..Len(b) /\ b[Len(s) + i] = r[i]
      /\ \A k \in 1..Len(b) :
           \/ k \in 1..Len(s) /\ b[k] = s[k]
           \/ k - Len(s) \in 1..Len(r) /\ b[k] = r[k - Len(s)]
  BY ConcatFacts
<1> HIDE DEF b
<1>2. Distinct(b)
  <2> SUFFICES ASSUME NEW k \in 1..Len(b), NEW m \in 1..Len(b), b[k] = b[m] PROVE k = m
    BY DEF Distinct
  <2>1. CASE k \in 1..Len(s) /\ b[k] = s[k]
    <3>1. m \in 1..Len(s) /\ b[m] = s[m]
      BY Zenon, <1>1, <2>1
    <3>. QED BY Zenon, <2>1, <3>1 DEF Distinct
  <2>2. CASE k - Len(s) \in 1..Len(r) /\ b[k] = r[k - Len(s)]
    <3>1. m - Len(s) \in 1..Len(r) /\ b[m] = r[m - Len(s)]
      BY Zenon, <1>1, <2>2
    <3>2. k - Len(s) = m - Len(s)
      BY Zenon, <2>2, <3>1 DEF Distinct
    <3>. QED BY <1>1, <3>2
  <2>. QED BY <1>1, <2>1, <2>2
<1>3. \A k \in 1..Len(b) : (\E i \in 1..Len(s) : s[i] = b[k]) \/ (\E j \in 1..Len(r) : r[j] = b[k])
  BY <1>1
<1>4. /\ \A i \in 1..Len(s) : \E k \in 1..Len(b) : b[k] = s[i]
      /\ \A j \in 1..Len(r) : \E k \in 1..Len(b) : b[k] = r[j]
  BY <1>1
<1>. QED BY Zenon, <1>1, <1>2, <1>3, <1>4 DEF Joined, b

(* list_remove takes one element and nothing else from a list that holds    *)
(* it once.                                                                 *)
LEMMA RemoveAtRemoves ==
  ASSUME NEW S, NEW s \in Seq(S), Distinct(s), NEW k \in 1..Len(s)
  PROVE  Removed(S, s, s[k], list_remove_at(s, k))
<1> DEFINE r == list_remove_at(s, k)
<1>0. Len(s) \in Nat
  OBVIOUS
<1>2. /\ r \in Seq(S) /\ Len(r) = Len(s) - 1
      /\ \A i \in 1..(Len(s) - 1) : r[i] = s[IF i < k THEN i ELSE i + 1]
  BY Zenon, RemoveAtFacts
<1> HIDE DEF r
<1>3. Distinct(r)
  <2>1. SUFFICES ASSUME NEW i \in 1..Len(r), NEW j \in 1..Len(r), r[i] = r[j]
                 PROVE  i = j
    BY DEF Distinct
  <2> DEFINE Old(x) == IF x < k THEN x ELSE x + 1
  <2>2. \A x \in 1..Len(r) : Old(x) \in 1..Len(s) /\ r[x] = s[Old(x)]
    BY <1>0, <1>2
  <2>3. Old(i) = Old(j)
    BY Zenon, <2>1, <2>2 DEF Distinct
  <2>. QED BY <1>0, <1>2, <2>3
<1>4. \A i \in 1..Len(r) : r[i] # s[k] /\ \E j \in 1..Len(s) : s[j] = r[i]
  <2>1. SUFFICES ASSUME NEW i \in 1..Len(r)
                 PROVE  \E j \in 1..Len(s) : j # k /\ s[j] = r[i]
    BY DEF Distinct
  <2>2. CASE i < k
    BY <1>0, <1>2, <2>2
  <2>3. CASE ~ (i < k)
    <3>1. i + 1 \in 1..Len(s) /\ i + 1 # k /\ r[i] = s[i + 1]
      BY <1>0, <1>2, <2>3
    <3>. QED BY <3>1
  <2>. QED BY <2>2, <2>3
<1>5. \A j \in 1..Len(s) : s[j] # s[k] => \E i \in 1..Len(r) : r[i] = s[j]
  <2>1. SUFFICES ASSUME NEW j \in 1..Len(s), j # k
                 PROVE  \E i \in 1..Len(r) : r[i] = s[j]
    OBVIOUS
  <2>2. CASE j < k
    <3>1. j \in 1..Len(r) /\ r[j] = s[j]
      BY <1>0, <1>2, <2>2
    <3>. QED BY <3>1
  <2>3. CASE j > k
    <3>1. j - 1 \in 1..Len(r) /\ ~ (j - 1 < k) /\ (j - 1) + 1 = j
      BY <1>0, <1>2, <2>3
    <3>2. r[j - 1] = s[j]
      BY <1>2, <3>1
    <3>. QED BY <3>1, <3>2
  <2>. QED BY <2>1, <2>2, <2>3, <1>0
<1>. QED BY <1>2, <1>3, <1>4, <1>5 DEF Removed, r

(* The same, when the element is given and not its place.                   *)
LEMMA RemoveFirstFacts ==
  ASSUME NEW S, NEW s \in Seq(S), Distinct(s), NEW k \in 1..Len(s)
  PROVE  Removed(S, s, s[k], list_remove(s, s[k]))
<1>1. (CHOOSE i \in 1..Len(s) : s[i] = s[k]) = k
  BY DEF Distinct
<1>2. \E i \in 1..Len(s) : s[i] = s[k]
  OBVIOUS
<1>3. list_remove(s, s[k]) = list_remove_at(s, k)
  BY Zenon, <1>1, <1>2 DEF list_remove
<1>. QED BY <1>3, RemoveAtRemoves

(* list_remove of a link that is on another list leaves this one.           *)
LEMMA RemoveFirstNothing ==
  ASSUME NEW s, NEW f, \A i \in 1..Len(s) : s[i] # f
  PROVE  list_remove(s, f) = s
  BY DEF list_remove

(* list_insert_tail of a new element.                                       *)
LEMMA AppendDistinct ==
  ASSUME NEW S, NEW s \in Seq(S), Distinct(s), NEW f \in S, \A i \in 1..Len(s) : s[i] # f
  PROVE  Added(S, s, f, Append(s, f))
<1> DEFINE r == Append(s, f)
<1>1. /\ r \in Seq(S) /\ Len(r) = Len(s) + 1 /\ \A i \in 1..Len(s) : r[i] = s[i]
      /\ r[Len(s) + 1] = f /\ Len(s) \in Nat
  BY AppendFacts
<1> HIDE DEF r
<1>2. Distinct(r)
  BY <1>1 DEF Distinct
<1>3. \A i \in 1..Len(r) : r[i] = f \/ \E j \in 1..Len(s) : s[j] = r[i]
  BY <1>1
<1>4. \A j \in 1..Len(s) : j \in 1..Len(r) /\ r[j] = s[j]
  BY <1>1
<1>5. Len(s) + 1 \in 1..Len(r)
  BY <1>1
<1>. QED BY <1>1, <1>2, <1>3, <1>4, <1>5 DEF r, Added

(* Taking an element out of a list and putting it back at its end           *)
(* (pframe_get_resident) leaves what the list holds.                        *)
LEMMA MovedLast ==
  ASSUME NEW S, NEW s \in Seq(S), Distinct(s), NEW k \in 1..Len(s), NEW r,
         r = Append(list_remove(s, s[k]), s[k])
  PROVE  Reordered(S, s, r)
<1>1. PICK q : q = list_remove(s, s[k])
  OBVIOUS
<1>2. Removed(S, s, s[k], q)
  BY <1>1, RemoveFirstFacts
<1>3. /\ q \in Seq(S) /\ Len(q) \in Nat /\ Len(q) = Len(s) - 1 /\ Distinct(q) /\ Len(s) \in Nat
      /\ \A i \in 1..Len(q) : q[i] # s[k]
  BY <1>2 DEF Removed
<1>4. Added(S, q, s[k], r)
  BY <1>1, <1>3, AppendDistinct
<1>5. r \in Seq(S) /\ Distinct(r) /\ Len(r) = Len(s)
  BY <1>3, <1>4 DEF Added
<1>6. ASSUME NEW i \in 1..Len(r) PROVE \E j \in 1..Len(s) : s[j] = r[i]
  <2>1. CASE r[i] = s[k]
    BY <2>1
  <2>2. CASE r[i] # s[k]
    <3>1. PICK n \in 1..Len(q) : q[n] = r[i]
      BY Zenon, <1>4, <2>2 DEF Added
    <3>2. \E j \in 1..Len(s) : s[j] = q[n]
      BY <1>2 DEF Removed
    <3>. QED BY <3>1, <3>2
  <2>. QED BY <2>1, <2>2
<1>7. ASSUME NEW j \in 1..Len(s) PROVE \E i \in 1..Len(r) : r[i] = s[j]
  <2>1. CASE s[j] = s[k]
    BY <1>4, <2>1 DEF Added
  <2>2. CASE s[j] # s[k]
    <3>1. PICK n \in 1..Len(q) : q[n] = s[j]
      BY <1>2, <2>2 DEF Removed
    <3>2. \E i \in 1..Len(r) : r[i] = q[n]
      BY Zenon, <1>4 DEF Added
    <3>. QED BY <3>1, <3>2
  <2>. QED BY <2>1, <2>2
<1>. QED BY Zenon, <1>5, <1>6, <1>7 DEF Reordered
=============================================================================
