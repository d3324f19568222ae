-------------------------- MODULE PframeInvariant ---------------------------
(***************************************************************************)
(* The inductive invariant of Pframe, and the proof that the steps of the  *)
(* disk, of pageoutd and of pframe_shutdown keep it, for any number of     *)
(* clients, pages and frames.                                              *)
(*                                                                         *)
(* None of the properties is inductive.  That no write is lost needs to    *)
(* know which thread a busy frame belongs to and at which point it is      *)
(* (Owners); that nobody frees a frame under its owner needs the frames on *)
(* alloc_list to be the unpinned ones (Lists) and the pin counts to be the *)
(* clients that pinned (Pins); that a returned frame is still there when   *)
(* it is used rests on the processor staying with its holder (Holding);    *)
(* that shutdown ends with every write on the disk, on the order of its    *)
(* phases (Closing).  Every step keeps them together, one lemma per        *)
(* handler here and in PframeProofs.                                       *)
(***************************************************************************)
EXTENDS Pframe, SequenceLemmas

(* Leaves that name no prover go to SMT.                                   *)
USE SMTT(30)

---------------------------------------------------------------------------
(* The inductive invariant.                                                *)

Pinning == {"pinned", "dirtyingpin"}

Active == Owning \cup Waiting \cup Pinning

Pinners(f) == {t \in Client : pc[t] \in Pinning /\ at[t] = f}

AllPinners == {t \in Client : pc[t] \in Pinning}

\* Two slots never hold the same page.
OneFrame ==
    \A f, g \in Frame :
        frame[f] # NULL /\ frame[g] # NULL /\ frame[f].key = frame[g].key => f = g

\* The busy bit and the thread that set it.
Owners ==
    /\ \A t \in Thread : pc[t] \in Owning =>
          at[t] \in Frame /\ frame[at[t]] # NULL /\ frame[at[t]].busy
    /\ \A t, u \in Thread : pc[t] \in Owning /\ pc[u] \in Owning /\ at[t] = at[u] => t = u
    /\ \A f \in Frame : frame[f] # NULL /\ frame[f].busy =>
          \E t \in Thread : pc[t] \in Owning /\ at[t] = f
    /\ \A t \in Thread : pc[t] \in {"dirtying", "dirtyingpin"} => t = Writer
    /\ \A t \in Thread : pc[t] \in Cleaning \cup {"filling"} => frame[at[t]].pin = 0
    /\ \A t \in Thread : pc[t] = "filling" => ~ frame[at[t]].dirty

\* Who sleeps on a frame's queue.
Sleepers ==
    /\ \A f \in Frame : waitq[f] = {t \in Thread : pc[t] \in Waiting /\ at[t] = f}
    /\ \A t \in Thread : pc[t] \in Waiting =>
          at[t] \in Frame /\ frame[at[t]] # NULL /\ frame[at[t]].busy
    /\ \A t \in Thread : pc[t] = "getwoken" => at[t] \in Frame

\* The pin count of a frame is the number of clients that pinned it.
Pins ==
    /\ \A t \in Client : pc[t] \in Pinning => at[t] \in Frame /\ frame[at[t]] # NULL
    /\ \A f \in Frame : frame[f] # NULL => frame[f].pin = Cardinality(Pinners(f))

\* Between pframe_get and its next block a client has the processor to itself.
Holding ==
    ~ astray => \A t \in Client : pc[t] = "got" =>
        cpu = t /\ at[t] \in Frame /\ frame[at[t]] # NULL /\ ~ frame[at[t]].busy

\* The order of pframe_shutdown.
Closing ==
    /\ closing => \A t \in Client : pc[t] = "idle"
    /\ pc[Syncer] \in {"reap", "freeall", "done"} => closing
    /\ closing => pc[Syncer] # "idle" /\ (pc[Syncer] # "reap" => pc[Pageoutd] = "gone")
    /\ pc[Syncer] = "freeall" => \A f \in Frame : frame[f] # NULL =>
          ~ frame[f].busy /\ ~ frame[f].dirty /\ frame[f].pin = 0
    /\ pc[Syncer] = "done" => \A f \in Frame : frame[f] = NULL

\* NothingIsLost, frame by frame.
Kept ==
    /\ \A k \in Key : disk[k] \/ \E f \in Frame : frame[f] # NULL /\ frame[f].key = k
    /\ \A f \in Frame : frame[f] # NULL =>
          /\ frame[f].fresh \/ \E t \in Thread : pc[t] = "filling" /\ at[t] = f
          /\ \/ frame[f].dirty \/ disk[frame[f].key]
             \/ \E t \in Thread : pc[t] \in Cleaning /\ at[t] = f

\* alloc_list and the counters; ListsAgree, element by element.
Lists ==
    /\ Distinct(alloc_list)
    /\ \A i \in 1..Len(alloc_list) :
          frame[alloc_list[i]] # NULL /\ frame[alloc_list[i]].pin = 0
    /\ \A f \in Frame : frame[f] # NULL /\ frame[f].pin = 0 =>
          \E i \in 1..Len(alloc_list) : alloc_list[i] = f
    /\ nallocated = Len(alloc_list)
    /\ npinned = Cardinality(AllPinners)

PframeInv ==
    /\ PframeTypeOK /\ Lists /\ NoAssertionFails /\ OneFrame /\ Owners
    /\ Sleepers /\ Pins /\ Holding /\ Closing /\ Kept

\* What the counts of pins say, as far as it matters whether they are 0; it
\* follows from PframeInv (PinsCount in PframeProofs).
PinCounts ==
    /\ \A f \in Frame : frame[f] # NULL => (frame[f].pin = 0 <=> Pinners(f) = {})
    /\ npinned = 0 <=> AllPinners = {}

(* Steps that pin and unpin nothing leave the sets of pinning clients.     *)
LEMMA SamePins ==
  ASSUME \A u \in Client :
           /\ pc'[u] \in Pinning <=> pc[u] \in Pinning
           /\ pc[u] \in Pinning => at'[u] = at[u]
  PROVE  AllPinners' = AllPinners /\ \A f : Pinners(f)' = Pinners(f)
  BY Zenon DEF AllPinners, Pinners

(* Steps of threads that neither own, await nor pin a frame, before and     *)
(* after, and that leave frames and disk alone.                             *)
LEMMA QuietStep ==
  ASSUME PframeInv, PframeTypeOK', UNCHANGED <<frame, waitq, disk, panic>>,
         \A u \in Thread : \/ pc'[u] = pc[u] /\ at'[u] = at[u]
                           \/ pc[u] \notin Active /\ pc'[u] \notin Active \cup {"getwoken"}
  PROVE  /\ Pins' /\ OneFrame' /\ Owners' /\ Sleepers' /\ Kept' /\ NoAssertionFails'
         /\ UNCHANGED <<alloc_list, nallocated, npinned>> => Lists'
<1>1. AllPinners' = AllPinners /\ \A f : Pinners(f)' = Pinners(f)
  <2>1. \A u \in Client : /\ pc'[u] \in Pinning <=> pc[u] \in Pinning
                          /\ pc[u] \in Pinning => at'[u] = at[u]
    BY Zenon DEF Thread, Active
  <2>. QED BY Zenon, <2>1, SamePins
<1>2. UNCHANGED <<alloc_list, nallocated, npinned>> => Lists'
  BY Zenon, <1>1 DEF PframeInv, Lists
<1>3. Pins'
  BY Zenon, <1>1 DEF PframeInv, Pins, Active, Thread
<1>4. OneFrame' /\ NoAssertionFails'
  BY Zenon DEF PframeInv, OneFrame, NoAssertionFails
<1>5. /\ \A u \in Thread : pc[u] \in Owning \cup Waiting => pc'[u] = pc[u] /\ at'[u] = at[u]
      /\ \A u \in Thread : pc'[u] \in Owning \cup Waiting \cup {"getwoken"} =>
            pc'[u] = pc[u] /\ at'[u] = at[u]
  BY Zenon DEF Active
<1>6. Owners'
  <2>1. Cleaning \cup {"filling", "dirtying", "dirtyingpin"} \subseteq Owning
    BY Zenon DEF Owning
  <2>. QED BY <1>5, <2>1 DEF PframeInv, Owners
<1>7. Sleepers'
  BY <1>5 DEF PframeInv, Sleepers
<1>8. Kept'
  <2>1. Cleaning \cup {"filling"} \subseteq Owning
    BY Zenon DEF Owning
  <2>. QED BY <1>5, <2>1 DEF PframeInv, Kept
<1>. QED BY Zenon, <1>2, <1>3, <1>4, <1>6, <1>7, <1>8

PlaceTypes ==
    /\ frame \in [Frame -> PageFrame \cup {NULL}] /\ waitq \in [Frame -> SUBSET Thread]
    /\ at \in [Thread -> Frame \cup {NULL}]
    /\ pc \in [Thread -> Owning \cup Waiting \cup {"idle", "getwoken", "got",
                 "pinned", "out", "parked", "gone", "sync", "reap", "freeall", "done"}]

\* What Broadcast(f, t, next) does to the threads.
GoesOnAt(f, t, next) ==
    /\ \A u \in Thread \ {t} :
          IF pc[u] \in Waiting /\ at[u] = f
            THEN /\ pc'[u] \in {"getwoken", "out", "sync"}
                 /\ at'[u] = IF pc'[u] \in {"out", "sync"} THEN NULL ELSE f
            ELSE pc'[u] = pc[u] /\ at'[u] = at[u]
    /\ pc'[t] = next /\ at'[t] = IF next \in {"out", "sync"} THEN NULL ELSE f

(* The owner t of f finishes: f is no longer busy and its sleepers are      *)
(* woken (sched_broadcast_on), while its page and its pins stay.            *)
LEMMA OwnerDone ==
  ASSUME PframeInv, NEW t \in Thread, pc[t] \in Owning, NEW f, f = at[t],
         NEW p \in PageFrame, p.key = frame[f].key, p.pin = frame[f].pin, ~ p.busy,
         NEW next \in {"got", "pinned", "out", "sync"}, Broadcast(f, t, next),
         next = "pinned" <=> pc[t] = "dirtyingpin",
         frame' = [frame EXCEPT ![f] = p],
         UNCHANGED <<alloc_list, nallocated, npinned, panic>>
  PROVE  /\ GoesOnAt(f, t, next) /\ PlaceTypes'
         /\ Lists' /\ Pins' /\ OneFrame' /\ Owners' /\ Sleepers' /\ NoAssertionFails'
<1>1. f \in Frame /\ frame[f] \in PageFrame /\ frame[f].busy
  BY DEF PframeInv, PframeTypeOK, Owners
<1>2. \A u \in Thread : u \in waitq[f] <=> pc[u] \in Waiting /\ at[u] = f
  BY Zenon, <1>1 DEF PframeInv, Sleepers
<1>3. PlaceTypes'
  BY Zenon, <1>1 DEF PframeInv, PframeTypeOK, PlaceTypes, Broadcast, Woken
<1>4. GoesOnAt(f, t, next)
  <2>1. \A s \in Waiting : Woken(s) \in {"getwoken", "out", "sync"}
    BY Zenon DEF Woken, Waiting
  <2>. QED BY Zenon, <1>2, <2>1 DEF Broadcast, GoesOnAt
<1>6. \A g \in Frame : frame'[g] = IF g = f THEN p ELSE frame[g]
  BY Zenon, <1>1 DEF PframeInv, PframeTypeOK
<1>7. p # NULL /\ frame[f] # NULL
  BY Zenon, PframeAssumption, <1>1
<1>8. AllPinners' = AllPinners /\ \A g : Pinners(g)' = Pinners(g)
  <2>1. \A u \in Client : /\ pc'[u] \in Pinning <=> pc[u] \in Pinning
                          /\ pc[u] \in Pinning => at'[u] = at[u]
    BY Zenon, <1>4 DEF GoesOnAt, Thread, Pinning, Waiting, Owning, Cleaning
  <2>. QED BY Zenon, <2>1, SamePins
<1>9. Lists'
  BY <1>1, <1>6, <1>7, <1>8 DEF PframeInv, PframeTypeOK, Lists
<1>10. Pins'
  <2>1. \A u \in Client : pc'[u] \in Pinning => pc[u] \in Pinning /\ at'[u] = at[u]
    BY Zenon, <1>4 DEF GoesOnAt, Thread, Pinning, Waiting, Owning, Cleaning
  <2>2. \A g \in Frame : /\ frame'[g] # NULL <=> frame[g] # NULL
                         /\ frame[g] # NULL => frame'[g].pin = frame[g].pin
    BY Zenon, <1>6, <1>7
  <2>. QED BY Zenon, <1>8, <2>1, <2>2 DEF PframeInv, Pins
<1>11. OneFrame' /\ NoAssertionFails'
  BY <1>6, <1>7 DEF PframeInv, OneFrame, NoAssertionFails
<1>12. Owners'
  <2>1. \A u \in Thread : pc'[u] \in Owning =>
          u # t /\ pc'[u] = pc[u] /\ at'[u] = at[u] /\ at[u] # f
    BY <1>4 DEF GoesOnAt, PframeInv, Owners, Owning, Cleaning
  <2>2. \A g \in Frame : frame'[g] # NULL /\ frame'[g].busy =>
          \E u \in Thread : pc'[u] \in Owning /\ at'[u] = g
    <3>1. SUFFICES ASSUME NEW g \in Frame, frame'[g] # NULL, frame'[g].busy
                   PROVE  \E u \in Thread : pc'[u] \in Owning /\ at'[u] = g
      BY Zenon
    <3>2. g # f /\ frame[g] # NULL /\ frame[g].busy
      BY Zenon, <3>1, <1>6
    <3>3. PICK u \in Thread : pc[u] \in Owning /\ at[u] = g
      BY Zenon, <3>2 DEF PframeInv, Owners
    <3>4. pc'[u] = pc[u] /\ at'[u] = at[u]
      BY Zenon, <3>2, <3>3, <1>4 DEF GoesOnAt, Owning, Cleaning, Waiting
    <3>. QED BY Zenon, <3>3, <3>4
  <2>. QED BY <2>1, <2>2, <1>6 DEF PframeInv, Owners, Owning, Cleaning
<1>13. Sleepers'
  <2>1. \A g \in Frame : waitq'[g] = IF g = f THEN {} ELSE waitq[g]
    BY Zenon, <1>1 DEF PframeInv, PframeTypeOK, Broadcast
  <2>2. \A u \in Thread : /\ pc'[u] \in Waiting <=> pc[u] \in Waiting /\ at[u] # f
                          /\ pc'[u] \in Waiting => at'[u] = at[u]
                          /\ pc'[u] = "getwoken" => at'[u] = f \/ (pc[u] = "getwoken" /\ at'[u] = at[u])
    BY Zenon, <1>4 DEF GoesOnAt, Waiting, Owning, Cleaning
  <2>3. ASSUME NEW g \in Frame
        PROVE  waitq'[g] = {u \in Thread : pc'[u] \in Waiting /\ at'[u] = g}
    <3>1. waitq[g] = {u \in Thread : pc[u] \in Waiting /\ at[u] = g}
      BY Zenon DEF PframeInv, Sleepers
    <3>. QED BY <2>1, <2>2, <3>1
  <2>4. \A u \in Thread : pc[u] \in Waiting =>
          at[u] \in Frame /\ frame[at[u]] # NULL /\ frame[at[u]].busy
    BY Zenon DEF PframeInv, Sleepers
  <2>5. \A u \in Thread : pc'[u] \in Waiting =>
          at'[u] \in Frame /\ frame'[at'[u]] # NULL /\ frame'[at'[u]].busy
    BY <1>6, <2>2, <2>4
  <2>6. \A u \in Thread : pc'[u] = "getwoken" => at'[u] \in Frame
    BY Zenon, <1>1, <2>2 DEF PframeInv, Sleepers
  <2>. QED BY Zenon, <2>3, <2>5, <2>6 DEF Sleepers
<1>. QED BY Zenon, <1>3, <1>4, <1>9, <1>10, <1>11, <1>12, <1>13

(* A step that changes one resident frame and the copy of its page on the   *)
(* disk loses nothing of the other pages.                                   *)
LEMMA KeptStep ==
  ASSUME PframeInv, NEW f \in Frame, frame[f] # NULL,
         NEW p \in PageFrame, p.key = frame[f].key,
         \A g \in Frame : frame'[g] = IF g = f THEN p ELSE frame[g],
         \A k \in Key \ {p.key} : disk'[k] = disk[k],
         \A u \in Thread : pc[u] \in Owning /\ at[u] # f =>
             pc'[u] = pc[u] /\ at'[u] = at[u],
         p.fresh \/ \E u \in Thread : pc'[u] = "filling" /\ at'[u] = f,
         \/ p.dirty \/ disk'[p.key]
         \/ \E u \in Thread : pc'[u] \in Cleaning /\ at'[u] = f
  PROVE  Kept'
<1>1. p # NULL /\ p.key \in Key
  BY Zenon, PframeAssumption DEF PageFrame
<1>2. ASSUME NEW k \in Key
      PROVE  disk'[k] \/ \E g \in Frame : frame'[g] # NULL /\ frame'[g].key = k
  <2>1. CASE k = p.key
    BY Zenon, <1>1, <2>1
  <2>2. CASE k # p.key
    <3>1. disk[k] \/ \E g \in Frame : frame[g] # NULL /\ frame[g].key = k
      BY Zenon DEF PframeInv, Kept
    <3>. QED BY Zenon, <2>2, <3>1
  <2>. QED BY Zenon, <2>1, <2>2
<1>3. ASSUME NEW g \in Frame, g # f, frame[g] # NULL
      PROVE  /\ frame[g].fresh \/ \E t \in Thread : pc'[t] = "filling" /\ at'[t] = g
             /\ \/ frame[g].dirty \/ disk'[frame[g].key]
                \/ \E t \in Thread : pc'[t] \in Cleaning /\ at'[t] = g
  <2>1. frame[g].key \in Key \ {p.key}
    BY <1>3 DEF PframeInv, PframeTypeOK, OneFrame, PageFrame
  <2>2. \A u \in Thread : pc[u] \in Cleaning \cup {"filling"} /\ at[u] = g =>
          pc'[u] = pc[u] /\ at'[u] = at[u]
    BY Zenon, <1>3 DEF Owning
  <2>. QED BY <1>3, <2>1, <2>2 DEF PframeInv, Kept
<1>4. ASSUME NEW g \in Frame, frame'[g] # NULL
      PROVE  /\ frame'[g].fresh \/ \E t \in Thread : pc'[t] = "filling" /\ at'[t] = g
             /\ \/ frame'[g].dirty \/ disk'[frame'[g].key]
                \/ \E t \in Thread : pc'[t] \in Cleaning /\ at'[t] = g
  <2>1. CASE g = f
    BY Zenon, <2>1
  <2>2. CASE g # f
    BY Zenon, <2>2, <1>3, <1>4
  <2>. QED BY Zenon, <2>1, <2>2
<1>. QED BY Zenon, <1>2, <1>4 DEF Kept

---------------------------------------------------------------------------
(* One lemma per action.                                                    *)

(* The end of pframe_fill keeps the invariant: what the disk holds is fresh *)
(* since the page was not resident.                                         *)
LEMMA FillDoneInv ==
  ASSUME PframeInv, NEW t \in Client, FillDone(t)
  PROVE  PframeInv'
<1> DEFINE f == at[t]
           p == [frame[f] EXCEPT !.busy = FALSE, !.fresh = disk[frame[f].key]]
<1>1. t \in Thread /\ pc[t] \in Owning /\ pc[t] = "filling" /\ ~ astray
  BY Zenon DEF Thread, Owning, FillDone, Runs
<1>2. f \in Frame /\ frame[f] \in PageFrame
  BY <1>1 DEF PframeInv, PframeTypeOK, Owners
<1>3. /\ p \in PageFrame /\ p.key = frame[f].key /\ p.pin = frame[f].pin /\ ~ p.busy
      /\ p.fresh = disk[frame[f].key] /\ p.dirty = frame[f].dirty
  BY Zenon, <1>2 DEF PframeInv, PframeTypeOK, PageFrame
<1>4. frame' = [frame EXCEPT ![f] = p]
  BY Zenon, <1>2 DEF FillDone, PframeInv, PframeTypeOK, PageFrame
<1>5. /\ Broadcast(f, t, "got") /\ cpu' = t /\ cpu \in {NULL, t}
      /\ UNCHANGED <<alloc_list, nallocated, npinned, want, disk, closing, astray, panic>>
  BY Zenon DEF FillDone, Runs, lists, data
<1> HIDE DEF f, p
<1>6. /\ GoesOnAt(f, t, "got") /\ PlaceTypes'
      /\ Lists' /\ Pins' /\ OneFrame' /\ Owners' /\ Sleepers' /\ NoAssertionFails'
  BY Zenon, <1>1, <1>3, <1>4, <1>5, OwnerDone DEF f
<1>7. \A g \in Frame : frame'[g] = IF g = f THEN p ELSE frame[g]
  BY Zenon, <1>2, <1>4 DEF PframeInv, PframeTypeOK
<1>8. PframeTypeOK'
  BY Zenon, <1>1, <1>5, <1>6 DEF PframeInv, PframeTypeOK, PlaceTypes
<1>9. Holding'
  BY PframeAssumption, <1>1, <1>2, <1>3, <1>5, <1>6, <1>7 DEF GoesOnAt, PframeInv, Holding, Thread
<1>10. Closing'
  <2>1. ~ closing
    BY Zenon, <1>1 DEF PframeInv, Closing
  <2>2. pc'[Syncer] \notin {"reap", "freeall", "done"}
    BY Zenon, <2>1, <1>1, <1>6 DEF GoesOnAt, PframeInv, Closing, Thread
  <2>. QED BY Zenon, <2>1, <2>2, <1>5 DEF Closing
<1>11. Kept'
  <2>1. disk[frame[f].key] = TRUE
    BY <1>1, <1>2 DEF PframeInv, PframeTypeOK, Kept, Owners, f, Owning, Cleaning, PageFrame
  <2>2. \A u \in Thread : pc[u] \in Owning /\ at[u] # f =>
          pc'[u] = pc[u] /\ at'[u] = at[u]
    BY Zenon, <1>6 DEF GoesOnAt, f, Owning, Cleaning, Waiting
  <2>3. frame[f] # NULL
    BY Zenon, PframeAssumption, <1>2
  <2>. QED BY Zenon, <1>2, <1>3, <1>5, <1>7, <2>1, <2>2, <2>3, KeptStep
<1>. QED BY Zenon, <1>6, <1>8, <1>9, <1>10, <1>11 DEF PframeInv

(* The end of pframe_dirty and the write that follows it keep the           *)
(* invariant: no other frame holds the page.                                *)
LEMMA DirtyDoneInv ==
  ASSUME PframeInv, NEW t \in Client, DirtyDone(t)
  PROVE  PframeInv'
<1> DEFINE f == at[t]
           p == [frame[f] EXCEPT !.busy = FALSE, !.dirty = TRUE, !.fresh = TRUE]
           next == IF pc[t] = "dirtying" THEN "got" ELSE "pinned"
<1>1. /\ t \in Thread /\ pc[t] \in Owning /\ pc[t] \in {"dirtying", "dirtyingpin"}
      /\ ~ astray
  BY Zenon DEF Thread, Owning, DirtyDone, Runs
<1>2. f \in Frame /\ frame[f] \in PageFrame /\ frame[f] # NULL
  BY <1>1 DEF PframeInv, PframeTypeOK, Owners
<1>3. /\ p \in PageFrame /\ p.key = frame[f].key /\ p.pin = frame[f].pin /\ ~ p.busy
      /\ p.fresh /\ p.dirty /\ p.key \in Key
  BY Zenon, <1>2 DEF PframeInv, PframeTypeOK, PageFrame
<1>4. frame' = [frame EXCEPT ![f] = p]
  <2>1. \A g \in Frame : g \in Resident(frame[f].key) => g = f
    BY Zenon, <1>2 DEF PframeInv, OneFrame, Resident
  <2>. QED BY Zenon, <1>2, <2>1 DEF DirtyDone, PframeInv, PframeTypeOK, PageFrame
<1>5. /\ Broadcast(f, t, next) /\ cpu' = t /\ cpu \in {NULL, t}
      /\ disk' = [disk EXCEPT ![p.key] = FALSE]
      /\ UNCHANGED <<alloc_list, nallocated, npinned, want, closing, astray, panic>>
  BY Zenon, <1>3 DEF DirtyDone, Runs, lists
<1> HIDE DEF f, p
<1>6. /\ GoesOnAt(f, t, next) /\ PlaceTypes'
      /\ Lists' /\ Pins' /\ OneFrame' /\ Owners' /\ Sleepers' /\ NoAssertionFails'
  <2>1. next \in {"got", "pinned", "out", "sync"} /\ (next = "pinned" <=> pc[t] = "dirtyingpin")
    BY Zenon, <1>1
  <2> HIDE DEF next
  <2>. QED BY Zenon, <1>1, <1>3, <1>4, <1>5, <2>1, OwnerDone DEF f
<1>7. \A g \in Frame : frame'[g] = IF g = f THEN p ELSE frame[g]
  BY Zenon, <1>2, <1>4 DEF PframeInv, PframeTypeOK
<1>8. PframeTypeOK'
  BY Zenon, <1>1, <1>3, <1>5, <1>6 DEF PframeInv, PframeTypeOK, PlaceTypes
<1>9. Holding'
  BY PframeAssumption, <1>1, <1>2, <1>3, <1>5, <1>6, <1>7 DEF GoesOnAt, PframeInv, Holding, Thread
<1>10. Closing'
  <2>1. ~ closing
    BY Zenon, <1>1 DEF PframeInv, Closing
  <2>2. pc'[Syncer] \notin {"reap", "freeall", "done"}
    BY Zenon, <2>1, <1>1, <1>6 DEF GoesOnAt, PframeInv, Closing, Thread
  <2>. QED BY Zenon, <2>1, <2>2, <1>5 DEF Closing
<1>11. Kept'
  <2>1. \A u \in Thread : pc[u] \in Owning /\ at[u] # f =>
          pc'[u] = pc[u] /\ at'[u] = at[u]
    BY Zenon, <1>6 DEF GoesOnAt, f, Owning, Cleaning, Waiting
  <2>2. \A k \in Key \ {p.key} : disk'[k] = disk[k]
    BY Zenon, <1>5 DEF PframeInv, PframeTypeOK
  <2>. QED BY Zenon, <1>2, <1>3, <1>7, <2>1, <2>2, KeptStep
<1>. QED BY Zenon, <1>6, <1>8, <1>9, <1>10, <1>11 DEF PframeInv

(* The end of pframe_clean keeps the invariant, whether the disk took the   *)
(* page or not.                                                             *)
LEMMA CleanDoneInv ==
  ASSUME PframeInv, NEW t \in Thread, NEW ok \in BOOLEAN, CleanDone(t, ok)
  PROVE  PframeInv'
<1> DEFINE f == at[t]
           p == [frame[f] EXCEPT !.busy = FALSE, !.dirty = @ \/ ~ ok]
           next == IF pc[t] = "outclean" THEN "out" ELSE "sync"
<1>1. pc[t] \in Owning /\ pc[t] \in Cleaning /\ ~ astray
  BY Zenon DEF Owning, Cleaning, CleanDone, Runs
<1>2. f \in Frame /\ frame[f] \in PageFrame /\ frame[f] # NULL
  BY <1>1 DEF PframeInv, PframeTypeOK, Owners
<1>3. /\ p \in PageFrame /\ p.key = frame[f].key /\ p.pin = frame[f].pin /\ ~ p.busy
      /\ p.fresh = frame[f].fresh /\ p.dirty = (frame[f].dirty \/ ~ ok) /\ p.key \in Key
  BY Zenon, <1>2 DEF PframeInv, PframeTypeOK, PageFrame
<1>4. frame' = [frame EXCEPT ![f] = p]
  BY Zenon, <1>2 DEF CleanDone, PframeInv, PframeTypeOK, PageFrame
<1>5. /\ Broadcast(f, t, next) /\ cpu' = t /\ cpu \in {NULL, t}
      /\ disk' = IF ok THEN [disk EXCEPT ![p.key] = frame[f].fresh] ELSE disk
      /\ UNCHANGED <<alloc_list, nallocated, npinned, want, closing, astray, panic>>
  BY Zenon, <1>3 DEF CleanDone, Runs, lists
<1>6. next \in {"out", "sync"} /\ (next = "out" <=> pc[t] = "outclean")
  BY Zenon, <1>1 DEF Cleaning
<1> HIDE DEF f, p, next
<1>7. /\ GoesOnAt(f, t, next) /\ PlaceTypes'
      /\ Lists' /\ Pins' /\ OneFrame' /\ Owners' /\ Sleepers' /\ NoAssertionFails'
  <2>1. next \in {"got", "pinned", "out", "sync"} /\ (next = "pinned" <=> pc[t] = "dirtyingpin")
    BY Zenon, <1>1, <1>6 DEF Cleaning
  <2>. QED BY Zenon, <1>1, <1>3, <1>4, <1>5, <2>1, OwnerDone DEF f
<1>8. \A g \in Frame : frame'[g] = IF g = f THEN p ELSE frame[g]
  BY Zenon, <1>2, <1>4 DEF PframeInv, PframeTypeOK
<1>9. frame[f].fresh /\ disk' \in [Key -> BOOLEAN]
  <2>1. \A u \in Thread : pc[u] = "filling" => at[u] # f
    BY Zenon, <1>1 DEF f, PframeInv, Owners, Owning, Cleaning
  <2>2. frame[f].fresh
    BY Zenon, <2>1, <1>2 DEF PframeInv, Kept
  <2>. QED BY Zenon, <2>2, <1>2, <1>5 DEF PframeInv, PframeTypeOK, PageFrame
<1>10. PframeTypeOK'
  BY Zenon, <1>5, <1>7, <1>9 DEF PframeInv, PframeTypeOK, PlaceTypes
<1>11. Holding'
  BY PframeAssumption, <1>1, <1>5, <1>6, <1>7, <1>8 DEF GoesOnAt, PframeInv, Holding, Thread, Waiting
<1>12. Closing'
  <2>1. pc[Syncer] \notin {"freeall", "done"}
    BY Zenon, <1>1, <1>2 DEF PframeInv, Closing, Owners, f, Thread
  <2>2. closing => t \notin Client
    BY Zenon, <1>1 DEF PframeInv, Closing, Cleaning
  <2>3. \A u \in Client : pc[u] = "idle" => pc'[u] = "idle"
    BY Zenon, <1>1, <1>7 DEF GoesOnAt, Cleaning, Waiting, Thread
  <2>4. pc[Pageoutd] = "gone" => pc'[Pageoutd] = "gone"
    BY Zenon, <1>1, <1>7 DEF GoesOnAt, Cleaning, Waiting, Thread
  <2>5. /\ pc'[Syncer] \notin {"freeall", "done"}
        /\ pc[Syncer] = "reap" <=> pc'[Syncer] = "reap"
        /\ pc[Syncer] # "idle" => pc'[Syncer] # "idle"
    BY Zenon, <2>1, <1>1, <1>6, <1>7 DEF GoesOnAt, Cleaning, Waiting, Thread
  <2>. QED BY Zenon, <2>1, <2>2, <2>3, <2>4, <2>5, <1>5 DEF PframeInv, Closing
<1>13. Kept'
  <2>1. \A u \in Thread : pc[u] \in Owning /\ at[u] # f =>
          pc'[u] = pc[u] /\ at'[u] = at[u]
    BY Zenon, <1>7 DEF GoesOnAt, f, Owning, Cleaning, Waiting
  <2>2. \A k \in Key \ {p.key} : disk'[k] = disk[k]
    BY Zenon, <1>5 DEF PframeInv, PframeTypeOK
  <2>3. p.dirty \/ disk'[p.key]
    BY Zenon, <1>3, <1>5, <1>9 DEF PframeInv, PframeTypeOK
  <2>. QED BY Zenon, <1>2, <1>3, <1>8, <1>9, <2>1, <2>2, <2>3, KeptStep
<1>. QED BY Zenon, <1>7, <1>10, <1>11, <1>12, <1>13 DEF PframeInv

(* A client that is done with a page keeps the invariant.                   *)
LEMMA ReleaseInv ==
  ASSUME PframeInv, NEW t \in Client, Release(t)
  PROVE  PframeInv'
<1>1. /\ t \in Thread /\ pc[t] = "got" /\ ~ astray /\ cpu \in {NULL, t}
      /\ pc' = [pc EXCEPT ![t] = "idle"] /\ at' = [at EXCEPT ![t] = NULL]
      /\ UNCHANGED <<frame, alloc_list, nallocated, npinned, waitq, want, disk,
                     closing, astray, panic>>
  BY Zenon DEF Thread, Release, Runs, lists, data
<1>2. PframeTypeOK'
  BY Zenon, <1>1 DEF PframeInv, PframeTypeOK, Release
<1>3. /\ Lists' /\ Pins' /\ OneFrame' /\ Owners' /\ Sleepers' /\ Kept'
      /\ NoAssertionFails'
  <2>1. \A u \in Thread : \/ pc'[u] = pc[u] /\ at'[u] = at[u]
                          \/ pc[u] \notin Active /\ pc'[u] \notin Active \cup {"getwoken"}
    BY Zenon, <1>1 DEF PframeInv, PframeTypeOK, Active, Owning, Cleaning, Waiting, Pinning
  <2>. QED BY Zenon, <1>1, <1>2, <2>1, QuietStep
<1>4. Holding'
  BY Zenon, <1>1 DEF PframeInv, PframeTypeOK, Holding, Thread
<1>5. Closing'
  BY Zenon, <1>1 DEF PframeInv, PframeTypeOK, Closing, Thread
<1>. QED BY Zenon, <1>2, <1>3, <1>4, <1>5 DEF PframeInv

(* A client that wakes up in pframe_get keeps the invariant, whether the    *)
(* frame is still its page's or not.                                        *)
LEMMA GetWokenInv ==
  ASSUME PframeInv, NEW t \in Client, GetWoken(t)
  PROVE  PframeInv'
<1>1. /\ t \in Thread /\ pc[t] = "getwoken" /\ ~ astray /\ cpu \in {NULL, t} /\ cpu' = t
      /\ pc' = [pc EXCEPT ![t] = "got"] /\ want' = [want EXCEPT ![t] = NULL]
      /\ UNCHANGED <<frame, alloc_list, nallocated, npinned, waitq, at, disk,
                     closing, panic>>
      /\ astray' = (frame[at[t]] = NULL \/ frame[at[t]].key # want[t] \/ frame[at[t]].busy)
  BY Zenon DEF Thread, GetWoken, Runs, lists, data
<1>2. PframeTypeOK'
  <2>1. astray' \in BOOLEAN
    BY <1>1, Zenon
  <2>. QED BY Zenon, <1>1, <2>1 DEF PframeInv, PframeTypeOK
<1>3. /\ Lists' /\ Pins' /\ OneFrame' /\ Owners' /\ Sleepers' /\ Kept'
      /\ NoAssertionFails'
  <2>1. \A u \in Thread : \/ pc'[u] = pc[u] /\ at'[u] = at[u]
                          \/ pc[u] \notin Active /\ pc'[u] \notin Active \cup {"getwoken"}
    BY Zenon, <1>1 DEF PframeInv, PframeTypeOK, Active, Owning, Cleaning, Waiting, Pinning
  <2>. QED BY Zenon, <1>1, <1>2, <2>1, QuietStep
<1>4. Holding'
  <2>1. SUFFICES ASSUME ~ astray', NEW u \in Client, pc'[u] = "got"
                 PROVE  /\ cpu' = u /\ at'[u] \in Frame
                        /\ frame'[at'[u]] # NULL /\ ~ frame'[at'[u]].busy
    BY Zenon DEF Holding
  <2>2. u = t
    BY PframeAssumption, <1>1, <2>1 DEF PframeInv, PframeTypeOK, Holding, Thread
  <2>3. at[t] \in Frame
    BY Zenon, <1>1 DEF PframeInv, Sleepers
  <2>. QED BY Zenon, <1>1, <2>1, <2>2, <2>3
<1>5. Closing'
  BY Zenon, <1>1 DEF PframeInv, PframeTypeOK, Closing, Thread
<1>. QED BY <1>2, <1>3, <1>4, <1>5 DEF PframeInv

(* The end of pageoutd_run keeps the invariant.                             *)
LEMMA PageoutParksInv ==
  ASSUME PframeInv, NEW t \in Thread, PageoutParks(t)
  PROVE  PframeInv'
<1>1. /\ pc[t] = "out" /\ ~ astray /\ cpu \in {NULL, t} /\ cpu' = NULL
      /\ pc' = [pc EXCEPT ![t] = IF closing /\ t = Pageoutd THEN "gone" ELSE "parked"]
      /\ at' = [at EXCEPT ![t] = NULL]
      /\ UNCHANGED <<frame, alloc_list, nallocated, npinned, waitq, want, disk,
                     closing, astray, panic>>
  BY Zenon DEF PageoutParks, Runs, lists, data
<1>2. PframeTypeOK'
  BY Zenon, <1>1 DEF PframeInv, PframeTypeOK
<1>3. /\ Lists' /\ Pins' /\ OneFrame' /\ Owners' /\ Sleepers' /\ Kept'
      /\ NoAssertionFails'
  <2>1. \A u \in Thread : \/ pc'[u] = pc[u] /\ at'[u] = at[u]
                          \/ pc[u] \notin Active /\ pc'[u] \notin Active \cup {"getwoken"}
    BY Zenon, <1>1 DEF PframeInv, PframeTypeOK, Active, Owning, Cleaning, Waiting, Pinning
  <2>. QED BY Zenon, <1>1, <1>2, <2>1, QuietStep
<1>4. Holding'
  BY Zenon, <1>1 DEF PframeInv, PframeTypeOK, Holding, Thread
<1>5. Closing'
  BY Zenon, <1>1 DEF PframeInv, PframeTypeOK, Closing, Thread
<1>. QED BY Zenon, <1>2, <1>3, <1>4, <1>5 DEF PframeInv

(* The start of sync and of pframe_shutdown, and its wait for the daemon,   *)
(* keep the invariant; no client has a page pinned then.                    *)
LEMMA ShutdownInv ==
  ASSUME PframeInv, PinCounts, sys_sync(Syncer) \/ ShutdownStart(Syncer) \/ ShutdownReap(Syncer)
  PROVE  PframeInv'
<1>1. /\ ~ astray /\ cpu \in {NULL, Syncer}
      /\ Syncer \in Thread /\ Pageoutd \in Thread
      /\ UNCHANGED <<frame, alloc_list, nallocated, npinned, waitq, at, want, disk, astray>>
  BY Zenon DEF Thread, sys_sync, ShutdownStart, ShutdownReap, Runs, lists, data
<1>2. panic' = panic
  <2>1. CASE ShutdownReap(Syncer)
    <3>1. closing
      BY Zenon, <2>1 DEF PframeInv, Closing, ShutdownReap
    <3>2. AllPinners = {}
      BY Zenon, <3>1 DEF PframeInv, Closing, AllPinners, Pinning
    <3>3. npinned = 0
      BY Zenon, <3>2 DEF PinCounts
    <3>. QED BY <2>1, <3>3 DEF PframeInv, NoAssertionFails, ShutdownReap
  <2>. QED BY Zenon, <2>1 DEF sys_sync, ShutdownStart
<1>3. \/ /\ pc' = [pc EXCEPT ![Syncer] = "sync"] /\ cpu' = Syncer /\ closing' = closing
         /\ \/ pc[Syncer] = "idle" /\ ~ closing
            \/ pc[Syncer] = "reap" /\ pc[Pageoutd] = "gone"
      \/ /\ pc' = [pc EXCEPT ![Syncer] = "reap",
                             ![Pageoutd] = IF @ = "parked" THEN "gone" ELSE @]
         /\ cpu' = NULL /\ closing' = TRUE /\ pc[Syncer] = "idle"
         /\ \A c \in Client : pc[c] = "idle"
  BY Zenon DEF sys_sync, ShutdownStart, ShutdownReap, data
<1>4. PframeTypeOK'
  <2>1. CASE pc' = [pc EXCEPT ![Syncer] = "sync"] /\ cpu' = Syncer /\ closing' = closing
    BY Zenon, <1>1, <2>1 DEF PframeInv, PframeTypeOK
  <2>2. CASE /\ pc' = [pc EXCEPT ![Syncer] = "reap",
                                 ![Pageoutd] = IF @ = "parked" THEN "gone" ELSE @]
             /\ cpu' = NULL /\ closing' = TRUE
    BY Zenon, <1>1, <2>2 DEF PframeInv, PframeTypeOK
  <2>. QED BY Zenon, <1>3, <2>1, <2>2
<1>5. /\ Lists' /\ Pins' /\ OneFrame' /\ Owners' /\ Sleepers' /\ Kept'
      /\ NoAssertionFails'
  <2>1. \A u \in Thread : \/ pc'[u] = pc[u] /\ at'[u] = at[u]
                          \/ pc[u] \notin Active /\ pc'[u] \notin Active \cup {"getwoken"}
    BY <1>1, <1>3 DEF PframeInv, PframeTypeOK, Active, Owning, Cleaning, Waiting, Pinning
  <2>. QED BY Zenon, <1>1, <1>2, <1>4, <2>1, QuietStep
<1>6. Holding'
  BY PframeAssumption, <1>1, <1>3 DEF PframeInv, PframeTypeOK, Holding, Thread
<1>7. Closing'
  BY PframeAssumption, <1>1, <1>3 DEF PframeInv, PframeTypeOK, Closing, Thread
<1>. QED BY Zenon, <1>4, <1>5, <1>6, <1>7 DEF PframeInv

---------------------------------------------------------------------------
(* Steps of pageoutd, of pframe_shutdown and of the clients.               *)

(* Going to sleep on the queue of a busy frame: its owner is still to wake  *)
(* the sleepers.                                                            *)
LEMMA SleepStep ==
  ASSUME PframeInv, NEW t \in Thread, NEW f \in Frame, frame[f] # NULL, frame[f].busy,
         pc[t] \notin Active, NEW next \in Waiting, SleepOn(f, t, next),
         UNCHANGED <<frame, disk, panic>>
  PROVE  /\ PlaceTypes' /\ Pins' /\ OneFrame' /\ Owners' /\ Sleepers' /\ Kept'
         /\ NoAssertionFails' /\ AllPinners' = AllPinners
<1>1. PlaceTypes'
  BY Zenon DEF PframeInv, PframeTypeOK, PlaceTypes, SleepOn
<1>2. \A u \in Thread : /\ pc'[u] = IF u = t THEN next ELSE pc[u]
                        /\ at'[u] = IF u = t THEN f ELSE at[u]
  BY Zenon DEF PframeInv, PframeTypeOK, SleepOn
<1>3. AllPinners' = AllPinners /\ \A g : Pinners(g)' = Pinners(g)
  <2>1. \A u \in Client : /\ pc'[u] \in Pinning <=> pc[u] \in Pinning
                          /\ pc[u] \in Pinning => at'[u] = at[u]
    BY Zenon, <1>2 DEF Thread, Active, Waiting, Pinning
  <2>. QED BY Zenon, <2>1, SamePins
<1>4. Pins'
  BY Zenon, <1>2, <1>3 DEF PframeInv, Pins, Active, Waiting, Pinning, Thread
<1>5. OneFrame' /\ NoAssertionFails'
  BY Zenon DEF PframeInv, OneFrame, NoAssertionFails
<1>6. Owners'
  <2>1. \A u \in Thread :
          /\ pc'[u] \in Owning \/ pc[u] \in Owning => pc'[u] = pc[u] /\ at'[u] = at[u]
    BY Zenon, <1>2 DEF Active, Waiting, Owning, Cleaning
  <2>. QED BY <2>1 DEF PframeInv, Owners, Owning, Cleaning
<1>7. Sleepers'
  <2>1. \A g \in Frame : waitq'[g] = IF g = f THEN waitq[f] \cup {t} ELSE waitq[g]
    BY Zenon DEF PframeInv, PframeTypeOK, SleepOn
  <2>2. ASSUME NEW g \in Frame
        PROVE  waitq'[g] = {u \in Thread : pc'[u] \in Waiting /\ at'[u] = g}
    <3>1. waitq[g] = {u \in Thread : pc[u] \in Waiting /\ at[u] = g}
      BY Zenon DEF PframeInv, Sleepers
    <3>2. t \notin waitq[g]
      BY Zenon, <3>1 DEF Active
    <3>. QED BY <1>2, <2>1, <3>1, <3>2
  <2>. QED BY Zenon, <1>2, <2>2 DEF PframeInv, Sleepers, Waiting
<1>8. Kept'
  <2>1. \A u \in Thread : pc[u] \in Owning => pc'[u] = pc[u] /\ at'[u] = at[u]
    BY Zenon, <1>2 DEF Active
  <2>. QED BY <2>1 DEF PframeInv, Kept, Owning
<1>. QED BY Zenon, <1>1, <1>3, <1>4, <1>5, <1>6, <1>7, <1>8

(* A thread in pageoutd_run or pframe_clean_all that goes to sleep or to    *)
(* the disk keeps the order of pframe_shutdown and lets the processor go.   *)
LEMMA LoopStep ==
  ASSUME PframeInv, NEW t \in Thread, Runs(t), pc[t] \in {"out", "sync"},
         NEW next \in Cleaning \cup {"outwait", "syncwait"},
         \A u \in Thread : pc'[u] = IF u = t THEN next ELSE pc[u],
         UNCHANGED <<closing, astray>>
  PROVE  Closing' /\ Holding'
<1>1. pc[Syncer] \notin {"freeall", "done"} /\ (closing => t \notin Client)
  BY Zenon DEF PframeInv, Closing, Thread
<1>2. Closing'
  BY Zenon, <1>1 DEF PframeInv, Closing, Thread, Cleaning
<1>3. \A u \in Client : pc'[u] # "got"
  BY Zenon, PframeAssumption DEF PframeInv, Holding, Runs, Thread, Cleaning
<1>. QED BY Zenon, <1>2, <1>3 DEF Holding

(* pframe_clean, up to the disk, of a frame that is neither pinned nor      *)
(* busy.                                                                    *)
LEMMA CleanStartInv ==
  ASSUME PframeInv, NEW t \in Thread, Runs(t), pc[t] \in {"out", "sync"},
         NEW f \in Frame, frame[f] # NULL, frame[f].pin = 0, ~ frame[f].busy,
         NEW next \in Cleaning, CleanStart(t, f, next), UNCHANGED <<want, data, astray>>
  PROVE  PframeInv'
<1> DEFINE p == [frame[f] EXCEPT !.dirty = FALSE, !.busy = TRUE]
<1>1. frame[f] \in PageFrame /\ pc[t] \notin Active \cup {"getwoken"}
  BY Zenon DEF PframeInv, PframeTypeOK, Active, Owning, Cleaning, Waiting, Pinning
<1>2. /\ p \in PageFrame /\ p.key = frame[f].key /\ p.pin = 0 /\ p.busy
      /\ p.fresh = frame[f].fresh /\ ~ p.dirty
  BY Zenon, <1>1 DEF PageFrame
<1>3. frame' = [frame EXCEPT ![f] = p]
  <2>1. frame \in [Frame -> PageFrame \cup {NULL}]
    BY Zenon DEF PframeInv, PframeTypeOK
  <2>2. frame' = [frame EXCEPT ![f].dirty = FALSE, ![f].busy = TRUE]
    BY Zenon DEF CleanStart
  <2>. QED BY Zenon, <1>1, <2>1, <2>2 DEF PageFrame
<1> HIDE DEF p
<1>4. \A g \in Frame : frame'[g] = IF g = f THEN p ELSE frame[g]
  BY Zenon, <1>3 DEF PframeInv, PframeTypeOK
<1>5. \A u \in Thread : /\ pc'[u] = IF u = t THEN next ELSE pc[u]
                        /\ at'[u] = IF u = t THEN f ELSE at[u]
  BY Zenon DEF CleanStart, PframeInv, PframeTypeOK
<1>6. /\ UNCHANGED <<alloc_list, nallocated, npinned, waitq, want, disk, closing, astray>>
      /\ panic' = NULL /\ cpu' = NULL
  BY DEF CleanStart, lists, data, PframeInv, NoAssertionFails
<1>7. PframeTypeOK'
  <2>1. PlaceTypes'
    <3>1. pc' = [pc EXCEPT ![t] = next] /\ at' = [at EXCEPT ![t] = f]
      BY Zenon DEF CleanStart
    <3>. QED BY Zenon, <1>2, <1>3, <1>6, <3>1 DEF PframeInv, PframeTypeOK, PlaceTypes, Owning
  <2>. QED BY Zenon, <2>1, <1>6 DEF PframeInv, PframeTypeOK, PlaceTypes
<1>8. AllPinners' = AllPinners /\ \A g : Pinners(g)' = Pinners(g)
  <2>1. \A u \in Client : /\ pc'[u] \in Pinning <=> pc[u] \in Pinning
                          /\ pc[u] \in Pinning => at'[u] = at[u]
    BY Zenon, <1>1, <1>5 DEF Thread, Active, Cleaning, Pinning
  <2>. QED BY Zenon, <2>1, SamePins
<1>9. \A g \in Frame : /\ frame'[g] # NULL <=> frame[g] # NULL
                       /\ frame[g] # NULL => frame'[g].pin = frame[g].pin
  BY Zenon, PframeAssumption, <1>2, <1>4
<1>10. Lists'
  <2>1. \A i \in 1..Len(alloc_list) : alloc_list[i] \in Frame
    BY DEF PframeInv, PframeTypeOK
  <2>. QED BY <2>1, <1>6, <1>8, <1>9 DEF PframeInv, Lists
<1>11. Pins'
  <2>1. \A u \in Client : pc'[u] \in Pinning => pc[u] \in Pinning /\ at'[u] = at[u]
    BY Zenon, <1>1, <1>5 DEF Thread, Active, Cleaning, Pinning
  <2>. QED BY Zenon, <1>8, <1>9, <2>1 DEF PframeInv, Pins
<1>12. OneFrame' /\ NoAssertionFails'
  BY <1>2, <1>4, <1>6, <1>9 DEF PframeInv, OneFrame, NoAssertionFails
<1>13. Owners'
  <2>1. \A u \in Thread : pc[u] \in Owning => at[u] # f /\ u # t
    BY Zenon, <1>1 DEF PframeInv, Owners, Active
  <2>2. \A g \in Frame : frame'[g] # NULL /\ frame'[g].busy =>
          \E u \in Thread : pc'[u] \in Owning /\ at'[u] = g
    <3>1. SUFFICES ASSUME NEW g \in Frame, frame'[g] # NULL, frame'[g].busy, g # f
                   PROVE  \E u \in Thread : pc'[u] \in Owning /\ at'[u] = g
      BY <1>5 DEF Owning
    <3>2. PICK u \in Thread : pc[u] \in Owning /\ at[u] = g
      BY Zenon, <3>1, <1>4 DEF PframeInv, Owners
    <3>. QED BY Zenon, <3>2, <2>1, <1>5
  <2>. QED BY PframeAssumption, <1>1, <1>2, <1>4, <1>5, <2>1, <2>2
           DEF PframeInv, Owners, Owning, Cleaning
<1>14. Sleepers'
  <2>1. \A u \in Thread : pc[u] \in Waiting \cup {"getwoken"} <=> pc'[u] \in Waiting \cup {"getwoken"}
    BY Zenon, <1>1, <1>5 DEF Active, Waiting, Cleaning
  <2>2. \A u \in Thread : pc[u] \in Waiting \cup {"getwoken"} => pc'[u] = pc[u] /\ at'[u] = at[u]
    BY Zenon, <1>1, <1>5 DEF Active, Waiting, Cleaning
  <2>3. ASSUME NEW g \in Frame
        PROVE  waitq'[g] = {u \in Thread : pc'[u] \in Waiting /\ at'[u] = g}
    <3>1. waitq[g] = {u \in Thread : pc[u] \in Waiting /\ at[u] = g}
      BY Zenon DEF PframeInv, Sleepers
    <3>. QED BY Zenon, <1>6, <2>1, <2>2, <3>1
  <2>. QED BY <1>2, <1>4, <1>9, <2>1, <2>2, <2>3 DEF PframeInv, Sleepers
<1>15. Kept'
  <2>1. \A u \in Thread : pc[u] \in Owning => pc'[u] = pc[u] /\ at'[u] = at[u]
    BY Zenon, <1>1, <1>5 DEF Active
  <2>2. frame[f].fresh
    BY DEF PframeInv, Kept, Owners, Owning
  <2>3. \E u \in Thread : pc'[u] \in Cleaning /\ at'[u] = f
    BY Zenon, <1>5
  <2>. QED BY Zenon, <1>2, <1>4, <1>6, <2>1, <2>2, <2>3, KeptStep
<1>16. Closing' /\ Holding'
  <2>1. next \in Cleaning \cup {"outwait", "syncwait"}
    BY Zenon
  <2>. QED BY Zenon, <1>5, <1>6, <2>1, LoopStep
<1>. QED BY Zenon, <1>7, <1>10, <1>11, <1>12, <1>13, <1>14, <1>15, <1>16 DEF PframeInv

(* pframe_free of the frame in front of alloc_list, clean and not busy:     *)
(* nobody owns it, sleeps on it or has pinned it, and the disk has its      *)
(* page.                                                                    *)
LEMMA FreeInv ==
  ASSUME PframeInv, PinCounts, NEW t \in Thread, Runs(t), pc[t] \in {"out", "freeall"},
         alloc_list # <<>>, NEW f, f = Head(alloc_list),
         ~ frame[f].busy, ~ frame[f].dirty, pframe_free(f), cpu' \in Thread \cup {NULL},
         UNCHANGED <<npinned, waitq, pc, at, want, data, astray>>
  PROVE  PframeInv'
<1>0. Len(alloc_list) \in Nat \ {0} /\ f = alloc_list[1] /\ f \in Frame
  BY DEF PframeInv, PframeTypeOK
<1>1. frame[f] \in PageFrame /\ frame[f] # NULL /\ frame[f].pin = 0
  <2>1. frame[f] # NULL /\ frame[f].pin = 0
    BY <1>0 DEF PframeInv, Lists
  <2>. QED BY Zenon, <1>0, <2>1 DEF PframeInv, PframeTypeOK
<1>2. \A g \in Frame : frame'[g] = IF g = f THEN NULL ELSE frame[g]
  BY Zenon DEF PframeInv, PframeTypeOK, pframe_free
<1>3. UNCHANGED <<disk, closing>> /\ panic' = NULL
  BY <1>1 DEF data, pframe_free
<1>4. Removed(Frame, alloc_list, f, alloc_list')
  <2>1. alloc_list \in Seq(Frame) /\ Distinct(alloc_list) /\ 1 \in 1..Len(alloc_list)
    BY <1>0 DEF PframeInv, PframeTypeOK, Lists
  <2>2. alloc_list' = list_remove(alloc_list, alloc_list[1])
    BY Zenon, <1>0 DEF pframe_free, Without
  <2>. QED BY Zenon, <1>0, <2>1, <2>2, RemoveFirstFacts
<1>5. PframeTypeOK'
  <2>1. nallocated' \in Nat
    BY <1>0 DEF PframeInv, Lists, pframe_free
  <2>2. frame' \in [Frame -> PageFrame \cup {NULL}]
    BY Zenon DEF PframeInv, PframeTypeOK, pframe_free
  <2>. QED BY Zenon, <1>3, <1>4, <2>1, <2>2 DEF PframeInv, PframeTypeOK, Removed
<1>6. AllPinners' = AllPinners /\ \A g : Pinners(g)' = Pinners(g)
  BY Zenon, SamePins
<1>7. Lists'
  <2>1. \A i \in 1..Len(alloc_list) : alloc_list[i] \in Frame
    BY DEF PframeInv, PframeTypeOK
  <2>2. nallocated' = Len(alloc_list')
    BY Zenon, <1>0, <1>4 DEF PframeInv, Lists, pframe_free, Removed
  <2>3. \A i \in 1..Len(alloc_list') :
          frame'[alloc_list'[i]] # NULL /\ frame'[alloc_list'[i]].pin = 0
    <3>1. SUFFICES ASSUME NEW i \in 1..Len(alloc_list')
                   PROVE  frame'[alloc_list'[i]] # NULL /\ frame'[alloc_list'[i]].pin = 0
      BY Zenon
    <3>2. PICK j \in 1..Len(alloc_list) : alloc_list[j] = alloc_list'[i] /\ alloc_list[j] # f
      BY Zenon, <1>4 DEF Removed
    <3>3. frame[alloc_list[j]] # NULL /\ frame[alloc_list[j]].pin = 0
      BY Zenon DEF PframeInv, Lists
    <3>. QED BY Zenon, <1>2, <2>1, <3>2, <3>3
  <2>4. ASSUME NEW g \in Frame, frame'[g] # NULL, frame'[g].pin = 0
        PROVE  \E i \in 1..Len(alloc_list') : alloc_list'[i] = g
    <3>1. g # f /\ frame[g] # NULL /\ frame[g].pin = 0
      BY Zenon, <2>4, <1>2
    <3>2. PICK j \in 1..Len(alloc_list) : alloc_list[j] = g
      BY Zenon, <3>1 DEF PframeInv, Lists
    <3>. QED BY Zenon, <3>1, <3>2, <1>4 DEF Removed
  <2>. QED BY Zenon, <1>4, <1>6, <2>2, <2>3, <2>4 DEF PframeInv, Lists, Removed
<1>8. Pins'
  <2>1. Pinners(f) = {}
    BY Zenon, <1>0, <1>1 DEF PinCounts
  <2>2. \A u \in Client : pc[u] \in Pinning => at[u] # f
    BY Zenon, <2>1 DEF Pinners
  <2>. QED BY Zenon, <1>2, <1>6, <2>2 DEF PframeInv, Pins
<1>9. OneFrame' /\ NoAssertionFails'
  BY Zenon, <1>2, <1>3 DEF PframeInv, OneFrame, NoAssertionFails
<1>10. Owners' /\ \A u \in Thread : pc[u] \in Owning => at[u] # f
  <2>1. \A u \in Thread : pc[u] \in Owning => at[u] # f
    BY Zenon DEF PframeInv, Owners
  <2>2. Cleaning \cup {"filling", "dirtying", "dirtyingpin"} \subseteq Owning
    BY Zenon DEF Owning
  <2>. QED BY <1>2, <2>1, <2>2 DEF PframeInv, Owners
<1>11. Sleepers'
  BY Zenon, <1>0, <1>2 DEF PframeInv, Sleepers
<1>12. Closing'
  BY Zenon, <1>2, <1>3 DEF PframeInv, Closing
<1>13. Holding'
  BY Zenon, PframeAssumption DEF PframeInv, Holding, Runs, Thread
<1>14. Kept'
  <2>1. disk[frame[f].key]
    <3>1. \A u \in Thread : pc[u] \in Cleaning => at[u] # f
      BY Zenon, <1>10 DEF Owning
    <3>. QED BY Zenon, <1>0, <1>1, <3>1 DEF PframeInv, Kept
  <2>. QED BY <1>2, <1>3, <2>1 DEF PframeInv, Kept
<1>. QED BY Zenon, <1>5, <1>7, <1>8, <1>9, <1>10, <1>11, <1>12, <1>13, <1>14 DEF PframeInv

(* One turn of pageoutd_run keeps the invariant.                            *)
LEMMA PageoutTurnInv ==
  ASSUME PframeInv, PinCounts, NEW t \in Thread, PageoutTurn(t)
  PROVE  PframeInv'
<1> DEFINE f == Head(alloc_list)
<1>1. Runs(t) /\ pc[t] = "out" /\ alloc_list # <<>> /\ UNCHANGED <<want, data, astray>>
  BY Zenon DEF PageoutTurn
<1>2. Len(alloc_list) \in Nat \ {0} /\ f = alloc_list[1] /\ f \in Frame
  BY <1>1 DEF PframeInv, PframeTypeOK
<1>3. frame[f] # NULL /\ frame[f].pin = 0
  BY <1>2 DEF PframeInv, Lists
<1>4. pc[t] \notin Active
  BY Zenon, <1>1 DEF Active, Owning, Cleaning, Waiting, Pinning
<1> HIDE DEF f
<1>5. CASE frame[f].busy /\ SleepOn(f, t, "outwait") /\ UNCHANGED <<frame, lists, panic>>
  <2>1. /\ PlaceTypes' /\ Pins' /\ OneFrame' /\ Owners' /\ Sleepers' /\ Kept'
        /\ NoAssertionFails' /\ AllPinners' = AllPinners
    <3>1. "outwait" \in Waiting /\ UNCHANGED <<frame, disk, panic>>
      BY Zenon, <1>1, <1>5 DEF Waiting, data
    <3>. QED BY Zenon, <3>1, <1>2, <1>3, <1>4, <1>5, SleepStep
  <2>2. /\ UNCHANGED <<frame, alloc_list, nallocated, npinned, want, disk, closing, astray>>
        /\ cpu' = NULL
    BY Zenon, <1>1, <1>5 DEF lists, data, SleepOn
  <2>3. PframeTypeOK'
    BY Zenon, <2>1, <2>2 DEF PframeInv, PframeTypeOK, PlaceTypes
  <2>4. Lists'
    BY Zenon, <2>1, <2>2 DEF PframeInv, Lists
  <2>5. Closing' /\ Holding'
    <3>1. \A u \in Thread : pc'[u] = IF u = t THEN "outwait" ELSE pc[u]
      BY Zenon, <1>5 DEF SleepOn, PframeInv, PframeTypeOK
    <3>2. pc[t] \in {"out", "sync"} /\ "outwait" \in Cleaning \cup {"outwait", "syncwait"}
      BY Zenon, <1>1
    <3>. QED BY Zenon, <1>1, <2>2, <3>1, <3>2, LoopStep
  <2>. QED BY Zenon, <2>1, <2>3, <2>4, <2>5 DEF PframeInv
<1>6. CASE ~ frame[f].busy /\ frame[f].dirty /\ CleanStart(t, f, "outclean")
  <2>1. pc[t] \in {"out", "sync"} /\ "outclean" \in Cleaning
    BY Zenon, <1>1 DEF Cleaning
  <2>. QED BY Zenon, <1>1, <1>2, <1>3, <1>6, <2>1, CleanStartInv
<1>7. CASE /\ ~ frame[f].busy /\ ~ frame[f].dirty /\ pframe_free(f)
           /\ cpu' = t /\ UNCHANGED <<npinned, waitq, pc, at>>
  <2>1. pc[t] \in {"out", "freeall"} /\ cpu' \in Thread \cup {NULL}
    BY Zenon, <1>1, <1>7
  <2>2. UNCHANGED <<npinned, waitq, pc, at, want, data, astray>>
    BY Zenon, <1>1, <1>7
  <2>. QED BY Zenon, <1>1, <1>7, <2>1, <2>2, FreeInv DEF f
<1>. QED BY Zenon, <1>5, <1>6, <1>7 DEF PageoutTurn, f

(* pframe_clean_all, from one place where it blocks to the next, keeps the  *)
(* invariant; when it finds nothing dirty or busy at shutdown, every frame  *)
(* is clean and unpinned.                                                   *)
LEMMA CleanAllInv ==
  ASSUME PframeInv, PinCounts, pframe_clean_all(Syncer)
  PROVE  PframeInv'
<1> DEFINE t == Syncer
           todo == {i \in DOMAIN alloc_list :
                      frame[alloc_list[i]].busy \/ frame[alloc_list[i]].dirty}
           First(f) == \E i \in todo : f = alloc_list[i] /\ \A j \in todo : i <= j
<1>1. /\ t \in Thread /\ Runs(t) /\ pc[t] = "sync" /\ pc[t] \notin Active
      /\ UNCHANGED <<want, data, astray>>
  BY Zenon DEF pframe_clean_all, Thread, Active, Owning, Cleaning, Waiting, Pinning
<1>2. \A f \in Frame : First(f) => frame[f] # NULL /\ frame[f].pin = 0
  BY DEF PframeInv, PframeTypeOK, Lists
<1>3. ASSUME NEW f \in Frame, First(f), frame[f].busy, SleepOn(f, t, "syncwait"),
             UNCHANGED <<frame, lists, panic>>
      PROVE  PframeInv'
  <2>1. /\ PlaceTypes' /\ Pins' /\ OneFrame' /\ Owners' /\ Sleepers' /\ Kept'
        /\ NoAssertionFails' /\ AllPinners' = AllPinners
    <3>1. "syncwait" \in Waiting /\ UNCHANGED <<frame, disk, panic>> /\ frame[f] # NULL
      BY Zenon, <1>1, <1>2, <1>3 DEF Waiting, data
    <3>. QED BY Zenon, <3>1, <1>1, <1>3, SleepStep
  <2>2. /\ UNCHANGED <<frame, alloc_list, nallocated, npinned, want, disk, closing, astray>>
        /\ cpu' = NULL
    BY Zenon, <1>1, <1>3 DEF lists, data, SleepOn
  <2>3. PframeTypeOK'
    BY Zenon, <2>1, <2>2 DEF PframeInv, PframeTypeOK, PlaceTypes
  <2>4. Lists'
    BY Zenon, <2>1, <2>2 DEF PframeInv, Lists
  <2>5. Closing' /\ Holding'
    <3>1. \A u \in Thread : pc'[u] = IF u = t THEN "syncwait" ELSE pc[u]
      BY Zenon, <1>3 DEF SleepOn, PframeInv, PframeTypeOK
    <3>2. pc[t] \in {"out", "sync"} /\ "syncwait" \in Cleaning \cup {"outwait", "syncwait"}
      BY Zenon, <1>1
    <3>. QED BY Zenon, <1>1, <2>2, <3>1, <3>2, LoopStep
  <2>. QED BY Zenon, <2>1, <2>3, <2>4, <2>5 DEF PframeInv
<1>4. ASSUME NEW f \in Frame, First(f), ~ frame[f].busy, CleanStart(t, f, "syncclean")
      PROVE  PframeInv'
  <2>1. /\ pc[t] \in {"out", "sync"} /\ "syncclean" \in Cleaning
        /\ frame[f] # NULL /\ frame[f].pin = 0
    BY Zenon, <1>1, <1>2, <1>4 DEF Cleaning
  <2>. QED BY Zenon, <1>1, <1>4, <2>1, CleanStartInv
<1>5. ASSUME todo = {}, pc' = [pc EXCEPT ![t] = IF closing THEN "freeall" ELSE "idle"],
             at' = [at EXCEPT ![t] = NULL], cpu' = (IF closing THEN t ELSE NULL),
             UNCHANGED <<frame, lists, waitq, panic>>
      PROVE  PframeInv'
  <2>1. UNCHANGED <<frame, alloc_list, nallocated, npinned, waitq, want, disk,
                    closing, astray, panic>>
    BY Zenon, <1>1, <1>5 DEF lists, data
  <2>2. PframeTypeOK'
    BY Zenon, <1>1, <1>5, <2>1 DEF PframeInv, PframeTypeOK
  <2>3. /\ Lists' /\ Pins' /\ OneFrame' /\ Owners' /\ Sleepers' /\ Kept'
        /\ NoAssertionFails'
    <3>1. \A u \in Thread : \/ pc'[u] = pc[u] /\ at'[u] = at[u]
                            \/ pc[u] \notin Active /\ pc'[u] \notin Active \cup {"getwoken"}
      BY Zenon, <1>1, <1>5 DEF PframeInv, PframeTypeOK, Active, Owning, Cleaning, Waiting, Pinning
    <3>. QED BY Zenon, <2>1, <2>2, <3>1, QuietStep
  <2>4. Holding'
    BY PframeAssumption, <1>1, <1>5, <2>1 DEF PframeInv, PframeTypeOK, Holding, Thread, Runs
  <2>5. closing => \A f \in Frame : frame[f] # NULL =>
          ~ frame[f].busy /\ ~ frame[f].dirty /\ frame[f].pin = 0
    <3>1. SUFFICES ASSUME closing, NEW f \in Frame, frame[f] # NULL
                   PROVE  ~ frame[f].busy /\ ~ frame[f].dirty /\ frame[f].pin = 0
      BY Zenon
    <3>2. Pinners(f) = {}
      BY Zenon, <3>1 DEF Pinners, Pinning, PframeInv, Closing
    <3>3. frame[f].pin = 0
      BY Zenon, <3>1, <3>2 DEF PinCounts
    <3>4. PICK i \in 1..Len(alloc_list) : alloc_list[i] = f
      BY Zenon, <3>1, <3>3 DEF PframeInv, Lists
    <3>5. i \in DOMAIN alloc_list
      BY DEF PframeInv, PframeTypeOK
    <3>. QED BY Zenon, <1>5, <3>3, <3>4, <3>5
  <2>6. Closing'
    <3>1. pc'[t] = IF closing THEN "freeall" ELSE "idle"
      BY Zenon, <1>1, <1>5 DEF PframeInv, PframeTypeOK
    <3>2. \A u \in Thread \ {t} : pc'[u] = pc[u]
      BY Zenon, <1>5 DEF PframeInv, PframeTypeOK
    <3>. QED BY Zenon, <1>1, <2>1, <2>5, <3>1, <3>2 DEF PframeInv, Closing, Thread
  <2>. QED BY Zenon, <2>2, <2>3, <2>4, <2>6 DEF PframeInv
<1>. QED BY <1>3, <1>4, <1>5, Zenon DEF pframe_clean_all

(* The last loop of pframe_shutdown keeps the invariant.                    *)
LEMMA ShutdownFreeInv ==
  ASSUME PframeInv, PinCounts, ShutdownFree(Syncer)
  PROVE  PframeInv'
<1> DEFINE f == Head(alloc_list)
<1>1. /\ Syncer \in Thread /\ Runs(Syncer) /\ pc[Syncer] = "freeall"
      /\ UNCHANGED <<npinned, waitq, at, want, cpu, data, astray>>
  BY Zenon DEF ShutdownFree, Thread
<1>2. CASE alloc_list # <<>> /\ pframe_free(f) /\ UNCHANGED pc
  <2>1. Len(alloc_list) \in Nat \ {0} /\ f = alloc_list[1] /\ f \in Frame
    BY <1>2 DEF PframeInv, PframeTypeOK
  <2>2. ~ frame[f].busy /\ ~ frame[f].dirty
    <3>1. frame[f] # NULL
      BY <2>1 DEF PframeInv, Lists
    <3>. QED BY Zenon, <1>1, <2>1, <3>1 DEF PframeInv, Closing
  <2>3. cpu' \in Thread \cup {NULL} /\ pc[Syncer] \in {"out", "freeall"}
    BY Zenon, <1>1 DEF PframeInv, PframeTypeOK
  <2>4. UNCHANGED <<npinned, waitq, pc, at, want, data, astray>>
    BY Zenon, <1>1, <1>2
  <2> HIDE DEF f
  <2>. QED BY Zenon, <1>1, <1>2, <2>2, <2>3, <2>4, FreeInv DEF f
<1>3. CASE /\ alloc_list = <<>> /\ pc' = [pc EXCEPT ![Syncer] = "done"]
           /\ UNCHANGED <<frame, alloc_list, nallocated, panic>>
  <2>1. UNCHANGED <<frame, alloc_list, nallocated, npinned, waitq, at, want, cpu, disk,
                    closing, astray, panic>>
    BY Zenon, <1>1, <1>3 DEF data
  <2>2. PframeTypeOK'
    BY Zenon, <1>1, <1>3, <2>1 DEF PframeInv, PframeTypeOK
  <2>3. /\ Lists' /\ Pins' /\ OneFrame' /\ Owners' /\ Sleepers' /\ Kept'
        /\ NoAssertionFails'
    <3>1. \A u \in Thread : \/ pc'[u] = pc[u] /\ at'[u] = at[u]
                            \/ pc[u] \notin Active /\ pc'[u] \notin Active \cup {"getwoken"}
      BY Zenon, <1>1, <1>3, <2>1
         DEF PframeInv, PframeTypeOK, Active, Owning, Cleaning, Waiting, Pinning
    <3>. QED BY Zenon, <2>1, <2>2, <3>1, QuietStep
  <2>4. Holding'
    BY Zenon, <1>1, <1>3, <2>1 DEF PframeInv, PframeTypeOK, Holding, Thread, Runs
  <2>5. \A g \in Frame : frame[g] = NULL
    BY <1>1, <1>3 DEF PframeInv, Lists, Closing
  <2>6. Closing'
    BY Zenon, <1>1, <1>3, <2>1, <2>5 DEF PframeInv, PframeTypeOK, Closing, Thread
  <2>. QED BY <2>2, <2>3, <2>4, <2>6 DEF PframeInv
<1>. QED BY Zenon, <1>2, <1>3 DEF ShutdownFree

(* pframe_dirty up to the disk keeps the invariant.  Its assertion holds:   *)
(* the writer has either just got the page and kept the processor, or has   *)
(* it pinned, and then nobody fills or cleans it.                           *)
LEMMA DirtyInv ==
  ASSUME PframeInv, PinCounts, NEW t \in Client, pframe_dirty(t)
  PROVE  PframeInv'
<1> DEFINE f == at[t]
           p == [frame[f] EXCEPT !.busy = TRUE]
           next == IF pc[t] = "got" THEN "dirtying" ELSE "dirtyingpin"
<1>1. /\ t \in Thread /\ t = Writer /\ pc[t] \in {"got", "pinned"} /\ ~ astray
      /\ cpu \in {NULL, t}
  BY Zenon DEF pframe_dirty, Runs, Thread
<1>2. f \in Frame /\ frame[f] # NULL /\ frame[f] \in PageFrame
  BY Zenon, <1>1 DEF PframeInv, PframeTypeOK, Holding, Pins, Pinning
<1>3. ~ frame[f].busy
  <2>1. CASE pc[t] = "got"
    BY Zenon, <2>1, <1>1 DEF PframeInv, Holding
  <2>2. CASE pc[t] = "pinned"
    <3>1. t \in Pinners(f)
      BY Zenon, <2>2 DEF Pinners, Pinning
    <3>2. frame[f].pin # 0
      BY Zenon, <1>2, <3>1 DEF PinCounts
    <3>3. ASSUME NEW u \in Thread, pc[u] \in Owning, at[u] = f
          PROVE  FALSE
      BY Zenon, <2>2, <3>2, <3>3, <1>1 DEF PframeInv, Owners, Owning
    <3>. QED BY Zenon, <3>3, <1>2 DEF PframeInv, Owners
  <2>. QED BY Zenon, <1>1, <2>1, <2>2
<1>4. /\ p \in PageFrame /\ p.key = frame[f].key /\ p.pin = frame[f].pin /\ p.busy
      /\ p.fresh = frame[f].fresh /\ p.dirty = frame[f].dirty
  BY Zenon, <1>2 DEF PageFrame
<1>5. frame' = [frame EXCEPT ![f] = p]
  BY Zenon, <1>2 DEF pframe_dirty, PframeInv, PframeTypeOK, PageFrame
<1>6. /\ pc' = [pc EXCEPT ![t] = next] /\ panic' = NULL /\ cpu' = NULL
      /\ UNCHANGED <<alloc_list, nallocated, npinned, waitq, at, want, disk, closing, astray>>
  BY Zenon, <1>1, <1>3 DEF pframe_dirty, lists, data, PframeInv, PframeTypeOK
<1>7. next \in {"dirtying", "dirtyingpin"} /\ (next = "dirtyingpin" <=> pc[t] = "pinned")
  BY Zenon, <1>1
<1> HIDE DEF f, p, next
<1>8. \A g \in Frame : frame'[g] = IF g = f THEN p ELSE frame[g]
  BY Zenon, <1>5 DEF PframeInv, PframeTypeOK
<1>9. \A u \in Thread : pc'[u] = IF u = t THEN next ELSE pc[u]
  BY Zenon, <1>6 DEF PframeInv, PframeTypeOK
<1>10. PframeTypeOK'
  BY Zenon, <1>1, <1>4, <1>5, <1>6, <1>7 DEF PframeInv, PframeTypeOK, Owning
<1>11. AllPinners' = AllPinners /\ \A g : Pinners(g)' = Pinners(g)
  <2>1. \A u \in Client : /\ pc'[u] \in Pinning <=> pc[u] \in Pinning
                          /\ pc[u] \in Pinning => at'[u] = at[u]
    BY Zenon, <1>1, <1>6, <1>7, <1>9 DEF Thread, Pinning
  <2>. QED BY Zenon, <2>1, SamePins
<1>12. \A g \in Frame : /\ frame'[g] # NULL <=> frame[g] # NULL
                        /\ frame[g] # NULL => frame'[g].pin = frame[g].pin
  BY Zenon, PframeAssumption, <1>2, <1>4, <1>8
<1>13. Lists'
  <2>1. \A i \in 1..Len(alloc_list) : alloc_list[i] \in Frame
    BY DEF PframeInv, PframeTypeOK
  <2>. QED BY Zenon, <2>1, <1>6, <1>11, <1>12 DEF PframeInv, Lists
<1>14. Pins'
  <2>1. \A u \in Client : pc'[u] \in Pinning => pc[u] \in Pinning /\ at'[u] = at[u]
    BY Zenon, <1>1, <1>6, <1>7, <1>9 DEF Thread, Pinning
  <2>. QED BY Zenon, <1>11, <1>12, <2>1 DEF PframeInv, Pins
<1>15. OneFrame' /\ NoAssertionFails'
  BY <1>2, <1>4, <1>6, <1>8, <1>12 DEF PframeInv, OneFrame, NoAssertionFails
<1>16. Owners'
  <2>1. \A u \in Thread : pc[u] \in Owning => at[u] # f /\ u # t /\ pc'[u] = pc[u]
    BY Zenon, <1>1, <1>3, <1>9 DEF PframeInv, Owners, Owning, Cleaning
  <2>2. pc'[t] \in Owning /\ at'[t] = f
    BY Zenon, <1>1, <1>6, <1>7, <1>9 DEF Owning, f
  <2>3. \A g \in Frame : frame'[g] # NULL /\ frame'[g].busy =>
          \E u \in Thread : pc'[u] \in Owning /\ at'[u] = g
    <3>1. SUFFICES ASSUME NEW g \in Frame, frame'[g] # NULL, frame'[g].busy, g # f
                   PROVE  \E u \in Thread : pc'[u] \in Owning /\ at'[u] = g
      BY Zenon, <2>2, <1>1
    <3>2. PICK u \in Thread : pc[u] \in Owning /\ at[u] = g
      BY Zenon, <3>1, <1>8 DEF PframeInv, Owners
    <3>. QED BY Zenon, <3>2, <2>1, <1>6
  <2>4. \A u \in Thread : pc'[u] \in Owning =>
          \/ u = t /\ pc'[u] \in {"dirtying", "dirtyingpin"}
          \/ u # t /\ pc[u] \in Owning
    BY Zenon, <1>7, <1>9
  <2>5. \A u \in Thread : pc'[u] \in Owning =>
          at'[u] \in Frame /\ frame'[at'[u]] # NULL /\ frame'[at'[u]].busy
    <3>1. frame'[f] # NULL /\ frame'[f].busy
      BY Zenon, PframeAssumption, <1>2, <1>4, <1>8
    <3>2. ASSUME NEW u \in Thread, u # t, pc[u] \in Owning
          PROVE  at[u] \in Frame /\ frame'[at[u]] # NULL /\ frame'[at[u]].busy
      BY Zenon, <1>8, <2>1, <3>2 DEF PframeInv, Owners
    <3>. QED BY Zenon, <1>2, <1>6, <2>2, <2>4, <3>1, <3>2
  <2>6. \A u \in Thread : pc'[u] \in Cleaning \cup {"filling"} =>
          frame'[at'[u]].pin = 0 /\ (pc'[u] = "filling" => ~ frame'[at'[u]].dirty)
    <3>1. SUFFICES ASSUME NEW u \in Thread, pc'[u] \in Cleaning \cup {"filling"}
                   PROVE  frame'[at'[u]].pin = 0 /\ (pc'[u] = "filling" => ~ frame'[at'[u]].dirty)
      BY Zenon
    <3>2. u # t /\ pc[u] \in Owning /\ pc[u] = pc'[u]
      BY Zenon, <1>9, <2>4, <3>1 DEF Owning, Cleaning
    <3>3. at[u] \in Frame /\ frame'[at[u]] = frame[at[u]] /\ at'[u] = at[u]
      BY Zenon, <1>6, <1>8, <2>1, <3>2 DEF PframeInv, Owners
    <3>. QED BY Zenon, <3>1, <3>2, <3>3 DEF PframeInv, Owners
  <2>. QED BY <1>1, <1>6, <2>1, <2>2, <2>3, <2>4, <2>5, <2>6 DEF PframeInv, Owners, Owning
<1>17. Sleepers'
  <2>1. \A u \in Thread : /\ pc'[u] \in Waiting <=> pc[u] \in Waiting
                          /\ pc'[u] = "getwoken" <=> pc[u] = "getwoken"
    BY Zenon, <1>1, <1>7, <1>9 DEF Waiting
  <2>2. \A g \in Frame : waitq'[g] = {u \in Thread : pc'[u] \in Waiting /\ at'[u] = g}
    BY Zenon, <2>1, <1>6 DEF PframeInv, Sleepers
  <2>. QED BY Zenon, <2>1, <2>2, <1>4, <1>6, <1>8, <1>12 DEF PframeInv, Sleepers
<1>18. Kept'
  <2>1. \A u \in Thread : pc[u] \in Owning => pc'[u] = pc[u] /\ at'[u] = at[u]
    BY Zenon, <1>1, <1>6, <1>9 DEF Owning, Cleaning
  <2>2. frame[f].fresh /\ (frame[f].dirty \/ disk[frame[f].key])
    <3>1. \A u \in Thread : pc[u] \in Owning => at[u] # f
      BY Zenon, <1>3 DEF PframeInv, Owners
    <3>2. Cleaning \cup {"filling"} \subseteq Owning
      BY Zenon DEF Owning
    <3>. QED BY Zenon, <1>2, <3>1, <3>2 DEF PframeInv, Kept
  <2>. QED BY Zenon, <1>2, <1>4, <1>6, <1>8, <2>1, <2>2, KeptStep
<1>19. Closing' /\ Holding'
  <2>1. ~ closing /\ pc[Syncer] \notin {"reap", "freeall", "done"}
    BY Zenon, <1>1 DEF PframeInv, Closing
  <2>2. \A u \in Client : pc'[u] # "got"
    BY Zenon, PframeAssumption, <1>1, <1>7, <1>9 DEF PframeInv, Holding, Thread
  <2>. QED BY Zenon, PframeAssumption, <1>1, <1>6, <1>9, <2>1, <2>2 DEF Closing, Holding, Thread
<1>. QED BY Zenon, <1>10, <1>13, <1>14, <1>15, <1>16, <1>17, <1>18, <1>19 DEF PframeInv

(* pframe_get_resident moves an unpinned page to the back of alloc_list.    *)
LEMMA MovedToBack ==
  ASSUME PframeInv, NEW f \in Frame, frame[f] # NULL,
         alloc_list' = IF frame[f].pin > 0 THEN alloc_list
                       ELSE Append(Without(alloc_list, f), f),
         AllPinners' = AllPinners, UNCHANGED <<frame, nallocated, npinned>>
  PROVE  Lists' /\ alloc_list' \in Seq(Frame)
<1>0. frame[f].pin \in Nat
  BY Zenon DEF PframeInv, PframeTypeOK, PageFrame
<1>1. /\ alloc_list \in Seq(Frame) /\ Distinct(alloc_list) /\ nallocated = Len(alloc_list)
      /\ Len(alloc_list) \in Nat
  BY Zenon DEF PframeInv, PframeTypeOK, Lists
<1>2. CASE frame[f].pin > 0
  BY Zenon, <1>1, <1>2 DEF PframeInv, Lists
<1>3. CASE ~ (frame[f].pin > 0)
  <2>1. PICK k \in 1..Len(alloc_list) : alloc_list[k] = f
    BY <1>0, <1>3 DEF PframeInv, Lists
  <2>2. PICK r : r = alloc_list'
    BY Zenon
  <2>3. r = Append(list_remove(alloc_list, alloc_list[k]), alloc_list[k])
    BY Zenon, <1>3, <2>1, <2>2 DEF Without
  <2>4. Reordered(Frame, alloc_list, r)
    BY Zenon, <1>1, <2>3, MovedLast
  <2>5. ASSUME NEW i \in 1..Len(r)
        PROVE  frame'[r[i]] # NULL /\ frame'[r[i]].pin = 0
    <3>1. PICK j \in 1..Len(alloc_list) : alloc_list[j] = r[i]
      BY Zenon, <2>4 DEF Reordered
    <3>2. frame[alloc_list[j]] # NULL /\ frame[alloc_list[j]].pin = 0
      BY Zenon DEF PframeInv, Lists
    <3>. QED BY Zenon, <3>1, <3>2
  <2>6. \A g \in Frame : frame'[g] # NULL /\ frame'[g].pin = 0 =>
           \E i \in 1..Len(r) : r[i] = g
    <3>1. SUFFICES ASSUME NEW g \in Frame, frame[g] # NULL, frame[g].pin = 0
                   PROVE  \E i \in 1..Len(r) : r[i] = g
      BY Zenon
    <3>2. PICK j \in 1..Len(alloc_list) : alloc_list[j] = g
      BY Zenon, <3>1 DEF PframeInv, Lists
    <3>. QED BY Zenon, <2>4, <3>2 DEF Reordered
  <2>7. nallocated' = Len(r) /\ npinned' = Cardinality(AllPinners')
    BY Zenon, <1>1, <2>4 DEF PframeInv, Lists, Reordered
  <2>. QED BY Zenon, <2>2, <2>4, <2>5, <2>6, <2>7 DEF Lists, Reordered
<1>. QED BY Zenon, <1>2, <1>3

(* pframe_get of a resident page keeps the invariant, whether it returns or *)
(* sleeps.                                                                  *)
LEMMA GetResidentInv ==
  ASSUME PframeInv, NEW t \in Client, NEW k \in Key, Runs(t), pc[t] = "idle", ~ closing,
         GetResident(t, k), UNCHANGED <<npinned, data, astray, panic>>
  PROVE  PframeInv'
<1>1. PICK f \in Frame :
        /\ frame[f] # NULL
        /\ alloc_list' = IF frame[f].pin > 0 THEN alloc_list
                         ELSE Append(Without(alloc_list, f), f)
        /\ IF frame[f].busy
             THEN SleepOn(f, t, "getwait") /\ want' = [want EXCEPT ![t] = k]
             ELSE /\ pc' = [pc EXCEPT ![t] = "got"] /\ at' = [at EXCEPT ![t] = f]
                  /\ cpu' = t /\ UNCHANGED <<waitq, want>>
        /\ UNCHANGED <<frame, nallocated>>
  BY Zenon DEF GetResident, Resident
<1>2. /\ t \in Thread /\ ~ astray /\ cpu \in {NULL, t} /\ UNCHANGED <<disk, closing>>
      /\ pc[t] \notin Active /\ pc[Syncer] \notin {"reap", "freeall", "done"}
  BY Zenon DEF Thread, Runs, data, Active, Owning, Cleaning, Waiting, Pinning, PframeInv, Closing
<1>3. CASE frame[f].busy
  <2>1. /\ PlaceTypes' /\ Pins' /\ OneFrame' /\ Owners' /\ Sleepers' /\ Kept'
        /\ NoAssertionFails' /\ AllPinners' = AllPinners
    <3>1. "getwait" \in Waiting /\ SleepOn(f, t, "getwait") /\ UNCHANGED <<frame, disk, panic>>
      BY Zenon, <1>1, <1>2, <1>3 DEF Waiting
    <3>. QED BY Zenon, <3>1, <1>1, <1>2, <1>3, SleepStep
  <2>2. Lists' /\ alloc_list' \in Seq(Frame)
    BY Zenon, <1>1, <2>1, MovedToBack
  <2>3. pc' = [pc EXCEPT ![t] = "getwait"] /\ cpu' = NULL /\ want' = [want EXCEPT ![t] = k]
    BY Zenon, <1>1, <1>3 DEF SleepOn
  <2>4. PframeTypeOK'
    BY Zenon, <1>1, <1>2, <2>1, <2>2, <2>3 DEF PframeInv, PframeTypeOK, PlaceTypes
  <2>5. \A u \in Thread : pc'[u] = IF u = t THEN "getwait" ELSE pc[u]
    BY Zenon, <2>3 DEF PframeInv, PframeTypeOK
  <2>6. \A u \in Client : pc'[u] # "got"
    BY Zenon, PframeAssumption, <1>2, <2>5 DEF PframeInv, Holding, Thread
  <2>7. Closing' /\ Holding'
    BY Zenon, <1>2, <2>5, <2>6 DEF Closing, Holding, Thread
  <2>. QED BY Zenon, <2>1, <2>2, <2>4, <2>7 DEF PframeInv
<1>4. CASE ~ frame[f].busy
  <2>1. pc' = [pc EXCEPT ![t] = "got"] /\ at' = [at EXCEPT ![t] = f] /\ cpu' = t
        /\ UNCHANGED <<waitq, want>>
    BY Zenon, <1>1, <1>4
  <2>2. \A u \in Thread : /\ pc'[u] = IF u = t THEN "got" ELSE pc[u]
                          /\ at'[u] = IF u = t THEN f ELSE at[u]
    BY Zenon, <2>1 DEF PframeInv, PframeTypeOK
  <2>3. \A u \in Thread : \/ pc'[u] = pc[u] /\ at'[u] = at[u]
                          \/ pc[u] \notin Active /\ pc'[u] \notin Active \cup {"getwoken"}
    BY Zenon, <1>2, <2>2 DEF Active, Owning, Cleaning, Waiting, Pinning
  <2>4. AllPinners' = AllPinners /\ \A g : Pinners(g)' = Pinners(g)
    <3>1. \A u \in Client : /\ pc'[u] \in Pinning <=> pc[u] \in Pinning
                            /\ pc[u] \in Pinning => at'[u] = at[u]
      BY ZenonT(40), <2>3 DEF Thread, Active
    <3>. QED BY Zenon, <3>1, SamePins
  <2>5. Lists' /\ alloc_list' \in Seq(Frame)
    BY Zenon, <1>1, <2>4, MovedToBack
  <2>6. PframeTypeOK'
    BY Zenon, <1>1, <1>2, <2>1, <2>5 DEF PframeInv, PframeTypeOK
  <2>7. Pins' /\ OneFrame' /\ Owners' /\ Sleepers' /\ Kept' /\ NoAssertionFails'
    <3>1. UNCHANGED <<frame, waitq, disk, panic>>
      BY Zenon, <1>1, <1>2, <2>1
    <3>. QED BY Zenon, <2>3, <2>6, <3>1, QuietStep
  <2>8. Holding'
    <3>1. ASSUME NEW u \in Client, pc'[u] = "got" PROVE u = t
      <4>1. u # t => pc[u] = "got"
        BY Zenon, <2>2, <3>1 DEF Thread
      <4>2. pc[u] = "got" => cpu = u
        BY Zenon, <1>2 DEF PframeInv, Holding
      <4>3. u # NULL
        BY Zenon, PframeAssumption DEF Thread
      <4>. QED BY Zenon, <1>2, <4>1, <4>2, <4>3
    <3>2. cpu' = t /\ at'[t] = f /\ frame'[f] # NULL /\ ~ frame'[f].busy
      BY Zenon, <1>1, <1>2, <1>4, <2>1, <2>2
    <3>. QED BY Zenon, <3>1, <3>2 DEF Holding
  <2>9. Closing'
    BY Zenon, <1>2, <2>2 DEF Closing, Thread
  <2>. QED BY Zenon, <2>5, <2>6, <2>7, <2>8, <2>9 DEF PframeInv
<1>. QED BY Zenon, <1>3, <1>4
=============================================================================
