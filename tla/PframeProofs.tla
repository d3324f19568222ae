---------------------------- MODULE PframeProofs ----------------------------
(***************************************************************************)
(* Proofs about Pframe, for any number of clients, pages and frames: the   *)
(* operations of the clients keep the invariant of PframeInvariant, so it  *)
(* always holds, and it implies the safety properties of Pframe.           *)
(***************************************************************************)
EXTENDS PframeInvariant, FiniteSetTheorems

(* Leaves that name no prover go to SMT.                                   *)
USE SMTT(30)

---------------------------------------------------------------------------
(* A pin count is 0 exactly when nobody has the page pinned.               *)
LEMMA PinsCount == PframeInv => PinCounts
<1> SUFFICES ASSUME PframeInv PROVE PinCounts
  BY Zenon
<1>1. ASSUME NEW S \in SUBSET Client PROVE Cardinality(S) = 0 <=> S = {}
  <2>1. IsFiniteSet(S)
    BY Zenon, PframeAssumption, FS_Subset
  <2>. QED BY Zenon, <2>1, FS_EmptySet
<1>2. AllPinners \in SUBSET Client /\ \A f : Pinners(f) \in SUBSET Client
  BY Zenon DEF AllPinners, Pinners
<1>3. npinned = 0 <=> AllPinners = {}
  BY Zenon, <1>1, <1>2 DEF PframeInv, Lists
<1>4. ASSUME NEW f \in Frame, frame[f] # NULL PROVE frame[f].pin = 0 <=> Pinners(f) = {}
  BY Zenon, <1>1, <1>2, <1>4 DEF PframeInv, Pins
<1>. QED BY Zenon, <1>3, <1>4 DEF PinCounts

---------------------------------------------------------------------------
(* The operations of the clients.                                          *)

(* pframe_pin keeps the invariant: the first pin takes the frame off        *)
(* alloc_list.                                                              *)
LEMMA PinInv ==
  ASSUME PframeInv, NEW t \in Client, pframe_pin(t)
  PROVE  PframeInv'
<1> DEFINE f == at[t]
           p == [frame[f] EXCEPT !.pin = @ + 1]
<1>1. t \in Thread /\ pc[t] = "got" /\ ~ astray /\ cpu \in {NULL, t}
  BY Zenon DEF pframe_pin, Runs, Thread
<1>2. f \in Frame /\ frame[f] # NULL /\ frame[f] \in PageFrame /\ ~ frame[f].busy
  BY Zenon, <1>1 DEF PframeInv, PframeTypeOK, Holding
<1>3. /\ p \in PageFrame /\ p.key = frame[f].key /\ p.pin = frame[f].pin + 1 /\ ~ p.busy
      /\ p.fresh = frame[f].fresh /\ p.dirty = frame[f].dirty /\ frame[f].pin \in Nat
  BY <1>2 DEF PageFrame
<1>4. frame' = [frame EXCEPT ![f] = p]
  BY Zenon, <1>2 DEF pframe_pin, PframeInv, PframeTypeOK, PageFrame
<1>5. /\ pc' = [pc EXCEPT ![t] = "pinned"] /\ cpu' = NULL /\ npinned' = npinned + 1
      /\ alloc_list' = list_remove(alloc_list, f)
      /\ nallocated' = IF frame[f].pin = 0 THEN nallocated - 1 ELSE nallocated
      /\ UNCHANGED <<waitq, at, want, disk, closing, astray, panic>>
  BY Zenon DEF pframe_pin, data, Without
<1> HIDE DEF f, p
<1>6. \A g \in Frame : frame'[g] = IF g = f THEN p ELSE frame[g]
  BY Zenon, <1>4 DEF PframeInv, PframeTypeOK
<1>7. \A u \in Thread : pc'[u] = IF u = t THEN "pinned" ELSE pc[u]
  BY Zenon, <1>5 DEF PframeInv, PframeTypeOK
<1>8. \A u \in Thread : /\ pc'[u] \in Owning <=> pc[u] \in Owning
                        /\ pc'[u] \in Waiting \cup {"getwoken"} <=> pc[u] \in Waiting \cup {"getwoken"}
                        /\ pc[u] \in Owning \cup Waiting \cup {"getwoken"} => pc'[u] = pc[u]
  BY Zenon, <1>1, <1>7 DEF Owning, Cleaning, Waiting
<1>9. /\ alloc_list \in Seq(Frame) /\ alloc_list' \in Seq(Frame) /\ Distinct(alloc_list')
      /\ nallocated' = Len(alloc_list')
      /\ \A i \in 1..Len(alloc_list') :
           alloc_list'[i] # f /\ \E j \in 1..Len(alloc_list) : alloc_list[j] = alloc_list'[i]
      /\ \A j \in 1..Len(alloc_list) : alloc_list[j] # f =>
           \E i \in 1..Len(alloc_list') : alloc_list'[i] = alloc_list[j]
  <2>1. alloc_list \in Seq(Frame) /\ Distinct(alloc_list) /\ nallocated = Len(alloc_list)
    BY Zenon DEF PframeInv, PframeTypeOK, Lists
  <2>2. CASE frame[f].pin = 0
    <3>1. PICK k \in 1..Len(alloc_list) : alloc_list[k] = f
      BY Zenon, <1>2, <2>2 DEF PframeInv, Lists
    <3>2. Removed(Frame, alloc_list, f, alloc_list')
      BY Zenon, <1>5, <2>1, <3>1, RemoveFirstFacts
    <3>. QED BY Zenon, <1>5, <2>1, <2>2, <3>2 DEF Removed
  <2>3. CASE frame[f].pin # 0
    <3>1. \A i \in 1..Len(alloc_list) : alloc_list[i] # f
      BY Zenon, <2>3 DEF PframeInv, Lists
    <3>2. alloc_list' = alloc_list
      BY Zenon, <1>5, <3>1, RemoveFirstNothing
    <3>. QED BY Zenon, <1>5, <2>1, <2>3, <3>1, <3>2
  <2>. QED BY Zenon, <2>2, <2>3
<1>10. AllPinners' = AllPinners \cup {t} /\ t \notin AllPinners
  BY Zenon, <1>1, <1>7 DEF AllPinners, Pinning, Thread
<1>11. ASSUME NEW g \in Frame
       PROVE  Pinners(g)' = IF g = f THEN Pinners(g) \cup {t} ELSE Pinners(g)
  BY Zenon, <1>1, <1>5, <1>7 DEF Pinners, Pinning, Thread, f
<1>12. npinned' = Cardinality(AllPinners') /\ npinned' \in Nat
  <2>1. AllPinners \in SUBSET Client
    BY Zenon DEF AllPinners
  <2>2. IsFiniteSet(AllPinners)
    BY Zenon, PframeAssumption, <2>1, FS_Subset
  <2>3. Cardinality(AllPinners \cup {t}) = Cardinality(AllPinners) + 1
    BY Zenon, <1>10, <2>2, FS_AddElement
  <2>. QED BY <1>5, <1>10, <2>3 DEF PframeInv, PframeTypeOK, Lists
<1>13. PframeTypeOK'
  <2>1. nallocated' \in Nat
    BY <1>9
  <2>. QED BY Zenon, <1>1, <1>3, <1>4, <1>5, <1>9, <1>12, <2>1 DEF PframeInv, PframeTypeOK
<1>14. Lists'
  <2>1. ASSUME NEW i \in 1..Len(alloc_list')
        PROVE  frame'[alloc_list'[i]] # NULL /\ frame'[alloc_list'[i]].pin = 0
    <3>1. PICK j \in 1..Len(alloc_list) : alloc_list[j] = alloc_list'[i] /\ alloc_list[j] # f
      BY Zenon, <1>9
    <3>2. alloc_list[j] \in Frame /\ frame[alloc_list[j]] # NULL /\ frame[alloc_list[j]].pin = 0
      BY <1>9 DEF PframeInv, Lists
    <3>. QED BY Zenon, <1>6, <3>1, <3>2
  <2>2. ASSUME NEW g \in Frame, frame'[g] # NULL, frame'[g].pin = 0
        PROVE  \E i \in 1..Len(alloc_list') : alloc_list'[i] = g
    <3>1. g # f /\ frame[g] # NULL /\ frame[g].pin = 0
      BY <2>2, <1>3, <1>6
    <3>2. PICK j \in 1..Len(alloc_list) : alloc_list[j] = g
      BY Zenon, <3>1 DEF PframeInv, Lists
    <3>. QED BY Zenon, <3>1, <3>2, <1>9
  <2>. QED BY Zenon, PframeAssumption, <1>9, <1>12, <2>1, <2>2 DEF Lists
<1>15. Pins'
  <2>1. ASSUME NEW g \in Frame, frame'[g] # NULL
        PROVE  frame'[g].pin = Cardinality(Pinners(g)')
    <3>1. CASE g # f
      BY Zenon, <1>6, <1>11, <2>1, <3>1 DEF PframeInv, Pins
    <3>2. CASE g = f
      <4>1. Pinners(f) \in SUBSET Client /\ t \notin Pinners(f)
        BY Zenon, <1>1 DEF Pinners, Pinning
      <4>2. IsFiniteSet(Pinners(f))
        BY Zenon, PframeAssumption, <4>1, FS_Subset
      <4>3. Cardinality(Pinners(f) \cup {t}) = Cardinality(Pinners(f)) + 1
        BY Zenon, <4>1, <4>2, FS_AddElement
      <4>. QED BY Zenon, <1>2, <1>3, <1>6, <1>11, <3>2, <4>3 DEF PframeInv, Pins
    <3>. QED BY Zenon, <3>1, <3>2
  <2>2. \A u \in Client : pc'[u] \in Pinning => at'[u] \in Frame /\ frame'[at'[u]] # NULL
    BY PframeAssumption, <1>2, <1>3, <1>5, <1>6, <1>7 DEF PframeInv, Pins, Thread, f
  <2>. QED BY Zenon, <2>1, <2>2 DEF Pins
<1>16. OneFrame' /\ NoAssertionFails'
  BY <1>2, <1>3, <1>5, <1>6 DEF PframeInv, OneFrame, NoAssertionFails
<1>17. \A u \in Thread : pc[u] \in Owning \cup Waiting => at[u] # f
  BY Zenon, <1>2 DEF PframeInv, Owners, Sleepers
<1>18. Owners'
  <2>1. \A g \in Frame : frame'[g] # NULL /\ frame'[g].busy =>
          g # f /\ frame[g] # NULL /\ frame[g].busy
    BY Zenon, <1>3, <1>6
  <2>2. \A u \in Thread : pc'[u] \in Owning => pc'[u] = pc[u] /\ at[u] # f
    BY Zenon, <1>8, <1>17
  <2>. QED BY <1>5, <1>6, <1>8, <2>1, <2>2 DEF PframeInv, Owners, Owning, Cleaning
<1>19. Sleepers'
  <2>1. \A u \in Thread : pc'[u] \in Waiting <=> pc[u] \in Waiting
    BY Zenon, <1>1, <1>7 DEF Waiting
  <2>2. \A g \in Frame : waitq'[g] = {u \in Thread : pc'[u] \in Waiting /\ at'[u] = g}
    BY Zenon, <2>1, <1>5 DEF PframeInv, Sleepers
  <2>. QED BY <1>5, <1>6, <1>7, <1>17, <2>1, <2>2 DEF PframeInv, Sleepers
<1>20. Kept'
  <2>1. \A u \in Thread : pc[u] \in Owning => pc'[u] = pc[u] /\ at'[u] = at[u]
    BY Zenon, <1>5, <1>8
  <2>2. frame[f].fresh /\ (frame[f].dirty \/ disk[frame[f].key])
    BY Zenon, <1>2, <1>17 DEF PframeInv, Kept, Owning
  <2>. QED BY Zenon, <1>2, <1>3, <1>5, <1>6, <2>1, <2>2, KeptStep
<1>21. Closing' /\ Holding'
  <2>1. ~ closing /\ pc[Syncer] \notin {"reap", "freeall", "done"}
    BY Zenon, <1>1 DEF PframeInv, Closing
  <2>2. \A u \in Client : pc'[u] # "got"
    BY Zenon, <1>1, <1>7 DEF PframeInv, Holding, Thread
  <2>. QED BY Zenon, PframeAssumption, <1>1, <1>5, <1>7, <2>1, <2>2 DEF Closing, Holding, Thread
<1>. QED BY Zenon, <1>13, <1>14, <1>15, <1>16, <1>18, <1>19, <1>20, <1>21 DEF PframeInv

(* pframe_unpin keeps the invariant: the last pin puts the frame back on    *)
(* alloc_list.                                                              *)
LEMMA UnpinInv ==
  ASSUME PframeInv, NEW t \in Client, pframe_unpin(t)
  PROVE  PframeInv'
<1> DEFINE f == at[t]
           p == [frame[f] EXCEPT !.pin = @ - 1]
<1>1. t \in Thread /\ pc[t] = "pinned" /\ ~ astray /\ cpu \in {NULL, t}
  BY Zenon DEF pframe_unpin, Runs, Thread
<1>2. f \in Frame /\ frame[f] # NULL /\ frame[f] \in PageFrame
  BY Zenon, <1>1 DEF PframeInv, PframeTypeOK, Pins, Pinning
<1>3. /\ IsFiniteSet(Pinners(f)) /\ t \in Pinners(f)
      /\ frame[f].pin = Cardinality(Pinners(f)) /\ frame[f].pin \in Nat \ {0}
  <2>1. Pinners(f) \in SUBSET Client /\ t \in Pinners(f)
    BY Zenon, <1>1 DEF Pinners, Pinning
  <2>2. IsFiniteSet(Pinners(f))
    BY Zenon, PframeAssumption, <2>1, FS_Subset
  <2>3. Cardinality(Pinners(f)) # 0
    BY Zenon, <2>1, <2>2, FS_EmptySet
  <2>. QED BY Zenon, <2>1, <2>2, <2>3, <1>2 DEF PframeInv, Pins, PageFrame
<1>4. /\ p \in PageFrame /\ p.key = frame[f].key /\ p.pin = frame[f].pin - 1
      /\ p.busy = frame[f].busy
      /\ p.fresh = frame[f].fresh /\ p.dirty = frame[f].dirty
  BY <1>2, <1>3 DEF PageFrame
<1>5. frame' = [frame EXCEPT ![f] = p]
  BY Zenon, <1>2 DEF pframe_unpin, PframeInv, PframeTypeOK, PageFrame
<1>6. /\ pc' = [pc EXCEPT ![t] = "idle"] /\ at' = [at EXCEPT ![t] = NULL]
      /\ cpu' = NULL /\ npinned' = npinned - 1
      /\ alloc_list' = IF frame[f].pin = 1 THEN Append(alloc_list, f) ELSE alloc_list
      /\ nallocated' = IF frame[f].pin = 1 THEN nallocated + 1 ELSE nallocated
      /\ UNCHANGED <<waitq, want, disk, closing, astray, panic>>
  BY Zenon DEF pframe_unpin, data
<1> HIDE DEF f, p
<1>7. \A g \in Frame : frame'[g] = IF g = f THEN p ELSE frame[g]
  BY <1>5 DEF PframeInv, PframeTypeOK
<1>8. \A u \in Thread : /\ pc'[u] = IF u = t THEN "idle" ELSE pc[u]
                        /\ at'[u] = IF u = t THEN NULL ELSE at[u]
  BY Zenon, <1>6 DEF PframeInv, PframeTypeOK
<1>9. \A u \in Thread :
        pc[u] \in Owning \cup Waiting \cup {"getwoken"} \/ pc'[u] \in Owning \cup Waiting \cup {"getwoken"} =>
          pc'[u] = pc[u] /\ at'[u] = at[u]
  BY Zenon, <1>1, <1>8 DEF Owning, Cleaning, Waiting
<1>10. /\ alloc_list \in Seq(Frame) /\ alloc_list' \in Seq(Frame) /\ Distinct(alloc_list')
       /\ nallocated' = Len(alloc_list')
       /\ \A i \in 1..Len(alloc_list') :
            \/ alloc_list'[i] = f /\ frame[f].pin = 1
            \/ \E j \in 1..Len(alloc_list) : alloc_list[j] = alloc_list'[i]
       /\ \A j \in 1..Len(alloc_list) :
            alloc_list[j] # f /\ \E i \in 1..Len(alloc_list') : alloc_list'[i] = alloc_list[j]
       /\ frame[f].pin = 1 => \E i \in 1..Len(alloc_list') : alloc_list'[i] = f
  <2>1. alloc_list \in Seq(Frame) /\ Distinct(alloc_list) /\ nallocated = Len(alloc_list)
    BY Zenon DEF PframeInv, PframeTypeOK, Lists
  <2>2. \A i \in 1..Len(alloc_list) : alloc_list[i] # f
    BY Zenon, <1>3 DEF PframeInv, Lists
  <2>3. CASE frame[f].pin = 1
    <3>1. Added(Frame, alloc_list, f, alloc_list')
      BY Zenon, <1>2, <1>6, <2>1, <2>2, <2>3, AppendDistinct
    <3>. QED BY Zenon, <1>6, <2>1, <2>2, <2>3, <3>1 DEF Added
  <2>4. CASE frame[f].pin # 1
    BY Zenon, <1>6, <2>1, <2>2, <2>4
  <2>. QED BY Zenon, <2>3, <2>4
<1>11. AllPinners' = AllPinners \ {t} /\ t \in AllPinners
  BY Zenon, <1>1, <1>8 DEF AllPinners, Pinning, Thread
<1>12. ASSUME NEW g \in Frame
       PROVE  Pinners(g)' = IF g = f THEN Pinners(g) \ {t} ELSE Pinners(g)
  BY Zenon, <1>1, <1>8 DEF Pinners, Pinning, Thread, f
<1>13. npinned' = Cardinality(AllPinners') /\ npinned' \in Nat
  <2>1. AllPinners \in SUBSET Client
    BY DEF AllPinners
  <2>2. IsFiniteSet(AllPinners)
    BY PframeAssumption, <2>1, FS_Subset
  <2>3. /\ Cardinality(AllPinners \ {t}) = Cardinality(AllPinners) - 1
        /\ IsFiniteSet(AllPinners \ {t})
    BY Zenon, <1>11, <2>2, FS_RemoveElement
  <2>4. Cardinality(AllPinners \ {t}) \in Nat
    BY Zenon, <2>3, FS_CardinalityType
  <2>. QED BY Zenon, <1>6, <1>11, <2>3, <2>4 DEF PframeInv, PframeTypeOK, Lists
<1>14. PframeTypeOK'
  <2>1. nallocated' \in Nat
    BY <1>10
  <2>2. PlaceTypes'
    BY Zenon, <1>1, <1>4, <1>5, <1>6 DEF PframeInv, PframeTypeOK, PlaceTypes
  <2>. QED BY Zenon, <1>6, <1>10, <1>13, <2>1, <2>2 DEF PframeInv, PframeTypeOK, PlaceTypes
<1>15. Lists'
  <2>1. ASSUME NEW i \in 1..Len(alloc_list')
        PROVE  frame'[alloc_list'[i]] # NULL /\ frame'[alloc_list'[i]].pin = 0
    <3>1. CASE alloc_list'[i] = f /\ frame[f].pin = 1
      BY PframeAssumption, <1>2, <1>4, <1>7, <3>1
    <3>2. ASSUME NEW j \in 1..Len(alloc_list), alloc_list[j] = alloc_list'[i]
          PROVE  frame'[alloc_list'[i]] # NULL /\ frame'[alloc_list'[i]].pin = 0
      <4>1. frame[alloc_list[j]] # NULL /\ frame[alloc_list[j]].pin = 0
        BY Zenon DEF PframeInv, Lists
      <4>2. alloc_list[j] \in Frame
        BY DEF PframeInv, PframeTypeOK
      <4>3. alloc_list[j] # f
        BY Zenon, <1>3, <4>1
      <4>. QED BY Zenon, <1>7, <3>2, <4>1, <4>2, <4>3
    <3>. QED BY Zenon, <1>10, <3>1, <3>2
  <2>2. ASSUME NEW g \in Frame, frame'[g] # NULL, frame'[g].pin = 0
        PROVE  \E i \in 1..Len(alloc_list') : alloc_list'[i] = g
    <3>1. CASE g = f
      BY <1>3, <1>4, <1>7, <1>10, <2>2, <3>1
    <3>2. CASE g # f
      <4>1. PICK j \in 1..Len(alloc_list) : alloc_list[j] = g
        BY Zenon, <1>7, <2>2, <3>2 DEF PframeInv, Lists
      <4>. QED BY Zenon, PframeAssumption, <4>1, <1>10
    <3>. QED BY Zenon, <3>1, <3>2
  <2>. QED BY Zenon, <1>10, <1>13, <2>1, <2>2 DEF Lists
<1>16. Pins'
  <2>1. ASSUME NEW g \in Frame, frame'[g] # NULL
        PROVE  frame'[g].pin = Cardinality(Pinners(g)')
    <3>1. CASE g # f
      BY Zenon, <1>7, <1>12, <2>1, <3>1 DEF PframeInv, Pins
    <3>2. CASE g = f
      <4>1. Cardinality(Pinners(f) \ {t}) = Cardinality(Pinners(f)) - 1
        BY Zenon, <1>3, FS_RemoveElement
      <4>. QED BY Zenon, <1>2, <1>3, <1>4, <1>7, <1>12, <3>2, <4>1
    <3>. QED BY <3>1, <3>2
  <2>2. \A u \in Client : pc'[u] \in Pinning => at'[u] \in Frame /\ frame'[at'[u]] # NULL
    BY PframeAssumption, <1>2, <1>4, <1>7, <1>8 DEF PframeInv, Pins, Pinning, Thread
  <2>. QED BY <2>1, <2>2 DEF Pins
<1>17. \A g \in Frame : /\ frame'[g] # NULL <=> frame[g] # NULL
                        /\ frame[g] # NULL => /\ frame'[g].busy = frame[g].busy
                                              /\ frame'[g].key = frame[g].key
                                              /\ frame'[g].dirty = frame[g].dirty
  BY Zenon, PframeAssumption, <1>2, <1>4, <1>7
<1>18. OneFrame' /\ NoAssertionFails'
  BY ZenonT(40), <1>6, <1>17 DEF PframeInv, OneFrame, NoAssertionFails
<1>19. Owners'
  <2>1. \A u \in Thread : pc'[u] \in Cleaning \cup {"filling"} => at[u] # f
    BY <1>3, <1>9 DEF PframeInv, Owners, Owning
  <2>. QED BY <1>7, <1>9, <1>17, <2>1 DEF PframeInv, Owners, Owning, Cleaning
<1>20. Sleepers'
  <2>1. \A g \in Frame : waitq'[g] = {u \in Thread : pc'[u] \in Waiting /\ at'[u] = g}
    BY ZenonT(40), <1>6, <1>9 DEF PframeInv, Sleepers
  <2>. QED BY <1>9, <1>17, <2>1 DEF PframeInv, Sleepers
<1>21. Kept'
  <2>1. \A u \in Thread : pc[u] \in Owning => pc'[u] = pc[u] /\ at'[u] = at[u]
    BY Zenon, <1>9
  <2>2. \A u \in Thread : pc[u] \in Cleaning \cup {"filling"} => at[u] # f
    BY Zenon, <1>3 DEF PframeInv, Owners
  <2>3. frame[f].fresh /\ (frame[f].dirty \/ disk[frame[f].key])
    BY Zenon, <1>2, <2>2 DEF PframeInv, Kept
  <2>. QED BY ZenonT(40), <1>2, <1>4, <1>6, <1>7, <2>1, <2>3, KeptStep
<1>22. Closing' /\ Holding'
  <2>1. ~ closing /\ pc[Syncer] \notin {"reap", "freeall", "done"}
    BY Zenon, <1>1 DEF PframeInv, Closing
  <2>2. \A u \in Client : pc'[u] # "got"
    BY Zenon, PframeAssumption, <1>1, <1>8 DEF PframeInv, Holding, Thread
  <2>. QED BY Zenon, PframeAssumption, <1>1, <1>6, <1>8, <2>1, <2>2 DEF Closing, Holding, Thread
<1>. QED BY <1>14, <1>15, <1>16, <1>18, <1>19, <1>20, <1>21, <1>22 DEF PframeInv

(* pframe_alloc and pframe_fill up to the disk keep the invariant: nobody   *)
(* owns, awaits or has pinned a frame that is free, and the disk holds the  *)
(* page since it is not resident.                                           *)
LEMMA GetAllocInv ==
  ASSUME PframeInv, NEW t \in Client, NEW k \in Key, Runs(t), pc[t] = "idle", ~ closing,
         Resident(k) = {}, GetAlloc(t, k), UNCHANGED <<npinned, data, astray, panic>>
  PROVE  PframeInv'
<1> DEFINE p == [key |-> k, busy |-> TRUE, dirty |-> FALSE, pin |-> 0, fresh |-> FALSE]
<1>1. PICK f \in Frame :
        /\ frame[f] = NULL /\ frame' = [frame EXCEPT ![f] = p]
        /\ alloc_list' = Append(alloc_list, f) /\ nallocated' = nallocated + 1
        /\ waitq' = [waitq EXCEPT ![f] = {}]
        /\ pc' = [pc EXCEPT ![t] = "filling"] /\ at' = [at EXCEPT ![t] = f]
        /\ cpu' = NULL /\ UNCHANGED want
  BY Zenon DEF GetAlloc, FreeFrames
<1>2. /\ t \in Thread /\ ~ astray /\ cpu \in {NULL, t} /\ UNCHANGED <<disk, closing>>
      /\ pc[t] \notin Active /\ pc[Syncer] \notin {"reap", "freeall", "done"}
  BY Zenon DEF Thread, Runs, data, Active, Owning, Cleaning, Waiting, Pinning, PframeInv, Closing
<1>3. /\ p \in PageFrame /\ p # NULL /\ p.key = k /\ p.busy /\ ~ p.dirty /\ p.pin = 0
      /\ ~ p.fresh
  <2>1. p \in PageFrame
    BY Zenon DEF PageFrame
  <2>2. p # NULL
    BY Zenon, PframeAssumption, <2>1
  <2>. QED BY Zenon, <2>1, <2>2
<1> HIDE DEF p
<1>4. \A g \in Frame : frame'[g] = IF g = f THEN p ELSE frame[g]
  BY Zenon, <1>1 DEF PframeInv, PframeTypeOK
<1>5. \A u \in Thread : /\ pc'[u] = IF u = t THEN "filling" ELSE pc[u]
                        /\ at'[u] = IF u = t THEN f ELSE at[u]
  BY Zenon, <1>1 DEF PframeInv, PframeTypeOK
<1>6. /\ \A u \in Thread : pc[u] \in Owning \cup Waiting => u # t /\ at[u] # f
      /\ \A u \in Client : pc[u] \in Pinning => u # t /\ at[u] # f
  BY Zenon, <1>1, <1>2 DEF PframeInv, Owners, Sleepers, Pins, Active
<1>7. Added(Frame, alloc_list, f, alloc_list')
  <2>1. /\ alloc_list \in Seq(Frame) /\ Distinct(alloc_list)
        /\ \A i \in 1..Len(alloc_list) : alloc_list[i] # f
    BY Zenon, <1>1 DEF PframeInv, PframeTypeOK, Lists
  <2>. QED BY Zenon, <1>1, <2>1, AppendDistinct
<1>8. PframeTypeOK'
  <2>1. PlaceTypes'
    BY Zenon, <1>1, <1>2, <1>3 DEF PframeInv, PframeTypeOK, PlaceTypes, Owning
  <2>2. alloc_list' \in Seq(Frame) /\ nallocated' \in Nat
    BY <1>1, <1>7 DEF Added, PframeInv, PframeTypeOK
  <2>. QED BY Zenon, <1>1, <1>2, <2>1, <2>2 DEF PframeInv, PframeTypeOK, PlaceTypes
<1>9. AllPinners' = AllPinners /\ \A g : Pinners(g)' = Pinners(g)
  <2>1. \A u \in Client : /\ pc'[u] \in Pinning <=> pc[u] \in Pinning
                          /\ pc[u] \in Pinning => at'[u] = at[u]
    BY Zenon, <1>2, <1>5 DEF Thread, Active, Pinning
  <2>. QED BY Zenon, <2>1, SamePins
<1>10. Lists'
  <2>1. ASSUME NEW i \in 1..Len(alloc_list')
        PROVE  frame'[alloc_list'[i]] # NULL /\ frame'[alloc_list'[i]].pin = 0
    <3>1. CASE alloc_list'[i] = f
      BY Zenon, <1>3, <1>4, <3>1
    <3>2. ASSUME NEW j \in 1..Len(alloc_list), alloc_list[j] = alloc_list'[i]
          PROVE  frame'[alloc_list'[i]] # NULL /\ frame'[alloc_list'[i]].pin = 0
      <4>1. frame[alloc_list[j]] # NULL /\ frame[alloc_list[j]].pin = 0
        BY Zenon DEF PframeInv, Lists
      <4>2. alloc_list[j] \in Frame
        BY DEF PframeInv, PframeTypeOK
      <4>. QED BY Zenon, <1>1, <1>4, <3>2, <4>1, <4>2
    <3>. QED BY Zenon, <1>7, <3>1, <3>2 DEF Added
  <2>2. ASSUME NEW g \in Frame, frame'[g] # NULL, frame'[g].pin = 0
        PROVE  \E i \in 1..Len(alloc_list') : alloc_list'[i] = g
    <3>1. CASE g = f
      BY Zenon, <1>7, <3>1 DEF Added
    <3>2. CASE g # f
      <4>1. PICK j \in 1..Len(alloc_list) : alloc_list[j] = g
        BY Zenon, <1>4, <2>2, <3>2 DEF PframeInv, Lists
      <4>2. \E n \in 1..Len(alloc_list') : alloc_list'[n] = alloc_list[j]
        BY Zenon, <1>7 DEF Added
      <4>. QED BY Zenon, <4>1, <4>2
    <3>. QED BY Zenon, <3>1, <3>2
  <2>3. nallocated' = Len(alloc_list')
    BY Zenon, <1>1, <1>7 DEF Added, PframeInv, Lists
  <2>. QED BY Zenon, <1>7, <1>9, <2>1, <2>2, <2>3 DEF PframeInv, Lists, Added
<1>11. Pins'
  <2>1. Pinners(f) = {}
    BY Zenon, <1>6 DEF Pinners
  <2>2. Cardinality(Pinners(f)) = 0
    BY Zenon, <2>1, FS_EmptySet
  <2>3. ASSUME NEW g \in Frame, frame'[g] # NULL
        PROVE  frame'[g].pin = Cardinality(Pinners(g)')
    BY Zenon, <1>3, <1>4, <1>9, <2>2, <2>3 DEF PframeInv, Pins
  <2>4. \A u \in Client : pc'[u] \in Pinning => at'[u] \in Frame /\ frame'[at'[u]] # NULL
    BY ZenonT(40), <1>4, <1>5, <1>6 DEF PframeInv, Pins, Pinning, Thread
  <2>. QED BY Zenon, <2>3, <2>4 DEF Pins
<1>12. OneFrame'
  <2>1. \A g \in Frame : frame[g] # NULL => frame[g].key # k
    BY Zenon DEF Resident
  <2>. QED BY ZenonT(40), <1>3, <1>4, <2>1 DEF PframeInv, OneFrame
<1>13. Owners'
  <2>1. \A u \in Thread : pc[u] \in Owning => pc'[u] = pc[u] /\ at'[u] = at[u]
    BY Zenon, <1>5, <1>6
  <2>2. pc'[t] = "filling" /\ at'[t] = f /\ "filling" \in Owning
    BY Zenon, <1>2, <1>5 DEF Owning
  <2>3. ASSUME NEW g \in Frame, frame'[g] # NULL, frame'[g].busy
        PROVE  \E u \in Thread : pc'[u] \in Owning /\ at'[u] = g
    <3>1. CASE g = f
      BY Zenon, <1>2, <2>2, <3>1
    <3>2. CASE g # f
      <4>1. PICK u \in Thread : pc[u] \in Owning /\ at[u] = g
        BY Zenon, <1>4, <2>3, <3>2 DEF PframeInv, Owners
      <4>. QED BY Zenon, <2>1, <4>1
    <3>. QED BY Zenon, <3>1, <3>2
  <2>4. \A u \in Thread : pc'[u] \in Owning /\ u # t => pc[u] \in Owning
    BY Zenon, <1>5
  <2>5. ASSUME NEW u \in Thread, u # t, pc[u] \in Owning
        PROVE  /\ at[u] \in Frame /\ at[u] # f /\ frame'[at[u]] = frame[at[u]]
               /\ frame[at[u]] # NULL /\ frame[at[u]].busy
    BY Zenon, <1>4, <1>6, <2>5 DEF PframeInv, Owners
  <2>6. \A u \in Thread : pc'[u] \in Owning =>
          at'[u] \in Frame /\ frame'[at'[u]] # NULL /\ frame'[at'[u]].busy
    BY ZenonT(40), <1>3, <1>4, <2>1, <2>2, <2>4, <2>5
  <2>7. \A u, v \in Thread : pc'[u] \in Owning /\ pc'[v] \in Owning /\ at'[u] = at'[v] => u = v
    BY <2>1, <2>2, <2>4, <2>5 DEF PframeInv, Owners
  <2>8. \A u \in Thread : pc'[u] \in Cleaning \cup {"filling"} =>
          frame'[at'[u]].pin = 0 /\ (pc'[u] = "filling" => ~ frame'[at'[u]].dirty)
    BY <1>3, <1>4, <2>1, <2>2, <2>4, <2>5 DEF PframeInv, Owners, Owning
  <2>9. \A u \in Thread : pc'[u] \in {"dirtying", "dirtyingpin"} => u = Writer
    BY ZenonT(40), <1>5 DEF PframeInv, Owners
  <2>. QED BY Zenon, <2>3, <2>6, <2>7, <2>8, <2>9 DEF Owners
<1>14. Sleepers'
  <2>1. \A u \in Thread : /\ pc'[u] \in Waiting <=> pc[u] \in Waiting
                          /\ pc[u] \in Waiting \cup {"getwoken"} => at'[u] = at[u]
                          /\ pc'[u] = "getwoken" <=> pc[u] = "getwoken"
    BY Zenon, <1>2, <1>5 DEF Active, Waiting
  <2>2. ASSUME NEW g \in Frame
        PROVE  waitq'[g] = {u \in Thread : pc'[u] \in Waiting /\ at'[u] = g}
    <3>1. waitq[g] = {u \in Thread : pc[u] \in Waiting /\ at[u] = g}
      BY Zenon DEF PframeInv, Sleepers
    <3>2. waitq'[g] = waitq[g]
      <4>1. waitq[f] = {}
        BY <1>6 DEF PframeInv, Sleepers
      <4>. QED BY Zenon, <1>1, <4>1 DEF PframeInv, PframeTypeOK
    <3>. QED BY Zenon, <2>1, <3>1, <3>2
  <2>. QED BY <1>4, <1>6, <2>1, <2>2 DEF PframeInv, Sleepers
<1>15. Kept'
  <2>1. disk[k]
    BY Zenon DEF PframeInv, Kept, Resident
  <2>2. \A u \in Thread : pc[u] \in Owning => pc'[u] = pc[u] /\ at'[u] = at[u]
    BY Zenon, <1>5, <1>6
  <2>3. pc'[t] = "filling" /\ at'[t] = f
    BY Zenon, <1>2, <1>5
  <2>4. \A j \in Key : disk'[j] \/ \E g \in Frame : frame'[g] # NULL /\ frame'[g].key = j
    <3>1. SUFFICES ASSUME NEW j \in Key
                   PROVE  disk'[j] \/ \E g \in Frame : frame'[g] # NULL /\ frame'[g].key = j
      BY Zenon
    <3>2. disk[j] \/ \E g \in Frame : frame[g] # NULL /\ frame[g].key = j
      BY Zenon DEF PframeInv, Kept
    <3>. QED BY Zenon, <1>1, <1>2, <1>4, <3>2
  <2>5. ASSUME NEW g \in Frame, frame'[g] # NULL
        PROVE  /\ frame'[g].fresh \/ \E u \in Thread : pc'[u] = "filling" /\ at'[u] = g
               /\ \/ frame'[g].dirty \/ disk'[frame'[g].key]
                  \/ \E u \in Thread : pc'[u] \in Cleaning /\ at'[u] = g
    <3>1. CASE g = f
      BY ZenonT(40), <1>2, <1>3, <1>4, <2>1, <2>3, <3>1
    <3>2. CASE g # f
      BY <1>2, <1>4, <2>2, <2>5, <3>2 DEF PframeInv, Kept, Owning
    <3>. QED BY Zenon, <3>1, <3>2
  <2>. QED BY Zenon, <2>4, <2>5 DEF Kept
<1>16. Closing' /\ Holding' /\ NoAssertionFails'
  <2>1. \A u \in Client : pc'[u] # "got"
    BY ZenonT(40), PframeAssumption, <1>2, <1>5 DEF PframeInv, Holding, Thread
  <2>. QED BY Zenon, <1>2, <1>5, <2>1 DEF PframeInv, NoAssertionFails, Closing, Holding, Thread
<1>. QED BY Zenon, <1>8, <1>10, <1>11, <1>12, <1>13, <1>14, <1>15, <1>16 DEF PframeInv

(* pframe_get keeps the invariant.                                          *)
LEMMA GetInv ==
  ASSUME PframeInv, NEW t \in Client, NEW k \in Key, pframe_get(t, k)
  PROVE  PframeInv'
<1>1. /\ Runs(t) /\ pc[t] = "idle" /\ ~ closing /\ UNCHANGED <<npinned, data, astray, panic>>
      /\ t \in Thread
  BY Zenon DEF pframe_get, Thread
<1>2. CASE GetResident(t, k)
  BY Zenon, <1>1, <1>2, GetResidentInv
<1>3. CASE Resident(k) = {} /\ GetAlloc(t, k)
  BY Zenon, <1>1, <1>3, GetAllocInv
<1>4. CASE GetShort(t) \/ GetFails(t)
  <2>1. /\ UNCHANGED <<frame, alloc_list, nallocated, npinned, waitq, at, want, disk,
                       closing, astray, panic>>
        /\ \/ pc' = pc
           \/ pc' = [u \in Thread |-> IF u = t \/ pc[u] = "parked" THEN "out" ELSE pc[u]]
        /\ cpu' \in {NULL, t} /\ cpu \in {NULL, t} /\ ~ astray
    BY Zenon, <1>1, <1>4 DEF GetShort, GetFails, data, Runs
  <2>2. \A u \in Thread : \/ pc'[u] = pc[u]
                          \/ pc[u] \in {"idle", "parked"} /\ pc'[u] = "out"
    <3>1. SUFFICES ASSUME NEW u \in Thread, pc'[u] # pc[u]
                   PROVE  pc[u] \in {"idle", "parked"} /\ pc'[u] = "out"
      BY Zenon
    <3>2. pc'[u] = IF u = t \/ pc[u] = "parked" THEN "out" ELSE pc[u]
      BY Zenon, <2>1, <3>1
    <3>. QED BY <1>1, <3>1, <3>2
  <2>3. PframeTypeOK'
    BY <1>1, <2>1 DEF PframeInv, PframeTypeOK
  <2>4. /\ Lists' /\ Pins' /\ OneFrame' /\ Owners' /\ Sleepers' /\ Kept'
        /\ NoAssertionFails'
    <3>1. \A u \in Thread : \/ pc'[u] = pc[u] /\ at'[u] = at[u]
                            \/ pc[u] \notin Active /\ pc'[u] \notin Active \cup {"getwoken"}
      BY Zenon, <2>1, <2>2 DEF Active, Owning, Cleaning, Waiting, Pinning
    <3>. QED BY Zenon, <2>1, <2>3, <3>1, QuietStep
  <2>5. Holding'
    BY PframeAssumption, <1>1, <2>1, <2>2 DEF PframeInv, Holding, Thread
  <2>6. Closing'
    <3>1. pc[Syncer] \notin {"reap", "freeall", "done"}
      BY Zenon, <1>1 DEF PframeInv, Closing
    <3>. QED BY Zenon, <1>1, <2>1, <2>2, <3>1 DEF Closing, Thread
  <2>. QED BY Zenon, <2>3, <2>4, <2>5, <2>6 DEF PframeInv
<1>. QED BY Zenon, <1>2, <1>3, <1>4 DEF pframe_get

(* The invariant holds at boot.                                             *)
LEMMA PframeInitInv == Init => PframeInv
<1> SUFFICES ASSUME Init PROVE PframeInv
  OBVIOUS
<1>1. PframeTypeOK
  <2>1. /\ frame \in [Frame -> PageFrame \cup {NULL}] /\ disk \in [Key -> BOOLEAN]
        /\ waitq \in [Frame -> SUBSET Thread] /\ at \in [Thread -> Frame \cup {NULL}]
        /\ want \in [Client -> Key \cup {NULL}]
    BY Zenon DEF Init
  <2>2. alloc_list \in Seq(Frame) /\ nallocated \in Nat /\ npinned \in Nat
    BY DEF Init
  <2>3. pc \in [Thread -> {"out", "idle"}]
    BY Zenon DEF Init
  <2>. QED BY Zenon, <2>1, <2>2, <2>3 DEF Init, PframeTypeOK
<1>2. AllPinners = {} /\ \A f : Pinners(f) = {}
  BY Zenon DEF Init, AllPinners, Pinners, Pinning, Thread
<1>3. Lists
  <2>1. Len(alloc_list) = 0 /\ nallocated = 0 /\ npinned = 0
    BY Zenon DEF Init
  <2>. QED BY <1>2, <2>1, FS_EmptySet DEF Init, Lists, Distinct
<1>4. Pins /\ OneFrame /\ NoAssertionFails
  BY Zenon DEF Init, Pins, Pinning, OneFrame, NoAssertionFails, Thread
<1>5. Owners
  BY Zenon DEF Init, Owners, Owning, Cleaning, Thread
<1>6. Sleepers
  BY Zenon DEF Init, Sleepers, Waiting, Thread
<1>7. Holding /\ Closing
  BY Zenon DEF Init, Holding, Closing, Thread
<1>8. Kept
  BY Zenon DEF Init, Kept
<1>. QED BY Zenon, <1>1, <1>3, <1>4, <1>5, <1>6, <1>7, <1>8 DEF PframeInv

(* Every step keeps the invariant.                                          *)
LEMMA PframeNextInv == PframeInv /\ [Next]_vars => PframeInv'
<1> SUFFICES ASSUME PframeInv, [Next]_vars PROVE PframeInv'
  BY Zenon
<1>0. PinCounts
  BY Zenon, PinsCount
<1>1. CASE UNCHANGED vars
  <2>1. PframeTypeOK' /\ Holding' /\ Closing'
    BY Zenon, <1>1 DEF vars, PframeInv, PframeTypeOK, Holding, Closing
  <2>. QED BY Zenon, <1>1, <2>1, QuietStep DEF vars, PframeInv
<1>2. ASSUME NEW t \in Client,
             \/ \E k \in Key : pframe_get(t, k)
             \/ FillDone(t) \/ GetWoken(t) \/ Release(t) \/ pframe_pin(t)
             \/ pframe_unpin(t) \/ pframe_dirty(t) \/ DirtyDone(t)
      PROVE  PframeInv'
  BY Zenon, <1>0, <1>2, GetInv, FillDoneInv, GetWokenInv, ReleaseInv, PinInv, UnpinInv, DirtyInv, DirtyDoneInv
<1>3. ASSUME NEW t \in Thread,
             PageoutTurn(t) \/ PageoutParks(t) \/ \E ok \in BOOLEAN : CleanDone(t, ok)
      PROVE  PframeInv'
  BY Zenon, <1>0, <1>3, PageoutTurnInv, PageoutParksInv, CleanDoneInv
<1>4. CASE \/ pframe_clean_all(Syncer) \/ sys_sync(Syncer) \/ ShutdownStart(Syncer)
           \/ ShutdownReap(Syncer) \/ ShutdownFree(Syncer)
  BY Zenon, <1>0, <1>4, CleanAllInv, ShutdownInv, ShutdownFreeInv
<1>. QED BY Zenon, <1>1, <1>2, <1>3, <1>4 DEF Next, Halted

---------------------------------------------------------------------------
(* The properties.                                                          *)

(* In every reachable state of the page cache the invariant holds.          *)
THEOREM PframeInvariance == Spec => []PframeInv
  BY PframeInitInv, PframeNextInv, PTL DEF Spec

(* The lists, the counters and the frames of mm/pframe.c agree, a page has  *)
(* one frame and no assertion fails, for any number of clients, pages and   *)
(* frames.                                                                  *)
THEOREM FramesAlwaysAgree == Spec => []FramesAgree
<1>1. PframeInv => FramesAgree
  <2> SUFFICES ASSUME PframeInv PROVE FramesAgree
    BY Zenon
  <2> USE PframeAssumption
  <2>1. PframeTypeOK /\ NoAssertionFails
    BY Zenon DEF PframeInv
  <2>2. DOMAIN alloc_list = 1..Len(alloc_list) /\ \A i \in 1..Len(alloc_list) : alloc_list[i] \in Frame
    BY DEF PframeInv, PframeTypeOK
  <2>3. ListsAgree
    <3>1. IsInjective(alloc_list) /\ nallocated = Len(alloc_list)
      BY Zenon, <2>2 DEF PframeInv, Lists, Distinct, IsInjective
    <3>2. Range(alloc_list) = {f \in Frame : frame[f] # NULL /\ frame[f].pin = 0}
      BY <2>2 DEF PframeInv, Lists, Range
    <3>3. npinned = Cardinality({t \in Client : pc[t] \in {"pinned", "dirtyingpin"}})
      BY Zenon DEF PframeInv, Lists, AllPinners, Pinning
    <3>. QED BY Zenon, <3>1, <3>2, <3>3 DEF ListsAgree
  <2>4. OnePagePerKey
    <3>1. SUFFICES ASSUME NEW k \in Key PROVE Cardinality(Resident(k)) <= 1
      BY Zenon DEF OnePagePerKey
    <3>2. CASE Resident(k) = {}
      BY <3>2, FS_EmptySet
    <3>3. ASSUME NEW f \in Resident(k) PROVE Cardinality(Resident(k)) <= 1
      <4>1. \A g \in Resident(k) : g = f
        BY Zenon DEF Resident, PframeInv, OneFrame
      <4>2. Cardinality({f}) = 1
        BY Zenon, FS_Singleton
      <4>3. Resident(k) = {f}
        BY Zenon, <3>3, <4>1
      <4>. QED BY <4>2, <4>3
    <3>. QED BY Zenon, <3>2, <3>3
  <2>. QED BY <2>1, <2>3, <2>4 DEF FramesAgree
<1>. QED BY <1>1, PframeInvariance, PTL

(* A frame is busy exactly while one thread fills, dirties or cleans it,    *)
(* and whoever sleeps on it sleeps while it is busy: every sleeper has a    *)
(* broadcast coming.                                                        *)
THEOREM EveryBusyFrameHasItsOwner == Spec => []BusyHasOwner
<1>1. PframeInv => BusyHasOwner
  <2> SUFFICES ASSUME PframeInv, NEW f \in Frame
               PROVE  LET owners == {t \in Thread : pc[t] \in Owning /\ at[t] = f}
                          busy   == frame[f] # NULL /\ frame[f].busy
                      IN /\ Cardinality(owners) = IF busy THEN 1 ELSE 0
                         /\ waitq[f] = {t \in Thread : pc[t] \in Waiting /\ at[t] = f}
                         /\ waitq[f] # {} => busy
    BY Zenon DEF BusyHasOwner
  <2> DEFINE owners == {t \in Thread : pc[t] \in Owning /\ at[t] = f}
             busy   == frame[f] # NULL /\ frame[f].busy
  <2>1. CASE busy
    <3>1. PICK t \in Thread : pc[t] \in Owning /\ at[t] = f
      BY Zenon, <2>1 DEF PframeInv, Owners
    <3>2. owners = {t}
      BY <3>1 DEF PframeInv, Owners
    <3>. QED BY ZenonT(40), <2>1, <3>2, FS_Singleton DEF PframeInv, Sleepers
  <2>2. CASE ~ busy
    <3>1. owners = {}
      BY <2>2 DEF PframeInv, Owners
    <3>2. waitq[f] = {}
      BY <2>2 DEF PframeInv, Sleepers
    <3>. QED BY ZenonT(40), <2>2, <3>1, <3>2, FS_EmptySet DEF PframeInv, Sleepers
  <2>. QED BY <2>1, <2>2
<1>. QED BY <1>1, PframeInvariance, PTL

(* No write is lost to eviction, to a failed write to the disk, to sync or  *)
(* to shutdown.                                                             *)
THEOREM WritesAlwaysSurvive == Spec => []WritesSurvive
<1>1. PframeInv => WritesSurvive
  <2> SUFFICES ASSUME PframeInv PROVE WritesSurvive
    OBVIOUS
  <2>1. NothingIsLost
    BY Zenon DEF PframeInv, Kept, NothingIsLost, Resident
  <2>2. ShutdownIsDurable
    BY Zenon DEF PframeInv, Kept, Closing, ShutdownIsDurable, FreeFrames
  <2>. QED BY <2>1, <2>2 DEF WritesSurvive
<1>. QED BY <1>1, PframeInvariance, PTL
=============================================================================
