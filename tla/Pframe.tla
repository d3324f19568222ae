------------------------------- MODULE Pframe -------------------------------
(***************************************************************************)
(* The page cache of mm/pframe.c, with the threads that meet in it: clients *)
(* that get, pin and dirty pages, the pageout daemon, and sync(2).  The     *)
(* kernel is not preemptive: a thread keeps the processor until it sleeps   *)
(* on a page's queue, on pageoutd_waitq or in a disk operation.  cpu is the *)
(* thread between two of its steps, NULL when any runnable one may go on.   *)
(*                                                                          *)
(* A key stands for an object and a page number, and its pages for those of *)
(* a file or device: filling and cleaning them block on the disk.  A frame  *)
(* is a pframe_t slot with the page it describes.  Contents are abstracted  *)
(* to whether they are what was last written to the page: fresh for a frame *)
(* (FALSE also while it is still to be filled), disk[k] for the disk.       *)
(***************************************************************************)
EXTENDS List, FiniteSets, Functions

CONSTANTS Client,      \* threads that call pframe_get
          Writer,      \* the client that dirties pages (under the fs lock)
          Pageoutd,    \* the pageout daemon's thread
          Syncer,      \* a thread that calls sync
          Key, Frame,
          TARGET,      \* nfreepages_target; nfreepages_min is 0
          NULL

Thread == Client \cup {Pageoutd, Syncer}

\* pframe_t: the page it describes, PF_BUSY, PF_DIRTY, pf_pincount, the contents.
PageFrame == [key : Key, busy : BOOLEAN, dirty : BOOLEAN, pin : Nat, fresh : BOOLEAN]

ASSUME PframeAssumption ==
    /\ Writer \in Client /\ Pageoutd \notin Client /\ Syncer \notin Client
    /\ Pageoutd # Syncer /\ IsFiniteSet(Frame) /\ IsFiniteSet(Client)
    /\ TARGET \in Nat /\ NULL \notin Thread \cup PageFrame

VARIABLES frame,       \* the PageFrame in each slot, or NULL
          alloc_list,  \* unpinned frames, least recently requested first
          nallocated, npinned,
          waitq,       \* pf_waitq of a frame slot
          pc, at,      \* what a thread is doing, and with which frame
          want,        \* the key a client waits for in pframe_get
          cpu,
          closing,     \* pframe_shutdown has begun
          disk,        \* whether the disk holds what was last written
          astray,      \* pframe_get returned a frame that is not the page's
          panic

vars == <<frame, alloc_list, nallocated, npinned, waitq, pc, at, want, cpu,
          closing, disk, astray, panic>>
lists == <<alloc_list, nallocated, npinned>>
data  == <<disk, closing>>

Init ==
    /\ frame = [f \in Frame |-> NULL] /\ waitq = [f \in Frame |-> {}]
    /\ alloc_list = <<>> /\ nallocated = 0 /\ npinned = 0
    /\ pc = [t \in Thread |-> IF t = Pageoutd THEN "out" ELSE "idle"]
    /\ at = [t \in Thread |-> NULL] /\ want = [t \in Client |-> NULL]
    /\ cpu = NULL /\ closing = FALSE /\ astray = FALSE /\ panic = NULL
    /\ disk = [k \in Key |-> TRUE]

\* t has the processor or may take it; the machine is followed until an
\* assertion fails or pframe_get has returned a wrong frame.
Runs(t) == cpu \in {NULL, t} /\ panic = NULL /\ ~ astray

FreeFrames == {f \in Frame : frame[f] = NULL}
page_free_count == Cardinality(FreeFrames)
pageoutd_needed == page_free_count = 0 /\ alloc_list # <<>>
pageoutd_target_met == page_free_count >= TARGET

Resident(k) == {f \in Frame : frame[f] # NULL /\ frame[f].key = k}

(* Mutant: the frame is not taken off the list it was on.                  *)
WithoutNone(list, f) == list

\* list_remove(&pf->pf_link); a pinned frame is on another list.
Without(list, f) == list_remove(list, f)

\* Where a thread goes on when its page's queue is woken.
Woken(s) == CASE s = "getwait" -> "getwoken" [] s = "outwait" -> "out"
              [] s = "syncwait" -> "sync" [] OTHER -> s

(* Mutant: the queue is emptied and nobody is made runnable.               *)
BroadcastNobody(f, t, next) ==
    /\ pc' = [pc EXCEPT ![t] = next]
    /\ at' = [at EXCEPT ![t] = IF next \in {"out", "sync"} THEN NULL ELSE @]
    /\ waitq' = [waitq EXCEPT ![f] = {}]

\* sched_broadcast_on(&pf->pf_waitq), with t itself going on at next.
Broadcast(f, t, next) ==
    /\ pc' = [u \in Thread |-> IF u = t THEN next
                               ELSE IF u \in waitq[f] THEN Woken(pc[u]) ELSE pc[u]]
    /\ at' = [u \in Thread |->
          IF (u = t \/ u \in waitq[f]) /\ pc'[u] \in {"out", "sync"} THEN NULL ELSE at[u]]
    /\ waitq' = [waitq EXCEPT ![f] = {}]

SleepOn(f, t, next) ==
    /\ pc' = [pc EXCEPT ![t] = next] /\ at' = [at EXCEPT ![t] = f]
    /\ waitq' = [waitq EXCEPT ![f] = @ \cup {t}]
    /\ cpu' = NULL

-----------------------------------------------------------------------------
(* pframe_get.                                                             *)

\* Resident: an unpinned page moves to the end of alloc_list.  A busy one is
\* waited for, once; a free one is the answer.
GetResident(t, k) ==
    \E f \in Resident(k) :
        /\ alloc_list' = IF frame[f].pin > 0 THEN alloc_list
                         ELSE Append(Without(alloc_list, f), f)
        /\ IF frame[f].busy
             THEN SleepOn(f, t, "getwait") /\ want' = [want EXCEPT ![t] = k]
             ELSE /\ pc' = [pc EXCEPT ![t] = "got"] /\ at' = [at EXCEPT ![t] = f]
                  /\ cpu' = t /\ UNCHANGED <<waitq, want>>
        /\ UNCHANGED <<frame, nallocated>>

\* pageoutd_wakeup, and then pageoutd_run in this very thread.
GetShort(t) ==
    /\ pc' = [u \in Thread |-> IF u = t \/ pc[u] = "parked" THEN "out" ELSE pc[u]]
    /\ cpu' = t
    /\ UNCHANGED <<frame, alloc_list, nallocated, waitq, at, want>>

\* pframe_alloc, and pframe_fill up to the disk.
GetAlloc(t, k) ==
    \E f \in FreeFrames :
        /\ frame' = [frame EXCEPT ![f] =
              [key |-> k, busy |-> TRUE, dirty |-> FALSE, pin |-> 0, fresh |-> FALSE]]
        /\ alloc_list' = Append(alloc_list, f) /\ nallocated' = nallocated + 1
        /\ waitq' = [waitq EXCEPT ![f] = {}]
        /\ pc' = [pc EXCEPT ![t] = "filling"] /\ at' = [at EXCEPT ![t] = f]
        /\ cpu' = NULL /\ UNCHANGED want

\* pframe_alloc fails: every page is pinned, or the slab of pframe_t's cannot
\* grow in fragmented memory.
GetFails(t) ==
    /\ cpu' = NULL
    /\ UNCHANGED <<frame, alloc_list, nallocated, waitq, pc, at, want>>

pframe_get(t, k) ==
    /\ Runs(t) /\ pc[t] = "idle" /\ ~ closing
    /\ \/ Resident(k) # {} /\ GetResident(t, k)
       \/ Resident(k) = {} /\ pageoutd_needed /\ GetShort(t)
       \/ Resident(k) = {} /\ ~ pageoutd_needed /\ (GetAlloc(t, k) \/ GetFails(t))
    /\ UNCHANGED <<npinned, data, astray, panic>>

\* The rest of pframe_fill.
FillDone(t) ==
    LET f == at[t]
    IN /\ Runs(t) /\ pc[t] = "filling"
       /\ frame' = [frame EXCEPT ![f].busy = FALSE, ![f].fresh = disk[frame[f].key]]
       /\ Broadcast(f, t, "got") /\ cpu' = t
       /\ UNCHANGED <<lists, want, data, astray, panic>>

\* After the sleep the frame is returned as it is, without another look-up.
GetWoken(t) ==
    /\ Runs(t) /\ pc[t] = "getwoken"
    /\ pc' = [pc EXCEPT ![t] = "got"] /\ cpu' = t
    /\ astray' = (frame[at[t]] = NULL \/ frame[at[t]].key # want[t]
                    \/ frame[at[t]].busy)
    /\ want' = [want EXCEPT ![t] = NULL]
    /\ UNCHANGED <<frame, lists, waitq, at, data, panic>>

-----------------------------------------------------------------------------
(* What clients do with a page.                                            *)

\* The client is done with a page it did not pin.
Release(t) ==
    /\ Runs(t) /\ pc[t] = "got"
    /\ pc' = [pc EXCEPT ![t] = "idle"] /\ at' = [at EXCEPT ![t] = NULL]
    /\ cpu' = NULL
    /\ UNCHANGED <<frame, lists, waitq, want, data, astray, panic>>

\* With the page pinned the client may sleep and come back to it.
pframe_pin(t) ==
    LET f == at[t]
    IN /\ Runs(t) /\ pc[t] = "got"
       /\ frame' = [frame EXCEPT ![f].pin = @ + 1] /\ npinned' = npinned + 1
       /\ alloc_list' = Without(alloc_list, f)
       /\ nallocated' = IF frame[f].pin = 0 THEN nallocated - 1 ELSE nallocated
       /\ pc' = [pc EXCEPT ![t] = "pinned"] /\ cpu' = NULL
       /\ UNCHANGED <<waitq, at, want, data, astray, panic>>

pframe_unpin(t) ==
    LET f == at[t] last1 == frame[f].pin = 1
    IN /\ Runs(t) /\ pc[t] = "pinned"
       /\ frame' = [frame EXCEPT ![f].pin = @ - 1] /\ npinned' = npinned - 1
       /\ alloc_list' = IF last1 THEN Append(alloc_list, f) ELSE alloc_list
       /\ nallocated' = IF last1 THEN nallocated + 1 ELSE nallocated
       /\ pc' = [pc EXCEPT ![t] = "idle"] /\ at' = [at EXCEPT ![t] = NULL]
       /\ cpu' = NULL
       /\ UNCHANGED <<waitq, want, data, astray, panic>>

\* pframe_dirty up to the dirtypage operation, which may block.
pframe_dirty(t) ==
    LET f == at[t]
    IN /\ Runs(t) /\ t = Writer /\ pc[t] \in {"got", "pinned"}
       /\ panic' = IF frame[f].busy THEN "pframe_dirty" ELSE NULL
       /\ frame' = [frame EXCEPT ![f].busy = TRUE]
       /\ pc' = [pc EXCEPT ![t] = IF @ = "got" THEN "dirtying" ELSE "dirtyingpin"]
       /\ cpu' = NULL
       /\ UNCHANGED <<lists, waitq, at, want, data, astray>>

\* The rest of it, and the client's write to the page.
DirtyDone(t) ==
    LET f == at[t] k == frame[f].key
    IN /\ Runs(t) /\ pc[t] \in {"dirtying", "dirtyingpin"}
       /\ frame' = [g \in Frame |->
             IF g = f THEN [frame[f] EXCEPT !.busy = FALSE, !.dirty = TRUE, !.fresh = TRUE]
             ELSE IF g \in Resident(k) THEN [frame[g] EXCEPT !.fresh = FALSE]
             ELSE frame[g]]
       /\ disk' = [disk EXCEPT ![k] = FALSE]
       /\ Broadcast(f, t, IF pc[t] = "dirtying" THEN "got" ELSE "pinned")
       /\ cpu' = t
       /\ UNCHANGED <<lists, want, closing, astray, panic>>

-----------------------------------------------------------------------------
(* Cleaning and freeing.                                                   *)

\* pframe_clean up to the disk: the dirty bit goes first.
CleanStart(t, f, next) ==
    /\ panic' = IF frame[f].pin > 0 THEN "pframe_clean" ELSE NULL
    /\ frame' = [frame EXCEPT ![f].dirty = FALSE, ![f].busy = TRUE]
    /\ pc' = [pc EXCEPT ![t] = next] /\ at' = [at EXCEPT ![t] = f] /\ cpu' = NULL
    /\ UNCHANGED <<lists, waitq>>

(* Mutant: a failed write is forgotten.                                    *)
CleanDoneForgets(t, ok) ==
    LET f == at[t]
    IN /\ Runs(t) /\ pc[t] \in {"outclean", "syncclean"}
       /\ disk' = IF ok THEN [disk EXCEPT ![frame[f].key] = frame[f].fresh] ELSE disk
       /\ frame' = [frame EXCEPT ![f].busy = FALSE]
       /\ Broadcast(f, t, IF pc[t] = "outclean" THEN "out" ELSE "sync")
       /\ cpu' = t
       /\ UNCHANGED <<lists, want, closing, astray, panic>>

\* The rest: a failed write leaves the page dirty.
CleanDone(t, ok) ==
    LET f == at[t]
    IN /\ Runs(t) /\ pc[t] \in {"outclean", "syncclean"}
       /\ disk' = IF ok THEN [disk EXCEPT ![frame[f].key] = frame[f].fresh] ELSE disk
       /\ frame' = [frame EXCEPT ![f].busy = FALSE, ![f].dirty = @ \/ ~ ok]
       /\ Broadcast(f, t, IF pc[t] = "outclean" THEN "out" ELSE "sync")
       /\ cpu' = t
       /\ UNCHANGED <<lists, want, closing, astray, panic>>

pframe_free(f) ==
    /\ panic' = IF frame[f].pin > 0 \/ frame[f].busy THEN "pframe_free" ELSE NULL
    /\ frame' = [frame EXCEPT ![f] = NULL]
    /\ alloc_list' = Without(alloc_list, f) /\ nallocated' = nallocated - 1

(* Mutant: the loop goes round while the page is busy, and never sleeps.   *)
PageoutSpins(t) ==
    LET f == Head(alloc_list)
    IN /\ Runs(t) /\ pc[t] = "out" /\ ~ pageoutd_target_met /\ alloc_list # <<>>
       /\ \/ /\ frame[f].busy /\ cpu' = t
             /\ UNCHANGED <<frame, lists, waitq, pc, at, panic>>
          \/ ~ frame[f].busy /\ frame[f].dirty /\ CleanStart(t, f, "outclean")
          \/ /\ ~ frame[f].busy /\ ~ frame[f].dirty /\ pframe_free(f)
             /\ cpu' = t /\ UNCHANGED <<npinned, waitq, pc, at>>
       /\ UNCHANGED <<want, data, astray>>

\* One turn of the loop of pageoutd_run, in the daemon or in a client.
PageoutTurn(t) ==
    LET f == Head(alloc_list)
    IN /\ Runs(t) /\ pc[t] = "out" /\ ~ pageoutd_target_met /\ alloc_list # <<>>
       /\ \/ /\ frame[f].busy /\ SleepOn(f, t, "outwait")
             /\ UNCHANGED <<frame, lists, panic>>
          \/ ~ frame[f].busy /\ frame[f].dirty /\ CleanStart(t, f, "outclean")
          \/ /\ ~ frame[f].busy /\ ~ frame[f].dirty /\ pframe_free(f)
             /\ cpu' = t /\ UNCHANGED <<npinned, waitq, pc, at>>
       /\ UNCHANGED <<want, data, astray>>

\* Then it sleeps on pageoutd_waitq, or exits if it has been cancelled.  Of the
\* threads in the loop only the daemon is.  (Nobody sleeps on alloc_waitq.)
PageoutParks(t) ==
    /\ Runs(t) /\ pc[t] = "out" /\ (pageoutd_target_met \/ alloc_list = <<>>)
    /\ pc' = [pc EXCEPT ![t] = IF closing /\ t = Pageoutd THEN "gone" ELSE "parked"]
    /\ at' = [at EXCEPT ![t] = NULL] /\ cpu' = NULL
    /\ UNCHANGED <<frame, lists, waitq, want, data, astray, panic>>

\* pframe_clean_all, from list_start to the next place it blocks.
pframe_clean_all(t) ==
    LET todo == {i \in DOMAIN alloc_list :
                   frame[alloc_list[i]].busy \/ frame[alloc_list[i]].dirty}
        First(f) == \E i \in todo : f = alloc_list[i] /\ \A j \in todo : i <= j
    IN /\ Runs(t) /\ pc[t] = "sync"
       /\ \/ \E f \in Frame :
                /\ First(f) /\ frame[f].busy /\ SleepOn(f, t, "syncwait")
                /\ UNCHANGED <<frame, lists, panic>>
          \/ \E f \in Frame :
                First(f) /\ ~ frame[f].busy /\ CleanStart(t, f, "syncclean")
          \/ /\ todo = {}
             /\ pc' = [pc EXCEPT ![t] = IF closing THEN "freeall" ELSE "idle"]
             /\ at' = [at EXCEPT ![t] = NULL]
             /\ cpu' = (IF closing THEN t ELSE NULL)
             /\ UNCHANGED <<frame, lists, waitq, panic>>
       /\ UNCHANGED <<want, data, astray>>

\* sys_sync
sys_sync(t) ==
    /\ Runs(t) /\ t = Syncer /\ pc[t] = "idle" /\ ~ closing
    /\ pc' = [pc EXCEPT ![t] = "sync"] /\ cpu' = t
    /\ UNCHANGED <<frame, lists, waitq, at, want, data, astray, panic>>

\* pframe_shutdown, in the idle process once the other processes are gone: it
\* cancels the daemon,
ShutdownStart(t) ==
    /\ Runs(t) /\ t = Syncer /\ pc[t] = "idle" /\ ~ closing
    /\ \A c \in Client : pc[c] = "idle"
    /\ closing' = TRUE
    /\ pc' = [pc EXCEPT ![t] = "reap",
                        ![Pageoutd] = IF @ = "parked" THEN "gone" ELSE @]
    /\ cpu' = NULL
    /\ UNCHANGED <<frame, lists, waitq, at, want, disk, astray, panic>>

\* waits for it, and cleans all pages;
ShutdownReap(t) ==
    /\ Runs(t) /\ pc[t] = "reap" /\ pc[Pageoutd] = "gone"
    /\ panic' = IF npinned > 0 THEN "found pinned pages" ELSE NULL
    /\ pc' = [pc EXCEPT ![t] = "sync"] /\ cpu' = t
    /\ UNCHANGED <<frame, lists, waitq, at, want, data, astray>>

\* then it frees them, from the head of the list on.
ShutdownFree(t) ==
    LET f == Head(alloc_list)
    IN /\ Runs(t) /\ pc[t] = "freeall"
       /\ \/ alloc_list # <<>> /\ pframe_free(f) /\ UNCHANGED pc
          \/ /\ alloc_list = <<>> /\ pc' = [pc EXCEPT ![t] = "done"]
             /\ UNCHANGED <<frame, alloc_list, nallocated, panic>>
       /\ UNCHANGED <<npinned, waitq, at, want, cpu, data, astray>>

\* The machine has stopped, or is no longer followed.
Halted == (pc[Syncer] = "done" \/ astray) /\ UNCHANGED vars

Next ==
    \/ \E t \in Client :
          \/ \E k \in Key : pframe_get(t, k)
          \/ FillDone(t) \/ GetWoken(t) \/ Release(t) \/ pframe_pin(t)
          \/ pframe_unpin(t) \/ pframe_dirty(t) \/ DirtyDone(t)
    \/ \E t \in Thread :
          PageoutTurn(t) \/ PageoutParks(t) \/ \E ok \in BOOLEAN : CleanDone(t, ok)
    \/ pframe_clean_all(Syncer) \/ sys_sync(Syncer) \/ ShutdownStart(Syncer)
    \/ ShutdownReap(Syncer) \/ ShutdownFree(Syncer) \/ Halted

\* The disk answers, the holder of the processor goes on to where it sleeps,
\* and a runnable thread gets the processor again and again (the run queue is
\* first in, first out).  Nobody need ask for a page, sync or shut down.
GoesOn(t) ==
    \/ t \in Client /\ (FillDone(t) \/ GetWoken(t) \/ Release(t) \/ DirtyDone(t)
                          \/ pframe_unpin(t))
    \/ PageoutTurn(t) \/ PageoutParks(t) \/ \E ok \in BOOLEAN : CleanDone(t, ok)
    \/ t = Syncer /\ (pframe_clean_all(t) \/ ShutdownReap(t) \/ ShutdownFree(t))
Fairness == \A t \in Thread : SF_vars(GoesOn(t))

Spec == Init /\ [][Next]_vars /\ Fairness

-----------------------------------------------------------------------------
(* Properties.                                                             *)

Cleaning == {"outclean", "syncclean"}
Owning   == Cleaning \cup {"filling", "dirtying", "dirtyingpin"}
Waiting  == {"getwait", "outwait", "syncwait"}

\* The state of mm/pframe.c and of its threads is well formed.
PframeTypeOK ==
    /\ frame \in [Frame -> PageFrame \cup {NULL}] /\ disk \in [Key -> BOOLEAN]
    /\ closing \in BOOLEAN /\ astray \in BOOLEAN
    /\ alloc_list \in Seq(Frame) /\ nallocated \in Nat /\ npinned \in Nat
    /\ waitq \in [Frame -> SUBSET Thread] /\ cpu \in Thread \cup {NULL}
    /\ at \in [Thread -> Frame \cup {NULL}] /\ want \in [Client -> Key \cup {NULL}]
    /\ pc \in [Thread -> Owning \cup Waiting \cup {"idle", "getwoken", "got",
                 "pinned", "out", "parked", "gone", "sync", "reap", "freeall", "done"}]

\* alloc_list holds the unpinned resident frames, each once, and the counters
\* nallocated and npinned are its length and the number of pins (which
\* pframe_shutdown asserts to be 0).
ListsAgree ==
    /\ IsInjective(alloc_list) /\ nallocated = Len(alloc_list)
    /\ Range(alloc_list) = {f \in Frame : frame[f] # NULL /\ frame[f].pin = 0}
    /\ npinned = Cardinality({t \in Client : pc[t] \in {"pinned", "dirtyingpin"}})

\* A page has one frame, however many threads ask for it while it is filled,
\* cleaned and paged out ("the (unique) page identified by 'o' and 'pagenum'").
OnePagePerKey == \A k \in Key : Cardinality(Resident(k)) <= 1

\* A frame is busy exactly while one thread is filling, dirtying or cleaning it,
\* and threads sleep on the queue of a busy frame only: the owner's broadcast is
\* still to come, and no frame is freed or reused under a sleeper.
BusyHasOwner ==
    \A f \in Frame :
        LET owners == {t \in Thread : pc[t] \in Owning /\ at[t] = f}
            busy   == frame[f] # NULL /\ frame[f].busy
        IN /\ Cardinality(owners) = IF busy THEN 1 ELSE 0
           /\ waitq[f] = {t \in Thread : pc[t] \in Waiting /\ at[t] = f}
           /\ waitq[f] # {} => busy

\* No write is lost: a filled frame holds what was last written to its page, and
\* the disk holds it too unless the frame is dirty or being cleaned.  Clearing
\* the dirty bit before the write, setting it again when the write fails and
\* paging out only clean frames are what this rests on.
NothingIsLost ==
    \A k \in Key :
        /\ Resident(k) = {} => disk[k]
        /\ \A f \in Resident(k) :
              LET By(what) == \E t \in Thread : pc[t] \in what /\ at[t] = f
              IN /\ ~ By({"filling"}) => frame[f].fresh
                 /\ ~ frame[f].dirty /\ ~ By(Cleaning) => disk[k]

\* No assertion of mm/pframe.c fails (pframe_dirty's and pframe_free's "not
\* busy", pframe_clean's "not pinned", "FOUND PINNED PAGES" at shutdown).
NoAssertionFails == panic = NULL

\* After pframe_shutdown every write is on the disk and every frame is free.
ShutdownIsDurable ==
    pc[Syncer] = "done" => (\A k \in Key : disk[k]) /\ FreeFrames = Frame

\* A thread asleep on a page's queue is woken: whoever owns the page broadcasts,
\* whether its disk operation succeeds or fails.  (Up to the point where the
\* machine is followed.)
SleepersWake ==
    \A t \in Thread : pc[t] \in Waiting ~> pc[t] \notin Waiting \/ astray

\* "the returned page will be a non-busy page that will be guaranteed to remain
\* resident until the calling context blocks": pframe_get returns the page it
\* was asked for.
GetReturnsItsPage == ~ astray

\* The structures of mm/pframe.c agree with each other and with the asserts.
FramesAgree == PframeTypeOK /\ ListsAgree /\ OnePagePerKey /\ NoAssertionFails

\* Writes survive eviction, failed writes to the disk, sync and shutdown.
WritesSurvive == NothingIsLost /\ ShutdownIsDurable
=============================================================================
