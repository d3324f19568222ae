-------------------------------- MODULE MCVm --------------------------------
(* A small address space for module Vm, and its refinement of module       *)
(* Memory.  view is MemoryOf(m), kept in a variable so that TLC computes *)
(* it once for each state.                                                 *)
EXTENDS Vm

\* brk makes private anonymous areas, so these are the two other kinds.
MCMapping == {<<"zero", FALSE>>, <<"file", TRUE>>}

VARIABLE view

MCInit == Init /\ view = MemoryOf(m)
MCNext == Next /\ view' = MemoryOf(m')
MCSpec == MCInit /\ [][MCNext]_<<m, view>>

MCNextMunmap == NextMunmap /\ view' = MemoryOf(m')
MCSpecMunmap == MCInit /\ [][MCNextMunmap]_<<m, view>>

Promise == INSTANCE Memory
    WITH Fresh <- {0, FileByte}, mem <- view, out <- m.out

\* Areas, shadow chains, page tables and faults together implement plain
\* memory: new pages are fresh, a write is seen by those who share the page
\* and by nobody else, and a forked child has its parent's memory as it was
\* at the fork whatever either does afterwards.
ImplementsMemory == Promise!Spec
=============================================================================
