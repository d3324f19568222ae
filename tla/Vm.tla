--------------------------------- MODULE Vm ---------------------------------
(***************************************************************************)
(* The virtual memory of user processes: areas (vm/vmmap.c), memory        *)
(* objects (vm/anon.c, vm/shadow.c), the page tables, the page fault       *)
(* (vm/pagefault.c), mmap and munmap (vm/mmap.c), brk (vm/brk.c) and the   *)
(* memory part of fork (proc/fork.c).  The state is one record m:          *)
(*                                                                         *)
(*   m.map[p]    NULL, or the list vmm_list of areas of process p;         *)
(*   m.brk[p]    p_brk;                                                    *)
(*   m.obj[o]    the memory object in slot o: mmo_refcount, mmo_shadowed;  *)
(*   m.free      the free slots of the two slab allocators, in the order   *)
(*               they are handed out (a freed slot is reused first);       *)
(*   m.page[o][n] NULL, or the resident page n of object o;                *)
(*   m.pt[p][v]  NULL, or the frame virtual page v of p is mapped to;      *)
(*   m.out       what the last access returned; m.panic as in Ramfs.       *)
(*                                                                         *)
(* A page holds one value.  Addresses are virtual page numbers, except for *)
(* brk, which takes addresses of PAGE_SIZE to the page.  Page frames are   *)
(* not short here: module Pframe has eviction and blocking.                *)
(***************************************************************************)
EXTENDS Vmmap

CONSTANTS Proc, Init1,          \* process slots, and the first user process
          BssStart, BssEnd,     \* the area the loader made for the bss
          START_BRK,            \* p_start_brk, an address in that area
          PT_ENTRY_COUNT,
          Value,                \* what a user program writes
          FileByte,             \* what the mapped file holds
          MAX_ANON, MAX_SHADOW, \* slots of the two allocators
          MAX_LEN,              \* longest mapping asked for, in pages
          MAX_BRK,              \* highest break asked for
          Mapping,              \* what is mapped: <<"zero" or "file", private>>
          NULL

VARIABLE m

Page    == USER_LOW .. USER_HIGH - 1
PageNum == 0 .. USER_HIGH - USER_LOW - 1
File    == 0                                      \* the mapped file's object
Anon    == 1 .. MAX_ANON
Shadow  == MAX_ANON + 1 .. MAX_ANON + MAX_SHADOW
Obj     == {File} \cup Anon \cup Shadow

Area      == [start : Page, end : Int, off : {0}, private : BOOLEAN, obj : Obj]
PageFrame == [val : Value \cup {0, FileByte}, pin : {0, 1}]
Pte       == Obj \X PageNum

ASSUME VmAssumption ==
    /\ USER_LOW \in Nat \ {0} /\ USER_HIGH \in Nat /\ WORD \in Nat /\ MAX_LEN \in Nat
    /\ WORD > 2 * USER_HIGH /\ WORD > USER_HIGH + MAX_LEN
    /\ PAGE_SIZE \in Nat \ {0} /\ PT_ENTRY_COUNT \in Nat \ {0}
    /\ BssStart \in Page /\ BssEnd \in BssStart + 1 .. USER_HIGH - 1
    /\ START_BRK \in Nat /\ START_BRK \div PAGE_SIZE \in BssStart .. BssEnd - 1
    /\ MAX_BRK \in Nat /\ MAX_BRK < (USER_HIGH - 1) * PAGE_SIZE
    /\ Mapping \subseteq {"zero"} \X BOOLEAN \cup {<<"file", TRUE>>}
    /\ MAX_ANON \in Nat \ {0} /\ MAX_SHADOW \in Nat \ {0}
    /\ Init1 \in Proc /\ 0 \notin Value
    /\ NULL \notin Obj \cup PageFrame \cup Pte \cup Seq(Area)

Panic(k, why) == [k EXCEPT !.panic = IF @ = NULL THEN why ELSE @]

-----------------------------------------------------------------------------
(* Areas: the list itself is in module Vmmap.                              *)

\* The copy of one area; its object is the one do_fork gives it.
vmmap_clone(area, o) == [area EXCEPT !.obj = o]

-----------------------------------------------------------------------------
(* Memory objects.  slab_obj_alloc hands out the slot freed last; a slot    *)
(* that is freed keeps its contents until it is handed out again.           *)

NoObj == [ref |-> 0, shadowed |-> NULL]

anon_create(k)   == Head(k.free.anon)
shadow_create(k) == Head(k.free.shadow)

NewAnon(k) ==
    [k EXCEPT !.free.anon = Tail(@),
              !.obj[anon_create(k)] = [NoObj EXCEPT !.ref = 1]]

NewShadow(k, below) ==
    [k EXCEPT !.free.shadow = Tail(@),
              !.obj[shadow_create(k)] =
                  [NoObj EXCEPT !.ref = 1, !.shadowed = below]]

mmobj_ref(k, o) == [k EXCEPT !.obj[o].ref = @ + 1]

\* o and the objects it shadows, down to the bottom.
Chain(k, o) ==
    LET chain[x \in Obj] ==
            IF k.obj[x].shadowed = NULL THEN {x}
                                        ELSE {x} \cup chain[k.obj[x].shadowed]
    IN chain[o]

\* The first of them that has page n, else the last one.
Source(k, o, n) ==
    LET source[x \in Obj] ==
            IF k.page[x][n] # NULL \/ k.obj[x].shadowed = NULL THEN x
                                   ELSE source[k.obj[x].shadowed]
    IN source[o]

Resident(k, o) == {n \in PageNum : k.page[o][n] # NULL}
Nrespages(k, o) == Cardinality(Resident(k, o))

\* pframe_alloc: the page takes a reference to its object.
NewPage(k, o, n, val, pin) ==
    [mmobj_ref(k, o) EXCEPT !.page[o][n] =
        [val |-> val, pin |-> pin]]

\* anon_fillpage zeroes the page and pins it; a file's page comes from disk.
FillBottom(k, o, n) ==
    IF k.page[o][n] # NULL THEN k
    ELSE IF o = File       THEN NewPage(k, o, n, FileByte, 0)
    ELSE NewPage(k, o, n, 0, 1)

(* Mutant: the page is taken from the bottom object.                       *)
shadow_fill_from_bottom(k, o, n) ==
    LET src == CHOOSE x \in Chain(k, o) : k.obj[x].shadowed = NULL
        k1  == FillBottom(k, src, n)
    IN NewPage(k1, o, n, k1.page[src][n].val, 0)

\* The page comes from the first object below that has it, else from the last
\* one, which is made to have it.
shadow_fillpage(k, o, n) ==
    LET src == Source(k, k.obj[o].shadowed, n)
        k1  == FillBottom(k, src, n)
    IN NewPage(k1, o, n, k1.page[src][n].val, 0)

pframe_get(k, o, n) ==
    IF k.page[o][n] # NULL THEN k
    ELSE IF o \in Shadow   THEN shadow_fillpage(k, o, n)
    ELSE FillBottom(k, o, n)

Unpinned(k, o) ==
    [k EXCEPT !.page[o] = [n \in PageNum |->
        IF @[n] = NULL THEN NULL ELSE [@[n] EXCEPT !.pin = 0]]]

\* At the last reference besides those of its pages the object is freed, but
\* only if it has pages, and they stay.  (Cleaning its dirty pages is left to
\* module Pframe: only the kernel's own writes mark a page dirty.)
shadow_put(k, o) ==
    LET k1 == [k EXCEPT !.obj[o].ref = @ - 1]
    IN IF k1.obj[o].ref # Nrespages(k, o) \/ Resident(k, o) = {} THEN k1
       ELSE [Unpinned(k1, o) EXCEPT !.free.shadow = <<o>> \o @]

\* The pages stay with the object, so only an object without pages is freed.
anon_put(k, o) ==
    LET k1 == IF k.obj[o].ref - Nrespages(k, o) = 1 THEN Unpinned(k, o) ELSE k
        k2 == [k1 EXCEPT !.obj[o].ref = @ - 1]
    IN IF k2.obj[o].ref = 0 /\ Nrespages(k, o) = 0
         THEN [k2 EXCEPT !.free.anon = <<o>> \o @] ELSE k2

mmobj_put(k, o) == IF o \in Shadow THEN shadow_put(k, o)
                   ELSE IF o \in Anon THEN anon_put(k, o)
                   ELSE [k EXCEPT !.obj[o].ref = @ - 1]

-----------------------------------------------------------------------------
(* Mapping and unmapping.                                                  *)

vmmap_remove(k, p, lo, npages) ==
    LET hi    == lo + npages
        list  == k.map[p]
        whole == SelectSeq(list, LAMBDA a : Whole(a, lo, hi))
        put[i \in 0 .. Len(whole)] ==
            IF i = 0 THEN k ELSE mmobj_put(put[i - 1], whole[i].obj)
    IN IF \E i \in DOMAIN list : Inside(list[i], lo, hi)
         THEN Panic(k, "vmmap_remove")
         ELSE [put[Len(whole)] EXCEPT !.map[p] = Remaining(list, lo, hi)]

\* Where the bottom object comes from: vmmap_map makes an anonymous one when
\* there is no file (and refers to it twice); the mmap operation of /dev/zero
\* makes one; that of a file on disk refers to the file's own object.
Bottom(k, source) ==
    IF source = "file" THEN [k |-> mmobj_ref(k, File), obj |-> File]
    ELSE [k   |-> IF source = "none" THEN mmobj_ref(NewAnon(k), anon_create(k))
                                     ELSE NewAnon(k),
          obj |-> anon_create(k)]

\* With lopage 0 a range is looked for; otherwise what is there is removed.
vmmap_map(k, p, source, lopage, npages, private) ==
    LET lo == IF lopage = 0 THEN vmmap_find_range(k.map[p], npages, "LOHI")
                            ELSE lopage
        k0 == IF lopage # 0 /\ ~ vmmap_is_range_empty(k.map[p], lopage, npages)
                THEN vmmap_remove(k, p, lopage, npages) ELSE k
        b  == Bottom(k0, source)
        s  == shadow_create(b.k)
        k1 == IF private THEN mmobj_ref(NewShadow(b.k, b.obj), s) ELSE b.k
        area == [start |-> lo, end |-> lo + npages, off |-> 0,
                 private |-> private, obj |-> IF private THEN s ELSE b.obj]
    IN IF lo < 0 THEN k
       ELSE IF lo + npages > USER_HIGH THEN Panic(k, "vmmap_map")
       ELSE [k1 EXCEPT !.map[p] = vmmap_insert(@, area)]

do_munmap(k, p, lo, npages) == vmmap_remove(k, p, lo, npages)

\* Up to the end of the area that holds the break nothing is done, not even
\* to p_brk; beyond it a new area is mapped, one page longer than needed.
do_brk(k, p, addr) ==
    LET at  == vmmap_lookup(k.map[p], ADDR_TO_PN(k.brk[p]))
        end == k.map[p][at].end
    IN IF addr < START_BRK \/ addr > USER_HIGH * PAGE_SIZE \/ at = 0 THEN k
       ELSE IF ADDR_TO_PN(addr) < end THEN k
       ELSE [vmmap_map(k, p, "none", end,
                       ADDR_TO_PN(PAGE_ALIGN_UP(addr)) - end + 1,
                       k.map[p][at].private) EXCEPT !.brk[p] = addr]

-----------------------------------------------------------------------------
(* Page tables, the page fault, fork and exit.                             *)

\* Table(v) is the page table of virtual page v.  A range that starts inside
\* a table clears it to the end, one that ends inside a table clears it from
\* the start: too much when it is the same table.
Table(v) == v \div PT_ENTRY_COUNT
Slot(v)  == v % PT_ENTRY_COUNT

(* Mutant: the parent keeps its mappings over a fork.                      *)
pt_unmap_nothing(pt, lo, hi) == pt

pt_unmap_range(pt, lo, hi) ==
    LET first == IF Slot(lo) = 0 THEN Table(lo) ELSE Table(lo) + 1
        clear == {v \in Page :
                    \/ Table(v) = Table(lo) /\ Slot(lo) # 0 /\ Slot(v) >= Slot(lo)
                    \/ Table(v) = Table(hi) /\ Slot(hi) # 0 /\ Slot(v) < Slot(hi)
                    \/ first <= Table(v) /\ Table(v) < Table(hi)}
    IN [v \in Page |-> IF v \in clear THEN NULL ELSE pt[v]]

PageOf(area, v) == v - area.start + area.off

AreaAt(k, p, v) == k.map[p][vmmap_lookup(k.map[p], v)]
IsMapped(k, p, v) == vmmap_lookup(k.map[p], v) # 0

\* Reads and writes fault alike, and the page is always mapped writable.
handle_pagefault(k, p, v) ==
    LET a == AreaAt(k, p, v)
    IN [pframe_get(k, a.obj, PageOf(a, v)) EXCEPT
           !.pt[p][v] = <<a.obj, PageOf(a, v)>>]

Touched(k, p, v) == IF k.pt[p][v] # NULL THEN k ELSE handle_pagefault(k, p, v)

UserRead(k, p, v) ==
    LET k1 == Touched(k, p, v) f == k1.pt[p][v]
    IN [k1 EXCEPT !.out = k1.page[f[1]][f[2]].val]

UserWrite(k, p, v, x) ==
    LET k1 == Touched(k, p, v) f == k1.pt[p][v]
    IN [k1 EXCEPT !.page[f[1]][f[2]].val = x]

\* The kernel reaches user memory through the area, not the page table.
vmmap_read(k, p, v) ==
    LET a == AreaAt(k, p, v) k1 == pframe_get(k, a.obj, PageOf(a, v))
    IN [k1 EXCEPT !.out = k1.page[a.obj][PageOf(a, v)].val]

(* Mutant: what is below a shadow object is written in place.              *)
vmmap_write_below(k, p, v, x) ==
    LET a  == AreaAt(k, p, v)
        o  == IF a.obj \in Shadow THEN k.obj[a.obj].shadowed ELSE a.obj
        k1 == pframe_get(k, o, PageOf(a, v))
    IN [k1 EXCEPT !.page[o][PageOf(a, v)].val = x]

vmmap_write(k, p, v, x) ==
    LET a == AreaAt(k, p, v) k1 == pframe_get(k, a.obj, PageOf(a, v))
    IN [k1 EXCEPT !.page[a.obj][PageOf(a, v)].val = x]

\* Of a private area both sides get a shadow object over the parent's old
\* one, which takes no reference for it; a shared area keeps its object.
ForkArea(k, p, c, i) ==
    LET a  == k.map[p][i]
        cs == shadow_create(k)
        k1 == NewShadow(k, a.obj)
        ps == shadow_create(k1)
    IN IF a.private
         THEN [NewShadow(k1, a.obj) EXCEPT
                 !.map[c] = Append(@, vmmap_clone(a, cs)), !.map[p][i].obj = ps,
                 !.pt[p] = pt_unmap_range(@, a.start, a.end)]
         ELSE [k EXCEPT !.map[c] = Append(@, vmmap_clone(a, a.obj))]

do_fork(k, p, c) ==
    LET forked[i \in 0 .. Len(k.map[p])] ==
            IF i > 0 THEN ForkArea(forked[i - 1], p, c, i)
            ELSE [k EXCEPT !.map[c] = <<>>, !.brk[c] = k.brk[p],
                           !.pt[c] = [v \in Page |-> NULL]]
    IN forked[Len(k.map[p])]

\* vmmap_destroy drops the areas and puts no object.
proc_cleanup_vm(k, p) == [k EXCEPT !.map[p] = NULL]

-----------------------------------------------------------------------------
(* The machine.                                                            *)

Init == m =
    [map   |-> [p \in Proc |-> IF p # Init1 THEN NULL ELSE
                  <<[start |-> BssStart, end |-> BssEnd, off |-> 0,
                     private |-> TRUE, obj |-> MAX_ANON + 1]>>],
     brk   |-> [p \in Proc |-> START_BRK],
     obj   |-> [o \in Obj |->
                  IF o = 1 THEN [NoObj EXCEPT !.ref = 2]
                  ELSE IF o = MAX_ANON + 1
                    THEN [ref |-> 2, shadowed |-> 1]
                  ELSE IF o = File THEN [NoObj EXCEPT !.ref = 1] ELSE NoObj],
     free  |-> [anon   |-> [i \in 1 .. MAX_ANON - 1 |-> i + 1],
                shadow |-> [i \in 1 .. MAX_SHADOW - 1 |-> MAX_ANON + 1 + i]],
     page  |-> [o \in Obj |-> [n \in PageNum |-> NULL]],
     pt    |-> [p \in Proc |-> [v \in Page |-> NULL]],
     out   |-> NULL,
     panic |-> NULL]

Alive(p) == m.panic = NULL /\ m.map[p] # NULL

Quiet    == [m EXCEPT !.out = NULL]

\* Slots left for n new shadow objects.
Room(n) == Len(m.free.shadow) >= n
Privates(list) == Cardinality({i \in DOMAIN list : list[i].private})

Mmap(p) ==
    /\ Alive(p)
    /\ \E x \in Mapping, n \in 1 .. MAX_LEN :
          /\ m.free.anon # <<>> /\ Room(1)
          /\ m' = vmmap_map(Quiet, p, x[1], 0, n, x[2])

\* The break grows where nothing is mapped, short of the last page.
Brk(p) ==
    /\ Alive(p) /\ m.free.anon # <<>> /\ Room(1)
    /\ \E addr \in START_BRK .. MAX_BRK :
          /\ \A v \in Page : v <= ADDR_TO_PN(PAGE_ALIGN_UP(addr)) =>
                \A i \in DOMAIN m.map[p] : Covers(m.map[p][i], v) =>
                    m.map[p][i].start <= ADDR_TO_PN(m.brk[p])
          /\ m' = do_brk(Quiet, p, addr)

Read(p) ==
    /\ Alive(p)
    /\ \E v \in Page : IsMapped(m, p, v) /\ m' = UserRead(m, p, v)

Write(p) ==
    /\ Alive(p)
    /\ \E v \in Page, x \in Value :
          IsMapped(m, p, v) /\ m' = UserWrite(Quiet, p, v, x)

CopyFromUser(p) ==
    /\ Alive(p)
    /\ \E v \in Page : IsMapped(m, p, v) /\ m' = vmmap_read(m, p, v)

CopyToUser(p) ==
    /\ Alive(p)
    /\ \E v \in Page, x \in Value :
          IsMapped(m, p, v) /\ m' = vmmap_write(Quiet, p, v, x)

Fork(p, c) ==
    /\ Alive(p) /\ m.map[c] = NULL /\ Room(2 * Privates(m.map[p]))
    /\ m' = do_fork(Quiet, p, c)

\* Also what a fault outside every area comes to.
Exit(p) == Alive(p) /\ m' = proc_cleanup_vm(Quiet, p)

Munmap(p) ==
    /\ Alive(p)
    /\ \E v \in Page, n \in 1 .. MAX_LEN : m' = do_munmap(Quiet, p, v, n)

UserStep(p) ==
    \/ Mmap(p) \/ Brk(p) \/ Read(p) \/ Write(p)
    \/ CopyFromUser(p) \/ CopyToUser(p) \/ Exit(p)
    \/ \E c \in Proc : Fork(p, c)

Next == \E p \in Proc : UserStep(p)
Spec == Init /\ [][Next]_m

NextMunmap == Next \/ \E p \in Proc : Munmap(p)
SpecMunmap == Init /\ [][NextMunmap]_m

-----------------------------------------------------------------------------
(* Properties.                                                             *)

LivePtes == {x \in Proc \X Page : m.map[x[1]] # NULL /\ m.pt[x[1]][x[2]] # NULL}

\* Every part of the state has its shape: areas lie in user memory and have
\* an object, objects and page table entries refer to slots and pages.
VmTypeOK ==
    /\ m \in [map   : [Proc -> Seq(Area) \cup {NULL}],
             brk   : [Proc -> Nat],
             obj   : [Obj -> [ref : Nat, shadowed : Obj \cup {NULL}]],
             free  : [anon : Seq(Anon), shadow : Seq(Shadow)],
             page  : [Obj -> [PageNum -> PageFrame \cup {NULL}]],
             pt    : [Proc -> [Page -> Pte \cup {NULL}]],
             out   : Value \cup {0, FileByte, NULL},
             panic : {NULL, "vmmap_map", "vmmap_remove"}]
    /\ \A p \in Proc : m.map[p] # NULL => \A i \in DOMAIN m.map[p] :
          m.map[p][i].end \in m.map[p][i].start + 1 .. USER_HIGH

\* The list of areas of a process stays sorted and without overlap through
\* every insertion of vmmap_map at the place vmmap_find_range found: the
\* lookup by first match and the gap scan both rely on it.
AreasAreSorted ==
    \A p \in Proc : m.map[p] # NULL =>
        \A i, j \in DOMAIN m.map[p] : i < j => m.map[p][i].end <= m.map[p][j].start

\* A page table entry of a running process names the very page that a fault
\* at that address would find now: pt_unmap_range took away all the entries
\* that fork made stale when it put new shadow objects on top.
PtesAreCurrent ==
    \A x \in LivePtes :
        /\ IsMapped(m, x[1], x[2])
        /\ LET a == AreaAt(m, x[1], x[2]) f == m.pt[x[1]][x[2]]
           IN f = <<a.obj, PageOf(a, x[2])>> /\ m.page[f[1]][f[2]] # NULL

\* An object someone can reach, through an area of a live process or through
\* the shadow chain of one, is not in the allocators' free lists, and holds
\* one reference for each of its pages and at least one more.
ReachableIsHeld ==
    LET areas == {x \in Proc \X (1 .. 2 * MAX_ANON) :
                    m.map[x[1]] # NULL /\ x[2] \in DOMAIN m.map[x[1]]}
        free  == Range(m.free.anon) \cup Range(m.free.shadow)
    IN \A x \in areas : \A o \in Chain(m, m.map[x[1]][x[2]].obj) :
          o \notin free /\ m.obj[o].ref > Nrespages(m, o)

\* A page below a shadow object that has its own copy, or below two of them,
\* is never written again: what a process sees of it is settled at fork.
FrozenBelow ==
    [][\A o \in Obj : (\E s \in Shadow : m.obj[s].ref > 0 /\ m.obj[s].shadowed = o) =>
          \A n \in Resident(m, o) : m'.page[o][n].val = m.page[o][n].val]_m

\* No assertion of the memory code fails and no address it uses is bad.
NoPanic == m.panic = NULL

\* The structures of the memory code agree: areas, objects, page tables.
MappingsAreSound ==
    VmTypeOK /\ AreasAreSorted /\ PtesAreCurrent /\ ReachableIsHeld /\ NoPanic

-----------------------------------------------------------------------------
(* The refinement: what a process sees of page v is the frame its page     *)
(* table gives, else what a fault would find: the first object of the chain *)
(* that has the page, else the bottom object's initial contents.  Module    *)
(* MCVm compares it with module Memory.                                     *)

Contents(k, x, n) == IF k.page[x][n] # NULL THEN k.page[x][n].val
                     ELSE IF x = File       THEN FileByte ELSE 0
FirstIn(k, o, n) == Contents(k, Source(k, o, n), n)

Seen(k, a, v, f) ==
    [val   |-> IF f # NULL THEN k.page[f[1]][f[2]].val
                           ELSE FirstIn(k, a.obj, PageOf(a, v)),
     share |-> IF a.private THEN NULL ELSE <<a.obj, PageOf(a, v)>>]

Mapped(list) == UNION {list[i].start .. list[i].end - 1 : i \in DOMAIN list}

MemoryOf(k) ==
    [p \in Proc |-> IF k.map[p] = NULL THEN NULL ELSE
        [v \in Mapped(k.map[p]) |-> Seen(k, AreaAt(k, p, v), v, k.pt[p][v])]]
=============================================================================
