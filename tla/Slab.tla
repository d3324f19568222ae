-------------------------------- MODULE Slab --------------------------------
(***************************************************************************)
(* The slab allocator and kmalloc of mm/slab.c over the page allocator.    *)
(* A slab is a block of pages cut into objects; its struct slab and the    *)
(* bufctl behind each object live in the block too.  An object is          *)
(* <<slab address, index>>.  When no block is left the page allocator      *)
(* reclaims the unused slabs and fails all the same (page.c, the retry is  *)
(* compiled in with __SHADOWD__ only).                                     *)
(*                                                                         *)
(* The kernel is not preemptible and nothing here blocks, so an operation  *)
(* is one step.  The clients' pages and objects are kept in two history    *)
(* variables, from which they free what they were given.                   *)
(***************************************************************************)
EXTENDS Buddy

CONSTANTS
  Cache,            \* the slab allocators
  Meta,             \* slab_allocator_allocator, among them
  KmallocCache,     \* kmalloc_allocators: a sequence of caches, smallest first
  KMALLOC_SIZE,     \* cache -> 1 << order, for the caches of KmallocCache
  CreateSizes,      \* object sizes slab_allocator_create is called with
  PAGE_SIZE, SizeofSlab, SizeofBufctl, SizeofRedzone, SizeofPtr, SizeofAllocator,
  SLAB_MAX_ORDER,
  PageRequests,     \* numbers of pages that page_alloc_n is called with
  KmallocSizes      \* sizes that kmalloc is called with

VARIABLES
  pg,               \* the page group
  slab_allocators,  \* the list of initialized caches, newest first
  sa,               \* cache -> [sa_objsize, sa_order, sa_slab_nobjs, sa_slabs]
  blocks,           \* history: the <<address, order>> clients hold
  objs              \* history: the [cache, obj, bytes] clients hold (bytes: asked of kmalloc)

slabvars == <<pg, slab_allocators, sa, blocks, objs>>

-----------------------------------------------------------------------------
(* Geometry.                                                                *)

slab_size(objsize, nobjs) == nobjs * (objsize + SizeofBufctl) + SizeofSlab
slab_nobjs(objsize, k) ==
  (PAGE_SIZE * BlockSize(k) - SizeofSlab) \div (objsize + SizeofBufctl)
slab_waste(objsize, k) == PAGE_SIZE * BlockSize(k) - slab_size(objsize, slab_nobjs(objsize, k))

(* _calc_slab_size: from the smallest order that holds one object, the      *)
(* first order below SLAB_MAX_ORDER that wastes least.                      *)
MinOrder(objsize) == Min({k \in Order : PAGE_SIZE * BlockSize(k) >= slab_size(objsize, 1)})
calc_slab_size(objsize) ==
  LET lo == MinOrder(objsize)
  IN  FoldLeft(LAMBDA best, k : IF slab_waste(objsize, k) < slab_waste(objsize, best)
                                  THEN k ELSE best,
               lo, [i \in 1 .. SLAB_MAX_ORDER - 1 - lo |-> lo + i])

allocator_init(size) ==
  LET objsize == size + 2 * SizeofRedzone
      k == calc_slab_size(objsize)
  IN  [sa_objsize |-> objsize, sa_order |-> k,
       sa_slab_nobjs |-> slab_nobjs(objsize, k), sa_slabs |-> <<>>]

-----------------------------------------------------------------------------
(* Operations on st = [pg, sa], each returning [st, val].                   *)

(* slab_allocators_reclaim(0): the slabs without objects give their pages   *)
(* back, cache by cache in the order of the two lists.                      *)
ReclaimCache(st, c) ==
  [pg |-> FoldLeft(LAMBDA g, s : page_free_order(g, s.s_addr, st.sa[c].sa_order),
                   st.pg, SelectSeq(st.sa[c].sa_slabs, LAMBDA s : s.s_inuse = 0)),
   sa |-> [st.sa EXCEPT ![c].sa_slabs = SelectSeq(@, LAMBDA s : s.s_inuse # 0)]]
slab_allocators_reclaim(st, list) == FoldLeft(ReclaimCache, st, list)

Got(st, r) == [st |-> [st EXCEPT !.pg = r.pg], val |-> r.addr]
PageAllocOrder(st, list, k) ==
  IF CanAlloc(st.pg, k)
    THEN Got(st, page_alloc_order(st.pg, k))
    ELSE [st |-> slab_allocators_reclaim(st, list), val |-> NULL]
PageAllocN(st, list, npages) == PageAllocOrder(st, list, OrderFor(npages))

NewSlab(addr, nobjs) ==
  [s_addr |-> addr, s_inuse |-> 0, s_free |-> [i \in 1 .. nobjs |-> i - 1]]
Grown(r, c) ==
  IF r.val = NULL THEN r
  ELSE [r EXCEPT !.st.sa[c].sa_slabs = <<NewSlab(r.val, r.st.sa[c].sa_slab_nobjs)>> \o @]
slab_allocator_grow(st, list, c) ==
  Grown(PageAllocN(st, list, BlockSize(st.sa[c].sa_order)), c)

Roomy(st, c) ==
  {i \in DOMAIN st.sa[c].sa_slabs : st.sa[c].sa_slabs[i].s_inuse < st.sa[c].sa_slab_nobjs}

TakeFrom(st, c, i) ==
  [st |-> [st EXCEPT !.sa[c].sa_slabs[i].s_free = Tail(@),
                     !.sa[c].sa_slabs[i].s_inuse = @ + 1],
   val |-> <<st.sa[c].sa_slabs[i].s_addr, Head(st.sa[c].sa_slabs[i].s_free)>>]
TakeObj(r, c) == IF r.val = NULL THEN r ELSE TakeFrom(r.st, c, Min(Roomy(r.st, c)))

ObjAlloc(st, list, c) ==
  TakeObj(IF Roomy(st, c) # {} THEN [st |-> st, val |-> 0]
                               ELSE slab_allocator_grow(st, list, c), c)

ObjFree(st, c, o) ==
  LET i == CHOOSE i \in DOMAIN st.sa[c].sa_slabs : st.sa[c].sa_slabs[i].s_addr = o[1]
  IN  [st EXCEPT !.sa[c].sa_slabs[i].s_free = <<o[2]>> \o @,
                 !.sa[c].sa_slabs[i].s_inuse = @ - 1]

(* kmalloc stores the cache in front of the caller's bytes and takes the    *)
(* first cache that holds both; too large a size is a panic.                *)
KmallocFits(bytes) ==
  {i \in DOMAIN KmallocCache : KMALLOC_SIZE[KmallocCache[i]] >= bytes + SizeofPtr}

-----------------------------------------------------------------------------
Created(boot, r, c, size) ==
  [st |-> [r.st EXCEPT !.sa[c] = allocator_init(size)],
   list |-> <<c>> \o boot.list,
   objs |-> boot.objs \cup {[cache |-> Meta, obj |-> r.val, bytes |-> 0]}]
Create(boot, c, size) == Created(boot, ObjAlloc(boot.st, boot.list, Meta), c, size)

(* slab_init, after page_add_range.                                         *)
Booted ==
  FoldLeft(LAMBDA boot, c : Create(boot, c, KMALLOC_SIZE[c]),
           [st |-> [pg |-> pagegroup_create,
                    sa |-> [c \in Cache |-> allocator_init(SizeofAllocator)]],
            list |-> <<Meta>>, objs |-> {}],
           KmallocCache)

SlabInit ==
  \E boot \in {Booted} :
    /\ pg = boot.st.pg
    /\ sa = boot.st.sa
    /\ slab_allocators = boot.list
    /\ blocks = {}
    /\ objs = boot.objs

Mem == [pg |-> pg, sa |-> sa]
Becomes(st) == pg' = st.pg /\ sa' = st.sa
Given(c, o, bytes) ==
  objs' = IF o = NULL THEN objs ELSE objs \cup {[cache |-> c, obj |-> o, bytes |-> bytes]}

page_alloc_n(n) ==
  \E r \in {PageAllocN(Mem, slab_allocators, n)} :
    /\ HasOrder(n)
    /\ Becomes(r.st)
    /\ blocks' = IF r.val = NULL THEN blocks ELSE blocks \cup {<<r.val, OrderFor(n)>>}
    /\ UNCHANGED <<slab_allocators, objs>>

page_free_n(b) ==
  /\ b \in blocks
  /\ pg' = page_free_order(pg, b[1], b[2])
  /\ blocks' = blocks \ {b}
  /\ UNCHANGED <<slab_allocators, sa, objs>>

slab_allocator_create(c, size) ==
  \E r \in {ObjAlloc(Mem, slab_allocators, Meta)} :
    /\ c \notin Range(slab_allocators)
    /\ Given(Meta, r.val, 0)
    /\ IF r.val = NULL
         THEN Becomes(r.st) /\ UNCHANGED slab_allocators
         ELSE /\ Becomes([r.st EXCEPT !.sa[c] = allocator_init(size)])
              /\ slab_allocators' = <<c>> \o slab_allocators
    /\ UNCHANGED blocks

slab_obj_alloc(c) ==
  \E r \in {ObjAlloc(Mem, slab_allocators, c)} :
    /\ c \in Range(slab_allocators) \ ({Meta} \cup Range(KmallocCache))
    /\ Becomes(r.st)
    /\ Given(c, r.val, 0)
    /\ UNCHANGED <<slab_allocators, blocks>>

kmalloc(bytes) ==
  /\ KmallocFits(bytes) # {}
  /\ \E c \in {KmallocCache[Min(KmallocFits(bytes))]} :
       \E r \in {ObjAlloc(Mem, slab_allocators, c)} :
         /\ Becomes(r.st)
         /\ Given(c, r.val, bytes)
         /\ UNCHANGED <<slab_allocators, blocks>>

(* slab_obj_free, and kfree, which finds the cache in front of the bytes.   *)
slab_obj_free(x) ==
  /\ x \in objs /\ x.cache # Meta
  /\ \E st \in {ObjFree(Mem, x.cache, x.obj)} : Becomes(st)
  /\ objs' = objs \ {x}
  /\ UNCHANGED <<slab_allocators, blocks>>

SlabNext ==
  \/ \E n \in PageRequests : page_alloc_n(n)
  \/ \E b \in blocks : page_free_n(b)
  \/ \E c \in Cache, size \in CreateSizes : slab_allocator_create(c, size)
  \/ \E c \in Cache : slab_obj_alloc(c)
  \/ \E bytes \in KmallocSizes : kmalloc(bytes)
  \/ \E x \in objs : slab_obj_free(x)

SlabSpec == SlabInit /\ [][SlabNext]_slabvars

-----------------------------------------------------------------------------
(* The slabs of the initialized caches, as blocks of pages.                 *)
SlabBlocks ==
  UNION {{<<sa[c].sa_slabs[i].s_addr, sa[c].sa_order>> : i \in DOMAIN sa[c].sa_slabs} : c \in Cache}

(* The type of the allocators' state.                                       *)
SlabTypeOK ==
  /\ GroupTypeOK(pg)
  /\ IsInjective(slab_allocators) /\ Range(slab_allocators) \subseteq Cache
  /\ \A c \in Cache : \A i \in DOMAIN sa[c].sa_slabs :
       LET s == sa[c].sa_slabs[i]
       IN  s.s_addr \in Page /\ s.s_inuse \in 0 .. sa[c].sa_slab_nobjs
  /\ \A b \in blocks : b[1] \in Page /\ b[2] \in Order
  /\ \A x \in objs : x.cache \in Cache /\ x.obj[1] \in Page

(* Every page is in exactly one free block, client's block or slab: nothing *)
(* that page_alloc_n, page_free_n and the reclaim of slabs do loses a page  *)
(* or hands it out twice (page.c, __page_split and __page_join).            *)
PagesAreAccounted ==
  /\ NoDuplicates(pg)
  /\ FreeBlocks(pg) \cap (blocks \cup SlabBlocks) = {}
  /\ blocks \cap SlabBlocks = {}
  /\ Cardinality(SlabBlocks) =
       FoldFunction(LAMBDA a, n : Len(a.sa_slabs) + n, 0, sa)
  /\ Tiles(FreeBlocks(pg) \cup blocks \cup SlabBlocks)

(* The bitmaps say which buddies may be joined: a bit is set when exactly   *)
(* one half is free, and two free halves are always joined (pg_map,         *)
(* __page_join).                                                            *)
BuddiesAreTracked == PairsAreTracked(pg)

(* page_free_count() is the number of pages on the free lists, splits and   *)
(* joins included.                                                          *)
FreeCountIsExact == pg.page_freecount = Cardinality(FreePages(pg))

(* Every object of a slab is on its free list or with one client, s_inuse   *)
(* counts the latter, and a slab some client's object lies in is never      *)
(* reclaimed (slab_obj_alloc, slab_obj_free, slab_allocators_reclaim).      *)
ObjectsAreAccounted ==
  /\ \A c \in Cache : \A i \in DOMAIN sa[c].sa_slabs :
       LET s == sa[c].sa_slabs[i]
           live == {x.obj[2] : x \in {y \in objs : y.cache = c /\ y.obj[1] = s.s_addr}}
       IN  /\ IsInjective(s.s_free)
           /\ live \cap Range(s.s_free) = {}
           /\ live \cup Range(s.s_free) = 0 .. sa[c].sa_slab_nobjs - 1
           /\ s.s_inuse = Cardinality(live)
  /\ \A x \in objs : \E i \in DOMAIN sa[x.cache].sa_slabs :
       sa[x.cache].sa_slabs[i].s_addr = x.obj[1]
  /\ \A x, y \in objs : x.cache = y.cache /\ x.obj = y.obj => x = y

(* What is laid out in a slab fits in its pages, and what kmalloc was asked *)
(* for fits in the object with the cache pointer in front of it and outside *)
(* the red zones (_calc_slab_size, kmalloc).                                *)
ObjectsFit ==
  /\ \A c \in Cache :
       /\ sa[c].sa_slab_nobjs > 0
       /\ slab_size(sa[c].sa_objsize, sa[c].sa_slab_nobjs) <= PAGE_SIZE * BlockSize(sa[c].sa_order)
  /\ \A x \in objs :
       x.bytes > 0 => x.bytes + SizeofPtr + 2 * SizeofRedzone <= sa[x.cache].sa_objsize

(* A request fails only after every slab without objects was given back to  *)
(* the page allocator (_page_split calls slab_allocators_reclaim).          *)
FailureReclaimsAll ==
  \A n \in PageRequests :
    LET r == PageAllocN(Mem, slab_allocators, n)
    IN  r.val = NULL =>
          \A c \in Cache : \A i \in DOMAIN r.st.sa[c].sa_slabs : r.st.sa[c].sa_slabs[i].s_inuse > 0
=============================================================================
