------------------------------- MODULE Buddy -------------------------------
(***************************************************************************)
(* The page allocator of mm/page.c: power-of-two blocks of pages, one free *)
(* list per order, and one bit per pair of buddies that is set when        *)
(* exactly one of the two is free.  The kernel adds a single range at boot *)
(* (mm/pagetable.c), so there is one page group; pages are numbered from   *)
(* its base address and PAGE_SIZE is the unit of length.                   *)
(*                                                                         *)
(* The operators work on the group as a value, pg = [pg_freelist, pg_map,  *)
(* page_freecount], because the slab allocator above calls them several    *)
(* times in one operation.                                                 *)
(***************************************************************************)
EXTENDS Naturals, Sequences, FiniteSets, SequencesExt, FiniteSetsExt

CONSTANTS
  PAGE_NSIZES,   \* number of orders
  NPAGES,        \* pages between pg_baseaddr and pg_endaddr
  NULL

Order == 0 .. PAGE_NSIZES - 1
TopOrder == PAGE_NSIZES - 1
Page == 0 .. NPAGES - 1
BlockSize(k) == 2 ^ k
Pages(a, k) == a .. a + BlockSize(k) - 1

(* The other half of the block of order k + 1 that a is in.                 *)
BuddyOf(a, k) == IF (a \div BlockSize(k)) % 2 = 1 THEN a - BlockSize(k) ELSE a + BlockSize(k)

(* Pages past the last whole block of the top order go into the smaller    *)
(* buckets, taken from the end downwards in increasing order of size.       *)
TailStart(k) == NPAGES - (NPAGES % BlockSize(k + 1))
InTail(k) == (NPAGES \div BlockSize(k)) % 2 = 1

pagegroup_create ==
  LET blocks == (NPAGES \div BlockSize(TopOrder))
  IN  [pg_freelist |->
         [k \in Order |->
            IF k = TopOrder
              THEN [i \in 1 .. blocks |-> (blocks - i) * BlockSize(k)]
              ELSE IF InTail(k) THEN <<TailStart(k)>> ELSE <<>>],
       pg_map |-> [k \in Order \ {0} |-> [i \in 0 .. NPAGES \div BlockSize(k) |-> 0]],
       page_freecount |-> NPAGES]

pagegroup_calculate_index(k, a) == a \div BlockSize(k)

BitFlip(pg, k, a) ==
  [pg EXCEPT !.pg_map[k][pagegroup_calculate_index(k, a)] = 1 - @]

(* Every change of a block of order k below the top is recorded in the bit  *)
(* of its pair, which is kept with the order above.                         *)
FlipPair(pg, k, a) == IF k < TopOrder THEN BitFlip(pg, k + 1, a) ELSE pg

PushFree(pg, k, a) == [pg EXCEPT !.pg_freelist[k] = <<a>> \o @]
PopFree(pg, k) == [pg EXCEPT !.pg_freelist[k] = Tail(@)]

(* page_split_one: the first block of order k becomes two of order k - 1.     *)
Halve(pg, k, target) ==
  PushFree(PushFree(FlipPair(PopFree(pg, k), k, target), k - 1, target),
           k - 1, target + BlockSize(k - 1))
page_split_one(pg, k) == Halve(pg, k, Head(pg.pg_freelist[k]))

(* page_split: the smallest larger block, split down to the order wanted.  *)
Larger(pg, k) == {n \in Order : n > k /\ pg.pg_freelist[n] # <<>>}

SplitFrom(pg, n, k) == FoldLeft(page_split_one, pg, [i \in 1 .. n - k |-> n + 1 - i])
page_split(pg, k) == SplitFrom(pg, Min(Larger(pg, k)), k)

CanAlloc(pg, k) == pg.pg_freelist[k] # <<>> \/ Larger(pg, k) # {}

(* page_alloc_order, when a block can be found: the group that is left and *)
(* the address returned.                                                    *)
TakeBlock(pg, k, a) ==
  [pg |-> [FlipPair(PopFree(pg, k), k, a) EXCEPT !.page_freecount = @ - BlockSize(k)],
   addr |-> a]
TakeFirst(pg, k) == TakeBlock(pg, k, Head(pg.pg_freelist[k]))
page_alloc_order(pg, k) ==
  TakeFirst(IF pg.pg_freelist[k] # <<>> THEN pg ELSE page_split(pg, k), k)

(* Mutant: only the lower half leaves its free list.                       *)
UnlinkedLower(pg, k, pair) ==
  [pg EXCEPT !.pg_freelist[k] = SelectSeq(@, LAMBDA a : a # Min(pair))]

(* page_join: as long as the pair's bit is clear both halves are free and *)
(* they become one block of the next order.                                 *)
Unlinked(pg, k, pair) ==
  [pg EXCEPT !.pg_freelist[k] = SelectSeq(@, LAMBDA a : a \notin pair)]
Whole(pg, k, a) == FlipPair(PushFree(pg, k, a), k, a)
Joined(pg, k, pair) == Whole(Unlinked(pg, k, pair), k + 1, Min(pair))

JoinOnce(s, k) ==
  IF s.stop \/ s.pg.pg_map[k + 1][pagegroup_calculate_index(k + 1, s.addr)] = 1
    THEN [s EXCEPT !.stop = TRUE]
    ELSE [s EXCEPT !.pg = Joined(@, k, {s.addr, BuddyOf(s.addr, k)}),
                   !.addr = Min({@, BuddyOf(@, k)})]

page_join(pg, k, a) ==
  FoldLeft(JoinOnce, [pg |-> pg, addr |-> a, stop |-> FALSE],
           [i \in 1 .. TopOrder - k |-> k + i - 1]).pg

page_free_order(pg, a, k) ==
  LET freed == [PushFree(pg, k, a) EXCEPT !.page_freecount = @ + BlockSize(k)]
  IN  page_join(FlipPair(freed, k, a), k, a)

(* page_alloc_n and page_free_n round the size up to an order; a size that  *)
(* no order holds is a panic.                                               *)
OrderFor(npages) == Min({k \in Order : BlockSize(k) >= npages})
HasOrder(npages) == \E k \in Order : BlockSize(k) >= npages

-----------------------------------------------------------------------------
(* What the structure means.                                                *)

GroupTypeOK(pg) ==
  /\ DOMAIN pg = {"pg_freelist", "pg_map", "page_freecount"}
  /\ \A k \in Order : pg.pg_freelist[k] \in Seq(Nat)
  /\ \A k \in Order \ {0} : \A i \in DOMAIN pg.pg_map[k] : pg.pg_map[k][i] \in {0, 1}
  /\ pg.page_freecount \in 0 .. NPAGES

FreeBlocks(pg) ==
  UNION {{<<pg.pg_freelist[k][i], k>> : i \in DOMAIN pg.pg_freelist[k]} : k \in Order}

(* The blocks of both sets lie inside the group, no two share a page and    *)
(* every page is in one of them.                                            *)
Tiles(blocks) ==
  /\ \A b \in blocks : Pages(b[1], b[2]) \subseteq Page
  /\ \A b, c \in blocks : b # c => Pages(b[1], b[2]) \cap Pages(c[1], c[2]) = {}
  /\ UNION {Pages(b[1], b[2]) : b \in blocks} = Page

NoDuplicates(pg) == \A k \in Order : IsInjective(pg.pg_freelist[k])

(* A pair's bit says whether exactly one of its halves is a free block, and *)
(* two free halves never stay apart.                                        *)
PairsAreTracked(pg) ==
  \A k \in Order \ {TopOrder} :
    \A a \in {x \in Page : x % BlockSize(k + 1) = 0} :
      LET lo == a \in Range(pg.pg_freelist[k])
          hi == (a + BlockSize(k)) \in Range(pg.pg_freelist[k])
      IN  /\ ~ (lo /\ hi)
          /\ pg.pg_map[k + 1][pagegroup_calculate_index(k + 1, a)] = (IF lo # hi THEN 1 ELSE 0)

FreePages(pg) == UNION {Pages(b[1], b[2]) : b \in FreeBlocks(pg)}
=============================================================================
