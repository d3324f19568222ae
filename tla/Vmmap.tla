------------------------------- MODULE Vmmap -------------------------------
(***************************************************************************)
(* The list of areas of an address space (vm/vmmap.c), as operators on the *)
(* sequence vmm_list.  An area is a record with at least the fields start  *)
(* and end, in virtual page numbers.                                       *)
(***************************************************************************)
EXTENDS List, FiniteSets, FiniteSetsExt

CONSTANTS USER_LOW, USER_HIGH,  \* USER_MEM_LOW and USER_MEM_HIGH in pages
          PAGE_SIZE,
          WORD                  \* 2^w: uint32_t wraps at it

ADDR_TO_PN(addr) == addr \div PAGE_SIZE
PAGE_ALIGN_UP(addr) == ((addr + PAGE_SIZE - 1) \div PAGE_SIZE) * PAGE_SIZE

\* Before the first area that starts above the new one and does not overlap
\* it; at the end when there is none.
vmmap_insert(list, area) ==
    LET above == {i \in DOMAIN list : /\ list[i].start > area.start
                                      /\ area.end <= list[i].start}
    IN IF above = {} THEN Append(list, area)
                     ELSE list_insert_before(list, Min(above), area)

\* The gap below area i of the list, as the low-to-high scan sees it.
GapStart(list, i) == IF i = 1 THEN USER_LOW ELSE list[i - 1].end
GapEnd(list, i)   == IF i = Len(list) THEN USER_HIGH ELSE list[i + 1].start

FindLow(list, npages) ==
    LET fits == {i \in DOMAIN list :
                   (list[i].start - GapStart(list, i)) % WORD > npages}
        last == list[Len(list)].end
    IN IF fits # {} THEN GapStart(list, Min(fits))
       ELSE IF (last + npages) % WORD < USER_HIGH THEN last ELSE -1

FindHigh(list, npages) ==
    LET fits == {i \in DOMAIN list :
                   (GapEnd(list, i) - list[i].end) % WORD > npages}
        end  == list[1].start
    IN IF fits # {} THEN GapEnd(list, Max(fits)) - npages
       ELSE IF (end - npages) % WORD > USER_LOW THEN end - npages ELSE -1

\* An empty list gives -1.
vmmap_find_range(list, npages, dir) ==
    IF list = <<>> THEN -1
    ELSE IF dir = "LOHI" THEN FindLow(list, npages) ELSE FindHigh(list, npages)

Covers(area, vfn) == area.start <= vfn /\ vfn < area.end

\* The position of the first area that covers vfn; 0 when there is none.
vmmap_lookup(list, vfn) ==
    LET at == {i \in DOMAIN list : Covers(list[i], vfn)}
    IN IF at = {} THEN 0 ELSE Min(at)

\* One end of the range inside an area, or the same start: a range that
\* covers an area whole is not noticed.
vmmap_is_range_empty(list, lo, npages) ==
    ~ \E i \in DOMAIN list :
        LET a == list[i] hi == lo + npages
        IN \/ a.start < lo /\ lo < a.end
           \/ a.start < hi /\ hi < a.end
           \/ a.start = lo

\* An area that the range cuts inside is split, which reads the new area's
\* uninitialised object; one that it overlaps to the right is shortened; one
\* that it covers is dropped.  The two other overlaps are left alone.
Inside(a, lo, hi) == a.start < lo /\ hi < a.end
Whole(a, lo, hi)  == lo <= a.start /\ a.end <= hi
Shorten(a, lo, hi) ==
    IF a.start < lo /\ lo < a.end /\ a.end < hi THEN [a EXCEPT !.end = lo] ELSE a

\* What is left of the list, when no area is split.
Remaining(list, lo, hi) ==
    SelectSeq([i \in DOMAIN list |-> Shorten(list[i], lo, hi)],
              LAMBDA a : ~ Whole(a, lo, hi))
=============================================================================
