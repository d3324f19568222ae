------------------------------- MODULE Malloc -------------------------------
(***************************************************************************)
(* The C library's allocator (user/lib/libc/malloc.c) over sbrk and brk     *)
(* (user/lib/libc/syscall.c), as operators on the state h of the heap:      *)
(*                                                                          *)
(*   h.curbrk      the break, in bytes from the first page of the heap;     *)
(*   h.malloc_brk  the break malloc left;  h.last_index and h.malloc_ninfo  *)
(*                 as in the code (index = page + malloc_pageshift: the     *)
(*                 buckets are the first slots of page_dir);                *)
(*   h.dir[p]      page_dir's entry of page p, "INFO" for a page of chunks; *)
(*   h.info[p]     that page's pginfo: at (its address, the page's own when *)
(*                 it lies in the page), shift, bits (free chunks), free,   *)
(*                 total;                                                   *)
(*   h.bucket[j]   page_dir[j]: the pages of 2^j-byte chunks with one free; *)
(*   h.free_list   the runs of free pages: at (the pgfree's address), page, *)
(*                 end (size is end - page throughout);                     *)
(*   h.px          the spare pgfree, or NULL;                               *)
(*   h.map         whether mmap succeeds during the call;                   *)
(*   h.crash       the program was stopped: a NULL px was followed, the     *)
(*                 directory overrun, or the free list found destroyed;     *)
(*   h.live        what the program holds: address -> requested size.       *)
(*                                                                          *)
(* What lies in the memory is left out (of a bitmap only the bits of chunks *)
(* the page has are kept: free > 0 means that one of those is set).  None   *)
(* of the options (malloc_junk, malloc_zero, malloc_abort...) is set:       *)
(* malloc_options is NULL.                                                  *)
(***************************************************************************)
EXTENDS Integers, Sequences, FiniteSets, SequencesExt, FiniteSetsExt

CONSTANTS malloc_pageshift, malloc_minsize, malloc_cache,
          MALLOC_BITS,     \* chunks per word of the bitmap
          OFFSET_BITS,     \* offsetof(struct pginfo, bits[0])
          SIZEOF_BITS,     \* bytes of a word of the bitmap
          SIZEOF_PGFREE,
          SIZEOF_SLOT,     \* bytes of a slot of page_dir
          WORD,            \* 2^32 for the code
          LIMIT,           \* the highest break the kernel grants
          NULL

malloc_pagesize == 2 ^ malloc_pageshift
malloc_maxsize  == malloc_pagesize \div 2
Page   == 0 .. (LIMIT \div malloc_pagesize)
Bucket == 1 .. malloc_pageshift

pageround(n) == ((n + malloc_pagesize - 1) \div malloc_pagesize) * malloc_pagesize
PageOf(a)    == a \div malloc_pagesize
ptr2index(a) == PageOf(a) + malloc_pageshift

Ret(h, p) == [h |-> h, p |-> p]

\* What goes on with the value r: at once, or only when r returned a pointer.
With(r, F(_)) == F(r)
Then(r, F(_)) == IF r.p = NULL THEN r ELSE F(r)

\* The bucket of a request: the least j >= 1 with size <= 2^j.
BucketOf(size) ==
    Min({j \in Bucket : Max({size, malloc_minsize}) <= 2 ^ j})

\* Bytes of the pginfo of a page of 2^bits-byte chunks.
AdminSize(bits) ==
    OFFSET_BITS + SIZEOF_BITS *
      (((malloc_pagesize \div 2 ^ bits) + MALLOC_BITS - 1) \div MALLOC_BITS)

\* "Don't waste more than two chunks on this".
InPage(bits) == 2 ^ bits <= 2 * AdminSize(bits)

\* The loop that marks the chunks the pginfo takes of its own page: l is
\* unsigned, so the loop ends at 0 only.  NULL: it does not end in the page.
Stolen(bits) ==
    LET n == malloc_pagesize \div 2 ^ bits
        ends == {i \in 0 .. n : (AdminSize(bits) - i * 2 ^ bits) % WORD = 0}
    IN IF ends = {} THEN NULL ELSE Min(ends)

-----------------------------------------------------------------------------
(* The break.                                                              *)

\* An address is a word: below the heap it is negative here.
Address(n) == IF n % WORD >= WORD \div 2 THEN (n % WORD) - WORD ELSE n % WORD

\* What the kernel does not grant is refused.
brk(h, addr) ==
    IF addr < 0 \/ addr > LIMIT THEN Ret(h, NULL) ELSE Ret([h EXCEPT !.curbrk = addr], addr)

\* sbrk(incr) returns the break as it was.
sbrk(h, incr) ==
    IF incr = 0 THEN Ret(h, h.curbrk)
    ELSE IF h.curbrk + incr < 0 THEN Ret(h, NULL)
    ELSE Then(brk(h, h.curbrk + incr), LAMBDA b : Ret(b.h, h.curbrk))

\* A bigger page_dir in freshly mapped pages; the old one is copied.
extend_pgdir(h) ==
    IF ~ h.map THEN Ret(h, NULL)
    ELSE With((h.last_index * SIZEOF_SLOT) \div malloc_pagesize + 2, LAMBDA i :
           Ret([h EXCEPT !.malloc_ninfo = (i * malloc_pagesize) \div SIZEOF_SLOT], 1))

\* Pages from result to tail, with room for them in the directory.
MapTo(h, result, tail) ==
    Then(brk(h, tail), LAMBDA b :
      With([b.h EXCEPT !.last_index = ptr2index(tail) - 1, !.malloc_brk = tail], LAMBDA a :
        IF a.last_index + 1 < a.malloc_ninfo THEN Ret(a, result)
        ELSE Then(extend_pgdir(a), LAMBDA e : Ret(e.h, result))))

map_pages(h, pages) ==
    With(pageround(h.curbrk), LAMBDA result :
      MapTo(h, result, Address(result + pages * malloc_pagesize)))

-----------------------------------------------------------------------------
(* Allocation and freeing call one another.                                *)

RECURSIVE imalloc(_, _), ifree(_, _)

\* What malloc_pages does to the directory: the first page and its followers.
MarkPages(h, a, n) ==
    [h EXCEPT !.crash = @ \/ ptr2index(a) + n > h.malloc_ninfo,
              !.dir = [p \in Page |->
        IF p = PageOf(a) THEN "FIRST"
        ELSE IF p > PageOf(a) /\ p < PageOf(a) + n THEN "FOLLOW" ELSE @[p]]]

\* First fit in the list of free runs, from the low end of the run; new pages
\* otherwise.  The pgfree of a run used up becomes the spare, or is freed.
NewPages(h, n) ==
    Then(map_pages(h, n), LAMBDA m : Ret(MarkPages(m.h, m.p, n), m.p))

UseWhole(h, i, run, n) ==
    With(MarkPages([h EXCEPT !.free_list = RemoveAt(@, i)], run.page, n), LAMBDA b :
      Ret(IF b.px = NULL THEN [b EXCEPT !.px = run.at] ELSE ifree(b, run.at), run.page))

UsePart(h, i, run, n) ==
    Ret(MarkPages([h EXCEPT !.free_list[i].page = @ + n * malloc_pagesize], run.page, n), run.page)

PagesOf(h, n) ==
    With({i \in DOMAIN h.free_list :
            h.free_list[i].end - h.free_list[i].page >= n * malloc_pagesize}, LAMBDA fits :
      IF fits = {} THEN NewPages(h, n)
      ELSE With(Min(fits), LAMBDA i :
             With(h.free_list[i], LAMBDA run :
               IF run.end - run.page = n * malloc_pagesize
                 THEN UseWhole(h, i, run, n) ELSE UsePart(h, i, run, n))))

malloc_pages(h, bytes) == PagesOf(h, pageround(bytes) \div malloc_pagesize)

\* A page of chunks of 2^bits bytes, its pginfo in the page or allocated.
ChunkPage(h, bits, at, pg, taken, n) ==
    Ret([h EXCEPT !.info[pg] = [at |-> at, shift |-> bits, bits |-> taken .. n - 1,
                                free |-> n - taken, total |-> n - taken],
                  !.dir[pg] = "INFO", !.bucket[bits] = <<pg>> \o @], 1)

malloc_make_chunks(h, bits) ==
    Then(malloc_pages(h, malloc_pagesize), LAMBDA pp :
      With(IF InPage(bits) THEN pp ELSE imalloc(pp.h, AdminSize(bits)), LAMBDA bp :
        IF bp.p = NULL THEN Ret(ifree(bp.h, pp.p), NULL)
        ELSE ChunkPage(bp.h, bits, bp.p, PageOf(pp.p),
                       IF InPage(bits) THEN Stolen(bits) ELSE 0, malloc_pagesize \div 2 ^ bits)))

\* The first free chunk of the first page of the bucket.
TakeChunk(h, j, p, k) ==
    Ret([h EXCEPT !.info[p].bits = @ \ {k}, !.info[p].free = @ - 1,
                  !.bucket[j] = IF h.info[p].free > 1 THEN @ ELSE Tail(@)],
        p * malloc_pagesize + k * 2 ^ j)

BytesOf(h, j) ==
    Then(IF h.bucket[j] = <<>> THEN malloc_make_chunks(h, j) ELSE Ret(h, 1), LAMBDA m :
      With(Head(m.h.bucket[j]), LAMBDA p : TakeChunk(m.h, j, p, Min(m.h.info[p].bits))))

malloc_bytes(h, size) == BytesOf(h, BucketOf(size))

imalloc(h, size) ==
    IF (size + malloc_pagesize) % WORD < size THEN Ret(h, NULL)
    ELSE IF size <= malloc_maxsize THEN malloc_bytes(h, size)
    ELSE malloc_pages(h, size)

\* The pages of the allocation that begins at page p.
RunLength(h, p) ==
    Min({n \in 1 .. Cardinality(Page) + 1 :
           p + n \notin Page \/ h.dir[p + n] # "FOLLOW"})

\* A run joins the list of free runs: as a new entry, in the place the spare
\* pgfree gets, or by extending the one it touches (and the next after it).
\* The result names the entry changed and the pgfree left over.
Enters(h, i, a, tail) ==
    [h |-> [h EXCEPT !.free_list = InsertAt(@, i, [at |-> h.px, page |-> a, end |-> tail]),
                     !.px = NULL], i |-> i, pt |-> NULL]

Extends(h, i, tail) ==
    IF i < Len(h.free_list) /\ tail = h.free_list[i + 1].page
      THEN [h |-> [h EXCEPT !.free_list =
                     RemoveAt([@ EXCEPT ![i].end = h.free_list[i + 1].end], i + 1)],
            i |-> i, pt |-> h.free_list[i + 1].at]
      ELSE [h |-> [h EXCEPT !.free_list[i].end = tail], i |-> i, pt |-> NULL]

JoinAt(h, i, a, tail) ==
    IF h.free_list[i].page > tail      THEN Enters(h, i, a, tail)
    ELSE IF h.free_list[i].end = a     THEN Extends(h, i, tail)
    ELSE IF h.free_list[i].page = tail
      THEN [h |-> [h EXCEPT !.free_list[i].page = a], i |-> i, pt |-> NULL]
    ELSE IF i = Len(h.free_list)       THEN Enters(h, i + 1, a, tail)
    ELSE [h |-> [h EXCEPT !.crash = TRUE], i |-> i, pt |-> NULL]

JoinFree(h, a, tail) ==
    IF h.free_list = <<>> THEN Enters(h, 1, a, tail)
    ELSE JoinAt(h, Min({i \in DOMAIN h.free_list :
                          h.free_list[i].end >= a \/ i = Len(h.free_list)}), a, tail)

\* The last run gives what exceeds the cache back to the kernel.  The loop over
\* the directory that follows never runs: its bound was lowered just before.
ReturnToOS(h, i) ==
    LET run == h.free_list[i]
        end == run.page + malloc_cache
    IN IF /\ i = Len(h.free_list) /\ run.end - run.page > malloc_cache
          /\ run.end = h.malloc_brk /\ h.malloc_brk = h.curbrk
         THEN [brk(h, end).h EXCEPT !.free_list[i].end = end, !.malloc_brk = end,
                                    !.last_index = ptr2index(end) - 1]
         ELSE h

\* "This cannot fail...": the pgfree for the run, when there is no spare.
FreeRun(h, a, tail) ==
    IF h.px = NULL THEN [h EXCEPT !.crash = TRUE]
    ELSE With(JoinFree(h, a, tail), LAMBDA j :
           With(ReturnToOS(j.h, j.i), LAMBDA os :
             IF j.pt = NULL THEN os ELSE ifree(os, j.pt)))

(* Mutant: only the first page of a run is marked.                         *)
MarkFreeFirst(h, p, n) == [h EXCEPT !.dir[p] = "FREE"]

MarkFree(h, p, n) ==
    [h EXCEPT !.dir = [q \in Page |-> IF q >= p /\ q < p + n THEN "FREE" ELSE @[q]]]

WithSpare(h) ==
    IF h.px # NULL THEN h
    ELSE With(imalloc(h, SIZEOF_PGFREE), LAMBDA px : [px.h EXCEPT !.px = px.p])

free_pages(h, a, p) ==
    IF h.dir[p] # "FIRST" \/ a % malloc_pagesize # 0 THEN h
    ELSE With(RunLength(h, p), LAMBDA n :
           FreeRun(WithSpare(MarkFree(h, p, n)), a, a + n * malloc_pagesize))

\* The chunk is free again.  A page that was full returns to its bucket, in
\* front of the entry the search stops at; a page all free is given up.
Return(q, p) == InsertAt(q, Min({k \in 1 .. Len(q) + 1 : k >= Len(q) \/ q[k + 1] >= p}), p)

GiveUpPage(h, p) ==
    [h EXCEPT !.bucket[h.info[p].shift] = SelectSeq(@, LAMBDA x : x # p),
              !.dir[p] = "FIRST", !.info[p] = NULL]

FreeInfo(h, p, at) == IF at = p * malloc_pagesize THEN h ELSE ifree(h, at)

FreeChunk(h, p, i, info) ==
    IF i \in info.bits THEN h
    ELSE With([h EXCEPT !.info[p].bits = @ \cup {i}, !.info[p].free = @ + 1], LAMBDA b :
           IF info.free = 0 THEN [b EXCEPT !.bucket[info.shift] = Return(@, p)]
           ELSE IF info.free + 1 # info.total THEN b
           ELSE ifree(FreeInfo(GiveUpPage(b, p), p, info.at), p * malloc_pagesize))

free_bytes(h, a, p) ==
    IF a % 2 ^ h.info[p].shift # 0 THEN h
    ELSE FreeChunk(h, p, (a % malloc_pagesize) \div 2 ^ h.info[p].shift, h.info[p])

ifree(h, a) ==
    IF ptr2index(a) < malloc_pageshift \/ ptr2index(a) > h.last_index THEN h
    ELSE IF h.dir[PageOf(a)] = "INFO" THEN free_bytes(h, a, PageOf(a))
    ELSE free_pages(h, a, PageOf(a))

\* The size an allocation has, and whether it may stay where it is.
Stays(chunk, osize, size) ==
    IF chunk THEN size < osize /\ (size > osize \div 2 \/ osize = malloc_minsize)
             ELSE size <= osize /\ size > osize - malloc_pagesize

OldSize(h, p) ==
    IF h.dir[p] = "INFO" THEN 2 ^ h.info[p].shift ELSE RunLength(h, p) * malloc_pagesize

irealloc(h, a, size) ==
    IF Stays(h.dir[PageOf(a)] = "INFO", OldSize(h, PageOf(a)), size) THEN Ret(h, a)
    ELSE Then(imalloc(h, size), LAMBDA m : Ret(ifree(m.h, a), m.p))

malloc_init ==
    With(imalloc([curbrk |-> 0, malloc_brk |-> 0, last_index |-> 0,
                  malloc_ninfo |-> malloc_pagesize \div SIZEOF_SLOT,
                  dir |-> [p \in Page |-> "NOT_MINE"], info |-> [p \in Page |-> NULL],
                  bucket |-> [j \in Bucket |-> <<>>], free_list |-> <<>>, px |-> NULL,
                  map |-> TRUE, crash |-> FALSE, live |-> <<>>], SIZEOF_PGFREE), LAMBDA m :
      [m.h EXCEPT !.px = m.p])

-----------------------------------------------------------------------------
(* The program: it frees and resizes only what it holds.                   *)

CONSTANTS Size,      \* the sizes it asks for
          Incr,      \* the amounts it moves the break by itself
          MaxLive    \* bound: allocations held at once

VARIABLE heap

Hold(a, size)  == [x \in DOMAIN heap.live \cup {a} |->
                     IF x = a THEN size ELSE heap.live[x]]
Drop(live, a)  == [x \in DOMAIN live \ {a} |-> live[x]]

Init == heap = malloc_init

malloc(size, mem) ==
    /\ Cardinality(DOMAIN heap.live) < MaxLive
    /\ \E m \in {imalloc([heap EXCEPT !.map = mem], size)} :
          heap' = [m.h EXCEPT !.map = TRUE,
                           !.live = IF m.p = NULL THEN @ ELSE Hold(m.p, size)]

free(a) == heap' = [ifree(heap, a) EXCEPT !.live = Drop(@, a)]

realloc(a, size, mem) ==
    \E m \in {irealloc([heap EXCEPT !.map = mem], a, size)} :
       heap' = [m.h EXCEPT !.map = TRUE,
               !.live = IF m.p = NULL THEN @
                        ELSE IF m.p = a THEN [@ EXCEPT ![a] = size]
                        ELSE Drop(Hold(m.p, size), a)]

\* The program moves the break itself, never below what malloc left.
Sbrk(incr) ==
    /\ heap.curbrk + incr >= heap.malloc_brk
    /\ heap' = sbrk(heap, incr).h

Next ==
    /\ ~ heap.crash
    /\ \/ \E size \in Size, mem \in BOOLEAN : malloc(size, mem)
       \/ \E a \in DOMAIN heap.live : free(a)
       \/ \E a \in DOMAIN heap.live, size \in Size, mem \in BOOLEAN : realloc(a, size, mem)
       \/ \E incr \in Incr : Sbrk(incr)

Spec == Init /\ [][Next]_heap

-----------------------------------------------------------------------------
(* Properties.                                                             *)

\* What occupies memory: what the program holds, the records of the free
\* runs, the spare one, and the pginfos.  A block is <<address, bytes>>.
Block ==
    {<<a, heap.live[a]>> : a \in DOMAIN heap.live}
    \cup {<<heap.free_list[i].at, SIZEOF_PGFREE>> : i \in DOMAIN heap.free_list}
    \cup {<<a, SIZEOF_PGFREE>> : a \in {heap.px} \ {NULL}}
    \cup {<<heap.info[p].at, AdminSize(heap.info[p].shift)>> :
              p \in {q \in Page : heap.dir[q] = "INFO"}}

\* The bytes a block may use.
Room(a) ==
    LET p == PageOf(a)
    IN IF heap.dir[p] = "INFO" /\ heap.info[p].at # a THEN 2 ^ heap.info[p].shift
       ELSE IF heap.dir[p] = "INFO" THEN malloc_pagesize
       ELSE IF heap.dir[p] = "FIRST" THEN RunLength(heap, p) * malloc_pagesize ELSE 0

\* No two blocks overlap, whatever was allocated, resized and freed before:
\* not two the program holds, and none of its own with malloc's records; each
\* lies below the break, in a chunk marked used or in pages marked allocated
\* that are large enough for it.
BlocksAreDisjoint ==
    ~ heap.crash =>
      /\ \A b, c \in Block : b[1] < c[1] => b[1] + Max({b[2], 1}) <= c[1]
      /\ \A b \in Block : b[2] <= Room(b[1]) /\ b[1] + b[2] <= heap.curbrk
      /\ Cardinality({b[1] : b \in Block}) =
           Cardinality(DOMAIN heap.live) + Len(heap.free_list) + (IF heap.px = NULL THEN 0 ELSE 1)
           + Cardinality({p \in Page : heap.dir[p] = "INFO"})

\* The page directory, the list of free runs and the buckets agree: the runs
\* are in address order, below the break and never touch, their pages are
\* marked free, a page of chunks is in its bucket exactly when it has a free
\* chunk, and free counts them.
ListsAreExact ==
    ~ heap.crash =>
      LET run == heap.free_list
          first(i) == PageOf(run[i].page)  last(i) == PageOf(run[i].end) - 1
      IN /\ \A i \in DOMAIN run : first(i) <= last(i)
         /\ \A i \in 1 .. Len(run) - 1 : run[i].end < run[i + 1].page
         /\ \A i \in DOMAIN run : /\ run[i].end <= heap.curbrk
                                  /\ \A p \in first(i) .. last(i) : heap.dir[p] = "FREE"
         /\ \A p \in Page : heap.dir[p] = "INFO" => heap.info[p].free = Cardinality(heap.info[p].bits)
         /\ \A j \in Bucket :
              /\ ToSet(heap.bucket[j]) = {p \in Page : /\ heap.dir[p] = "INFO"
                                                   /\ heap.info[p].shift = j
                                                   /\ heap.info[p].free > 0}
              /\ Cardinality(ToSet(heap.bucket[j])) = Len(heap.bucket[j])
=============================================================================
