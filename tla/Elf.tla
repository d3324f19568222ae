-------------------------------- MODULE Elf --------------------------------
(***************************************************************************)
(* exec: the choice of a loader (api/binfmt.c), the ELF loader             *)
(* (api/elf32.c) and the two ways into it (api/exec.c).  The state is one  *)
(* record x:                                                               *)
(*                                                                         *)
(*   x.map, x.brk   p_vmmap and p_brk of the process;                      *)
(*   x.eip, x.esp   where it goes on;                                      *)
(*   x.new          the address space under construction;                  *)
(*   x.held         the references and buffers in use;                     *)
(*   x.err, x.panic what exec returned; which assertion failed.            *)
(*                                                                         *)
(* A byte of memory is 0, or a number that says which byte of which file   *)
(* it is, or JUNK.  An area has the fields start, end, off (vma_off), file *)
(* (0: anonymous) and page, the private pages the kernel has written.      *)
(***************************************************************************)
EXTENDS Vmmap, SequencesExt

CONSTANTS STACK_PAGES,   \* DEFAULT_STACK_SIZE / PAGE_SIZE
          FILE_SIZE,     \* bytes of an executable
          PTR            \* bytes of a pointer

VARIABLE x

JUNK == -1
PAGE_OFFSET(addr) == addr % PAGE_SIZE
PAGE_ALIGN_DOWN(addr) == addr - PAGE_OFFSET(addr)
PN_TO_ADDR(pn) == pn * PAGE_SIZE

FileByte(f, i) == IF i < FILE_SIZE THEN f * 1000 + i + 1 ELSE JUNK

Held(k, what) == [k EXCEPT !.held = @ \cup what]
Panic(k, why) == [k EXCEPT !.panic = IF @ = "" THEN why ELSE @]

\* Everything the load still holds is put or freed.
Cleanup == {"file", "map", "pht", "interpname", "interpfd", "interpfile",
            "interppht", "auxv", "argbuf"}
Done(k, err) == {[k EXCEPT !.held = @ \ Cleanup, !.new = <<>>, !.err = err]}

\* kmalloc and its like: ENOMEM, or go on with one more thing held.
Get(k, what, Go(_)) == Done(k, "ENOMEM") \cup Go(Held(k, {what}))

\* A call that may fail: the error is returned.
May(k, Go(_)) == Done(k, "EIO") \cup Go(k)

-----------------------------------------------------------------------------
(* The address space.                                                      *)

NoPages == [n \in {} |-> <<>>]

\* vma_off takes the offset as it is given, in bytes.
vmmap_map(list, file, lopage, npages, off) ==
    LET hi   == lopage + npages
        left == IF vmmap_is_range_empty(list, lopage, npages) THEN list
                ELSE Remaining(list, lopage, hi)
    IN vmmap_insert(left, [start |-> lopage, end |-> hi, off |-> off,
                           file |-> file, page |-> NoPages])

\* Page n of the object behind area a.
ObjectPage(a, n) ==
    [i \in 0 .. PAGE_SIZE - 1 |->
        IF a.file = 0 THEN 0 ELSE FileByte(a.file, n * PAGE_SIZE + i)]

PageAt(a, vfn) ==
    IF vfn \in DOMAIN a.page THEN a.page[vfn]
    ELSE ObjectPage(a, vfn - a.start + a.off)

\* What the process reads at addr.
ByteAt(list, addr) ==
    LET i == vmmap_lookup(list, ADDR_TO_PN(addr))
    IN IF i = 0 THEN JUNK ELSE PageAt(list[i], ADDR_TO_PN(addr))[PAGE_OFFSET(addr)]

\* One page is written, from the offset of addr, and never beyond it: what
\* would be lands in the next physical page.
vmmap_write(list, addr, bytes) ==
    LET i == vmmap_lookup(list, ADDR_TO_PN(addr))
        v == ADDR_TO_PN(addr)
        o == PAGE_OFFSET(addr)
        n == Len(bytes)
    IN [list EXCEPT ![i].page = [w \in DOMAIN @ \cup {v} |->
           IF w # v THEN @[w]
           ELSE [b \in 0 .. PAGE_SIZE - 1 |->
                   IF o <= b /\ b < o + n THEN bytes[b - o + 1]
                   ELSE PageAt(list[i], v)[b]]]]

-----------------------------------------------------------------------------
(* Segments.  A segment is [load, vaddr, off, filesz, memsz, align].        *)

NOEXEC(list) == [list |-> list, err |-> "ENOEXEC"]
Mapped(list) == [list |-> list, err |-> ""]

\* The file's pages first; then zeroed pages for the rest, the last page of
\* the file's among them, which gets its bytes back by hand.
MapFile(list, f, addr, seg) ==
    LET lo == ADDR_TO_PN(addr)
        n  == ADDR_TO_PN(addr + seg.filesz - 1) - lo + 1
    IN IF seg.filesz = 0 THEN Mapped(list)
       ELSE IF ~ vmmap_is_range_empty(list, lo, n) THEN NOEXEC(list)
       ELSE Mapped(vmmap_map(list, f, lo, n, PAGE_ALIGN_DOWN(seg.off)))

ReadBack(list, f, addr, seg) ==
    LET end  == addr + seg.filesz
        from == PAGE_ALIGN_DOWN(seg.off + seg.filesz)
    IN vmmap_write(list, PAGE_ALIGN_DOWN(end),
                   [i \in 1 .. PAGE_OFFSET(end) |-> FileByte(f, from + i - 1)])

(* Mutant: the bytes of the file on the zeroed page are not read back.     *)
MapZeroOnly(list, f, addr, seg) ==
    LET lo == ADDR_TO_PN(addr + seg.filesz)
        n  == ADDR_TO_PN(PAGE_ALIGN_UP(addr + seg.memsz)) - lo
    IN IF seg.memsz <= seg.filesz THEN Mapped(list)
       ELSE IF n > 1 /\ ~ vmmap_is_range_empty(list, lo + 1, n - 1) THEN NOEXEC(list)
       ELSE Mapped(vmmap_map(list, 0, lo, n, 0))

MapZero(list, f, addr, seg) ==
    LET end  == addr + seg.filesz
        lo   == ADDR_TO_PN(end)
        n    == ADDR_TO_PN(PAGE_ALIGN_UP(addr + seg.memsz)) - lo
        zero == vmmap_map(list, 0, lo, n, 0)
    IN IF seg.memsz <= seg.filesz THEN Mapped(list)
       ELSE IF n > 1 /\ ~ vmmap_is_range_empty(list, lo + 1, n - 1) THEN NOEXEC(list)
       ELSE Mapped(IF PAGE_OFFSET(end) # 0 /\ seg.filesz > 0
                     THEN ReadBack(zero, f, addr, seg) ELSE zero)

elf32_map_segment(list, f, memoff, seg) ==
    LET addr == seg.vaddr + PN_TO_ADDR(memoff)
        m    == MapFile(list, f, addr, seg)
    IN IF \/ seg.align # PAGE_SIZE \/ seg.filesz > seg.memsz
          \/ PAGE_OFFSET(addr) # PAGE_OFFSET(seg.off)
         THEN NOEXEC(list)
       ELSE IF m.err # "" THEN m ELSE MapZero(m.list, f, addr, seg)

Loads(file) == SelectSeq(file.segs, LAMBDA s : s.load)

elf32_map_progsegs(list, file, memoff) ==
    LET all == FoldLeft(LAMBDA m, seg :
                  IF m.err # "" THEN m
                  ELSE elf32_map_segment(m.list, file.id, memoff, seg),
                Mapped(list), Loads(file))
    IN IF all.err = "" /\ Loads(file) = <<>> THEN NOEXEC(list) ELSE all

elf32_progbounds(file) ==
    LET segs == ToSet(Loads(file))
    IN [low  |-> Min({s.vaddr : s \in segs}),
        high |-> Max({s.vaddr + s.memsz : s \in segs})]

-----------------------------------------------------------------------------
(* Arguments: argv and envp are sequences of string lengths, the null      *)
(* included.  The buffer, in bytes: argc, three pointers, argv, envp, auxv, *)
(* then the strings and the program header table.  A byte of string i is   *)
(* STR + i; of a pointer, PTRS + what it points to, relative to arglow.     *)

elf32_calc_argsize(a) ==
    LET strings == SumFunction(a.argv) + SumFunction(a.envp)
        vectors == (Len(a.argv) + 1 + Len(a.envp) + 1) * PTR + (a.auxc + 1) * 2 * PTR
    IN strings + vectors + (IF a.auxc > 0 THEN a.phtsize ELSE 0) + 4 * PTR

STR  == 100
PTRS == 10000

\* Copying writes len bytes of value v at position at.
Copy(buf, at, len, v) == [i \in DOMAIN buf |-> IF at < i /\ i <= at + len THEN v ELSE buf[i]]

\* Each string goes behind the last, and its address into the next word.
CopyStrings(c, strings, first) ==
    FoldLeftDomain(LAMBDA d, i :
        [buf |-> Copy(Copy(d.buf, d.str, strings[i], STR + first + i),
                      d.vec, PTR, PTRS + d.str),
         str |-> d.str + strings[i], vec |-> d.vec + PTR],
      c, strings)

Null(c) == [c EXCEPT !.buf = Copy(@, c.vec, PTR, 0), !.vec = @ + PTR]

elf32_load_args(a) ==
    LET n      == elf32_calc_argsize(a)
        argc   == Len(a.argv)
        envc   == Len(a.envp)
        vec    == 4 * PTR
        veclen == (argc + 1 + envc + 1) * PTR + (a.auxc + 1) * 2 * PTR
        b0 == [i \in 1 .. n |-> JUNK]
        b1 == Copy(Copy(Copy(Copy(b0, 0, PTR, argc), PTR, PTR, PTRS + vec),
                        2 * PTR, PTR, PTRS + vec + (argc + 1) * PTR),
                   3 * PTR, PTR, PTRS + vec + (argc + 1 + envc + 1) * PTR)
        c1 == Null(CopyStrings([buf |-> b1, str |-> vec + veclen, vec |-> vec], a.argv, 0))
        c2 == Null(CopyStrings(c1, a.envp, argc))
        \* AT_PHDR is the first entry; the table follows the strings.
        c3 == IF a.auxc = 0 THEN c2.buf
              ELSE Copy(Copy(c2.buf, c2.str, a.phtsize, STR),
                        c2.vec, 2 * PTR, PTRS + c2.str)
    IN Copy(c3, c2.vec + a.auxc * 2 * PTR, 2 * PTR, 0)

-----------------------------------------------------------------------------
(* The loader.  A file is [id, mode, magic, interps, segs]: what its header *)
(* says, how many interpreters it asks for, its segments.                   *)

elf32_load_ehdr(k, file, interp, Go(_)) ==
    Done(k, "EIO") \cup
    (IF file.magic = "EXEC" \/ (file.magic = "DYN" /\ interp) THEN Go(k)
     ELSE Done(k, "ENOEXEC"))

\* Both a short read and a failed one give up.
elf32_load_phtable(k, Go(_)) == May(k, Go)

elf32_find_phinterp(k, file, Go(_)) ==
    IF file.interps > 1 THEN Done(k, "EINVAL") ELSE Go(k)

LoadSegments(k, file, memoff, Go(_)) ==
    LET m == elf32_map_progsegs(k.new, file, memoff)
    IN Done(k, "ENOMEM") \cup
       (IF m.err # "" THEN Done(k, m.err) ELSE Go([k EXCEPT !.new = m.list]))

\* The interpreter goes as high as it fits; Go gets the entry point and auxc.
LoadInterp(k, it, Go(_, _)) ==
    Get(k, "interpname", LAMBDA k1 :
    May(k1, LAMBDA k2 :
    LET k3 == Held([k2 EXCEPT !.held = @ \ {"interpname"}], {"interpfd", "interpfile"}) IN
    elf32_load_ehdr(k3, it, TRUE, LAMBDA k4 :
    Get(k4, "interppht", LAMBDA k5 :
    elf32_load_phtable(k5, LAMBDA k6 :
    IF it.interps > 0 THEN Done(k6, "EINVAL")
    ELSE LET b    == elf32_progbounds(it)
             n    == ADDR_TO_PN(PAGE_ALIGN_UP(b.high)) - ADDR_TO_PN(b.low)
             base == vmmap_find_range(k6.new, n, "HILO")
             off  == base - ADDR_TO_PN(b.low)
         IN IF base = -1 THEN Done(k6, "ENOMEM")
            ELSE LoadSegments(k6, it, off, LAMBDA k7 :
                 Get(k7, "auxv", LAMBDA k8 : Go(k8, b.low + PN_TO_ADDR(off)))))))))

\* The stack goes right below the program, the arguments on top of it; then
\* the process gets the new address space and the old one is destroyed.
Finish(k, file, a, entry) ==
    LET b    == elf32_progbounds(file)
        lo   == ADDR_TO_PN(b.low) - STACK_PAGES - 1
        n    == elf32_calc_argsize(a)
        at   == ((b.low - n) \div PTR) * PTR
        k1   == [k EXCEPT !.new = vmmap_map(@, 0, lo, STACK_PAGES + 1, 0)]
    IN IF lo < USER_LOW THEN Done(Panic(k, "vmmap_map"), "PANIC")
       ELSE IF n >= STACK_PAGES * PAGE_SIZE THEN Done(k1, "E2BIG")
       ELSE Get(k1, "argbuf", LAMBDA k2 :
              Done([k2 EXCEPT !.map = vmmap_write(k2.new, at, elf32_load_args(a)),
                              !.brk = b.high, !.eip = entry, !.esp = at - PTR], ""))

elf32_load(k, file, it, a) ==
    elf32_load_ehdr(Held(k, {"file"}), file, FALSE, LAMBDA k1 :
    Get(k1, "map", LAMBDA k2 :
    Get(k2, "pht", LAMBDA k3 :
    elf32_load_phtable(k3, LAMBDA k4 :
    LoadSegments(k4, file, 0, LAMBDA k5 :
    elf32_find_phinterp(k5, file, LAMBDA k6 :
    IF file.interps = 1
      THEN LoadInterp(k6, it, LAMBDA k7, entry : Finish(k7, file, [a EXCEPT !.auxc = 6], entry))
      ELSE Get(k6, "auxv", LAMBDA k7 :
             Finish(k7, file, [a EXCEPT !.auxc = 0], elf32_progbounds(file).low))))))))

\* The one loader there is; ENOEXEC of the last loader is what exec returns.
binfmt_load(k, file, it, a) ==
    {[k EXCEPT !.err = "ENOENT"]} \cup
    LET k1 == Held(k, {"fd", "fdfile"})
        Close(S) == {[o EXCEPT !.held = @ \ {"fd", "fdfile"}] : o \in S}
    IN IF file.mode # "REG"
         THEN Close({[k1 EXCEPT !.err = IF file.mode = "DIR" THEN "EISDIR" ELSE "EACCES"]})
         ELSE Close(elf32_load([k1 EXCEPT !.held = @ \ {"fdfile"}], file, it, a))

do_execve(k, file, it, a) == binfmt_load(k, file, it, a)

\* The first program: the kernel insists that it loads.
kernel_execve(k, file, it, a) ==
    {IF o.err = "" THEN o ELSE Panic(o, "kernel_execve") : o \in binfmt_load(k, file, it, a)}

-----------------------------------------------------------------------------
CONSTANTS Program, Interpreter, Arguments  \* what is executed, with what

NoFile == [id |-> 0, mode |-> "none", magic |-> "none", interps |-> 0, segs |-> <<>>]
NoArgs == [argv |-> <<>>, envp |-> <<>>, auxc |-> 0, phtsize |-> 0]

VARIABLE last   \* the program that was loaded last, and how

ElfInit ==
    /\ x = [map |-> <<>>, brk |-> 0, eip |-> 0, esp |-> 0, new |-> <<>>,
            held |-> {}, err |-> "", panic |-> ""]
    /\ last = [file |-> NoFile, it |-> NoFile, args |-> NoArgs]

Remember(file, it, a) ==
    last' = IF x'.err = "" THEN [file |-> file, it |-> it, args |-> a] ELSE last

Boot(file, it, a) ==
    /\ x.map = <<>> /\ x.panic = ""
    /\ x' \in kernel_execve(x, file, it, a)
    /\ Remember(file, it, a)

Exec(file, it, a) ==
    /\ x.map # <<>> /\ x.panic = ""
    /\ x' \in do_execve(x, file, it, a)
    /\ Remember(file, it, a)

ElfNext == \E f \in Program, it \in Interpreter, a \in Arguments :
              Boot(f, it, a) \/ Exec(f, it, a)
ElfSpec == ElfInit /\ [][ElfNext]_<<x, last>>

-----------------------------------------------------------------------------
(* Properties.                                                             *)

\* Segment seg of file f, moved by memoff pages, is in memory as the file has
\* it, with zeros behind.
IsLoaded(list, f, seg, memoff) ==
    \A i \in 0 .. seg.memsz - 1 :
        ByteAt(list, seg.vaddr + PN_TO_ADDR(memoff) + i)
          = IF i < seg.filesz THEN FileByte(f, seg.off + i) ELSE 0

\* vma_off is kept in bytes and used in pages, so only the first page of the
\* file is found where it should be.
FirstPage(seg) == seg.off < PAGE_SIZE

\* vmmap_remove does not take the last page off an area, so the page that the
\* file's end shares with zeros must be the only one, or not the last.
TailIsCut(seg) ==
    LET end == ADDR_TO_PN(seg.vaddr + seg.filesz)
    IN \/ PAGE_OFFSET(seg.vaddr + seg.filesz) = 0
       \/ seg.memsz <= seg.filesz
       \/ end = ADDR_TO_PN(seg.vaddr)
       \/ ADDR_TO_PN(seg.vaddr + seg.memsz - 1) > end

Plain(seg) == FirstPage(seg) /\ TailIsCut(seg)

\* After a successful exec every plain segment of the program and of its
\* interpreter reads as the ELF file says, file bytes and then zeros, even on
\* the page the two share; and the break is the end of the program.
ImageIsLoaded ==
    last.file # NoFile =>
      /\ \A s \in ToSet(Loads(last.file)) :
            Plain(s) => IsLoaded(x.map, last.file.id, s, 0)
      /\ last.file.interps = 1 =>
           \A s \in ToSet(Loads(last.it)) : Plain(s) =>
             IsLoaded(x.map, last.it.id, s,
                      ADDR_TO_PN(x.eip) - ADDR_TO_PN(elf32_progbounds(last.it).low))
      /\ x.brk = elf32_progbounds(last.file).high

\* What the program finds on its stack: argc at esp + PTR, and through argv
\* and envp every string, as long as the arguments lie within one page.
ArgumentsAreThere ==
    LET a    == [last.args EXCEPT !.auxc = IF last.file.interps = 1 THEN 6 ELSE 0]
        low  == x.esp + PTR
        size == elf32_calc_argsize(a)
        argc == Len(a.argv)
        Word(p) == ByteAt(x.map, low + p)
        Str(p, n) == \A i \in 0 .. a.argv[n] - 1 : Word(p - PTRS + i) = STR + n
        Env(p, n) == \A i \in 0 .. a.envp[n] - 1 : Word(p - PTRS + i) = STR + argc + n
    IN last.file # NoFile /\ PAGE_OFFSET(low) + size <= PAGE_SIZE =>
         /\ Word(0) = argc
         /\ \A n \in DOMAIN a.argv : Str(Word(Word(PTR) - PTRS + (n - 1) * PTR), n)
         /\ \A n \in DOMAIN a.envp : Env(Word(Word(2 * PTR) - PTRS + (n - 1) * PTR), n)
         /\ Word(Word(PTR) - PTRS + argc * PTR) = 0
         /\ Word(Word(2 * PTR) - PTRS + Len(a.envp) * PTR) = 0
         /\ a.auxc > 0 => Word(Word(Word(3 * PTR) - PTRS) - PTRS) = STR

\* Whichever step of the load fails, every buffer and reference taken before
\* it is given back.
LoadFreesAll == x.held = {} /\ x.new = <<>>

\* An exec that fails leaves the process with the address space, the break
\* and the program it had.
FailedStep == x'.err # "" => /\ x'.map = x.map /\ x'.brk = x.brk
                             /\ x'.eip = x.eip /\ x'.esp = x.esp

\* Every PT_LOAD segment of the program reads as the file says, from whichever
\* page of the file it comes.
EverySegmentIsLoaded ==
    \A s \in ToSet(Loads(last.file)) :
      TailIsCut(s) => IsLoaded(x.map, last.file.id, s, 0)
=============================================================================
