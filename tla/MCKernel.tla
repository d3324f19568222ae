------------------------------ MODULE MCKernel ------------------------------
(***************************************************************************)
(* The parts of the kernel that are checked one at a time, each from its   *)
(* own initial states: memory allocation, system calls, exec, the          *)
(* terminals, the free lists of the disk and the initialisation functions. *)
(* Variable part says which one a behaviour is of; v1 .. v6 stand for its  *)
(* variables, in order.                                                    *)
(***************************************************************************)
EXTENDS Integers, Sequences, SequencesExt, FiniteSets

CONSTANTS NULL, meta, kmem, user_cache, letter

VARIABLES part, v1, v2, v3, v4, v5, v6

-----------------------------------------------------------------------------
\* Eight pages of 10 units in blocks of up to four.
Slab == INSTANCE Slab WITH
    pg <- v1, slab_allocators <- v2, sa <- v3, blocks <- v4, objs <- v5,
    PAGE_NSIZES <- 3, NPAGES <- 8, Cache <- {meta, kmem, user_cache}, Meta <- meta,
    KmallocCache <- <<kmem>>, KMALLOC_SIZE <- [c \in {kmem} |-> 3], CreateSizes <- {9},
    PAGE_SIZE <- 10, SizeofSlab <- 2, SizeofBufctl <- 1, SizeofRedzone <- 1,
    SizeofPtr <- 1, SizeofAllocator <- 1, SLAB_MAX_ORDER <- 2,
    PageRequests <- {2, 3}, KmallocSizes <- {2}

Syscall == INSTANCE Syscall WITH
    thr <- v1, pc <- v2, call <- v3, ret <- v4, errno <- v5, kt_cancelled <- v6,
    NArgs <- 2, MaxPages <- 2

\* A page has 32 bytes.  There are segments of every kind elf32_map_segment
\* tells apart, of programs and of the interpreter, and programs it refuses.
Seg(vaddr, off, filesz, memsz) ==
    [load |-> TRUE, vaddr |-> vaddr, off |-> off, filesz |-> filesz, memsz |-> memsz, align |-> 32]
Note == [Seg(0, 0, 0, 0) EXCEPT !.load = FALSE]
Prog(segs, interps) == [id |-> 1, mode |-> "REG", magic |-> "EXEC", interps |-> interps, segs |-> segs]
It(segs, interps) == [id |-> 2, mode |-> "REG", magic |-> "DYN", interps |-> interps, segs |-> segs]
Programs ==
   {Prog(<<Note, Seg(128, 0, 20, 20), Seg(164, 4, 8, 40)>>, n) : n \in 0 .. 2}
   \cup {Prog(s, 0) : s \in {
      <<Seg(128, 0, 40, 100)>>,
      <<Seg(128, 0, 40, 44)>>,
      <<Seg(128, 0, 20, 20), Seg(164, 36, 8, 40)>>,
      <<Seg(128, 0, 20, 20), Seg(160, 0, 0, 40)>>,
      <<Seg(128, 0, 20, 20), Seg(132, 4, 8, 8)>>,
      <<[Seg(128, 0, 20, 20) EXCEPT !.align = 1]>>,
      <<Seg(132, 0, 8, 8)>>, <<Seg(128, 0, 8, 4)>>, <<Note>>,
      <<Seg(64, 0, 8, 8)>>,
      <<Seg(132, 4, 8, 8)>>}}
   \cup {[Prog(<<Seg(128, 0, 20, 20)>>, 0) EXCEPT !.magic = "DYN"],
         [Prog(<<>>, 0) EXCEPT !.mode = "DIR"], [Prog(<<>>, 0) EXCEPT !.mode = "CHR"]}
Interpreters == {It(<<Seg(0, 0, 12, 12), Seg(36, 4, 8, 50)>>, n) : n \in {0, 1}}
Vectors ==
   [argv : {<<>>, <<2>>, <<1, 3>>}, envp : {<<>>, <<2>>}, auxc : {0}, phtsize : {3}]
   \cup {[argv |-> <<n>>, envp |-> <<>>, auxc |-> 0, phtsize |-> 3] : n \in {40, 80}}
Elf == INSTANCE Elf WITH
    x <- v1, last <- v2, USER_LOW <- 1, USER_HIGH <- 12, PAGE_SIZE <- 32, WORD <- 64,
    STACK_PAGES <- 2, FILE_SIZE <- 64, PTR <- 1,
    Program <- Programs, Interpreter <- Interpreters, Arguments <- Vectors

Term == INSTANCE Term WITH
    vt <- v1, curterm <- v2, screen <- v3, spot <- v4, mask <- v5, text <- v6,
    NTERMS <- 2, DISPLAY_WIDTH <- 2, DISPLAY_HEIGHT <- 2, ROWS <- 4, Char <- {letter},
    MaxCell <- [t \in {0, 1} |-> IF t = 0 THEN 10 ELSE 2]

S5 == INSTANCE S5 WITH
    super <- v1, node <- v2, inode <- v3, mutex <- v4, th <- v5,
    Thread <- {1, 2}, NBLOCKS <- 3, NINODES <- 2, DEVID <- 1, FNODE <- 2, NDIRECT <- 1,
    NINDIRECT <- 1

Boot == INSTANCE Boot WITH
    deps <- v1, b <- v2, N <- 4,
    Deps <- {<<>>, <<1>>, <<2>>, <<3>>, <<4>>, <<0>>, <<1, 2>>, <<2, 3>>, <<3, 4>>, <<4, 2>>}

-----------------------------------------------------------------------------
\* Variables that a part does not have are 0.
Init ==
    \/ part = "slab"    /\ Slab!SlabInit       /\ v6 = 0
    \/ part = "syscall" /\ Syscall!Init
    \/ part = "elf"     /\ Elf!ElfInit         /\ v3 = 0 /\ v4 = 0 /\ v5 = 0 /\ v6 = 0
    \/ part = "term"    /\ Term!vt_init
    \/ part = "s5"      /\ S5!S5Init           /\ v6 = 0
    \/ part = "boot"    /\ Boot!BootInit       /\ v3 = 0 /\ v4 = 0 /\ v5 = 0 /\ v6 = 0

Next ==
    /\ \/ part = "slab"    /\ Slab!SlabNext       /\ UNCHANGED <<v6>>
       \/ part = "syscall" /\ Syscall!Next
       \/ part = "elf"     /\ Elf!ElfNext         /\ UNCHANGED <<v3, v4, v5, v6>>
       \/ part = "term"    /\ Term!TermNext
       \/ part = "s5"      /\ S5!S5Next           /\ UNCHANGED <<v6>>
       \/ part = "boot"    /\ Boot!BootNext       /\ UNCHANGED <<v3, v4, v5, v6>>
    /\ UNCHANGED part

vars == <<part, v1, v2, v3, v4, v5, v6>>
Spec == Init /\ [][Next]_vars

-----------------------------------------------------------------------------
(* Properties.                                                             *)

\* Pages and objects are free or in use, once, and found again when memory is
\* short (page.c, slab.c).
MemoryIsAccounted == part = "slab" =>
    /\ Slab!SlabTypeOK
    /\ Slab!PagesAreAccounted
    /\ Slab!BuddiesAreTracked
    /\ Slab!FreeCountIsExact
    /\ Slab!ObjectsAreAccounted
    /\ Slab!ObjectsFit
    /\ Slab!FailureReclaimsAll

\* A system call gives back what it allocated, but for the pages that failed
\* reads and writes lose, and a failure is reported in errno.
CallsAreBalanced == part = "syscall" => Syscall!CallsReturnMemory /\ Syscall!FailuresAreReported

\* A program that was loaded reads as its file says, with its arguments, and
\* loading, failed or not, frees what it allocated.
ExecLoads == part = "elf" => Elf!ImageIsLoaded /\ Elf!ArgumentsAreThere /\ Elf!LoadFreesAll

\* A cancelled thread does not return to user mode (syscall_handler), and an
\* exec that fails leaves the process as it was (do_execve).
NothingHalfDone ==
    [][/\ part = "syscall" => Syscall!CancelledStep
       /\ part = "elf"     => Elf!FailedStep]_vars

\* The screen shows the current terminal, and the scroll buffers hold the last
\* rows that were written.
TerminalShowsText == part = "term" => Term!ScreenIsCurrent /\ Term!ScrollbackIsText

\* A block or an inode of the disk is free or in use, once.
DiskIsAccounted == part = "s5" => S5!EachInOnePlace

\* Initialisation functions run once, after those they depend on.
BootInOrder == part = "boot" => Boot!InitsInOrder
=============================================================================
