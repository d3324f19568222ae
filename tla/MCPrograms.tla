----------------------------- MODULE MCPrograms -----------------------------
(***************************************************************************)
(* The libraries and programs of user/, checked one at a time, each from   *)
(* its own initial states.  Variable part says which one a behaviour is of; *)
(* v1 .. v3 stand for its variables, in order.                             *)
(***************************************************************************)
EXTENDS Integers, Sequences, SequencesExt, FiniteSets

CONSTANT NULL

VARIABLES part, v1, v2, v3

-----------------------------------------------------------------------------
(* user/lib/libc, user/bin/ed.c, user/bin/sh.c and user/lib/ld-weenix.     *)

Malloc == INSTANCE Malloc WITH
    heap <- v1,
    malloc_pageshift <- 4, malloc_minsize <- 2, malloc_cache <- 16,
    MALLOC_BITS <- 2, OFFSET_BITS <- 2, SIZEOF_BITS <- 1, SIZEOF_PGFREE <- 4, SIZEOF_SLOT <- 2,
    WORD <- 1024, LIMIT <- 64,
    Size <- {8, 9, 17, 992}, Incr <- {8}, MaxLive <- 3

Strings == BoundedSeq({" ", "-", "+", "0", "x", "7", "a", "z"}, 4)
Numbers == INSTANCE Numbers WITH
    in <- v1, out <- v2, BITS <- 2, Text <- Strings, Base <- {0, 1, 10, 16, 36}

Ed == INSTANCE Ed WITH
    ed <- v1, text <- v2, Line <- {"a", "b"}, MaxLines <- 4
EdFile == INSTANCE EdFile WITH
    t <- v1, lines <- v2, bad <- v3,
    BLOCK <- 4, ALIGN <- 2, LENGTHS <- {1, 2, 3, 5}, LAST <- 4, MaxLines <- 5
EdRegex == INSTANCE EdRegex WITH
    pat <- v1, line <- v2, found <- v3, Char <- {"a", "b"}, MaxItems <- 2, MaxText <- 3

Redirections ==
    {[kind |-> "file", dfd |-> 0, src |-> "r1"], [kind |-> "file", dfd |-> 1, src |-> "r2"],
     [kind |-> "file", dfd |-> 1, src |-> "r3"], [kind |-> "file", dfd |-> 3, src |-> "r4"],
     [kind |-> "dup", dfd |-> 2, src |-> 1], [kind |-> "dup", dfd |-> 1, src |-> 5]}
Sh == INSTANCE Sh WITH
    sh <- v1, last <- v2, NFILES <- 9, Redirect <- Redirections, MaxReds <- 2

Dependencies == {<<>>, <<"l1">>, <<"l2">>, <<"l1", "l2">>, <<"l2", "l1">>}
Sections ==
    {[vaddr |-> v, off |-> v + o, filesz |-> f, memsz |-> f + z] :
        v \in {0, 1, 4}, o \in {0, 4}, f \in {0, 3, 4, 7}, z \in {0, 1, 4}}
Ld == INSTANCE Ld WITH
    y <- v1, needed <- v2, Lib <- {"l1", "l2"}, Needed <- Dependencies, Section <- Sections,
    pagesize <- 4, POOL <- 7, FILE_SIZE <- 16

-----------------------------------------------------------------------------
\* Variables that a part does not have are 0.
Init ==
    \/ part = "malloc"  /\ Malloc!Init         /\ v2 = 0 /\ v3 = 0
    \/ part = "sh"      /\ Sh!ShInit           /\ v3 = 0
    \/ part = "ed"      /\ Ed!EdInit           /\ v3 = 0
    \/ part = "edfile"  /\ EdFile!FileInit
    \/ part = "ld"      /\ Ld!LdInit           /\ v3 = 0
    \/ part = "edregex" /\ EdRegex!RegexInit
    \/ part = "numbers" /\ Numbers!NumbersInit /\ v3 = 0

Next ==
    /\ \/ part = "malloc"  /\ Malloc!Next         /\ UNCHANGED <<v2, v3>>
       \/ part = "numbers" /\ Numbers!NumbersNext /\ UNCHANGED <<v3>>
       \/ part = "ed"      /\ Ed!EdNext           /\ UNCHANGED <<v3>>
       \/ part = "edfile"  /\ EdFile!FileNext
       \/ part = "edregex" /\ EdRegex!RegexNext
       \/ part = "sh"      /\ Sh!ShNext           /\ UNCHANGED <<v3>>
       \/ part = "ld"      /\ Ld!LdNext           /\ UNCHANGED <<v3>>
    /\ UNCHANGED part

vars == <<part, v1, v2, v3>>
Spec == Init /\ [][Next]_vars

-----------------------------------------------------------------------------
(* Properties.                                                             *)

\* libc's malloc gives out blocks that overlap neither each other nor its own
\* tables, and its free lists and page table describe the same heap.
HeapIsSound == part = "malloc" => Malloc!BlocksAreDisjoint /\ Malloc!ListsAreExact

\* Division of quads, log2 and strtol give what they promise.
NumbersAreRight == part = "numbers" => Numbers!ArithmeticIsRight /\ Numbers!StrtolIsRight

\* ed's array of lines, after any commands, is the text they should give; a
\* line of its temporary file reads back as it was written, through the two
\* block buffers; its matcher finds the leftmost longest match.
EdIsRight ==
    /\ part = "ed"      => Ed!BufferIsTheText
    /\ part = "edfile"  => EdFile!LinesReadBack
    /\ part = "edregex" => EdRegex!MatchesAreRight

\* A command line of the shell leaves it with the files it had, and a command
\* with the streams the line asks for.
ShellKeepsFiles == part = "sh" => Sh!LinesLeaveNothing /\ Sh!RedirectionsTakeEffect

\* The dynamic linker's chain is complete up to a known name, each section of
\* a library is where its program headers say, with zeros after the file, all
\* modules bind a symbol to one definition, now or lazily, and a copied
\* variable was relocated before.
LinkerIsRight == part = "ld" =>
    Ld!ChainIsComplete /\ Ld!SectionIsMapped /\ Ld!OneDefinition /\ Ld!CopiesAreRelocated
=============================================================================
