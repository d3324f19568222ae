------------------------------- MODULE EdFile -------------------------------
(***************************************************************************)
(* The temporary file of the editor (user/bin/ed.c): putline lays lines out *)
(* one after another in blocks, getline reads them back, and two blocks are *)
(* kept in memory, ibuff for reading and obuff for writing.                 *)
(*                                                                          *)
(* A byte is <<line, index>>, the index-th byte of a line (the last is its  *)
(* NUL), or JUNK.                                                           *)
(***************************************************************************)
EXTENDS Integers, Sequences, FiniteSets, SequencesExt

CONSTANTS BLOCK,     \* bytes of a block: 512 in the code
          ALIGN,     \* lines begin at multiples of it: 4 in the code
          LENGTHS,   \* bytes a line may have, its NUL included
          LAST,      \* the first block number getblock refuses: 255
          MaxLines   \* bound: lines written

JUNK == <<0, 0>>
Byte == 0 .. BLOCK - 1

VARIABLES t,      \* [tline, iblock, oblock, ichanged, ibuff, obuff, file, err]
          lines,  \* the lines stored: where they begin and their length
          bad     \* a line did not read back as it was written

\* blkio seeks to BYTE b of the file, then moves a block.  A short read leaves
\* the rest of the buffer alone and is an error.
blkio_write(f, b, buf) ==
    [f EXCEPT !.file = [i \in 1 .. Len(@) |->
                           IF i - 1 >= b /\ i - 1 < b + BLOCK THEN buf[i - 1 - b] ELSE @[i]]
                       \o [i \in 1 .. b + BLOCK - Len(@) |-> buf[Len(@) + i - 1 - b]]]

blkio_read(f, b) ==
    [f EXCEPT !.ibuff = [i \in Byte |-> IF b + i + 1 \in DOMAIN f.file
                                          THEN f.file[b + i + 1] ELSE @[i]],
              !.err = @ \/ b + BLOCK > Len(f.file)]

\* The block of the file with the byte, in one of the two buffers: an old one
\* is written back, an output buffer always, an input buffer when it changed.
getblock(f, at, write) ==
    LET bno == at \div BLOCK
        e   == IF bno >= LAST THEN [f EXCEPT !.err = TRUE] ELSE f
        g   == IF e.ichanged THEN blkio_write(e, e.iblock, e.ibuff) ELSE e
    IN IF bno = e.iblock THEN [f |-> [e EXCEPT !.ichanged = @ \/ write], buf |-> "i"]
       ELSE IF bno = e.oblock THEN [f |-> e, buf |-> "o"]
       ELSE IF ~ write
         THEN [f |-> blkio_read([g EXCEPT !.ichanged = FALSE, !.iblock = bno], bno),
               buf |-> "i"]
       ELSE [f |-> [(IF e.oblock >= 0 THEN blkio_write(e, e.oblock, e.obuff) ELSE e)
                      EXCEPT !.oblock = bno], buf |-> "o"]

\* Byte by byte; the next block is fetched when one is full.
PutByte(f, at, x) ==
    LET g == getblock(f, at, TRUE)
    IN IF g.buf = "i" THEN [g.f EXCEPT !.ibuff[at % BLOCK] = x]
                      ELSE [g.f EXCEPT !.obuff[at % BLOCK] = x]

putline(f, line, len) ==
    LET g == FoldLeft(LAMBDA h, k : PutByte(h, f.tline + k - 1, <<line, k>>),
                      f, [k \in 1 .. len |-> k])
    IN [g EXCEPT !.tline = f.tline + ((len + ALIGN - 1) \div ALIGN) * ALIGN]

GetByte(r, at) ==
    LET g == getblock(r.f, at, FALSE)
    IN [f |-> g.f, bytes |-> Append(r.bytes,
          IF g.buf = "i" THEN g.f.ibuff[at % BLOCK] ELSE g.f.obuff[at % BLOCK])]

getline(f, at, len) ==
    FoldLeft(LAMBDA r, k : GetByte(r, at + k - 1), [f |-> f, bytes |-> <<>>],
             [k \in 1 .. len |-> k])

FileInit ==
    /\ t = [tline |-> 0, iblock |-> -1, oblock |-> -1, ichanged |-> FALSE,
            ibuff |-> [i \in Byte |-> JUNK], obuff |-> [i \in Byte |-> JUNK],
            file |-> <<>>, err |-> FALSE]
    /\ lines = <<>> /\ bad = FALSE

PutLine(len) ==
    /\ Len(lines) < MaxLines
    /\ t' = putline(t, Len(lines) + 1, len)
    /\ lines' = Append(lines, [at |-> t.tline, len |-> len])
    /\ UNCHANGED bad

GetLine(i) ==
    LET r == getline(t, lines[i].at, lines[i].len)
    IN /\ t' = r.f
       /\ bad' = (r.bytes # [k \in 1 .. lines[i].len |-> <<i, k>>])
       /\ UNCHANGED lines

FileNext ==
    /\ ~ bad /\ ~ t.err
    /\ (\E len \in LENGTHS : PutLine(len)) \/ (\E i \in DOMAIN lines : GetLine(i))

FileSpec == FileInit /\ [][FileNext]_<<t, lines, bad>>

\* Every line reads back as it was written, in whatever order lines are stored
\* and read, as long as the text fits in two blocks.  Beyond that blkio's seek
\* to byte b, not to block b, lays the blocks over one another.
LinesReadBack == bad \/ t.err => t.tline > 2 * BLOCK
=============================================================================
