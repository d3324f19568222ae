--------------------------------- MODULE Ed ---------------------------------
(***************************************************************************)
(* The editor (user/bin/ed.c): the array of lines and the commands that     *)
(* rearrange it, the blocks of the temporary file, and the matcher.         *)
(*                                                                          *)
(* The lines are core[1 .. dol]; core[0] is the entry zero points to.  An   *)
(* entry is the line it refers to and the mark bit of global.  Pointers are *)
(* indices, so address 0 is index 0.  `error' prints a question mark, drops *)
(* the rest of the input line and RETURNS: the command goes on.             *)
(***************************************************************************)
EXTENDS Integers, Sequences, FiniteSets, SequencesExt, FiniteSetsExt

CONSTANTS Line,      \* what a line may say
          MaxLines   \* bound: lines of the buffer

JUNK    == "junk"                       \* a word beyond the array
Core    == 0 .. 2 * MaxLines + 2
Ent(l)  == [line |-> l, g |-> FALSE]
NoCore  == [i \in Core |-> Ent(JUNK)]

At(e, i)     == IF i \in Core THEN e.core[i] ELSE Ent(JUNK)
Put(e, i, x) == IF i \in Core THEN [e EXCEPT !.core[i] = x] ELSE e
Error(e)     == [e EXCEPT !.err = TRUE]

-----------------------------------------------------------------------------
(* Addresses.  addr2 = 0 in the code (no address given) is NONE here.      *)

NONE == -1

\* An address outside the buffer is an error, and is returned all the same.
address(e, a) == IF a # NONE /\ (a < 0 \/ a > e.dol) THEN Error(e) ELSE e

setdot(e) ==
    LET f == IF e.addr2 = NONE THEN [e EXCEPT !.addr1 = e.dot, !.addr2 = e.dot] ELSE e
    IN IF f.addr1 > f.addr2 THEN Error(f) ELSE f

setall(e) ==
    setdot(IF e.addr2 # NONE THEN e
           ELSE [e EXCEPT !.addr1 = IF e.dol = 0 THEN 0 ELSE 1, !.addr2 = e.dol])

nonzero(e) == IF e.addr1 <= 0 \/ e.addr2 > e.dol THEN Error(e) ELSE e

-----------------------------------------------------------------------------
(* The array.                                                              *)

(* Mutant: the last line does not move up.                                 *)
AppendOneOver(e, l) ==
    LET d == e.dot + 1
    IN [e EXCEPT !.dol = @ + 1, !.dot = d,
                 !.core = [i \in Core |-> IF i = d THEN Ent(l)
                                          ELSE IF i > d /\ i <= e.dol THEN @[i - 1]
                                          ELSE @[i]]]

\* One line after dot: the entries above move up by one.
AppendOne(e, l) ==
    LET d == e.dot + 1
    IN [e EXCEPT !.dol = @ + 1, !.dot = d,
                 !.core = [i \in Core |-> IF i = d THEN Ent(l)
                                          ELSE IF i > d /\ i <= e.dol + 1 THEN @[i - 1]
                                          ELSE @[i]]]

append(e, lines, a) == FoldLeft(AppendOne, [e EXCEPT !.dot = a], lines)

\* The entries above move down; the loop copies at least one.
delete(e) ==
    LET f == nonzero(setdot(e))
        n == f.addr2 + 1 - f.addr1
        k == Max({f.dol - f.addr2, 1})
        d == f.dol - n
    IN [f EXCEPT !.dol = d, !.dot = Min({f.addr1, d}),
                 !.core = [i \in Core |-> IF i >= f.addr1 /\ i < f.addr1 + k
                                            THEN At(f, i + n) ELSE @[i]]]

\* The entries from aa1 up to, not including, aa2, in the opposite order.
reverse(e, aa1, aa2) ==
    [e EXCEPT !.core = [i \in Core |-> IF i >= aa1 /\ i < aa2
                                         THEN At(e, aa1 + aa2 - 1 - i) ELSE @[i]]]

\* The lines getcopy hands to append.
Copies(e) == [i \in 1 .. Max({e.addr2 - e.addr1 + 1, 0}) |-> At(e, e.addr1 + i - 1).line]

\* Three reversals move the lines; copies are appended first, then moved.
move(e, cflag, to) ==
    LET f   == address(nonzero(setdot(e)), to)
        h   == IF cflag THEN append(f, Copies(f), f.dol) ELSE f
        ad1 == IF cflag THEN f.dol + 1 ELSE f.addr1
        ad2 == IF cflag THEN h.dol + 1 ELSE f.addr2 + 1
    IN IF to < ad1
         THEN LET g == [h EXCEPT !.dot = to + (ad2 - ad1)]
              IN IF to + 1 = ad1 THEN g
                 ELSE reverse(reverse(reverse(g, to + 1, ad1), ad1, ad2), to + 1, ad2)
       ELSE IF to >= ad2
         THEN reverse(reverse(reverse([h EXCEPT !.dot = to],
                        ad1, ad2), ad2, to + 1), ad1, to + 1)
       ELSE Error(h)

\* The lines that match are replaced, each by the lines the substitution
\* makes of it: the first in place, the others appended after it.
RECURSIVE SubLoop(_, _, _, _, _)
SubLoop(e, a1, match, lines, some) ==
    IF a1 > e.addr2 THEN IF some THEN e ELSE Error(e)
    ELSE IF At(e, a1).line \notin match THEN SubLoop(e, a1 + 1, match, lines, some)
    ELSE LET f == append(Put(e, a1, Ent(lines[1])), Tail(lines), a1)
             n == Len(lines) - 1
         IN SubLoop([f EXCEPT !.addr2 = @ + n], a1 + 1 + n, match, lines, TRUE)

substitute(e, match, lines, inglob) ==
    LET f == nonzero(setdot(e)) IN SubLoop(f, f.addr1, match, lines, inglob)

\* The commands a global is given here: d, m0, t0 and s/.../new/.
commands(e, cmd, new) ==
    CASE cmd = "d" -> delete(e)
      [] cmd = "m" -> move(e, FALSE, 0)
      [] cmd = "t" -> move(e, TRUE, 0)
      [] cmd = "s" -> substitute(e, Line, <<new>>, TRUE)

\* The command of a global, run for every marked line, the first one first.
RECURSIVE GlobalLoop(_, _, _)
GlobalLoop(e, cmd, new) ==
    LET marked == {i \in 0 .. e.dol : At(e, i).g}
        a1     == Min(marked)
    IN IF marked = {} THEN e
       ELSE GlobalLoop(commands([e EXCEPT !.core[a1].g = FALSE, !.dot = a1,
                                  !.addr1 = NONE, !.addr2 = NONE], cmd, new), cmd, new)

global(e, match, cmd, new) ==
    LET f == nonzero(setall(e))
    IN GlobalLoop([f EXCEPT !.core = [i \in Core |->
          IF i > f.dol THEN @[i]
          ELSE [@[i] EXCEPT !.g = i > 0 /\ i >= f.addr1 /\ i <= f.addr2
                                      /\ f.core[i].line \in match]]], cmd, new)

-----------------------------------------------------------------------------
(* The editing session, and the text it should have.                       *)

VARIABLES ed,     \* [core, dol, dot, addr1, addr2, err]
          text    \* the text an editor would have: a sequence of lines

EdInit ==
    /\ ed = [core |-> NoCore, dol |-> 0, dot |-> 0, addr1 |-> NONE, addr2 |-> NONE,
             err |-> FALSE]
    /\ text = <<>>

\* The command with addresses a1,a2 before it; a1 = NONE: none.
With(a1, a2)  == [ed EXCEPT !.addr1 = a1, !.addr2 = a2]
Done(e)       == ed' = [e EXCEPT !.addr1 = NONE, !.addr2 = NONE]
Addresses     == {<<NONE, NONE>>} \cup ((0 .. ed.dol) \X (0 .. ed.dol))
Lo(a)         == IF a[2] = NONE THEN ed.dot ELSE a[1]
Hi(a)         == IF a[2] = NONE THEN ed.dot ELSE a[2]
Cut(s, i, j)  == SubSeq(s, 1, i - 1) \o SubSeq(s, j + 1, Len(s))
Insert(s, new, i) == SubSeq(s, 1, i) \o new \o SubSeq(s, i + 1, Len(s))
Legal(a)      == 1 <= Lo(a) /\ Lo(a) <= Hi(a)

\* a, i and r: after addr2, before it, and after a line for a file read.
CmdAppend(a, new, before) ==
    /\ ed.dol + Len(new) <= MaxLines
    /\ LET e == setdot(With(a[1], a[2]))
           f == IF before THEN nonzero(e) ELSE e
           at == IF before THEN f.addr2 - 1 ELSE f.addr2
       IN /\ Done(append(f, new, at))
          /\ text' = IF f.err THEN text ELSE Insert(text, new, at)

CmdDelete(a) ==
    /\ Done(delete(With(a[1], a[2])))
    /\ text' = IF Legal(a) THEN Cut(text, Lo(a), Hi(a)) ELSE text

\* c: delete, then append before the first line deleted.
CmdChange(a, new) ==
    /\ ed.dol + Len(new) <= MaxLines
    /\ LET f == delete(With(a[1], a[2])) IN Done(append(f, new, f.addr1 - 1))
    /\ text' = IF Legal(a) THEN Insert(Cut(text, Lo(a), Hi(a)), new, Lo(a) - 1) ELSE text

CmdMove(a, cflag, to) ==
    /\ cflag => ed.dol + Hi(a) - Lo(a) + 1 <= MaxLines
    /\ Done(move(With(a[1], a[2]), cflag, to))
    /\ LET seg == SubSeq(text, Lo(a), Hi(a))
       IN text' = IF ~ Legal(a) THEN text
                  ELSE IF cflag THEN Insert(text, seg, to)
                  ELSE IF to < Lo(a) THEN Insert(Cut(text, Lo(a), Hi(a)), seg, to)
                  ELSE IF to > Hi(a)
                    THEN Insert(Cut(text, Lo(a), Hi(a)), seg, to - Len(seg))
                  ELSE text

\* Newline, p and l: print, from the line after dot when no address is given.
CmdPrint(a, nl) ==
    /\ LET e == nonzero(setdot(IF nl /\ a[2] = NONE
                                 THEN With(ed.dot + 1, ed.dot + 1)
                                 ELSE With(IF nl THEN a[2] ELSE a[1], a[2])))
       IN Done([e EXCEPT !.dot = e.addr2])
    /\ text' = text

\* g/x/ and v/x/ over the whole buffer with the commands d, m0, t0 and s.
CmdGlobal(x, k, cmd, new) ==
    /\ ed.dol > 0
    /\ cmd = "t" => 2 * ed.dol <= MaxLines
    /\ LET match == IF k THEN {x} ELSE Line \ {x}
           hit  == SelectSeq(text, LAMBDA l : l \in match)
           miss == SelectSeq(text, LAMBDA l : l \notin match)
       IN /\ Done(global(With(NONE, NONE), match, cmd, new))
          /\ text' = CASE cmd = "d" -> miss
                       [] cmd = "m" -> Reverse(hit) \o miss
                       [] cmd = "t" -> Reverse(hit) \o text
                       [] cmd = "s" -> [i \in DOMAIN text |->
                                          IF text[i] \in match THEN new ELSE text[i]]

\* s over the addressed lines: x becomes the lines new.
CmdSubstitute(a, x, new) ==
    /\ Legal(a) => ed.dol + (Len(new) - 1) *
                     Cardinality({i \in Lo(a) .. Hi(a) : text[i] = x}) <= MaxLines
    /\ LET S(l) == IF l = x THEN new ELSE <<l>>
       IN /\ Done(substitute(With(a[1], a[2]), {x}, new, FALSE))
          /\ text' = IF ~ Legal(a) THEN text
                     ELSE SubSeq(text, 1, Lo(a) - 1)
                          \o FoldLeft(LAMBDA acc, l : acc \o S(l), <<>>,
                                      SubSeq(text, Lo(a), Hi(a)))
                          \o SubSeq(text, Hi(a) + 1, Len(text))

NewLines == {<<l>> : l \in Line} \cup {<<l, l>> : l \in Line}

\* What happens after an error was reported is not followed.
EdNext ==
    /\ ~ ed.err
    /\ \/ \E a \in Addresses, new \in NewLines, b \in BOOLEAN : CmdAppend(a, new, b)
       \/ \E a \in Addresses : CmdDelete(a)
       \/ \E a \in Addresses, l \in Line : CmdChange(a, <<l>>)
       \/ \E a \in Addresses, c \in BOOLEAN, to \in 0 .. ed.dol : CmdMove(a, c, to)
       \/ \E a \in Addresses, nl \in BOOLEAN : CmdPrint(a, nl)
       \/ \E x, l \in Line, k \in BOOLEAN, cmd \in {"d", "m", "t", "s"} :
            CmdGlobal(x, k, cmd, l)
       \/ \E a \in Addresses, x \in Line, new \in NewLines : CmdSubstitute(a, x, new)

EdSpec == EdInit /\ [][EdNext]_<<ed, text>>

\* After any series of commands none of which was rejected, the array holds
\* the text a reader of the manual expects (lines inserted, cut, moved by three
\* reversals, copied, substituted, and a global run once for each line that
\* matched when it began), no mark of a global is left, and dot is a line.
BufferIsTheText ==
    ~ ed.err =>
      /\ ed.dol = Len(text) /\ ed.dot \in 0 .. ed.dol
      /\ \A i \in 1 .. ed.dol : ed.core[i] = Ent(text[i])
=============================================================================
