------------------------------ MODULE EdRegex -------------------------------
(***************************************************************************)
(* The matcher of the editor (user/bin/ed.c): execute, advance and cclass   *)
(* on a compiled pattern, and the repeated search of s///g.                 *)
(*                                                                          *)
(* A pattern is [circ, items, dol]: anchored at the left (circfl), a        *)
(* sequence of items, anchored at the right (CDOL).  An item matches a      *)
(* character of a set, once or (star) any number of times: CCHR a set of    *)
(* one, CDOT all, CCL and NCCL a set and its complement.  Positions of a    *)
(* line s are 1 .. Len(s) + 1, the last being its NUL.                      *)
(***************************************************************************)
EXTENDS Integers, Sequences, FiniteSets, SequencesExt, FiniteSetsExt

CONSTANTS Char, MaxItems, MaxText

Item    == [set : {{c} : c \in Char} \cup {Char} \cup {Char \ {c} : c \in Char},
            star : BOOLEAN]
\* compile takes no empty pattern.
Pattern == {p \in [circ : BOOLEAN, items : SeqOf(Item, MaxItems), dol : BOOLEAN] :
              p.items # <<>> \/ p.dol}

\* cclass answers 0 for the NUL, whatever the set.
cclass(s, lp, item) == lp <= Len(s) /\ s[lp] \in item.set

FAIL == 0

\* The end of a match of the items from k on that begins at lp.  A star takes
\* all it can and gives back one by one; it never gives back to locs, where the
\* last substitution ended.
RECURSIVE advance(_, _, _, _, _), Star(_, _, _, _, _, _)
advance(s, lp, p, k, locs) ==
    IF k > Len(p.items)
      THEN IF p.dol /\ lp <= Len(s) THEN FAIL ELSE lp
    ELSE IF p.items[k].star
      THEN LET far == Max({m \in lp .. Len(s) + 1 :
                              \A i \in lp .. m - 1 : cclass(s, i, p.items[k])})
           IN Star(s, lp, far, p, k, locs)
    ELSE IF cclass(s, lp, p.items[k]) THEN advance(s, lp + 1, p, k + 1, locs) ELSE FAIL

Star(s, curlp, lp, p, k, locs) ==
    LET end == advance(s, lp, p, k + 1, locs)
    IN IF lp = locs THEN FAIL
       ELSE IF end # FAIL THEN end
       ELSE IF lp > curlp THEN Star(s, curlp, lp - 1, p, k, locs) ELSE FAIL

NOLOCS  == 0
NOMATCH == [loc1 |-> 0, loc2 |-> 0]

\* The first position from which advance succeeds.
SearchFrom(s, p, from, locs) ==
    LET hits == {i \in from .. Len(s) + 1 : advance(s, i, p, 1, locs) # FAIL}
    IN IF hits = {} THEN NOMATCH
       ELSE [loc1 |-> Min(hits), loc2 |-> advance(s, Min(hits), p, 1, locs)]

execute(s, p) ==
    IF p.circ
      THEN LET end == advance(s, 1, p, 1, NOLOCS)
           IN IF end = FAIL THEN NOMATCH ELSE [loc1 |-> 1, loc2 |-> end]
      ELSE SearchFrom(s, p, 1, NOLOCS)

\* execute(1, 0): the search goes on where the last match ended.
execute_again(s, p, loc2) == IF p.circ THEN NOMATCH ELSE SearchFrom(s, p, loc2, loc2)

\* The matches s/p/.../g replaces.  A replacement is inserted before loc2, so
\* what is left of the line is searched as it was.
RECURSIVE GlobalMatches(_, _, _, _)
GlobalMatches(s, p, m, n) ==
    IF m = NOMATCH \/ n = 0 THEN <<>>
    ELSE IF m.loc2 > Len(s) THEN <<m>>
    ELSE <<m>> \o GlobalMatches(s, p, execute_again(s, p, m.loc2), n - 1)

-----------------------------------------------------------------------------
(* One pattern and one line, and what the editor finds.                    *)

VARIABLES pat, line, found

RegexInit ==
    /\ pat \in Pattern
    /\ line \in SeqOf(Char, MaxText)
    /\ found = "not yet"

\* The bound is one more than the matches a line can hold.
Substitute ==
    /\ found = "not yet"
    /\ found' = GlobalMatches(line, pat, execute(line, pat), MaxText + 2)
    /\ UNCHANGED <<pat, line>>

RegexNext == Substitute
RegexSpec == RegexInit /\ [][RegexNext]_<<pat, line, found>>

-----------------------------------------------------------------------------
(* What a pattern means.                                                   *)

\* The ends the items may reach from the positions S: a set at a time.
Ends(s, p, from) ==
    LET One(S, item) == {i + 1 : i \in {j \in S : cclass(s, j, item)}}
        Many(S, item) == {j \in 1 .. Len(s) + 1 :
                            \E i \in S : i <= j /\ \A x \in i .. j - 1 : cclass(s, x, item)}
        all == FoldLeft(LAMBDA S, item : IF item.star THEN Many(S, item) ELSE One(S, item),
                        {from}, p.items)
    IN IF p.dol THEN all \cap {Len(s) + 1} ELSE all

Starts(p, s) == IF p.circ THEN {1} ELSE 1 .. Len(s) + 1

\* The backtracking search finds a match exactly when the line has one; it is
\* the leftmost; and s///g, whose stars may match nothing, stops: each match is
\* one the pattern allows and ends after the one before it.
MatchesAreRight ==
    found # "not yet" =>
      LET possible == {i \in Starts(pat, line) : Ends(line, pat, i) # {}}
      IN /\ found = <<>> <=> possible = {}
         /\ found # <<>> => found[1].loc1 = Min(possible)
         /\ \A k \in DOMAIN found : found[k].loc2 \in Ends(line, pat, found[k].loc1)
         /\ \A k \in 1 .. Len(found) - 1 : /\ found[k + 1].loc1 >= found[k].loc2
                                           /\ found[k + 1].loc2 > found[k].loc2
=============================================================================
