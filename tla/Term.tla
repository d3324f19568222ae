-------------------------------- MODULE Term --------------------------------
(***************************************************************************)
(* The keyboard (drivers/tty/keyboard.c), the virtual terminals            *)
(* (drivers/tty/virtterm.c) and the screen (drivers/tty/screen.c).  A      *)
(* terminal t has a circular scroll buffer of ROWS rows:                   *)
(*                                                                         *)
(*   vt[t]    [head, tail, top, cursor, buf], as in virtterm_t;            *)
(*   curterm  vt_curterm; screen and spot: video memory and the cursor;    *)
(*   mask     curmask of the keyboard;                                     *)
(*   text[t]  what was written, never wrapped (a ghost): the cells that    *)
(*            are kept, the cursor, the first kept cell and the end.       *)
(*                                                                         *)
(* The tty above echoes a key to its own terminal.  A character is one of  *)
(* Char, "BS", "CR" or "LF"; 0 is an empty cell.                           *)
(***************************************************************************)
EXTENDS Integers, Sequences, FiniteSets

CONSTANTS NTERMS, DISPLAY_WIDTH, DISPLAY_HEIGHT, ROWS, Char,
          MaxCell    \* bound: the cells that may be written, of each terminal

VARIABLES vt, curterm, screen, spot, mask, text

DISPLAY_SIZE   == DISPLAY_WIDTH * DISPLAY_HEIGHT
SCROLL_BUFSIZE == ROWS * DISPLAY_WIDTH
Term    == 0 .. NTERMS - 1
Display == 0 .. DISPLAY_SIZE - 1

buf_add(p, n)      == (p + n + SCROLL_BUFSIZE) % SCROLL_BUFSIZE
circ_dist(to, frm) == (to - frm + SCROLL_BUFSIZE) % SCROLL_BUFSIZE
next_row(i)        == ((i \div DISPLAY_WIDTH + 1) * DISPLAY_WIDTH) % SCROLL_BUFSIZE

-----------------------------------------------------------------------------
(* Drawing.                                                                *)

\* The buffer from top to the tail, at most a screenful; blank below.
vt_redraw(v) ==
    [i \in Display |->
        IF i < (IF v.top <= v.tail THEN v.tail - v.top
                ELSE SCROLL_BUFSIZE - v.top + v.tail)
          THEN v.buf[(v.top + i) % SCROLL_BUFSIZE] ELSE 0]

vt_cursor_redraw(v) == circ_dist(v.cursor, v.top)

\* The tail moves on when the cursor reaches it; a full buffer gives up its
\* oldest rows; the row that is gained is cleared.
handle_tail(v, new) ==
    LET tail == next_row(new)
    IN IF circ_dist(new, v.cursor) < circ_dist(v.tail, v.cursor) THEN v
       ELSE [v EXCEPT
          !.head = IF circ_dist(v.tail, v.head) >= circ_dist(v.tail, tail)
                     THEN next_row(tail) ELSE @,
          !.buf  = [i \in DOMAIN @ |->
              IF (v.tail <= tail /\ v.tail <= i /\ i < tail)
                 \/ (v.tail > tail /\ (v.tail <= i \/ i < tail)) THEN 0 ELSE @[i]],
          !.tail = tail]

vt_handle_char(v, c) ==
    CASE c = "BS" -> [v EXCEPT !.cursor = IF @ # v.head THEN buf_add(@, -1) ELSE @]
      [] c = "CR" -> [v EXCEPT !.cursor = (@ \div DISPLAY_WIDTH) * DISPLAY_WIDTH]
      [] c = "LF" -> [handle_tail(v, next_row(v.cursor)) EXCEPT !.cursor = next_row(v.cursor)]
      [] OTHER    -> [handle_tail([v EXCEPT !.buf[v.cursor] = c], buf_add(v.cursor, 1))
                        EXCEPT !.cursor = buf_add(v.cursor, 1)]

\* A cursor that is not on the screen first brings the last screenful back.
ScrollTo(v) ==
    IF circ_dist(v.cursor, v.top) < DISPLAY_SIZE THEN v
    ELSE [v EXCEPT !.top = buf_add(next_row(v.cursor), - DISPLAY_SIZE)]

(* Mutant: the character is drawn where the cursor is now.                 *)
DrawAfter(old, v, c) ==
    IF old.top # v.top THEN vt_redraw(v)
    ELSE IF c \in Char THEN [screen EXCEPT ![circ_dist(v.cursor, v.top)] = c]
    ELSE screen

\* Only the character is drawn if the top has not moved.
Draw(old, v, c) ==
    IF old.top # v.top THEN vt_redraw(v)
    ELSE IF c \in Char THEN [screen EXCEPT ![circ_dist(old.cursor, v.top)] = c]
    ELSE screen

-----------------------------------------------------------------------------
(* The text, as an endless page.                                           *)

RowEnd(p) == (p \div DISPLAY_WIDTH + 1) * DISPLAY_WIDTH

Typed(x, c) ==
    LET to  == CASE c = "BS" -> IF x.at = x.first THEN x.at ELSE x.at - 1
                 [] c = "CR" -> RowEnd(x.at) - DISPLAY_WIDTH
                 [] c = "LF" -> RowEnd(x.at)
                 [] OTHER    -> x.at + 1
        end == IF to < x.end THEN x.end ELSE RowEnd(to)
        kept  == (ROWS - 1) * DISPLAY_WIDTH
        first == IF end - x.first > kept THEN end - kept ELSE x.first
        cell  == IF c \in Char THEN [x.cell EXCEPT ![x.at] = c] ELSE x.cell
    IN [cell  |-> [i \in DOMAIN cell |-> IF i < first THEN 0 ELSE cell[i]],
        at    |-> to, end |-> end, first |-> first]

-----------------------------------------------------------------------------
(* Actions.                                                                *)

vt_init ==
    /\ vt = [t \in Term |-> [head |-> 0, tail |-> DISPLAY_WIDTH, top |-> 0, cursor |-> 0,
                             buf |-> [i \in 0 .. SCROLL_BUFSIZE - 1 |-> 0]]]
    /\ curterm = 0 /\ screen = [i \in Display |-> 0] /\ spot = 0
    /\ mask = {}
    /\ text = [t \in Term |-> [cell |-> [i \in 0 .. MaxCell[t] |-> 0], at |-> 0,
                               first |-> 0, end |-> DISPLAY_WIDTH]]

Bounded(t, c) == Typed(text[t], c).end <= MaxCell[t]

vt_provide_char(t, c) ==
    LET v == vt_handle_char(ScrollTo(vt[t]), c)
    IN /\ Bounded(t, c)
       /\ vt' = [vt EXCEPT ![t] = v]
       /\ text' = [text EXCEPT ![t] = Typed(@, c)]
       /\ screen' = IF curterm = t THEN Draw(vt[t], v, c) ELSE screen
       /\ spot' = IF curterm = t THEN vt_cursor_redraw(v) ELSE spot
       /\ UNCHANGED curterm

Show(t, v) ==
    /\ curterm' = t /\ vt' = [vt EXCEPT ![t] = v]
    /\ screen' = vt_redraw(v) /\ spot' = vt_cursor_redraw(v)
    /\ UNCHANGED text

vt_switch(t) == IF t \in Term THEN Show(t, vt[t])
                ELSE UNCHANGED <<vt, curterm, screen, spot, text>>

\* A screenful up to the head, or down to the last row.
vt_scroll(lines, up) ==
    LET v == vt[curterm]
        n == lines * DISPLAY_WIDTH
    IN Show(curterm, [v EXCEPT !.top =
          IF up THEN IF circ_dist(v.top, v.head) < n THEN v.head ELSE buf_add(v.top, -n)
          ELSE IF circ_dist(v.tail, v.top) < n + DISPLAY_WIDTH
                 THEN buf_add(v.tail, - DISPLAY_WIDTH) ELSE buf_add(v.top, n)])

FKey == <<"F1", "F2", "F3", "F4", "F5", "F6", "F7", "F8", "F9", "F10">>

\* The keys: shift and ctrl (pressed or released), the function keys, Enter and
\* Backspace, letters, and keys that give nothing.  Escape prefixes have their
\* top bit taken off before they are compared, so they count as released keys.
keyboard_intr_handler(key) ==
    \/ /\ key \in {"+shift", "+ctrl", "-shift", "-ctrl", "esc"}
       /\ mask' = CASE key = "+shift" -> mask \cup {"SHIFT"}
                    [] key = "-shift" -> mask \ {"SHIFT"}
                    [] key = "+ctrl"  -> mask \cup {"CTRL"}
                    [] key = "-ctrl"  -> mask \ {"CTRL"}
                    [] OTHER          -> mask
       /\ UNCHANGED <<vt, curterm, screen, spot, text>>
    \/ /\ \E n \in 1 .. 10 : key = FKey[n] /\ vt_switch(n - 1)
       /\ UNCHANGED mask
    \/ /\ key \in {"enter", "backspace"} /\ "CTRL" \in mask
       /\ vt_scroll(DISPLAY_HEIGHT, key = "backspace") /\ UNCHANGED mask
    \/ /\ key \in {"enter", "backspace"} /\ "CTRL" \notin mask
       /\ vt_provide_char(curterm, IF key = "enter" THEN "LF" ELSE "BS") /\ UNCHANGED mask
    \/ /\ key = "letter" /\ "CTRL" \notin mask
       /\ \E c \in Char : vt_provide_char(curterm, c)
       /\ UNCHANGED mask

Write(t) == \E c \in Char \cup {"BS", "CR", "LF"} :
                vt_provide_char(t, c) /\ UNCHANGED mask

Key == {"+shift", "+ctrl", "-shift", "-ctrl", "esc", "F1", "F2", "F10",
        "enter", "backspace", "letter"}
TermNext == \/ \E t \in Term : Write(t)
            \/ \E key \in Key : keyboard_intr_handler(key)
TermVars == <<vt, curterm, screen, spot, mask, text>>
TermSpec == vt_init /\ [][TermNext]_TermVars

-----------------------------------------------------------------------------
(* Properties.                                                             *)

\* The top row is one of those kept.  It is not when the cursor was moved back,
\* off the screen, to the first rows of the buffer: ScrollTo then counts a
\* screenful back from the cursor and passes the head.
TopIsKept(v) == circ_dist(v.top, v.head) < circ_dist(v.tail, v.head)

\* The screen is what a redraw of the current terminal would give, and the
\* cursor is where it says, although most characters are drawn one by one and
\* writes to other terminals, switches and scrolling come in between.
ScreenIsCurrent ==
    /\ TopIsKept(vt[curterm]) => screen = vt_redraw(vt[curterm])
    /\ spot = vt_cursor_redraw(vt[curterm])

\* The circular buffer of every terminal holds the last ROWS - 1 rows of what
\* was written to it, blank where nothing was, through every wrap of head,
\* tail and cursor.
ScrollbackIsText ==
    \A t \in Term :
      LET v == vt[t] x == text[t]
      IN /\ v.head = x.first % SCROLL_BUFSIZE /\ v.tail = x.end % SCROLL_BUFSIZE
         /\ v.cursor = x.at % SCROLL_BUFSIZE
         /\ \A p \in x.first .. x.end - 1 : v.buf[p % SCROLL_BUFSIZE] = x.cell[p]
=============================================================================
