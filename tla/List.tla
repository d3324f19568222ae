-------------------------------- MODULE List --------------------------------
(***************************************************************************)
(* The kernel's linked lists (include/util/list.h), as the sequences of    *)
(* the items that are linked, head first.  An item has one link for a kind *)
(* of list, so it is once on one list.  Insertion at an end is Append or    *)
(* its mirror; what is left is list_insert_before and list_remove, which   *)
(* link and unlink an item wherever it is.                                 *)
(***************************************************************************)
EXTENDS Integers, Sequences

\* list_insert_before the link that is the i-th of list l.
list_insert_before(l, i, x) == Append(SubSeq(l, 1, i - 1), x) \o SubSeq(l, i, Len(l))

\* list_remove of the link that is the i-th of list l.
list_remove_at(l, i) == SubSeq(l, 1, i - 1) \o SubSeq(l, i + 1, Len(l))

\* What list_remove of x's link leaves of list l, whether x is on it or not.
list_remove(l, x) ==
  IF \E i \in 1..Len(l) : l[i] = x
  THEN list_remove_at(l, CHOOSE i \in 1..Len(l) : l[i] = x)
  ELSE l
=============================================================================
