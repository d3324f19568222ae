------------------------------- MODULE Memory -------------------------------
(***************************************************************************)
(* What the virtual memory promises a user program, with no objects, page  *)
(* tables or faults: each live process has pages, a page has a value, and  *)
(* two pages are one memory exactly when they carry the same share key.    *)
(* fork copies: afterwards a write of one process is seen by the other     *)
(* only in the pages they share.                                           *)
(***************************************************************************)
EXTENDS Integers

CONSTANTS Proc, Page, Value, Fresh, NULL

VARIABLES mem,   \* mem[p]: NULL, or the pages of p: [val, share]
          out    \* what the last access returned

vars == <<mem, out>>

Shared(q, w, p, v) ==
    \/ q = p /\ w = v
    \/ mem[q][w].share # NULL /\ mem[q][w].share = mem[p][v].share

Keys == {mem[x[1]][x[2]].share : x \in
            {y \in Proc \X Page : mem[y[1]] # NULL /\ y[2] \in DOMAIN mem[y[1]]}}

Init == /\ \E p \in Proc : /\ mem[p] # NULL
                           /\ \A v \in DOMAIN mem[p] : mem[p][v].share = NULL
                           /\ \A q \in Proc \ {p} : mem[q] = NULL
        /\ out = NULL

\* New pages appear: all alike, and none of them shared with a page there is.
Map(p) ==
    LET old == mem[p] new == mem'[p]
    IN /\ old # NULL /\ new # NULL
       /\ DOMAIN old \subseteq DOMAIN new
       /\ \A v \in DOMAIN old : new[v] = old[v]
       /\ \E x \in Fresh : \A v \in DOMAIN new \ DOMAIN old :
             new[v].val = x /\ new[v].share \notin Keys \ {NULL}
       /\ \A q \in Proc \ {p} : mem'[q] = mem[q]
       /\ out' = NULL

Unmap(p) ==
    LET old == mem[p] new == mem'[p]
    IN /\ old # NULL /\ new # NULL
       /\ DOMAIN new \subseteq DOMAIN old
       /\ \A v \in DOMAIN new : new[v] = old[v]
       /\ \A q \in Proc \ {p} : mem'[q] = mem[q]
       /\ out' = NULL

Read(p, v) ==
    /\ mem[p] # NULL /\ v \in DOMAIN mem[p]
    /\ out' = mem[p][v].val
    /\ UNCHANGED mem

Write(p, v, x) ==
    /\ mem[p] # NULL /\ v \in DOMAIN mem[p]
    /\ mem' = [q \in Proc |-> IF mem[q] = NULL THEN NULL ELSE
                 [w \in DOMAIN mem[q] |->
                    IF Shared(q, w, p, v) THEN [mem[q][w] EXCEPT !.val = x]
                                          ELSE mem[q][w]]]
    /\ out' = NULL

Fork(p, c) ==
    /\ mem[p] # NULL /\ mem[c] = NULL
    /\ mem' = [mem EXCEPT ![c] = mem[p]]
    /\ out' = NULL

Exit(p) == mem[p] # NULL /\ mem' = [mem EXCEPT ![p] = NULL] /\ out' = NULL

Next == \E p \in Proc :
            \/ Map(p) \/ Unmap(p) \/ Exit(p)
            \/ \E v \in Page : Read(p, v) \/ \E x \in Value : Write(p, v, x)
            \/ \E c \in Proc : Fork(p, c)

Spec == Init /\ [][Next]_vars
=============================================================================
