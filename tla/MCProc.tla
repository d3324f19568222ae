------------------------------- MODULE MCProc -------------------------------
(* Processes: idle, init and a few more slots.                             *)
EXTENDS Proc, TLC

CONSTANTS t0, t1, t2, t3, dev

Four == {t0, t1, t2, t3}
P_wait4 == [t \in Four |-> <<"p_wait", t>>]
Disk == {dev}
NoDev == {}
WaitQ4 == {P_wait4[t] : t \in Four}
WaitQ4Disk == WaitQ4 \cup Disk
Statuses == {0}

MaxDrift == 1
DriftBound == \A q \in DevQ : tq_size[q] >= -MaxDrift
(* init and the other processes may be any of the slots.                    *)
Slots == Permutations(Thread \ {t0})

LiveSpec == ProcSpec /\ ProcFairness
=============================================================================
