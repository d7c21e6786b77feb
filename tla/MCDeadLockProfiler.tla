------------------------- MODULE MCDeadLockProfiler -------------------------
(* Model values and symmetry for the runs of DeadLockProfiler. *)
EXTENDS DeadLockProfiler, TLC

CONSTANTS t1, t2, t3, l1, l2, l3, l4

TwoThreads == {t1, t2}
ThreeThreads == {t1, t2, t3}
TwoLocks == {l1, l2}
FourLocks == {l1, l2, l3, l4}

(* One lock of each class, as the name of a class says. *)
OwnClass == [l \in Locks |-> l]

(* Two locks of one class, as those of two sessions, and one of each other:*)
(* the locks of a class stand for its name.                                *)
SharedClass == [l \in Locks |-> IF l \in {l3, l4} THEN {l3, l4} ELSE {l}]

(* Threads are interchangeable, and so are locks of one class, and classes *)
(* with one lock each.                                                     *)
Symmetry ==
  Permutations(Threads) \cup Permutations({l1, l2})
    \cup Permutations({l3, l4})
=============================================================================
