---------------------------- MODULE MCRWSpinLock ----------------------------
(* Model values and symmetry for the runs of RWSpinLock. *)
EXTENDS RWSpinLock, TLC

CONSTANTS t1, t2, t3

TwoThreads == {t1, t2}
ThreeThreads == {t1, t2, t3}

(* Threads are interchangeable. *)
Symmetry == Permutations(Threads)
=============================================================================
