--------------------------- MODULE MCSessionSend ---------------------------
(* Model values and symmetry for the runs of SessionSend. *)
EXTENDS SessionSend, TLC

CONSTANTS t1, t2, t3, b1, b2, b3, b4

TwoThreads == {t1, t2}
ThreeThreads == {t1, t2, t3}
TwoBuffers == {b1, b2}
ThreeBuffers == {b1, b2, b3}
FourBuffers == {b1, b2, b3, b4}

(* Threads are interchangeable, and so are the calls of Send. *)
Symmetry == Permutations(Threads) \cup Permutations(Buffers)
=============================================================================
