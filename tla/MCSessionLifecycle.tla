------------------------- MODULE MCSessionLifecycle -------------------------
(* Model values and symmetry for the runs of SessionLifecycle. *)
EXTENDS SessionLifecycle, TLC

CONSTANTS w1, w2, w3, s1, s2, s3, e1, e2

TwoWorkers == {w1, w2}
ThreeWorkers == {w1, w2, w3}
OneSession == {s1}
TwoSessions == {s1, s2}
ThreeSessions == {s1, s2, s3}
OneEvent == {e1}
TwoEvents == {e1, e2}

(* Workers, session objects and accept events are interchangeable. *)
Symmetry ==
  Permutations(Workers) \cup Permutations(Sessions) \cup Permutations(Events)
=============================================================================
