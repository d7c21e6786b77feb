------------------------------- MODULE RWLock -------------------------------
(***************************************************************************)
(* What Lock promises its users (the policy comment of ServerCore/Lock.h): *)
(* one writer or many readers; a thread may take again, for writing or for *)
(* reading, a lock that it holds for writing (W -> W -> R), and may not    *)
(* take for writing one that it holds only for reading (R -> W).  Locks    *)
(* are given back in the reverse order, as scoped guards do.               *)
(***************************************************************************)
EXTENDS Sequences, SequencesExt

CONSTANT Threads

VARIABLE held      \* for each thread, its holds, innermost last

Writes(t) == "W" \in Range(held[t])

Init == held = [t \in Threads |-> <<>>]

LockWrite(t) ==
  /\ held[t] = <<>> \/ Writes(t)
  /\ \A u \in Threads \ {t} : held[u] = <<>>
  /\ held' = [held EXCEPT ![t] = Append(@, "W")]

LockRead(t) ==
  /\ \A u \in Threads \ {t} : ~Writes(u)
  /\ held' = [held EXCEPT ![t] = Append(@, "R")]

Unlock(t) ==
  /\ held[t] # <<>>
  /\ held' = [held EXCEPT ![t] = Front(@)]

Next == \E t \in Threads : LockWrite(t) \/ LockRead(t) \/ Unlock(t)

Spec == Init /\ [][Next]_held
=============================================================================
