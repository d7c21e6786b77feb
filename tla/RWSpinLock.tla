----------------------------- MODULE RWSpinLock -----------------------------
(***************************************************************************)
(* The reader-writer spin lock of ServerCore/Lock.cpp, one action for each *)
(* access to _lockFlag.  The pc of a thread names where it is:             *)
(*                                                                         *)
(*   run      outside Lock                                                 *)
(*   wCas     WriteLock: about to compare-and-exchange                     *)
(*   wYield   WriteLock: the exchange failed, looking at the clock         *)
(*   wCount   WriteLock: exchanged, about to increment _writeCount         *)
(*   rLoad    ReadLock: about to read the count                            *)
(*   rCas     ReadLock: count read into expected                           *)
(*   rYield   ReadLock: the exchange failed, looking at the clock          *)
(*   uStore   WriteUnlock: _writeCount is 0, about to store EMPTY_FLAG     *)
(*                                                                         *)
(* Users hold the lock through ReadLockGuard and WriteLockGuard, so it is  *)
(* given back in the reverse order.  Thread ids fit in 16 bits and holds   *)
(* stay below 2^16, so the two halves of _lockFlag do not run into each    *)
(* other; Depth bounds the nesting.  MAX_SPIN_COUNT only says how often    *)
(* the clock is read, and the ten seconds of ACQUIRE_TIMEOUT_TIC may have  *)
(* passed at any look.                                                     *)
(***************************************************************************)
EXTENDS Naturals, Sequences, SequencesExt, FiniteSets

CONSTANTS
  Threads,
  NoThread,     \* the value 0 of the upper half of _lockFlag
  Depth         \* bound on the holds of one thread

ASSUME ThreadsAssumption == IsFiniteSet(Threads) /\ NoThread \notin Threads
ASSUME DepthAssumption == Depth \in Nat

VARIABLES
  flag,         \* _lockFlag: writer (upper half) and readers (lower half)
  writeCount,   \* _writeCount
  held,         \* history: the holds of each thread, innermost last
  expected,     \* local of ReadLock's loop, 0 outside
  pc,
  crash,        \* the argument of CRASH, "no" before
  misused       \* history: some thread has broken the rule of Lock.h:16
                \* and called WriteLock inside a ReadLock

vars == <<flag, writeCount, held, expected, pc, crash, misused>>

Labels == {"run", "wCas", "wYield", "wCount", "rLoad", "rCas", "rYield",
           "uStore"}

Timeouts == {"WRITE_LOCK_TIMEOUT", "READ_LOCK_TIMEOUT"}
Crashes == Timeouts \cup {"INVALID_UNLOCK_ORDER", "MULTIPLE_UNLOCK"}

TypeOK ==
  /\ flag \in [writer : Threads \cup {NoThread}, readers : Nat]
  /\ writeCount \in Nat
  /\ held \in [Threads -> Seq({"W", "R"})]
  /\ \A t \in Threads : Len(held[t]) <= Depth
  /\ expected \in [Threads -> Nat]
  /\ pc \in [Threads -> Labels]
  /\ crash \in Crashes \cup {"no"}
  /\ misused \in BOOLEAN

EmptyFlag == [writer |-> NoThread, readers |-> 0]

Init ==
  /\ flag = EmptyFlag
  /\ writeCount = 0
  /\ held = [t \in Threads |-> <<>>]
  /\ expected = [t \in Threads |-> 0]
  /\ pc = [t \in Threads |-> "run"]
  /\ crash = "no"
  /\ misused = FALSE

At(t, label) == crash = "no" /\ pc[t] = label
Goto(t, label) == pc' = [pc EXCEPT ![t] = label]
Take(t, mode) == held' = [held EXCEPT ![t] = Append(@, mode)]
GiveBack(t) == held' = [held EXCEPT ![t] = Front(@)]
Innermost(t, mode) == held[t] # <<>> /\ Last(held[t]) = mode
Die(cause) ==
  /\ crash' = cause
  /\ UNCHANGED <<flag, writeCount, held, expected, pc, misused>>

-----------------------------------------------------------------------------
(* The test for a recursive call. *)
IsWriter(t) == flag.writer = t

(* Lock::WriteLock up to its loop. *)
WriteLock(t) ==
  /\ At(t, "run")
  /\ Len(held[t]) < Depth
  /\ misused' = (misused \/ Innermost(t, "R"))
  /\ IF IsWriter(t)
     THEN /\ writeCount' = writeCount + 1
          /\ Take(t, "W")
          /\ UNCHANGED pc
     ELSE /\ Goto(t, "wCas")
          /\ UNCHANGED <<writeCount, held>>
  /\ UNCHANGED <<flag, expected, crash>>

(* Mutant: the readers are masked out of the comparison. *)
NoWriter == flag.writer = NoThread

Unowned == flag = EmptyFlag

WriteCas(t) ==
  /\ At(t, "wCas")
  /\ IF Unowned
     THEN /\ flag' = [flag EXCEPT !.writer = t]
          /\ Take(t, "W")
          /\ Goto(t, "wCount")
     ELSE /\ Goto(t, "wYield")
          /\ UNCHANGED <<flag, held>>
  /\ UNCHANGED <<writeCount, expected, crash, misused>>

(* Mutant: the first acquisition is not counted. *)
NotCounted == writeCount

OneMore == writeCount + 1

WriteCount(t) ==
  /\ At(t, "wCount")
  /\ writeCount' = OneMore
  /\ Goto(t, "run")
  /\ UNCHANGED <<flag, held, expected, crash, misused>>

WriteAgain(t) ==
  /\ At(t, "wYield")
  /\ Goto(t, "wCas")
  /\ UNCHANGED <<flag, writeCount, held, expected, crash, misused>>

WriteTimeout(t) ==
  /\ At(t, "wYield")
  /\ Die("WRITE_LOCK_TIMEOUT")

-----------------------------------------------------------------------------
(* Lock::ReadLock up to its loop. *)
ReadLock(t) ==
  /\ At(t, "run")
  /\ Len(held[t]) < Depth
  /\ IF IsWriter(t)
     THEN /\ flag' = [flag EXCEPT !.readers = @ + 1]
          /\ Take(t, "R")
          /\ UNCHANGED pc
     ELSE /\ Goto(t, "rLoad")
          /\ UNCHANGED <<flag, held>>
  /\ UNCHANGED <<writeCount, expected, crash, misused>>

ReadLoad(t) ==
  /\ At(t, "rLoad")
  /\ expected' = [expected EXCEPT ![t] = flag.readers]
  /\ Goto(t, "rCas")
  /\ UNCHANGED <<flag, writeCount, held, crash, misused>>

(* Mutant: the count is read and stored instead of exchanged. *)
NotWritten(t) == flag.writer = NoThread

CountUnchanged(t) == flag = [writer |-> NoThread, readers |-> expected[t]]

ReadCas(t) ==
  /\ At(t, "rCas")
  /\ IF CountUnchanged(t)
     THEN /\ flag' = [flag EXCEPT !.readers = expected[t] + 1]
          /\ Take(t, "R")
          /\ Goto(t, "run")
     ELSE /\ Goto(t, "rYield")
          /\ UNCHANGED <<flag, held>>
  /\ expected' = [expected EXCEPT ![t] = 0]
  /\ UNCHANGED <<writeCount, crash, misused>>

ReadAgain(t) ==
  /\ At(t, "rYield")
  /\ Goto(t, "rLoad")
  /\ UNCHANGED <<flag, writeCount, held, expected, crash, misused>>

ReadTimeout(t) ==
  /\ At(t, "rYield")
  /\ Die("READ_LOCK_TIMEOUT")

-----------------------------------------------------------------------------
(* Mutant: _writeCount is tested before it is decremented. *)
CountedDown == writeCount = 0

(* Mutant: _writeCount is not looked at. *)
AlwaysLast == TRUE

LastWrite == writeCount = 1

(* Lock::WriteUnlock up to the store: only the innermost of nested write   *)
(* holds is given back unless the count reaches 0.                         *)
WriteUnlock(t) ==
  /\ At(t, "run")
  /\ Innermost(t, "W")
  /\ IF flag.readers # 0
     THEN Die("INVALID_UNLOCK_ORDER")
     ELSE /\ writeCount' = writeCount - 1
          /\ IF LastWrite
             THEN Goto(t, "uStore") /\ UNCHANGED held
             ELSE GiveBack(t) /\ UNCHANGED pc
          /\ UNCHANGED <<flag, expected, crash, misused>>

StoreEmpty(t) ==
  /\ At(t, "uStore")
  /\ flag' = EmptyFlag
  /\ GiveBack(t)
  /\ Goto(t, "run")
  /\ UNCHANGED <<writeCount, expected, crash, misused>>

(* Lock::ReadUnlock: the count is decremented, then looked at. *)
ReadUnlock(t) ==
  /\ At(t, "run")
  /\ Innermost(t, "R")
  /\ IF flag.readers = 0
     THEN Die("MULTIPLE_UNLOCK")
     ELSE /\ flag' = [flag EXCEPT !.readers = @ - 1]
          /\ GiveBack(t)
          /\ UNCHANGED <<writeCount, expected, pc, crash, misused>>

(* CRASH writes through a null pointer: the process is gone. *)
Crashed == crash # "no" /\ UNCHANGED vars

-----------------------------------------------------------------------------
Call(t) == WriteLock(t) \/ ReadLock(t)

Spin(t) ==
  \/ WriteCas(t) \/ WriteCount(t) \/ WriteAgain(t)
  \/ ReadLoad(t) \/ ReadCas(t) \/ ReadAgain(t)

Release(t) == WriteUnlock(t) \/ StoreEmpty(t) \/ ReadUnlock(t)

Next ==
  \/ \E t \in Threads : \/ Call(t) \/ Spin(t) \/ Release(t)
                        \/ WriteTimeout(t) \/ ReadTimeout(t)
  \/ Crashed

Spec == Init /\ [][Next]_vars

(* Threads are scheduled, and every guard is destroyed: the guarded blocks *)
(* of this repository end.                                                 *)
Fairness == \A t \in Threads : WF_vars(Spin(t)) /\ WF_vars(Release(t))

FairSpec == Spec /\ Fairness

-----------------------------------------------------------------------------
Writes(t) == "W" \in Range(held[t])

(* A writer is alone, nested holds of its own aside; also when users break *)
(* the rule against R -> W.                                                *)
Exclusion ==
  \A t, u \in Threads : Writes(t) /\ t # u => held[u] = <<>>

(* The two halves of _lockFlag and _writeCount together say exactly who    *)
(* holds the lock and how often, the moments between two of their updates  *)
(* aside.                                                                  *)
ReadHolds ==
  {h \in Threads \X (1 .. Depth) :
     h[2] <= Len(held[h[1]]) /\ held[h[1]][h[2]] = "R"}

WriteHolds(t) == {i \in 1 .. Len(held[t]) : held[t][i] = "W"}

FlagCountsHolds ==
  /\ flag.readers = Cardinality(ReadHolds)
  /\ \A t \in Threads : flag.writer = t <=> Writes(t)
  /\ \A t \in Threads :
       Writes(t) =>
         writeCount = Cardinality(WriteHolds(t))
                        - (IF pc[t] \in {"wCount", "uStore"} THEN 1 ELSE 0)
  /\ flag.writer = NoThread => writeCount = 0

(* Lock.h:16, R_L -> W_L (X): a thread that holds the lock only for        *)
(* reading never gets it for writing, whatever the others do.              *)
NoUpgrade ==
  \A t \in Threads :
    held[t] # <<>> /\ held[t][1] = "R" => ~Writes(t)

(* Users who keep to the rule meet neither CRASH of the unlock functions:  *)
(* no interleaving makes a correct sequence of guards look like an         *)
(* INVALID_UNLOCK_ORDER or a MULTIPLE_UNLOCK.                              *)
OnlyTimeoutsCrash == ~misused => crash \in Timeouts \cup {"no"}

Waiting(t) == pc[t] \in {"wCas", "wYield", "rLoad", "rCas", "rYield"}

(* When no new calls come, every waiting thread gets the lock (or one of   *)
(* them has timed out): no release is lost and no failed exchange leaves   *)
(* the lock unusable.  A thread that breaks the rule waits for itself.     *)
WaitersServed ==
  <>[][~ \E t \in Threads : Call(t)]_vars
    => \A t \in Threads : Waiting(t) ~> ~Waiting(t) \/ crash # "no" \/ misused

(* The spin lock does what the policy of Lock.h promises. *)
Promise == INSTANCE RWLock
ImplementsRWLock == Promise!Spec
=============================================================================
