-------------------------- MODULE RWSpinLockProofs --------------------------
(***************************************************************************)
(* Proofs about RWSpinLock, for any number of threads and any depth of     *)
(* nested holds.  Exclusion rests on the exchanges, which compare the whole*)
(* of _lockFlag, and these mean what they should only as long as the flag  *)
(* and _writeCount count the holds: FlagCountsHolds has to be carried      *)
(* along.                                                                  *)
(***************************************************************************)
EXTENDS RWSpinLock, FiniteSetTheorems, SequenceTheorems, TLAPS

(* Where a thread can be, by what it holds. *)
PlaceInv ==
  \A t \in Threads :
    /\ Waiting(t) => ~Writes(t) /\ Len(held[t]) < Depth
    /\ pc[t] = "wCount" => Writes(t)
    /\ pc[t] = "uStore" =>
         Innermost(t, "W") /\ writeCount = 0 /\ flag.readers = 0

(* As long as nobody asks for the lock for writing inside a read hold, the *)
(* read holds of a thread are its innermost ones.                          *)
RuleInv ==
  ~misused =>
    \A t \in Threads :
      /\ \A i, j \in 1 .. Len(held[t]) :
           i < j /\ held[t][i] = "R" => held[t][j] = "R"
      /\ pc[t] \in {"wCas", "wYield"} => ~Innermost(t, "R")

IInv ==
  /\ TypeOK
  /\ Exclusion
  /\ NoUpgrade
  /\ FlagCountsHolds
  /\ PlaceInv
  /\ RuleInv
  /\ OnlyTimeoutsCrash

-----------------------------------------------------------------------------
(* The sets that FlagCountsHolds counts are finite. *)
LEMMA HoldsFinite ==
  ASSUME TypeOK
  PROVE  /\ IsFiniteSet(ReadHolds) /\ Cardinality(ReadHolds) \in Nat
         /\ \A t \in Threads : /\ IsFiniteSet(WriteHolds(t))
                               /\ Cardinality(WriteHolds(t)) \in Nat
<1>1. IsFiniteSet(ReadHolds)
  <2>1. IsFiniteSet(1 .. Depth)
    BY DepthAssumption, FS_Interval
  <2>2. IsFiniteSet(Threads \X (1 .. Depth))
    BY <2>1, ThreadsAssumption, FS_Product
  <2>3. ReadHolds \subseteq Threads \X (1 .. Depth)
    BY DEF ReadHolds
  <2>. QED
    BY <2>2, <2>3, FS_Subset
<1>2. ASSUME NEW t \in Threads PROVE IsFiniteSet(WriteHolds(t))
  <2>1. Len(held[t]) \in Nat
    BY DEF TypeOK
  <2>2. IsFiniteSet(1 .. Len(held[t]))
    BY <2>1, FS_Interval
  <2>3. WriteHolds(t) \subseteq 1 .. Len(held[t])
    BY DEF WriteHolds
  <2>. QED
    BY <2>2, <2>3, FS_Subset
<1>. QED
  BY <1>1, <1>2, FS_CardinalityType

(* Writes, said with positions, before and after a step. *)
LEMMA InRange ==
  ASSUME NEW s \in Seq({"W", "R"})
  PROVE  "W" \in Range(s) <=> \E i \in 1 .. Len(s) : s[i] = "W"
<1>1. DOMAIN s = 1 .. Len(s)
  OBVIOUS
<1>. QED
  BY <1>1 DEF Range

LEMMA WritesDef ==
  ASSUME TypeOK, NEW t \in Threads
  PROVE  /\ Writes(t) <=> \E i \in 1 .. Len(held[t]) : held[t][i] = "W"
         /\ Writes(t) <=> WriteHolds(t) # {}
<1>1. held[t] \in Seq({"W", "R"})
  BY DEF TypeOK
<1>2. Writes(t) <=> \E i \in 1 .. Len(held[t]) : held[t][i] = "W"
  BY <1>1, InRange DEF Writes
<1>. QED
  BY <1>2 DEF WriteHolds

LEMMA WritesDefNext ==
  ASSUME TypeOK', NEW t \in Threads
  PROVE  Writes(t)' <=> WriteHolds(t)' # {}
<1>1. held'[t] \in Seq({"W", "R"})
  BY DEF TypeOK
<1>2. Writes(t)' <=> \E i \in 1 .. Len(held'[t]) : held'[t][i] = "W"
  BY <1>1, InRange DEF Writes
<1>. QED
  BY <1>2 DEF WriteHolds

(* What acquiring does to the holds and to their numbers. *)
LEMMA TakeFacts ==
  ASSUME TypeOK, NEW t \in Threads, NEW mode \in {"W", "R"}, Take(t, mode),
         Len(held[t]) < Depth
  PROVE  /\ held' \in [Threads -> Seq({"W", "R"})]
         /\ \A u \in Threads : Len(held'[u]) <= Depth
         /\ \A u \in Threads \ {t} : held'[u] = held[u]
         /\ Len(held'[t]) = Len(held[t]) + 1
         /\ \A i \in 1 .. Len(held[t]) : held'[t][i] = held[t][i]
         /\ held'[t][Len(held[t]) + 1] = mode
<1>1. held'[t] = Append(held[t], mode) /\ held[t] \in Seq({"W", "R"})
  BY DEF Take, TypeOK
<1>2. held' \in [Threads -> Seq({"W", "R"})]
  BY <1>1 DEF Take, TypeOK
<1>3. \A u \in Threads \ {t} : held'[u] = held[u]
  BY DEF Take, TypeOK
<1>4. /\ Len(held'[t]) = Len(held[t]) + 1
      /\ \A i \in 1 .. Len(held[t]) : held'[t][i] = held[t][i]
      /\ held'[t][Len(held[t]) + 1] = mode
  BY <1>1
<1>5. ASSUME NEW u \in Threads PROVE Len(held'[u]) <= Depth
  <2>1. CASE u = t
    BY <1>1, <1>4, <2>1, DepthAssumption
  <2>2. CASE u # t
    BY <1>3, <2>2 DEF TypeOK
  <2>. QED
    BY <2>1, <2>2
<1>. QED
  BY <1>2, <1>3, <1>4, <1>5

(* What giving back the innermost hold does. *)
LEMMA GiveBackFacts ==
  ASSUME TypeOK, NEW t \in Threads, GiveBack(t), held[t] # <<>>
  PROVE  /\ held' \in [Threads -> Seq({"W", "R"})]
         /\ \A u \in Threads : Len(held'[u]) <= Depth
         /\ \A u \in Threads \ {t} : held'[u] = held[u]
         /\ Len(held[t]) >= 1
         /\ Len(held'[t]) = Len(held[t]) - 1
         /\ \A i \in 1 .. Len(held'[t]) : held'[t][i] = held[t][i]
<1>1. held'[t] = SubSeq(held[t], 1, Len(held[t]) - 1)
  BY DEF GiveBack, TypeOK, Front
<1>2. /\ held[t] \in Seq({"W", "R"})
      /\ Len(held[t]) \in Nat /\ Len(held[t]) >= 1
      /\ \A i \in 1 .. Len(held[t]) : held[t][i] \in {"W", "R"}
  BY EmptySeq DEF TypeOK
<1>3. \A u \in Threads \ {t} : held'[u] = held[u]
  BY DEF GiveBack, TypeOK
<1>4. /\ held'[t] \in Seq({"W", "R"})
      /\ Len(held'[t]) = Len(held[t]) - 1
      /\ \A i \in 1 .. Len(held[t]) - 1 : held'[t][i] = held[t][i]
  BY <1>1, <1>2, SubSeqProperties
<1>5. held' \in [Threads -> Seq({"W", "R"})]
  BY <1>3, <1>4 DEF GiveBack, TypeOK
<1>6. ASSUME NEW u \in Threads PROVE Len(held'[u]) <= Depth
  <2>1. CASE u = t
    <3>1. Len(held[t]) <= Depth
      BY DEF TypeOK
    <3>. QED
      BY <1>2, <1>4, <2>1, <3>1, DepthAssumption
  <2>2. CASE u # t
    BY <1>3, <2>2 DEF TypeOK
  <2>. QED
    BY <2>1, <2>2
<1>. QED
  BY <1>2, <1>3, <1>4, <1>5, <1>6

(* Acquiring adds one to the holds of its kind. *)
LEMMA TakeCounts ==
  ASSUME TypeOK, TypeOK', NEW t \in Threads, NEW mode \in {"W", "R"},
         Take(t, mode), Len(held[t]) < Depth
  PROVE  /\ Cardinality(ReadHolds') =
              Cardinality(ReadHolds) + (IF mode = "R" THEN 1 ELSE 0)
         /\ Cardinality(WriteHolds(t)') =
              Cardinality(WriteHolds(t)) + (IF mode = "W" THEN 1 ELSE 0)
         /\ \A u \in Threads \ {t} : WriteHolds(u)' = WriteHolds(u)
         /\ \A u \in Threads :
              Writes(u)' <=> Writes(u) \/ (u = t /\ mode = "W")
<1>. DEFINE n == Len(held[t]) + 1
<1>1. /\ n \in 1 .. Depth /\ n - 1 = Len(held[t]) /\ Len(held[t]) \in Nat
      /\ \A u \in Threads : Len(held[u]) \in Nat /\ Len(held[u]) <= Depth
  <2>1. \A u \in Threads : Len(held[u]) \in Nat /\ Len(held[u]) <= Depth
    BY DEF TypeOK
  <2>. QED
    BY <2>1, DepthAssumption
<1>2. /\ \A u \in Threads \ {t} : held'[u] = held[u]
      /\ Len(held'[t]) = n
      /\ \A i \in 1 .. n - 1 : held'[t][i] = held[t][i]
      /\ held'[t][n] = mode
  BY <1>1, TakeFacts
<1>. HIDE DEF n
<1>3. CASE mode = "R"
  <2>1. ReadHolds' = ReadHolds \cup {<<t, n>>}
    <3>1. ASSUME NEW u \in Threads, NEW i \in 1 .. Depth
          PROVE  <<u, i>> \in ReadHolds' <=>
                   <<u, i>> \in ReadHolds \/ <<u, i>> = <<t, n>>
      <4>1. CASE u # t
        BY <1>1, <1>2, <4>1 DEF ReadHolds
      <4>2. CASE u = t /\ i < n
        BY <1>1, <1>2, <4>2 DEF ReadHolds
      <4>3. CASE u = t /\ i = n
        BY <1>1, <1>2, <1>3, <4>3 DEF ReadHolds
      <4>4. CASE u = t /\ i > n
        BY <1>1, <1>2, <4>4 DEF ReadHolds
      <4>. QED
        BY <1>1, <4>1, <4>2, <4>3, <4>4
    <3>2. ReadHolds \subseteq Threads \X (1 .. Depth)
      BY DEF ReadHolds
    <3>3. ReadHolds' \subseteq Threads \X (1 .. Depth)
      BY DEF ReadHolds
    <3>4. <<t, n>> \in Threads \X (1 .. Depth)
      BY <1>1
    <3>5. ReadHolds \cup {<<t, n>>} \subseteq Threads \X (1 .. Depth)
      BY <3>2, <3>4
    <3>6. \A x \in Threads \X (1 .. Depth) :
            x \in ReadHolds' <=> x \in ReadHolds \cup {<<t, n>>}
      BY <3>1
    <3>. QED
      BY <3>3, <3>5, <3>6
  <2>2. <<t, n>> \notin ReadHolds
    BY <1>1 DEF ReadHolds
  <2>3. Cardinality(ReadHolds') = Cardinality(ReadHolds) + 1
    BY <2>1, <2>2, HoldsFinite, FS_AddElement
  <2>4. \A u \in Threads : WriteHolds(u)' = WriteHolds(u)
    <3>1. WriteHolds(t)' = WriteHolds(t)
      BY <1>1, <1>2, <1>3 DEF WriteHolds
    <3>. QED
      BY <1>2, <3>1 DEF WriteHolds
  <2>5. \A u \in Threads : Writes(u)' <=> Writes(u)
    BY <2>4, WritesDef, WritesDefNext
  <2>6. Cardinality(WriteHolds(t)) \in Nat
    BY HoldsFinite
  <2>. QED
    BY <1>3, <2>3, <2>4, <2>5, <2>6
<1>4. CASE mode = "W"
  <2>1. WriteHolds(t)' = WriteHolds(t) \cup {n}
    BY <1>1, <1>2, <1>4 DEF WriteHolds
  <2>2. n \notin WriteHolds(t)
    BY <1>1 DEF WriteHolds
  <2>3. Cardinality(WriteHolds(t)') = Cardinality(WriteHolds(t)) + 1
    BY <2>1, <2>2, HoldsFinite, FS_AddElement
  <2>4. ASSUME NEW u \in Threads \ {t} PROVE WriteHolds(u)' = WriteHolds(u)
    <3>1. held'[u] = held[u]
      BY <1>2
    <3>. QED
      BY <3>1 DEF WriteHolds
  <2>5. ReadHolds' = ReadHolds
    <3>1. ASSUME NEW u \in Threads, NEW i \in 1 .. Depth
          PROVE  <<u, i>> \in ReadHolds' <=> <<u, i>> \in ReadHolds
      <4>1. CASE u # t
        BY <1>1, <1>2, <4>1 DEF ReadHolds
      <4>2. CASE u = t /\ i < n
        BY <1>1, <1>2, <4>2 DEF ReadHolds
      <4>3. CASE u = t /\ i = n
        BY <1>1, <1>2, <1>4, <4>3 DEF ReadHolds
      <4>4. CASE u = t /\ i > n
        BY <1>1, <1>2, <4>4 DEF ReadHolds
      <4>. QED
        BY <1>1, <4>1, <4>2, <4>3, <4>4
    <3>2. ReadHolds \subseteq Threads \X (1 .. Depth)
      BY DEF ReadHolds
    <3>3. ReadHolds' \subseteq Threads \X (1 .. Depth)
      BY DEF ReadHolds
    <3>4. \A x \in Threads \X (1 .. Depth) :
            x \in ReadHolds' <=> x \in ReadHolds
      BY <3>1
    <3>. QED
      BY <3>2, <3>3, <3>4
  <2>6. \A u \in Threads : Writes(u)' <=> Writes(u) \/ u = t
    <3>1. WriteHolds(t)' # {}
      BY <2>1
    <3>. QED
      BY <2>4, <3>1, WritesDef, WritesDefNext
  <2>7. Cardinality(ReadHolds) \in Nat
    BY HoldsFinite
  <2>. QED
    BY <1>4, <2>3, <2>4, <2>5, <2>6, <2>7
<1>. QED
  BY <1>3, <1>4

(* Giving back takes one from the holds of its kind. *)
LEMMA GiveBackCounts ==
  ASSUME TypeOK, TypeOK', NEW t \in Threads, NEW mode \in {"W", "R"},
         GiveBack(t), Innermost(t, mode)
  PROVE  /\ Cardinality(ReadHolds') =
              Cardinality(ReadHolds) - (IF mode = "R" THEN 1 ELSE 0)
         /\ Cardinality(WriteHolds(t)') =
              Cardinality(WriteHolds(t)) - (IF mode = "W" THEN 1 ELSE 0)
         /\ \A u \in Threads \ {t} : WriteHolds(u)' = WriteHolds(u)
         /\ mode = "R" => \A u \in Threads : Writes(u)' <=> Writes(u)
         /\ mode = "R" => <<t, Len(held[t])>> \in ReadHolds
<1>. DEFINE n == Len(held[t])
<1>1. held[t] # <<>> /\ held[t][n] = mode
  BY DEF Innermost, Last
<1>2. /\ \A u \in Threads \ {t} : held'[u] = held[u]
      /\ n >= 1
      /\ Len(held'[t]) = n - 1
      /\ \A i \in 1 .. n - 1 : held'[t][i] = held[t][i]
  BY <1>1, GiveBackFacts
<1>3. /\ n \in 1 .. Depth
      /\ \A u \in Threads : Len(held[u]) \in Nat /\ Len(held[u]) <= Depth
  BY <1>2, DepthAssumption DEF TypeOK
<1>. HIDE DEF n
<1>4. /\ ReadHolds \subseteq Threads \X (1 .. Depth)
      /\ ReadHolds' \subseteq Threads \X (1 .. Depth)
      /\ <<t, n>> \in Threads \X (1 .. Depth)
  BY <1>3 DEF ReadHolds
<1>5. ASSUME NEW u \in Threads, NEW i \in 1 .. Depth
      PROVE  <<u, i>> \in ReadHolds' <=>
               <<u, i>> \in ReadHolds /\ <<u, i>> # <<t, n>>
  <2>1. CASE u # t
    BY <1>2, <1>3, <2>1 DEF ReadHolds
  <2>2. CASE u = t /\ i < n
    BY <1>2, <1>3, <2>2 DEF ReadHolds, n
  <2>3. CASE u = t /\ i >= n
    BY <1>2, <1>3, <2>3 DEF ReadHolds, n
  <2>. QED
    BY <1>3, <2>1, <2>2, <2>3
<1>6. ReadHolds' = ReadHolds \ {<<t, n>>}
  BY <1>4, <1>5
<1>7. WriteHolds(t)' = WriteHolds(t) \ {n}
  BY <1>2, <1>3 DEF WriteHolds, n
<1>8. \A u \in Threads \ {t} : WriteHolds(u)' = WriteHolds(u)
  BY <1>2 DEF WriteHolds
<1>9. CASE mode = "R"
  <2>1. <<t, n>> \in ReadHolds
    BY <1>1, <1>3, <1>9 DEF ReadHolds, n
  <2>2. Cardinality(ReadHolds') = Cardinality(ReadHolds) - 1
    BY <1>6, <2>1, HoldsFinite, FS_RemoveElement
  <2>3. n \notin WriteHolds(t)
    BY <1>1, <1>9 DEF WriteHolds
  <2>4. WriteHolds(t)' = WriteHolds(t)
    BY <1>7, <2>3
  <2>5. \A u \in Threads : Writes(u)' <=> Writes(u)
    BY <1>8, <2>4, WritesDef, WritesDefNext
  <2>6. Cardinality(WriteHolds(t)) \in Nat
    BY HoldsFinite
  <2>. QED
    BY <1>8, <1>9, <2>1, <2>2, <2>4, <2>5, <2>6 DEF n
<1>10. CASE mode = "W"
  <2>1. n \in WriteHolds(t)
    BY <1>1, <1>3, <1>10 DEF WriteHolds, n
  <2>2. Cardinality(WriteHolds(t)') = Cardinality(WriteHolds(t)) - 1
    BY <1>7, <2>1, HoldsFinite, FS_RemoveElement
  <2>3. <<t, n>> \notin ReadHolds
    BY <1>1, <1>10 DEF ReadHolds
  <2>4. ReadHolds' = ReadHolds
    BY <1>6, <2>3
  <2>5. Cardinality(ReadHolds) \in Nat
    BY HoldsFinite
  <2>. QED
    BY <1>8, <1>10, <2>2, <2>4, <2>5
<1>. QED
  BY <1>9, <1>10

-----------------------------------------------------------------------------
LEMMA InitIInv == Init => IInv
<1>. SUFFICES ASSUME Init PROVE IInv
  OBVIOUS
<1>1. TypeOK
  <2>1. /\ <<>> \in Seq({"W", "R"}) /\ Len(<<>>) <= Depth
        /\ \A t \in Threads : held[t] = <<>>
    BY DepthAssumption DEF Init
  <2>2. held \in [Threads -> Seq({"W", "R"})]
    BY <2>1 DEF Init
  <2>. QED
    BY <2>1, <2>2 DEF Init, TypeOK, EmptyFlag, Labels, Crashes, Timeouts
<1>2. \A t \in Threads : ~Writes(t)
  BY <1>1, WritesDef DEF Init
<1>3. ReadHolds = {}
  BY DepthAssumption DEF Init, ReadHolds
<1>4. FlagCountsHolds
  BY <1>2, <1>3, FS_EmptySet, ThreadsAssumption
  DEF Init, FlagCountsHolds, EmptyFlag
<1>5. Exclusion /\ NoUpgrade /\ OnlyTimeoutsCrash
  BY <1>2 DEF Init, Exclusion, NoUpgrade, OnlyTimeoutsCrash
<1>6. PlaceInv /\ RuleInv
  BY <1>2 DEF Init, PlaceInv, RuleInv, Waiting
<1>. QED
  BY <1>1, <1>4, <1>5, <1>6 DEF IInv

(* A step of a thread that does not get the lock and waits, at label.      *)
LEMMA WaitStep ==
  ASSUME IInv, NEW t \in Threads,
         NEW label \in {"wCas", "wYield", "rLoad", "rCas", "rYield"},
         Goto(t, label),
         ~Writes(t), Len(held[t]) < Depth, pc[t] \notin {"wCount", "uStore"},
         misused' \in BOOLEAN,
         ~misused' => /\ ~misused
                      /\ label \in {"wCas", "wYield"} => ~Innermost(t, "R"),
         expected' \in [Threads -> Nat],
         UNCHANGED <<flag, writeCount, held, crash>>
  PROVE  IInv'
<1>. USE DEF IInv
<1>1. /\ pc' \in [Threads -> Labels]
      /\ pc'[t] = label
      /\ \A u \in Threads \ {t} : pc'[u] = pc[u]
  BY DEF TypeOK, Goto, Labels
<1>2. TypeOK'
  BY <1>1 DEF TypeOK
<1>3. ReadHolds' = ReadHolds
  BY DEF ReadHolds
<1>4. \A u \in Threads : /\ Writes(u)' = Writes(u)
                         /\ WriteHolds(u)' = WriteHolds(u)
                         /\ \A mode \in {"W", "R"} :
                              Innermost(u, mode)' = Innermost(u, mode)
  BY DEF Writes, WriteHolds, Innermost
<1>5. Exclusion' /\ NoUpgrade' /\ OnlyTimeoutsCrash'
  BY <1>4 DEF Exclusion, NoUpgrade, OnlyTimeoutsCrash
<1>6. FlagCountsHolds'
  <2>1. \A u \in Threads : pc'[u] \in {"wCount", "uStore"}
                            <=> pc[u] \in {"wCount", "uStore"}
    BY <1>1
  <2>. QED
    BY <1>3, <1>4, <2>1 DEF FlagCountsHolds
<1>7. PlaceInv'
  <2>1. ASSUME NEW u \in Threads
        PROVE  /\ Waiting(u)' => ~Writes(u)' /\ Len(held'[u]) < Depth
               /\ pc'[u] = "wCount" => Writes(u)'
               /\ pc'[u] = "uStore" =>
                    Innermost(u, "W")' /\ writeCount' = 0 /\ flag'.readers = 0
    <3>1. CASE u = t
      BY <1>1, <1>4, <3>1
    <3>2. CASE u # t
      BY <1>1, <1>4, <3>2 DEF PlaceInv, Waiting
    <3>. QED
      BY <3>1, <3>2
  <2>. QED
    BY <2>1 DEF PlaceInv
<1>8. RuleInv'
  BY <1>1, <1>4 DEF RuleInv
<1>. QED
  BY <1>2, <1>5, <1>6, <1>7, <1>8

LEMMA DieStep ==
  ASSUME IInv, NEW cause \in Crashes, Die(cause),
         ~misused => cause \in Timeouts
  PROVE  IInv'
<1>. USE DEF IInv, Die
<1>1. ReadHolds' = ReadHolds
  BY DEF ReadHolds
<1>2. \A u \in Threads : /\ Writes(u)' = Writes(u)
                         /\ WriteHolds(u)' = WriteHolds(u)
                         /\ Waiting(u)' = Waiting(u)
                         /\ \A mode \in {"W", "R"} :
                              Innermost(u, mode)' = Innermost(u, mode)
  BY DEF Writes, WriteHolds, Waiting, Innermost
<1>3. TypeOK' /\ OnlyTimeoutsCrash'
  BY DEF TypeOK, OnlyTimeoutsCrash
<1>4. Exclusion' /\ NoUpgrade' /\ FlagCountsHolds'
  BY <1>1, <1>2 DEF Exclusion, NoUpgrade, FlagCountsHolds
<1>5. PlaceInv' /\ RuleInv'
  BY <1>2 DEF PlaceInv, RuleInv
<1>. QED
  BY <1>3, <1>4, <1>5

LEMMA Stutter ==
  ASSUME IInv, UNCHANGED vars
  PROVE  IInv'
<1>. USE DEF IInv, vars
<1>1. ReadHolds' = ReadHolds
  BY DEF ReadHolds
<1>2. \A u \in Threads : /\ Writes(u)' = Writes(u)
                         /\ WriteHolds(u)' = WriteHolds(u)
                         /\ Waiting(u)' = Waiting(u)
                         /\ \A mode \in {"W", "R"} :
                              Innermost(u, mode)' = Innermost(u, mode)
  BY DEF Writes, WriteHolds, Waiting, Innermost
<1>3. TypeOK' /\ OnlyTimeoutsCrash'
  BY DEF TypeOK, OnlyTimeoutsCrash
<1>4. Exclusion' /\ NoUpgrade' /\ FlagCountsHolds'
  BY <1>1, <1>2 DEF Exclusion, NoUpgrade, FlagCountsHolds
<1>5. PlaceInv' /\ RuleInv'
  BY <1>2 DEF PlaceInv, RuleInv
<1>. QED
  BY <1>3, <1>4, <1>5

-----------------------------------------------------------------------------
(* The conditions of the policy under which a thread gets a hold. *)
MayTake(t, mode) ==
  IF mode = "W"
  THEN /\ held[t] = <<>> \/ Writes(t)
       /\ \A u \in Threads \ {t} : held[u] = <<>>
  ELSE \A u \in Threads \ {t} : ~Writes(u)

LEMMA WritesHolds ==
  ASSUME TypeOK, NEW t \in Threads, Writes(t)
  PROVE  held[t] # <<>>
BY WritesDef

(* They are what keeps the policy. *)
LEMMA TakeKeepsPolicy ==
  ASSUME TypeOK, TypeOK', Exclusion, NoUpgrade,
         NEW t \in Threads, NEW mode \in {"W", "R"},
         Len(held[t]) < Depth, Take(t, mode), MayTake(t, mode)
  PROVE  Exclusion' /\ NoUpgrade'
<1>1. /\ \A u \in Threads \ {t} : held'[u] = held[u]
      /\ \A u \in Threads : Writes(u)' <=> Writes(u) \/ (u = t /\ mode = "W")
  BY TakeFacts, TakeCounts
<1>2. Exclusion'
  <2>1. SUFFICES ASSUME NEW a \in Threads, NEW b \in Threads, Writes(a)', a # b
                 PROVE  held'[b] = <<>>
    BY DEF Exclusion
  <2>2. CASE a = t
    BY <1>1, <2>1, <2>2 DEF Exclusion, MayTake
  <2>3. CASE a # t
    <3>1. Writes(a) /\ held[a] # <<>>
      BY <1>1, <2>1, <2>3, WritesHolds
    <3>2. FALSE
      BY <2>3, <3>1 DEF MayTake
    <3>. QED
      BY <3>2
  <2>. QED
    BY <2>2, <2>3
<1>3. NoUpgrade'
  <2>1. SUFFICES ASSUME NEW u \in Threads,
                        held'[u] # <<>>, held'[u][1] = "R"
                 PROVE  ~Writes(u)'
    BY DEF NoUpgrade
  <2>2. CASE u # t
    BY <1>1, <2>1, <2>2 DEF NoUpgrade
  <2>3. CASE u = t /\ held[t] = <<>>
    <3>1. held'[t][1] = mode
      BY <2>3, TakeFacts
    <3>2. ~Writes(t)
      BY <2>3, WritesHolds
    <3>. QED
      BY <1>1, <2>1, <2>3, <3>1, <3>2
  <2>4. CASE u = t /\ held[t] # <<>>
    <3>1. Len(held[t]) >= 1 /\ Len(held[t]) \in Nat
      BY <2>4, EmptySeq DEF TypeOK
    <3>2. held'[t][1] = held[t][1]
      BY <3>1, TakeFacts
    <3>3. ~Writes(t)
      BY <2>1, <2>4, <3>2 DEF NoUpgrade
    <3>. QED
      BY <1>1, <2>4, <3>3 DEF MayTake
  <2>. QED
    BY <2>2, <2>3, <2>4
<1>. QED
  BY <1>2, <1>3

LEMMA TakeKeepsRule ==
  ASSUME TypeOK, RuleInv, NEW t \in Threads, NEW mode \in {"W", "R"},
         Len(held[t]) < Depth, Take(t, mode),
         ~misused' => ~misused,
         ~misused' /\ mode = "W" => ~Innermost(t, "R"),
         \A u \in Threads \ {t} : pc'[u] = pc[u],
         pc'[t] \notin {"wCas", "wYield"}
  PROVE  RuleInv'
<1>. DEFINE n == Len(held[t]) + 1
<1>1. /\ \A u \in Threads \ {t} : held'[u] = held[u]
      /\ Len(held'[t]) = n /\ n - 1 = Len(held[t]) /\ n \in Nat
      /\ \A i \in 1 .. n - 1 : held'[t][i] = held[t][i]
      /\ held'[t][n] = mode
  <2>1. Len(held[t]) \in Nat
    BY DEF TypeOK
  <2>. QED
    BY <2>1, TakeFacts
<1>. HIDE DEF n
<1>2. SUFFICES ASSUME ~misused', NEW u \in Threads
               PROVE  /\ \A i, j \in 1 .. Len(held'[u]) :
                           i < j /\ held'[u][i] = "R" => held'[u][j] = "R"
                      /\ pc'[u] \in {"wCas", "wYield"} => ~Innermost(u, "R")'
  BY DEF RuleInv
<1>3. CASE u # t
  BY <1>1, <1>2, <1>3 DEF RuleInv, Innermost
<1>4. CASE u = t
  <2>1. ASSUME NEW i \in 1 .. n, NEW j \in 1 .. n, i < j, held'[t][i] = "R"
        PROVE  held'[t][j] = "R"
    <3>1. CASE j < n
      BY <1>1, <1>2, <2>1, <3>1 DEF RuleInv
    <3>2. CASE j = n
      <4>1. held[t][i] = "R" /\ i \in 1 .. n - 1
        BY <1>1, <2>1, <3>2
      <4>2. held[t][n - 1] = "R" /\ held[t] # <<>>
        BY <1>1, <1>2, <4>1 DEF RuleInv
      <4>3. Innermost(t, "R")
        BY <1>1, <4>2 DEF Innermost, Last
      <4>. QED
        BY <1>1, <1>2, <3>2, <4>3
    <3>. QED
      BY <1>1, <2>1, <3>1, <3>2
  <2>. QED
    BY <1>1, <1>4, <2>1
<1>. QED
  BY <1>3, <1>4

(* Giving back keeps both as well. *)
LEMMA GiveBackKeeps ==
  ASSUME TypeOK, TypeOK', Exclusion, NoUpgrade, RuleInv,
         NEW t \in Threads, GiveBack(t), held[t] # <<>>,
         UNCHANGED misused,
         \A u \in Threads \ {t} : pc'[u] = pc[u],
         pc'[t] \notin {"wCas", "wYield"}
  PROVE  Exclusion' /\ NoUpgrade' /\ RuleInv'
<1>1. /\ \A u \in Threads \ {t} : held'[u] = held[u]
      /\ Len(held[t]) \in Nat /\ Len(held'[t]) \in Nat
      /\ Len(held'[t]) = Len(held[t]) - 1
      /\ \A i \in 1 .. Len(held'[t]) : held'[t][i] = held[t][i]
  BY GiveBackFacts DEF TypeOK
<1>2. \A u \in Threads : Writes(u)' => Writes(u)
  <2>1. WriteHolds(t)' \subseteq WriteHolds(t)
    BY <1>1 DEF WriteHolds
  <2>2. \A u \in Threads \ {t} : WriteHolds(u)' = WriteHolds(u)
    BY <1>1 DEF WriteHolds
  <2>. QED
    BY <2>1, <2>2, WritesDef, WritesDefNext
<1>3. Exclusion'
  BY <1>1, <1>2 DEF Exclusion
<1>4. NoUpgrade'
  <2>1. held'[t] # <<>> => held'[t][1] = held[t][1]
    BY <1>1, EmptySeq DEF TypeOK
  <2>. QED
    BY <1>1, <1>2, <2>1 DEF NoUpgrade
<1>5. RuleInv'
  <2>1. SUFFICES ASSUME ~misused, NEW u \in Threads
                 PROVE  /\ \A i, j \in 1 .. Len(held'[u]) :
                             i < j /\ held'[u][i] = "R" => held'[u][j] = "R"
                        /\ pc'[u] \in {"wCas", "wYield"}
                             => ~Innermost(u, "R")'
    BY DEF RuleInv
  <2>2. CASE u # t
    BY <1>1, <2>1, <2>2 DEF RuleInv, Innermost
  <2>3. CASE u = t
    <3>1. ASSUME NEW i \in 1 .. Len(held'[t]), NEW j \in 1 .. Len(held'[t]),
                 i < j, held'[t][i] = "R"
          PROVE  held'[t][j] = "R"
      <4>1. i \in 1 .. Len(held[t]) /\ j \in 1 .. Len(held[t])
        BY <1>1
      <4>2. held[t][i] = "R" => held[t][j] = "R"
        BY <2>1, <3>1, <4>1 DEF RuleInv
      <4>. QED
        BY <1>1, <3>1, <4>2
    <3>. QED
      BY <2>3, <3>1
  <2>. QED
    BY <2>2, <2>3
<1>. QED
  BY <1>3, <1>4, <1>5

-----------------------------------------------------------------------------
LEMMA WriteLockStep ==
  ASSUME IInv, NEW t \in Threads, WriteLock(t)
  PROVE  IInv' /\ (UNCHANGED held \/ (MayTake(t, "W") /\ Take(t, "W")))
<1>. USE DEF IInv
<1>1. /\ crash = "no" /\ pc[t] = "run" /\ Len(held[t]) < Depth
      /\ misused' = (misused \/ Innermost(t, "R"))
      /\ UNCHANGED <<flag, expected, crash>>
      /\ Writes(t) <=> IsWriter(t)
  BY DEF WriteLock, At, FlagCountsHolds, IsWriter
<1>2. CASE ~IsWriter(t)
  <2>1. Goto(t, "wCas") /\ UNCHANGED <<writeCount, held>>
    BY <1>2 DEF WriteLock
  <2>2. misused' \in BOOLEAN
    BY <1>1 DEF TypeOK, Innermost
  <2>3. expected' \in [Threads -> Nat]
    BY <1>1 DEF TypeOK
  <2>4. IInv'
    BY <1>1, <1>2, <2>1, <2>2, <2>3, WaitStep
  <2>. QED
    BY <2>1, <2>4
<1>3. CASE IsWriter(t)
  <2>1. writeCount' = writeCount + 1 /\ Take(t, "W") /\ UNCHANGED pc
    BY <1>3 DEF WriteLock
  <2>2. TypeOK'
    <3>1. misused' \in BOOLEAN
      BY <1>1 DEF TypeOK, Innermost
    <3>. QED
      BY <1>1, <2>1, <3>1, TakeFacts DEF TypeOK
  <2>3. /\ Cardinality(ReadHolds') = Cardinality(ReadHolds)
        /\ Cardinality(WriteHolds(t)') = Cardinality(WriteHolds(t)) + 1
        /\ \A u \in Threads : Writes(u)' <=> Writes(u)
    <3>1. Cardinality(ReadHolds) \in Nat
      BY HoldsFinite
    <3>. QED
      BY <1>1, <1>3, <2>1, <2>2, <3>1, TakeCounts
  <2>4. \A u \in Threads : Writes(u) => u = t
    BY <1>3 DEF FlagCountsHolds, IsWriter
  <2>5. MayTake(t, "W")
    BY <1>1, <1>3 DEF MayTake, Exclusion
  <2>6. Exclusion' /\ NoUpgrade'
    BY <1>1, <2>1, <2>2, <2>5, TakeKeepsPolicy
  <2>7. RuleInv'
    BY <1>1, <2>1, TakeKeepsRule
  <2>8. FlagCountsHolds'
    <3>1. flag'.readers = Cardinality(ReadHolds')
      BY <1>1, <2>3 DEF FlagCountsHolds
    <3>2. \A u \in Threads : flag'.writer = u <=> Writes(u)'
      BY <1>1, <2>3 DEF FlagCountsHolds
    <3>3. writeCount' = Cardinality(WriteHolds(t)')
      <4>1. Cardinality(WriteHolds(t)) \in Nat
        BY HoldsFinite
      <4>2. writeCount = Cardinality(WriteHolds(t))
        BY <1>1, <1>3, <4>1 DEF FlagCountsHolds
      <4>. QED
        BY <2>1, <2>3, <4>2
    <3>4. Cardinality(WriteHolds(t)') \in Nat
      BY <2>2, <3>3 DEF TypeOK
    <3>5. flag'.writer # NoThread
      BY <1>1, <1>3, ThreadsAssumption DEF IsWriter
    <3>. QED
      BY <1>1, <2>1, <2>3, <2>4, <3>1, <3>2, <3>3, <3>4, <3>5
      DEF FlagCountsHolds
  <2>9. PlaceInv'
    <3>1. ASSUME NEW u \in Threads, u # t
          PROVE  pc[u] \notin {"wCount", "uStore"}
      <4>1. ~Writes(u)
        BY <2>4, <3>1
      <4>2. pc[u] # "uStore"
        BY <1>1, <1>3, <2>5, <3>1, <4>1 DEF PlaceInv, Innermost, Exclusion
      <4>. QED
        BY <4>1, <4>2 DEF PlaceInv
    <3>. QED
      BY <1>1, <2>1, <2>3, <3>1, TakeFacts DEF PlaceInv, Waiting
  <2>10. OnlyTimeoutsCrash'
    BY <1>1 DEF OnlyTimeoutsCrash
  <2>. QED
    BY <2>1, <2>2, <2>5, <2>6, <2>7, <2>8, <2>9, <2>10
<1>. QED
  BY <1>2, <1>3

LEMMA WriteCasStep ==
  ASSUME IInv, NEW t \in Threads, WriteCas(t)
  PROVE  IInv' /\ (UNCHANGED held \/ (MayTake(t, "W") /\ Take(t, "W")))
<1>. USE DEF IInv
<1>1. /\ crash = "no" /\ pc[t] = "wCas"
      /\ UNCHANGED <<writeCount, expected, crash, misused>>
      /\ ~Writes(t) /\ Len(held[t]) < Depth
      /\ ~misused => ~Innermost(t, "R")
  BY DEF WriteCas, At, PlaceInv, Waiting, RuleInv
<1>2. CASE ~Unowned
  <2>1. Goto(t, "wYield") /\ UNCHANGED <<flag, held>>
    BY <1>2 DEF WriteCas
  <2>2. misused' \in BOOLEAN /\ expected' \in [Threads -> Nat]
    BY <1>1 DEF TypeOK
  <2>3. IInv'
    BY <1>1, <2>1, <2>2, WaitStep
  <2>. QED
    BY <2>1, <2>3
<1>3. CASE Unowned
  <2>1. /\ flag' = [flag EXCEPT !.writer = t]
        /\ Take(t, "W")
        /\ Goto(t, "wCount")
    BY <1>3 DEF WriteCas
  <2>2. /\ flag.writer = NoThread /\ flag.readers = 0
        /\ flag'.writer = t /\ flag'.readers = 0
        /\ writeCount = 0
    BY <1>3, <2>1 DEF Unowned, EmptyFlag, FlagCountsHolds
  <2>3. \A u \in Threads : ~Writes(u)
    BY <2>2, ThreadsAssumption DEF FlagCountsHolds
  <2>4. \A u \in Threads : held[u] = <<>>
    <3>1. ReadHolds = {}
      BY <2>2, HoldsFinite, FS_EmptySet DEF FlagCountsHolds
    <3>2. ASSUME NEW u \in Threads, held[u] # <<>> PROVE FALSE
      <4>1. /\ Len(held[u]) >= 1 /\ Len(held[u]) \in Nat
            /\ Len(held[u]) <= Depth /\ held[u][1] \in {"W", "R"}
        BY <3>2, EmptySeq DEF TypeOK
      <4>2. held[u][1] # "W"
        BY <2>3, <4>1, WritesDef
      <4>3. <<u, 1>> \in ReadHolds
        BY <4>1, <4>2, DepthAssumption DEF ReadHolds
      <4>. QED
        BY <3>1, <4>3
    <3>. QED
      BY <3>2
  <2>5. MayTake(t, "W")
    BY <2>4 DEF MayTake
  <2>6. /\ pc' \in [Threads -> Labels]
        /\ pc'[t] = "wCount"
        /\ \A u \in Threads \ {t} : pc'[u] = pc[u]
    BY <2>1 DEF TypeOK, Goto, Labels
  <2>7. TypeOK'
    <3>1. flag' \in [writer : Threads \cup {NoThread}, readers : Nat]
      BY <2>1 DEF TypeOK
    <3>. QED
      BY <1>1, <2>1, <2>6, <3>1, TakeFacts DEF TypeOK
  <2>8. /\ Cardinality(ReadHolds') = Cardinality(ReadHolds)
        /\ Cardinality(WriteHolds(t)') = 1
        /\ \A u \in Threads : Writes(u)' <=> u = t
    <3>1. Cardinality(ReadHolds) \in Nat
      BY HoldsFinite
    <3>2. WriteHolds(t) = {}
      BY <2>3, WritesDef
    <3>3. Cardinality(WriteHolds(t)) = 0
      BY <3>2, FS_EmptySet
    <3>4. /\ Cardinality(ReadHolds') = Cardinality(ReadHolds) + 0
          /\ Cardinality(WriteHolds(t)') = Cardinality(WriteHolds(t)) + 1
          /\ \A u \in Threads : Writes(u)' <=> Writes(u) \/ u = t
      BY <1>1, <2>1, <2>7, TakeCounts
    <3>. QED
      BY <2>3, <3>1, <3>3, <3>4
  <2>9. Exclusion' /\ NoUpgrade'
    BY <1>1, <2>1, <2>5, <2>7, TakeKeepsPolicy
  <2>10. RuleInv'
    BY <1>1, <2>1, <2>6, TakeKeepsRule
  <2>11. FlagCountsHolds'
    <3>1. flag'.readers = Cardinality(ReadHolds')
      BY <2>2, <2>8 DEF FlagCountsHolds
    <3>2. \A u \in Threads : flag'.writer = u <=> Writes(u)'
      BY <2>2, <2>8
    <3>3. \A u \in Threads : Writes(u)' =>
             writeCount' = Cardinality(WriteHolds(u)')
                   - (IF pc'[u] \in {"wCount", "uStore"} THEN 1 ELSE 0)
      BY <1>1, <2>2, <2>6, <2>8
    <3>. QED
      BY <1>1, <2>2, <3>1, <3>2, <3>3 DEF FlagCountsHolds
  <2>12. PlaceInv'
    <3>1. ASSUME NEW u \in Threads, u # t
          PROVE  pc[u] \notin {"wCount", "uStore"}
      BY <2>3, <2>4 DEF PlaceInv, Innermost
    <3>2. ASSUME NEW u \in Threads
          PROVE  /\ Waiting(u)' => ~Writes(u)' /\ Len(held'[u]) < Depth
                 /\ pc'[u] = "wCount" => Writes(u)'
                 /\ pc'[u] # "uStore"
      <4>1. CASE u = t
        BY <2>6, <2>8, <4>1 DEF Waiting
      <4>2. CASE u # t
        BY <1>1, <2>1, <2>6, <2>8, <3>1, <4>2, TakeFacts DEF PlaceInv, Waiting
      <4>. QED
        BY <4>1, <4>2
    <3>. QED
      BY <3>2 DEF PlaceInv
  <2>13. OnlyTimeoutsCrash'
    BY <1>1 DEF OnlyTimeoutsCrash
  <2>. QED
    BY <2>1, <2>5, <2>7, <2>9, <2>10, <2>11, <2>12, <2>13
<1>. QED
  BY <1>2, <1>3

LEMMA WriteCountStep ==
  ASSUME IInv, NEW t \in Threads, WriteCount(t)
  PROVE  IInv' /\ UNCHANGED held
<1>. USE DEF IInv
<1>1. /\ crash = "no" /\ pc[t] = "wCount" /\ Writes(t)
      /\ writeCount' = writeCount + 1
      /\ UNCHANGED <<flag, held, expected, crash, misused>>
      /\ pc' \in [Threads -> Labels]
      /\ pc'[t] = "run"
      /\ \A u \in Threads \ {t} : pc'[u] = pc[u]
  BY DEF WriteCount, At, OneMore, PlaceInv, TypeOK, Goto, Labels
<1>2. TypeOK'
  BY <1>1 DEF TypeOK
<1>3. ReadHolds' = ReadHolds
  BY <1>1 DEF ReadHolds
<1>4. \A u \in Threads : /\ Writes(u)' = Writes(u)
                         /\ WriteHolds(u)' = WriteHolds(u)
                         /\ \A mode \in {"W", "R"} :
                              Innermost(u, mode)' = Innermost(u, mode)
  BY <1>1 DEF Writes, WriteHolds, Innermost
<1>5. Exclusion' /\ NoUpgrade' /\ OnlyTimeoutsCrash'
  BY <1>1, <1>4 DEF Exclusion, NoUpgrade, OnlyTimeoutsCrash
<1>6. flag.writer = t /\ \A u \in Threads : Writes(u) <=> u = t
  BY <1>1 DEF FlagCountsHolds
<1>7. FlagCountsHolds'
  <2>1. Cardinality(WriteHolds(t)) \in Nat /\ writeCount \in Nat
    BY HoldsFinite DEF TypeOK
  <2>2. writeCount = Cardinality(WriteHolds(t)) - 1
    BY <1>1 DEF FlagCountsHolds
  <2>3. writeCount' = Cardinality(WriteHolds(t)')
    BY <1>1, <1>4, <2>1, <2>2
  <2>4. Cardinality(WriteHolds(t)') \in Nat
    BY <1>4, <2>1
  <2>5. flag'.writer # NoThread
    BY <1>1, <1>6, ThreadsAssumption
  <2>. QED
    BY <1>1, <1>3, <1>4, <1>6, <2>3, <2>4, <2>5 DEF FlagCountsHolds
<1>8. PlaceInv'
  <2>1. ASSUME NEW u \in Threads
        PROVE  /\ Waiting(u)' => ~Writes(u)' /\ Len(held'[u]) < Depth
               /\ pc'[u] = "wCount" => Writes(u)'
               /\ pc'[u] # "uStore"
    <3>1. CASE u = t
      BY <1>1, <3>1 DEF Waiting
    <3>2. CASE u # t
      <4>1. held[u] = <<>>
        BY <1>1, <3>2 DEF Exclusion
      <4>. QED
        BY <1>1, <1>4, <3>2, <4>1 DEF PlaceInv, Waiting, Innermost
    <3>. QED
      BY <3>1, <3>2
  <2>. QED
    BY <2>1 DEF PlaceInv
<1>9. RuleInv'
  BY <1>1, <1>4 DEF RuleInv
<1>. QED
  BY <1>1, <1>2, <1>5, <1>7, <1>8, <1>9

(* A hold for reading is added to the count, on both ways through ReadLock.*)
LEMMA TakeRead ==
  ASSUME IInv, NEW t \in Threads,
         crash = "no", pc[t] \notin {"wCount", "uStore"},
         Len(held[t]) < Depth,
         flag' = [writer |-> flag.writer, readers |-> flag.readers + 1],
         Take(t, "R"), Goto(t, "run"), MayTake(t, "R"),
         expected' \in [Threads -> Nat],
         UNCHANGED <<writeCount, crash, misused>>
  PROVE  IInv'
<1>. USE DEF IInv
<1>1. /\ pc' \in [Threads -> Labels]
      /\ pc'[t] = "run"
      /\ \A u \in Threads \ {t} : pc'[u] = pc[u]
  BY DEF TypeOK, Goto, Labels
<1>2. /\ flag' \in [writer : Threads \cup {NoThread}, readers : Nat]
      /\ flag'.writer = flag.writer
      /\ flag'.readers = flag.readers + 1
  BY DEF TypeOK
<1>3. TypeOK'
  BY <1>1, <1>2, TakeFacts DEF TypeOK
<1>4. /\ Cardinality(ReadHolds') = Cardinality(ReadHolds) + 1
      /\ Cardinality(WriteHolds(t)') = Cardinality(WriteHolds(t)) + 0
      /\ \A u \in Threads \ {t} : WriteHolds(u)' = WriteHolds(u)
      /\ \A u \in Threads : Writes(u)' <=> Writes(u)
  BY <1>3, TakeCounts
<1>5. \A u \in Threads :
        Cardinality(WriteHolds(u)') = Cardinality(WriteHolds(u))
  BY <1>4, HoldsFinite
<1>6. Exclusion' /\ NoUpgrade'
  BY <1>3, TakeKeepsPolicy
<1>7. RuleInv'
  BY <1>1, TakeKeepsRule
<1>8. FlagCountsHolds'
  <2>1. flag'.readers = Cardinality(ReadHolds')
    BY <1>2, <1>4 DEF FlagCountsHolds
  <2>2. \A u \in Threads : pc'[u] \in {"wCount", "uStore"}
                            <=> pc[u] \in {"wCount", "uStore"}
    BY <1>1
  <2>. QED
    BY <1>2, <1>4, <1>5, <2>1, <2>2 DEF FlagCountsHolds
<1>9. PlaceInv'
  <2>1. ASSUME NEW u \in Threads
        PROVE  /\ Waiting(u)' => ~Writes(u)' /\ Len(held'[u]) < Depth
               /\ pc'[u] = "wCount" => Writes(u)'
               /\ pc'[u] # "uStore" \/ (pc[u] = "uStore" /\ u # t)
    <3>1. CASE u = t
      BY <1>1, <3>1 DEF Waiting
    <3>2. CASE u # t
      BY <1>1, <1>4, <3>2, TakeFacts DEF PlaceInv, Waiting
    <3>. QED
      BY <3>1, <3>2
  <2>2. ASSUME NEW u \in Threads, pc[u] = "uStore", u # t PROVE FALSE
    <3>1. /\ held[u] \in Seq({"W", "R"}) /\ Len(held[u]) \in Nat
          /\ held[u] # <<>> /\ Last(held[u]) = "W"
      BY <2>2 DEF PlaceInv, Innermost, TypeOK
    <3>2. Len(held[u]) >= 1 /\ held[u][Len(held[u])] = "W"
      BY <3>1, EmptySeq DEF Last
    <3>3. Writes(u)
      BY <3>1, <3>2, WritesDef
    <3>. QED
      BY <2>2, <3>3 DEF MayTake
  <2>. QED
    BY <2>1, <2>2 DEF PlaceInv
<1>10. OnlyTimeoutsCrash'
  BY DEF OnlyTimeoutsCrash
<1>. QED
  BY <1>3, <1>6, <1>7, <1>8, <1>9, <1>10

LEMMA ReadLockStep ==
  ASSUME IInv, NEW t \in Threads, ReadLock(t)
  PROVE  IInv' /\ (UNCHANGED held \/ (MayTake(t, "R") /\ Take(t, "R")))
<1>. USE DEF IInv
<1>1. /\ crash = "no" /\ pc[t] = "run" /\ Len(held[t]) < Depth
      /\ UNCHANGED <<writeCount, expected, crash, misused>>
      /\ Writes(t) <=> IsWriter(t)
      /\ misused' \in BOOLEAN /\ expected' \in [Threads -> Nat]
  BY DEF ReadLock, At, FlagCountsHolds, IsWriter, TypeOK
<1>2. CASE ~IsWriter(t)
  <2>1. Goto(t, "rLoad") /\ UNCHANGED <<flag, held>>
    BY <1>2 DEF ReadLock
  <2>2. IInv'
    BY <1>1, <1>2, <2>1, WaitStep
  <2>. QED
    BY <2>1, <2>2
<1>3. CASE IsWriter(t)
  <2>1. /\ flag' = [writer |-> flag.writer, readers |-> flag.readers + 1]
        /\ Take(t, "R")
        /\ pc' = pc
    BY <1>3 DEF ReadLock, TypeOK
  <2>2. Goto(t, "run")
    BY <1>1, <2>1 DEF Goto, TypeOK
  <2>3. MayTake(t, "R")
    BY <1>3 DEF MayTake, FlagCountsHolds, IsWriter
  <2>4. IInv'
    BY <1>1, <2>1, <2>2, <2>3, TakeRead
  <2>. QED
    BY <2>1, <2>3, <2>4
<1>. QED
  BY <1>2, <1>3

LEMMA ReadCasStep ==
  ASSUME IInv, NEW t \in Threads, ReadCas(t)
  PROVE  IInv' /\ (UNCHANGED held \/ (MayTake(t, "R") /\ Take(t, "R")))
<1>. USE DEF IInv
<1>1. /\ crash = "no" /\ pc[t] = "rCas" /\ Len(held[t]) < Depth
      /\ ~Writes(t)
      /\ UNCHANGED <<writeCount, crash, misused>>
      /\ misused' \in BOOLEAN /\ expected' \in [Threads -> Nat]
  BY DEF ReadCas, At, PlaceInv, Waiting, TypeOK
<1>2. CASE ~CountUnchanged(t)
  <2>1. Goto(t, "rYield") /\ UNCHANGED <<flag, held>>
    BY <1>2 DEF ReadCas
  <2>2. IInv'
    BY <1>1, <2>1, WaitStep
  <2>. QED
    BY <2>1, <2>2
<1>3. CASE CountUnchanged(t)
  <2>1. /\ flag' = [writer |-> flag.writer, readers |-> flag.readers + 1]
        /\ Take(t, "R")
        /\ Goto(t, "run")
    BY <1>3 DEF ReadCas, CountUnchanged
  <2>2. flag.writer = NoThread
    BY <1>3 DEF CountUnchanged
  <2>3. MayTake(t, "R")
    BY <2>2, ThreadsAssumption DEF MayTake, FlagCountsHolds
  <2>4. IInv'
    BY <1>1, <2>1, <2>3, TakeRead
  <2>. QED
    BY <2>1, <2>3, <2>4
<1>. QED
  BY <1>2, <1>3

-----------------------------------------------------------------------------
(* WriteUnlock of a nested hold, and of the last one up to the store.      *)
LEMMA WriteUnlockStep ==
  ASSUME IInv, NEW t \in Threads, WriteUnlock(t)
  PROVE  IInv' /\ (UNCHANGED held \/ (held[t] # <<>> /\ GiveBack(t)))
<1>. USE DEF IInv
<1>1. /\ crash = "no" /\ pc[t] = "run" /\ Innermost(t, "W")
      /\ held[t] # <<>> /\ Len(held[t]) \in Nat /\ Len(held[t]) >= 1
      /\ held[t][Len(held[t])] = "W"
  <2>1. held[t] # <<>> /\ held[t] \in Seq({"W", "R"})
    BY DEF WriteUnlock, Innermost, TypeOK
  <2>. QED
    BY <2>1, EmptySeq DEF WriteUnlock, At, Innermost, Last
<1>2. Writes(t)
  BY <1>1, WritesDef
<1>3. /\ flag.writer = t
      /\ \A u \in Threads : Writes(u) <=> u = t
      /\ \A u \in Threads \ {t} : held[u] = <<>>
  BY <1>2 DEF FlagCountsHolds, Exclusion
<1>4. CASE flag.readers # 0
  <2>1. Die("INVALID_UNLOCK_ORDER")
    BY <1>4 DEF WriteUnlock
  <2>2. misused
    <3>1. SUFFICES ASSUME ~misused PROVE FALSE
      OBVIOUS
    <3>2. ReadHolds # {}
      BY <1>4, FS_EmptySet DEF FlagCountsHolds
    <3>3. PICK x \in ReadHolds : TRUE
      BY <3>2
    <3>4. PICK u \in Threads, i \in 1 .. Depth :
            i <= Len(held[u]) /\ held[u][i] = "R"
      BY <3>3 DEF ReadHolds
    <3>5. u = t
      <4>1. CASE u # t
        <5>1. Len(held[u]) = 0
          BY <1>3, <4>1
        <5>. QED
          BY <3>4, <5>1, DepthAssumption
      <4>. QED
        BY <4>1
    <3>6. i \in 1 .. Len(held[t]) /\ i # Len(held[t])
      BY <1>1, <3>4, <3>5, DepthAssumption
    <3>7. held[t][Len(held[t])] = "R"
      BY <1>1, <3>1, <3>4, <3>5, <3>6 DEF RuleInv
    <3>. QED
      BY <1>1, <3>7
  <2>3. IInv'
    BY <2>1, <2>2, DieStep DEF Crashes
  <2>. QED
    BY <2>1, <2>3 DEF Die
<1>5. CASE flag.readers = 0
  <2>1. /\ writeCount' = writeCount - 1
        /\ UNCHANGED <<flag, expected, crash, misused>>
    BY <1>5 DEF WriteUnlock
  <2>2. /\ writeCount = Cardinality(WriteHolds(t))
        /\ Cardinality(WriteHolds(t)) \in Nat
        /\ writeCount # 0
    <3>1. Cardinality(WriteHolds(t)) \in Nat /\ IsFiniteSet(WriteHolds(t))
      BY HoldsFinite
    <3>2. writeCount = Cardinality(WriteHolds(t))
      BY <1>1, <1>2, <3>1 DEF FlagCountsHolds
    <3>3. WriteHolds(t) # {}
      BY <1>2, WritesDef
    <3>. QED
      BY <3>1, <3>2, <3>3, FS_EmptySet
  <2>3. CASE LastWrite
    <3>1. /\ pc' \in [Threads -> Labels]
          /\ pc'[t] = "uStore"
          /\ \A u \in Threads \ {t} : pc'[u] = pc[u]
          /\ held' = held
          /\ writeCount' = 0 /\ writeCount = 1
      <4>1. Goto(t, "uStore") /\ held' = held
        BY <1>5, <2>3 DEF WriteUnlock
      <4>2. writeCount = 1
        BY <2>3 DEF LastWrite
      <4>3. writeCount' = 0
        BY <2>1, <4>2
      <4>4. /\ pc' \in [Threads -> Labels]
            /\ pc'[t] = "uStore"
            /\ \A u \in Threads \ {t} : pc'[u] = pc[u]
        BY <4>1 DEF Goto, TypeOK, Labels
      <4>. QED
        BY <4>1, <4>2, <4>3, <4>4
    <3>2. TypeOK'
      BY <2>1, <3>1 DEF TypeOK
    <3>3. ReadHolds' = ReadHolds
      BY <3>1 DEF ReadHolds
    <3>4. \A u \in Threads : /\ Writes(u)' = Writes(u)
                             /\ WriteHolds(u)' = WriteHolds(u)
                             /\ \A mode \in {"W", "R"} :
                                  Innermost(u, mode)' = Innermost(u, mode)
      BY <3>1 DEF Writes, WriteHolds, Innermost
    <3>5. Exclusion' /\ NoUpgrade' /\ OnlyTimeoutsCrash'
      BY <2>1, <3>1, <3>4 DEF Exclusion, NoUpgrade, OnlyTimeoutsCrash
    <3>6. FlagCountsHolds'
      <4>1. Cardinality(WriteHolds(t)') = 1
        BY <2>2, <3>1, <3>4
      <4>. QED
        BY <1>3, <2>1, <3>1, <3>3, <3>4, <4>1 DEF FlagCountsHolds
    <3>7. PlaceInv'
      <4>1. ASSUME NEW u \in Threads
            PROVE  /\ Waiting(u)' => ~Writes(u)' /\ Len(held'[u]) < Depth
                   /\ pc'[u] = "wCount" => Writes(u)'
                   /\ pc'[u] = "uStore" => u = t
        <5>1. CASE u = t
          BY <3>1, <5>1 DEF Waiting
        <5>2. CASE u # t
          BY <1>3, <3>1, <3>4, <5>2 DEF PlaceInv, Waiting, Innermost
        <5>. QED
          BY <5>1, <5>2
      <4>. QED
        BY <1>1, <1>5, <2>1, <3>1, <3>4, <4>1 DEF PlaceInv
    <3>8. RuleInv'
      BY <2>1, <3>1, <3>4 DEF RuleInv
    <3>. QED
      BY <3>1, <3>2, <3>5, <3>6, <3>7, <3>8
  <2>4. CASE ~LastWrite
    <3>1. GiveBack(t) /\ UNCHANGED pc
      BY <1>5, <2>4 DEF WriteUnlock
    <3>2. writeCount' \in Nat /\ writeCount' >= 1
      BY <2>1, <2>2, <2>4 DEF LastWrite
    <3>3. TypeOK'
      BY <1>1, <2>1, <3>1, <3>2, GiveBackFacts DEF TypeOK
    <3>4. /\ Cardinality(ReadHolds') = Cardinality(ReadHolds) - 0
          /\ Cardinality(WriteHolds(t)') = Cardinality(WriteHolds(t)) - 1
          /\ \A u \in Threads \ {t} : WriteHolds(u)' = WriteHolds(u)
      BY <1>1, <3>1, <3>3, GiveBackCounts
    <3>5. Cardinality(ReadHolds') = Cardinality(ReadHolds)
      BY <3>4, HoldsFinite
    <3>6. writeCount' = Cardinality(WriteHolds(t)')
      BY <2>1, <2>2, <3>4
    <3>7. \A u \in Threads : Writes(u)' <=> u = t
      <4>1. WriteHolds(t)' # {}
        BY <3>2, <3>6, FS_EmptySet
      <4>2. \A u \in Threads \ {t} : WriteHolds(u)' = {}
        BY <1>3, <3>4, WritesDef
      <4>. QED
        BY <3>3, <4>1, <4>2, WritesDefNext
    <3>8. Exclusion' /\ NoUpgrade' /\ RuleInv'
      BY <1>1, <2>1, <3>1, <3>3, GiveBackKeeps
    <3>9. FlagCountsHolds'
      <4>1. flag'.readers = Cardinality(ReadHolds')
        BY <2>1, <3>5 DEF FlagCountsHolds
      <4>2. flag'.writer # NoThread
        BY <1>3, <2>1, ThreadsAssumption
      <4>. QED
        BY <1>1, <1>3, <2>1, <3>1, <3>2, <3>6, <3>7, <4>1, <4>2
        DEF FlagCountsHolds
    <3>10. PlaceInv'
      <4>1. ASSUME NEW u \in Threads
            PROVE  /\ Waiting(u)' => ~Writes(u)' /\ Len(held'[u]) < Depth
                   /\ pc'[u] = "wCount" => Writes(u)'
                   /\ pc'[u] # "uStore"
        <5>1. CASE u = t
          BY <1>1, <3>1, <5>1 DEF Waiting
        <5>2. CASE u # t
          BY <1>1, <1>3, <3>1, <3>7, <5>2, GiveBackFacts
          DEF PlaceInv, Waiting, Innermost
        <5>. QED
          BY <5>1, <5>2
      <4>. QED
        BY <4>1 DEF PlaceInv
    <3>11. OnlyTimeoutsCrash'
      BY <2>1 DEF OnlyTimeoutsCrash
    <3>. QED
      BY <1>1, <3>1, <3>3, <3>8, <3>9, <3>10, <3>11
  <2>. QED
    BY <2>3, <2>4
<1>. QED
  BY <1>4, <1>5

(* The store that frees the lock: nothing is held any more, by anybody.    *)
LEMMA StoreEmptyStep ==
  ASSUME IInv, NEW t \in Threads, StoreEmpty(t)
  PROVE  IInv' /\ held[t] # <<>> /\ GiveBack(t)
<1>. USE DEF IInv
<1>1. /\ crash = "no" /\ pc[t] = "uStore"
      /\ Innermost(t, "W") /\ held[t] # <<>>
      /\ writeCount = 0 /\ flag.readers = 0
      /\ flag' = EmptyFlag /\ GiveBack(t) /\ Goto(t, "run")
      /\ UNCHANGED <<writeCount, expected, crash, misused>>
  BY DEF StoreEmpty, At, PlaceInv, Innermost
<1>2. /\ pc' \in [Threads -> Labels]
      /\ pc'[t] = "run"
      /\ \A u \in Threads \ {t} : pc'[u] = pc[u]
  BY <1>1 DEF TypeOK, Goto, Labels
<1>3. TypeOK'
  <2>1. flag' \in [writer : Threads \cup {NoThread}, readers : Nat]
    BY <1>1 DEF EmptyFlag
  <2>2. /\ held' \in [Threads -> Seq({"W", "R"})]
        /\ \A u \in Threads : Len(held'[u]) <= Depth
    BY <1>1, GiveBackFacts
  <2>. QED
    BY <1>1, <1>2, <2>1, <2>2 DEF TypeOK
<1>4. Writes(t)
  <2>1. /\ Len(held[t]) \in Nat /\ Len(held[t]) >= 1
        /\ held[t][Len(held[t])] = "W"
    BY <1>1, EmptySeq DEF TypeOK, Innermost, Last
  <2>. QED
    BY <2>1, WritesDef
<1>5. /\ \A u \in Threads \ {t} : ~Writes(u) /\ held[u] = <<>>
  BY <1>4 DEF FlagCountsHolds, Exclusion
<1>6. /\ Cardinality(ReadHolds') = Cardinality(ReadHolds) - 0
      /\ Cardinality(WriteHolds(t)') = Cardinality(WriteHolds(t)) - 1
      /\ \A u \in Threads \ {t} : WriteHolds(u)' = WriteHolds(u)
  BY <1>1, <1>3, GiveBackCounts
<1>7. \A u \in Threads : ~Writes(u)'
  <2>1. Cardinality(WriteHolds(t)) \in Nat /\ IsFiniteSet(WriteHolds(t))
    BY HoldsFinite
  <2>2. 0 = Cardinality(WriteHolds(t)) - 1
    BY <1>1, <1>4 DEF FlagCountsHolds
  <2>3. Cardinality(WriteHolds(t)') = 0
    BY <1>6, <2>1, <2>2
  <2>4. WriteHolds(t)' \subseteq WriteHolds(t)
    BY <1>1, GiveBackFacts DEF WriteHolds, TypeOK
  <2>5. WriteHolds(t)' = {}
    BY <2>1, <2>3, <2>4, FS_Subset, FS_EmptySet
  <2>6. \A u \in Threads \ {t} : WriteHolds(u)' = {}
    BY <1>5, <1>6, WritesDef
  <2>. QED
    BY <1>3, <2>5, <2>6, WritesDefNext
<1>8. Exclusion' /\ NoUpgrade' /\ RuleInv'
  BY <1>1, <1>2, <1>3, GiveBackKeeps
<1>9. FlagCountsHolds'
  <2>1. flag'.readers = 0 /\ flag'.writer = NoThread
    BY <1>1 DEF EmptyFlag
  <2>2. Cardinality(ReadHolds') = 0
    <3>1. Cardinality(ReadHolds) = 0
      BY <1>1 DEF FlagCountsHolds
    <3>. QED
      BY <1>6, <3>1
  <2>. QED
    BY <1>1, <1>7, <2>1, <2>2, ThreadsAssumption DEF FlagCountsHolds
<1>10. PlaceInv'
  <2>1. ASSUME NEW u \in Threads
        PROVE  /\ Waiting(u)' => ~Writes(u)' /\ Len(held'[u]) < Depth
               /\ pc'[u] # "wCount" /\ pc'[u] # "uStore"
    <3>1. CASE u = t
      BY <1>2, <3>1 DEF Waiting
    <3>2. CASE u # t
      BY <1>1, <1>2, <1>5, <1>7, <3>2, GiveBackFacts
      DEF PlaceInv, Waiting, Innermost
    <3>. QED
      BY <3>1, <3>2
  <2>. QED
    BY <2>1 DEF PlaceInv
<1>11. OnlyTimeoutsCrash'
  BY <1>1 DEF OnlyTimeoutsCrash
<1>. QED
  BY <1>1, <1>3, <1>8, <1>9, <1>10, <1>11

(* ReadUnlock: the hold that is given back is counted, so the count is not *)
(* 0, whether users keep to the rule or not.                               *)
LEMMA ReadUnlockStep ==
  ASSUME IInv, NEW t \in Threads, ReadUnlock(t)
  PROVE  IInv' /\ held[t] # <<>> /\ GiveBack(t)
<1>. USE DEF IInv
<1>1. /\ crash = "no" /\ pc[t] = "run" /\ Innermost(t, "R")
      /\ held[t] # <<>>
  BY DEF ReadUnlock, At, Innermost
<1>2. /\ Len(held[t]) \in 1 .. Depth
      /\ held[t][Len(held[t])] = "R"
  BY <1>1, EmptySeq, DepthAssumption DEF TypeOK, Innermost, Last
<1>3. flag.readers # 0 /\ flag.readers \in Nat
  <2>1. <<t, Len(held[t])>> \in ReadHolds
    BY <1>2, DepthAssumption DEF ReadHolds
  <2>2. Cardinality(ReadHolds) # 0
    BY <2>1, HoldsFinite, FS_EmptySet
  <2>. QED
    BY <2>2 DEF FlagCountsHolds, TypeOK
<1>4. /\ flag' = [writer |-> flag.writer, readers |-> flag.readers - 1]
      /\ GiveBack(t)
      /\ UNCHANGED <<writeCount, expected, pc, crash, misused>>
  BY <1>3 DEF ReadUnlock, TypeOK
<1>5. TypeOK'
  <2>1. flag.readers - 1 \in Nat
    BY <1>3
  <2>2. flag' \in [writer : Threads \cup {NoThread}, readers : Nat]
    BY <1>4, <2>1 DEF TypeOK
  <2>3. /\ held' \in [Threads -> Seq({"W", "R"})]
        /\ \A u \in Threads : Len(held'[u]) <= Depth
    BY <1>1, <1>4, GiveBackFacts
  <2>. QED
    BY <1>4, <2>2, <2>3 DEF TypeOK
<1>6. /\ Cardinality(ReadHolds') = Cardinality(ReadHolds) - 1
      /\ Cardinality(WriteHolds(t)') = Cardinality(WriteHolds(t)) - 0
      /\ \A u \in Threads \ {t} : WriteHolds(u)' = WriteHolds(u)
      /\ \A u \in Threads : Writes(u)' <=> Writes(u)
  BY <1>1, <1>4, <1>5, GiveBackCounts
<1>7. \A u \in Threads :
        Cardinality(WriteHolds(u)') = Cardinality(WriteHolds(u))
  BY <1>6, HoldsFinite
<1>8. Exclusion' /\ NoUpgrade' /\ RuleInv'
  BY <1>1, <1>4, <1>5, GiveBackKeeps
<1>9. FlagCountsHolds'
  <2>1. flag'.readers = Cardinality(ReadHolds') /\ flag'.writer = flag.writer
    BY <1>4, <1>6 DEF FlagCountsHolds
  <2>. QED
    BY <1>4, <1>6, <1>7, <2>1 DEF FlagCountsHolds
<1>10. PlaceInv'
  <2>1. ASSUME NEW u \in Threads
        PROVE  /\ Waiting(u)' => ~Writes(u)' /\ Len(held'[u]) < Depth
               /\ pc'[u] = "wCount" => Writes(u)'
               /\ pc'[u] # "uStore"
    <3>1. CASE u = t
      BY <1>1, <1>4, <3>1 DEF Waiting
    <3>2. CASE u # t
      BY <1>1, <1>3, <1>4, <1>6, <3>2, GiveBackFacts DEF PlaceInv, Waiting
    <3>. QED
      BY <3>1, <3>2
  <2>. QED
    BY <2>1 DEF PlaceInv
<1>11. OnlyTimeoutsCrash'
  BY <1>4 DEF OnlyTimeoutsCrash
<1>. QED
  BY <1>1, <1>4, <1>5, <1>8, <1>9, <1>10, <1>11

(* Every step is one of the lock, or changes no holds. *)
PolicyStep ==
  \/ UNCHANGED held
  \/ \E t \in Threads :
       \/ MayTake(t, "W") /\ Take(t, "W")
       \/ MayTake(t, "R") /\ Take(t, "R")
       \/ held[t] # <<>> /\ GiveBack(t)

LEMMA NextStep ==
  ASSUME IInv, [Next]_vars
  PROVE  IInv' /\ PolicyStep
<1>. USE DEF IInv
<1>1. ASSUME NEW t \in Threads, Call(t) PROVE IInv' /\ PolicyStep
  BY <1>1, WriteLockStep, ReadLockStep DEF Call, PolicyStep
<1>2. ASSUME NEW t \in Threads, WriteAgain(t) PROVE IInv' /\ PolicyStep
  <2>1. /\ pc[t] = "wYield" /\ Goto(t, "wCas")
        /\ UNCHANGED <<flag, writeCount, held, expected, crash, misused>>
    BY <1>2 DEF WriteAgain, At
  <2>2. /\ ~Writes(t) /\ Len(held[t]) < Depth
        /\ ~misused => ~Innermost(t, "R")
        /\ misused' \in BOOLEAN /\ expected' \in [Threads -> Nat]
    BY <2>1 DEF PlaceInv, RuleInv, Waiting, TypeOK
  <2>. QED
    BY <2>1, <2>2, WaitStep DEF PolicyStep
<1>3. ASSUME NEW t \in Threads, ReadLoad(t) PROVE IInv' /\ PolicyStep
  <2>1. /\ pc[t] = "rLoad" /\ Goto(t, "rCas")
        /\ expected' = [expected EXCEPT ![t] = flag.readers]
        /\ UNCHANGED <<flag, writeCount, held, crash, misused>>
    BY <1>3 DEF ReadLoad, At
  <2>2. /\ ~Writes(t) /\ Len(held[t]) < Depth
        /\ misused' \in BOOLEAN
    BY <2>1 DEF PlaceInv, Waiting, TypeOK
  <2>3. expected' \in [Threads -> Nat]
    BY <2>1 DEF TypeOK
  <2>. QED
    BY <2>1, <2>2, <2>3, WaitStep DEF PolicyStep
<1>4. ASSUME NEW t \in Threads, ReadAgain(t) PROVE IInv' /\ PolicyStep
  <2>1. /\ pc[t] = "rYield" /\ Goto(t, "rLoad")
        /\ UNCHANGED <<flag, writeCount, held, expected, crash, misused>>
    BY <1>4 DEF ReadAgain, At
  <2>2. /\ ~Writes(t) /\ Len(held[t]) < Depth
        /\ misused' \in BOOLEAN /\ expected' \in [Threads -> Nat]
    BY <2>1 DEF PlaceInv, Waiting, TypeOK
  <2>. QED
    BY <2>1, <2>2, WaitStep DEF PolicyStep
<1>5. ASSUME NEW t \in Threads, WriteCas(t) \/ WriteCount(t) \/ ReadCas(t)
      PROVE  IInv' /\ PolicyStep
  BY <1>5, WriteCasStep, WriteCountStep, ReadCasStep DEF PolicyStep
<1>6. ASSUME NEW t \in Threads, Release(t) PROVE IInv' /\ PolicyStep
  BY <1>6, WriteUnlockStep, StoreEmptyStep, ReadUnlockStep
  DEF Release, PolicyStep
<1>7. ASSUME NEW t \in Threads, WriteTimeout(t) \/ ReadTimeout(t)
      PROVE  IInv' /\ PolicyStep
  <2>1. \E cause \in Timeouts : Die(cause)
    BY <1>7 DEF WriteTimeout, ReadTimeout, Timeouts
  <2>2. PICK cause \in Timeouts : Die(cause)
    BY <2>1
  <2>3. cause \in Crashes
    BY DEF Crashes
  <2>4. IInv'
    BY <2>2, <2>3, DieStep
  <2>. QED
    BY <2>2, <2>4 DEF Die, PolicyStep
<1>8. ASSUME UNCHANGED vars PROVE IInv' /\ PolicyStep
  BY <1>8, Stutter DEF vars, PolicyStep
<1>9. ASSUME NEW t \in Threads, Spin(t) PROVE IInv' /\ PolicyStep
  BY <1>2, <1>3, <1>4, <1>5, <1>9 DEF Spin
<1>. QED
  <2>. HIDE DEF IInv
  <2>. QED
    BY <1>1, <1>6, <1>7, <1>8, <1>9 DEF Next, Crashed

THEOREM Inductive == Spec => []IInv
<1>1. IInv /\ [Next]_vars => IInv'
  BY NextStep
<1>. QED
  BY InitIInv, <1>1, PTL DEF Spec

-----------------------------------------------------------------------------
(* Each variable of the lock keeps its type, and no thread ever holds more *)
(* than Depth guards.                                                      *)
THEOREM Typing == Spec => []TypeOK
<1>1. IInv => TypeOK
  BY DEF IInv
<1>. QED
  BY Inductive, <1>1, PTL

(* A writer is alone, its own nested holds aside, for any number of        *)
(* threads and also when users break the rule against R -> W.              *)
THEOREM WriterIsAlone == Spec => []Exclusion
<1>1. IInv => Exclusion
  BY DEF IInv
<1>. QED
  BY Inductive, <1>1, PTL

(* The two halves of _lockFlag and _writeCount count the holds.            *)
THEOREM CountsAreRight == Spec => []FlagCountsHolds
<1>1. IInv => FlagCountsHolds
  BY DEF IInv
<1>. QED
  BY Inductive, <1>1, PTL

(* A thread that holds the lock only for reading never gets it for writing.*)
THEOREM ReadersStayReaders == Spec => []NoUpgrade
<1>1. IInv => NoUpgrade
  BY DEF IInv
<1>. QED
  BY Inductive, <1>1, PTL

(* Users who keep to the rule of Lock.h meet no CRASH but the timeouts.    *)
THEOREM GuardsUnlockInOrder == Spec => []OnlyTimeoutsCrash
<1>1. IInv => OnlyTimeoutsCrash
  BY DEF IInv
<1>. QED
  BY Inductive, <1>1, PTL

(* The spin lock does what the policy of Lock.h promises: each step takes  *)
(* the lock where the policy lets it, gives it back, or is invisible.      *)
THEOREM Implements == Spec => ImplementsRWLock
<1>1. Init => Promise!Init
  BY DEF Init, Promise!Init
<1>2. ASSUME IInv, [Next]_vars PROVE [Promise!Next]_held
  <2>1. PolicyStep
    BY <1>2, NextStep
  <2>2. ASSUME NEW t \in Threads, MayTake(t, "W"), Take(t, "W")
        PROVE  Promise!LockWrite(t)
    BY <2>2
    DEF MayTake, Take, Writes, Range,
        Promise!LockWrite, Promise!Writes, Promise!Range
  <2>3. ASSUME NEW t \in Threads, MayTake(t, "R"), Take(t, "R")
        PROVE  Promise!LockRead(t)
    BY <2>3
    DEF MayTake, Take, Writes, Range,
        Promise!LockRead, Promise!Writes, Promise!Range
  <2>4. ASSUME NEW t \in Threads, held[t] # <<>>, GiveBack(t)
        PROVE  Promise!Unlock(t)
    BY <2>4 DEF GiveBack, Front, Promise!Unlock, Promise!Front
  <2>. QED
    BY <2>1, <2>2, <2>3, <2>4 DEF PolicyStep, Promise!Next
<1>. QED
  BY Inductive, <1>1, <1>2, PTL DEF Spec, ImplementsRWLock, Promise!Spec
=============================================================================
