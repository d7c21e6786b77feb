----------------------------- MODULE MemoryProofs -----------------------------
(***************************************************************************)
(* Theorems about the two modules that are about memory.  SharedPtr, for   *)
(* any number of threads, pointers and objects: SharedInv is inductive;    *)
(* RaceInv and HeldInv say what an operation relies on, PhaseInv and       *)
(* OpenInv what it has done so far, CountInv what refCount counts.         *)
(* StompAllocator, for any size of a                                       *)
(* page, of a granule and of the blocks: StompInv is inductive; each block *)
(* lies in a region that can be computed from it, and the regions are      *)
(* apart.                                                                  *)
(***************************************************************************)
EXTENDS SharedPtr, StompAllocator, Integers, FiniteSetTheorems,
        FunctionTheorems, TLAPS

-----------------------------------------------------------------------------
(* SharedPtr                                                               *)

(* The object that a pointer holds: Release has given it up before it      *)
(* nulls _ptr.                                                             *)
holds == [p \in Pointers |-> IF p \in Releasing THEN Null ELSE ptr[p]]

(* There are no data races all through the operations. *)
RaceInv == \A t, u \in Users : t # u => Written(op[t]) \cap Used(op[u]) = {}

(* The object of a member stays held, unless Release may drop it. *)
Held(o) ==
  FromOwnTarget(o)
    \/ \A p \in {o.dst, o.src} \cap Objects : \E r \in o.via : holds[r] = p
HeldInv == \A t \in Users : Held(op[t])

(* Where the pointers of an operation stand. *)
Phase(t) ==
  /\ op[t] = Idle => rel[t] = Null /\ add[t] = Null /\ open[t] = <<>>
  /\ add[t] # Null =>
       /\ op[t].kind = "copy" /\ rel[t] = Null /\ open[t] = <<>>
       /\ holds[op[t].dst] = add[t]
       /\ op[t].src = op[t].dst => <<t, add[t]>> \in raw
       /\ (op[t].src # op[t].dst /\ ~FromOwnTarget(op[t]))
            => holds[op[t].src] = add[t]
  /\ op[t].kind = "copy" /\ add[t] = Null =>
       holds[op[t].dst] = Null /\ op[t].src # op[t].dst
  /\ op[t].kind = "move" => holds[op[t].dst] = Null
PhaseInv == \A t \in Users : Phase(t)

(* Release is under way in the target and in members of deleted objects.   *)
Opened(t) ==
  \A i \in 1 .. Len(open[t]) :
    open[t][i] = op[t].dst \/ open[t][i] \in Objects \ alive
OpenInv == \A t \in Users : Opened(t)

(* Targets of assignments like head = head->next. *)
OwnTargets == {op[t].dst : t \in {u \in Users : FromOwnTarget(op[u])}}

(* Pointers that Set has stored and AddRef has not counted yet. *)
Uncounted == {op[t].dst : t \in {u \in Users : add[u] # Null}}
CountedPtrs(o) == {p \in Pointers \ Uncounted : holds[p] = o}
Releases(o) == {t \in Users : rel[t] = o}
Raws(o) == {t \in Users : <<t, o>> \in raw}

(* A count is that of the pointers it has been told of, and of the         *)
(* references that some thread is about to give back.                      *)
Count(o) ==
  /\ refCount[o] = Cardinality(CountedPtrs(o)) + Cardinality(Releases(o))
                     + Cardinality(Raws(o))
  /\ o \in alive <=> refCount[o] > 0
CountInv == \A o \in Objects : Count(o)

SharedInv ==
  SharedTypeOK /\ RaceInv /\ HeldInv /\ PhaseInv /\ OpenInv /\ CountInv

-----------------------------------------------------------------------------
LEMMA OneMoreElement ==
  ASSUME NEW S, IsFiniteSet(S), NEW x, x \notin S
  PROVE  Cardinality(S \cup {x}) = Cardinality(S) + 1
BY FS_AddElement

LEMMA OneFewerElement ==
  ASSUME NEW S, IsFiniteSet(S), NEW x \in S
  PROVE  Cardinality(S \ {x}) = Cardinality(S) - 1
BY FS_RemoveElement

LEMMA FiniteReferences ==
  ASSUME NEW o
  PROVE  /\ IsFiniteSet(CountedPtrs(o)) /\ Cardinality(CountedPtrs(o)) \in Nat
         /\ IsFiniteSet(Releases(o)) /\ Cardinality(Releases(o)) \in Nat
         /\ IsFiniteSet(Raws(o)) /\ Cardinality(Raws(o)) \in Nat
<1>1. /\ CountedPtrs(o) \subseteq Pointers /\ Releases(o) \subseteq Users
      /\ Raws(o) \subseteq Users
  BY DEF CountedPtrs, Releases, Raws
<1> QED BY <1>1, PointersAssumption, FS_Subset, FS_CardinalityType

(* What the fields of op[t] can be. *)
LEMMA OpShape ==
  ASSUME SharedTypeOK, NEW t \in Users
  PROVE  /\ op[t].via \subseteq Roots
         /\ \/ op[t] = Idle /\ op[t].kind = "idle"
               /\ op[t].dst = Null /\ op[t].src = Null
            \/ op[t].kind = "drop" /\ op[t].dst = Null /\ op[t].src = Null
            \/ /\ op[t].kind \in {"copy", "move", "drop"}
               /\ op[t].dst \in Pointers /\ op[t].src \in Pointers
<1>1. op[t] \in Ops \cup {Idle, RawRelease}
  BY DEF SharedTypeOK
<1>2. CASE op[t] = Idle
  BY <1>2 DEF Idle
<1>3. CASE op[t] = RawRelease
  BY <1>3 DEF RawRelease
<1>4. CASE op[t] \in Ops
  BY <1>4 DEF Ops
<1> QED BY <1>1, <1>2, <1>3, <1>4

(* What one thread writes no other thread uses. *)
LEMMA Exclusive ==
  ASSUME RaceInv, NEW t \in Users, NEW u \in Users, t # u,
         NEW p \in Written(op[t])
  PROVE  p \notin Used(op[u])
BY DEF RaceInv

(* What a pointer holds. *)
LEMMA HoldsType ==
  ASSUME SharedTypeOK
  PROVE  holds \in [Pointers -> Objects \cup {Null}]
BY DEF holds, SharedTypeOK

LEMMA HoldsKept ==
  ASSUME UNCHANGED <<ptr, open>>
  PROVE  holds' = holds /\ Releasing' = Releasing
<1>1. Releasing' = Releasing
  BY DEF Releasing
<1> QED BY <1>1 DEF holds

LEMMA HoldsSet ==
  ASSUME SharedTypeOK, open' = open, NEW p \in Pointers \ Releasing, NEW x,
         ptr' = [ptr EXCEPT ![p] = x]
  PROVE  holds' = [holds EXCEPT ![p] = x] /\ Releasing' = Releasing
<1>1. Releasing' = Releasing
  BY DEF Releasing
<1> QED BY <1>1 DEF holds, SharedTypeOK

LEMMA HoldsGivenUp ==
  ASSUME SharedTypeOK, ptr' = ptr, NEW p \in Pointers,
         \/ Releasing' = Releasing \cup {p}
         \/ Releasing' = Releasing /\ ptr[p] = Null
  PROVE  holds' = [holds EXCEPT ![p] = Null]
<1> DEFINE given == [holds EXCEPT ![p] = Null]
<1>1. holds' = [q \in Pointers |-> IF q \in Releasing' THEN Null ELSE ptr[q]]
  BY DEF holds
<1>2. given = [q \in Pointers |-> IF q = p THEN Null ELSE holds[q]]
  BY DEF holds
<1>3. ASSUME NEW q \in Pointers
      PROVE  (IF q \in Releasing' THEN Null ELSE ptr[q])
               = (IF q = p THEN Null ELSE holds[q])
  BY DEF holds
<1> QED BY <1>1, <1>2, <1>3

(* The pointers inside whose Release a thread is. *)
OpenIn(t) == {open[t][i] : i \in 1 .. Len(open[t])}

LEMMA ReleasingIs ==
  ASSUME NEW t \in Users, NEW p,
         \A u \in Users \ {t} : open'[u] = open[u]
  PROVE  /\ OpenIn(t)' = OpenIn(t) \cup {p} => Releasing' = Releasing \cup {p}
         /\ OpenIn(t) = OpenIn(t)' \cup {p} => Releasing = Releasing' \cup {p}
<1>1. \A q : q \in Releasing <=> \E u \in Users : q \in OpenIn(u)
  BY DEF Releasing, OpenIn
<1>2. \A q : q \in Releasing' <=> \E u \in Users : q \in OpenIn(u)'
  BY DEF Releasing, OpenIn
<1>3. \A u \in Users \ {t} : OpenIn(u)' = OpenIn(u)
  BY DEF OpenIn
<1>4. ASSUME OpenIn(t)' = OpenIn(t) \cup {p}
      PROVE  Releasing' = Releasing \cup {p}
  <2>1. \A q : q \in Releasing' <=> q \in Releasing \cup {p}
    BY <1>1, <1>2, <1>3, <1>4
  <2> QED BY <2>1
<1>5. ASSUME OpenIn(t) = OpenIn(t)' \cup {p}
      PROVE  Releasing = Releasing' \cup {p}
  <2>1. \A q : q \in Releasing <=> q \in Releasing' \cup {p}
    BY <1>1, <1>2, <1>3, <1>5
  <2> QED BY <2>1
<1> QED BY <1>4, <1>5

(* Release is not under way in a pointer that is its thread's own.         *)
LEMMA NotReleasing ==
  ASSUME SharedInv, NEW p \in Roots \cup alive,
         \A u \in Users : p # op[u].dst \/ open[u] = <<>>
  PROVE  p \in Pointers \ Releasing /\ holds[p] = ptr[p]
<1>1. p \in Pointers
  BY DEF Pointers, SharedInv, SharedTypeOK
<1>2. ASSUME p \in Releasing
      PROVE  FALSE
  <2>1. PICK u \in Users : \E i \in 1 .. Len(open[u]) : p = open[u][i]
    BY <1>2 DEF Releasing
  <2>2. PICK i \in 1 .. Len(open[u]) : p = open[u][i]
    BY <2>1
  <2>3. p = op[u].dst \/ p \in Objects \ alive
    BY <2>2 DEF SharedInv, OpenInv, Opened
  <2>4. p = op[u].dst
    BY <2>3, PointersAssumption
  <2>5. open[u] # <<>>
    BY <2>2
  <2> QED BY <2>4, <2>5
<1> QED BY <1>1, <1>2 DEF holds

LEMMA OwnNotReleasing ==
  ASSUME SharedInv, NEW t \in Users, open[t] = <<>>,
         NEW p \in Roots \cup alive,
         \A u \in Users \ {t} : p \notin Written(op[u])
  PROVE  p \in Pointers \ Releasing /\ holds[p] = ptr[p]
<1>1. p # Null
  BY PointersAssumption DEF Pointers, SharedInv, SharedTypeOK
<1>2. \A u \in Users : p # op[u].dst \/ open[u] = <<>>
  BY <1>1 DEF Written
<1> QED BY <1>2, NotReleasing

(* The pointer that is being set is counted for nobody. *)
LEMMA UncountedAre ==
  ASSUME SharedInv, NEW t \in Users, add[t] # Null
  PROVE  /\ op[t].kind = "copy" /\ op[t].dst \in Pointers
         /\ op[t].dst \in Written(op[t]) /\ op[t].src \in Pointers
         /\ op[t].dst \in Uncounted
<1>1. op[t].kind = "copy"
  BY DEF SharedInv, PhaseInv, Phase
<1>2. op[t].dst \in Pointers /\ op[t].src \in Pointers
  BY <1>1, OpShape DEF SharedInv
<1>3. op[t].dst \in Written(op[t])
  BY <1>1, <1>2, PointersAssumption DEF Written
<1> QED BY <1>1, <1>2, <1>3 DEF Uncounted

(* Pointers that a thread uses are counted, but for the one it sets.       *)
LEMMA CountedAre ==
  ASSUME SharedInv, NEW t \in Users, NEW p \in Pointers, p \in Used(op[t]),
         add[t] # Null => p # op[t].dst
  PROVE  p \notin Uncounted
<1> SUFFICES ASSUME NEW u \in Users, add[u] # Null, p = op[u].dst
             PROVE  FALSE
  BY DEF Uncounted
<1>1. p \in Written(op[u])
  BY UncountedAre
<1>2. CASE u = t
  BY <1>2
<1>3. CASE u # t
  BY <1>1, <1>3, Exclusive DEF SharedInv
<1> QED BY <1>2, <1>3

(* An object that is held has a reference that is counted and that no      *)
(* ReleaseRef is about to give back.                                       *)
LEMMA Referenced ==
  ASSUME SharedInv, NEW o \in Objects,
         \/ \E p \in Pointers \ OwnTargets : holds[p] = o
         \/ \E t \in Users : \/ add[t] = o /\ ~FromOwnTarget(op[t])
                             \/ <<t, o>> \in raw
  PROVE  CountedPtrs(o) # {} \/ Raws(o) # {}
<1>1. ASSUME NEW t \in Users, add[t] = o, ~FromOwnTarget(op[t])
      PROVE  CountedPtrs(o) # {} \/ Raws(o) # {}
  <2>1. o # Null
    BY PointersAssumption DEF Pointers
  <2>2. Phase(t)
    BY DEF SharedInv, PhaseInv
  <2>3. CASE op[t].src = op[t].dst
    BY <1>1, <2>1, <2>2, <2>3 DEF Phase, Raws
  <2>4. CASE op[t].src # op[t].dst
    <3>1. op[t].src \in Pointers /\ holds[op[t].src] = o
      BY <1>1, <2>1, <2>2, <2>4, UncountedAre DEF Phase
    <3>2. op[t].src \in Used(op[t])
      BY <3>1, PointersAssumption DEF Used
    <3>3. op[t].src \notin Uncounted
      BY <2>4, <3>1, <3>2, CountedAre
    <3> QED BY <3>1, <3>3 DEF CountedPtrs
  <2> QED BY <2>3, <2>4
<1>2. ASSUME NEW p \in Pointers \ OwnTargets, holds[p] = o
      PROVE  CountedPtrs(o) # {} \/ Raws(o) # {}
  <2>1. CASE p \notin Uncounted
    BY <1>2, <2>1 DEF CountedPtrs
  <2>2. CASE p \in Uncounted
    <3>1. PICK u \in Users : add[u] # Null /\ p = op[u].dst
      BY <2>2 DEF Uncounted
    <3>2. add[u] = o
      BY <1>2, <3>1 DEF SharedInv, PhaseInv, Phase
    <3>3. ~FromOwnTarget(op[u])
      BY <3>1 DEF OwnTargets
    <3> QED BY <3>2, <3>3, <1>1
  <2> QED BY <2>1, <2>2
<1>3. ASSUME NEW t \in Users, <<t, o>> \in raw
      PROVE  CountedPtrs(o) # {} \/ Raws(o) # {}
  BY <1>3 DEF Raws
<1> QED BY <1>1, <1>2, <1>3

(* So has the object of a member that an operation works on, but for src   *)
(* when that is reached through the target.                                *)
LEMMA MemberHeld ==
  ASSUME SharedInv, NEW t \in Users, NEW o \in Objects,
         o = op[t].dst \/ (o = op[t].src /\ ~FromOwnTarget(op[t]))
  PROVE  CountedPtrs(o) # {}
<1>1. op[t].via \subseteq Roots
  BY OpShape DEF SharedInv
<1>2. ~FromOwnTarget(op[t])
  BY <1>1, PointersAssumption DEF FromOwnTarget
<1>3. PICK r \in op[t].via : holds[r] = o
  BY <1>2 DEF SharedInv, HeldInv, Held
<1>4. r \in Used(op[t]) /\ r # op[t].dst /\ r \in Pointers
  BY <1>1, <1>2 DEF Used, FromOwnTarget, Pointers
<1>5. r \notin Uncounted
  BY <1>4, CountedAre
<1> QED BY <1>3, <1>4, <1>5 DEF CountedPtrs

LEMMA CountsKnown ==
  ASSUME SharedInv, NEW o \in Objects
  PROVE  /\ refCount[o] = Cardinality(CountedPtrs(o))
                            + Cardinality(Releases(o)) + Cardinality(Raws(o))
         /\ Cardinality(CountedPtrs(o)) \in Nat
         /\ Cardinality(Releases(o)) \in Nat /\ Cardinality(Raws(o)) \in Nat
         /\ Cardinality(CountedPtrs(o)) = 0 <=> CountedPtrs(o) = {}
         /\ Cardinality(Releases(o)) = 0 <=> Releases(o) = {}
         /\ Cardinality(Raws(o)) = 0 <=> Raws(o) = {}
         /\ o \in alive <=> refCount[o] > 0
BY FiniteReferences, FS_EmptySet DEF SharedInv, CountInv, Count

LEMMA DeadUncounted ==
  ASSUME SharedInv, NEW o \in Objects, o \notin alive
  PROVE  /\ Cardinality(CountedPtrs(o)) = 0 /\ Cardinality(Releases(o)) = 0
         /\ Raws(o) = {}
<1>1. refCount[o] \in Nat
  BY DEF SharedInv, SharedTypeOK
<1>2. /\ ~(refCount[o] > 0)
      /\ refCount[o] = Cardinality(CountedPtrs(o)) + Cardinality(Releases(o))
                         + Cardinality(Raws(o))
  BY CountsKnown
<1>3. /\ Cardinality(CountedPtrs(o)) = 0 /\ Cardinality(Releases(o)) = 0
      /\ Cardinality(Raws(o)) = 0
  BY <1>1, <1>2, FiniteReferences
<1> QED BY <1>3, FS_EmptySet, FiniteReferences

(* What is referred to is alive, but for what head = head->next has read. *)
LEMMA ReferencedLives ==
  ASSUME SharedInv, NEW o \in Objects,
         \/ \E p \in Pointers \ OwnTargets : holds[p] = o
         \/ \E t \in Users :
              \/ rel[t] = o \/ <<t, o>> \in raw \/ o = op[t].dst
              \/ ~FromOwnTarget(op[t]) /\ o \in {add[t], op[t].src}
  PROVE  o \in alive
<1>1. ASSUME NEW t \in Users, rel[t] = o
      PROVE  Releases(o) # {}
  BY <1>1 DEF Releases
<1>2. CountedPtrs(o) # {} \/ Releases(o) # {} \/ Raws(o) # {}
  BY <1>1, Referenced, MemberHeld
<1> QED BY <1>2, CountsKnown

(* When ReleaseRef finds a count of 1, nothing else refers to the object.  *)
LEMMA LastReference ==
  ASSUME SharedInv, NEW t \in Users, NEW o \in Objects, rel[t] = o,
         refCount[o] = 1
  PROVE  /\ Releases(o) = {t} /\ CountedPtrs(o) = {} /\ Raws(o) = {}
         /\ \A u \in Users : /\ o # op[u].dst /\ <<u, o>> \notin raw
                             /\ o = op[u].src => FromOwnTarget(op[u])
<1>1. t \in Releases(o)
  BY DEF Releases
<1>2. /\ Cardinality(Releases(o)) = 1
      /\ CountedPtrs(o) = {} /\ Raws(o) = {}
  BY <1>1, CountsKnown
<1>3. Releases(o) = {t}
  BY <1>1, <1>2, FS_Singleton, FiniteReferences
<1>4. \A u \in Users : <<u, o>> \notin raw
  BY <1>2 DEF Raws
<1>5. \A u \in Users : /\ o # op[u].dst
                       /\ o = op[u].src => FromOwnTarget(op[u])
  BY <1>2, MemberHeld
<1> QED BY <1>2, <1>3, <1>4, <1>5

-----------------------------------------------------------------------------
(* What a step of another thread leaves as it was. *)
LEMMA PhaseKept ==
  ASSUME SharedInv, NEW u \in Users,
         op'[u] = op[u], rel'[u] = rel[u], add'[u] = add[u],
         open'[u] = open[u], <<u, add[u]>> \in raw => <<u, add[u]>> \in raw',
         \A p \in Pointers :
           p = op[u].dst \/ (p = op[u].src /\ ~FromOwnTarget(op[u]))
             => holds'[p] = holds[p]
  PROVE  Phase(u)'
<1>1. Phase(u)
  BY DEF SharedInv, PhaseInv
<1>2. FromOwnTarget(op[u])' = FromOwnTarget(op[u])
  BY DEF FromOwnTarget
<1>3. CASE add[u] # Null
  <2>1. /\ op[u].kind = "copy" /\ rel[u] = Null /\ open[u] = <<>>
        /\ holds[op[u].dst] = add[u]
        /\ op[u].src = op[u].dst => <<u, add[u]>> \in raw
        /\ (op[u].src # op[u].dst /\ ~FromOwnTarget(op[u]))
             => holds[op[u].src] = add[u]
    BY <1>1, <1>3 DEF Phase
  <2>2. op[u].dst \in Pointers /\ op[u].src \in Pointers
    BY <1>3, UncountedAre
  <2>3. op[u] # Idle
    BY <1>1, <1>3 DEF Phase
  <2>4. holds'[op'[u].dst] = add'[u]
    BY <2>1, <2>2
  <2>5. (op'[u].src # op'[u].dst /\ ~FromOwnTarget(op'[u]))
          => holds'[op'[u].src] = add'[u]
    BY <2>1, <2>2
  <2> QED BY <1>2, <1>3, <2>1, <2>3, <2>4, <2>5 DEF Phase
<1>4. CASE add[u] = Null
  <2>1. op[u].kind \in {"copy", "move"} => op[u].dst \in Pointers
    BY OpShape DEF SharedInv
  <2>2. op[u].kind \in {"copy", "move"} =>
          holds'[op'[u].dst] = holds[op[u].dst]
    BY <2>1
  <2> QED BY <1>1, <1>4, <2>2 DEF Phase
<1> QED BY <1>3, <1>4

LEMMA UseKept ==
  ASSUME SharedInv, NEW t \in Users, NEW n, op' = [op EXCEPT ![t] = n],
         \A u \in Users \ {t} : /\ Written(n) \cap Used(op[u]) = {}
                                /\ Used(n) \cap Written(op[u]) = {},
         \/ FromOwnTarget(n)
         \/ \A p \in {n.dst, n.src} \cap Objects :
              \E r \in n.via : holds'[r] = p,
         \A r \in Roots : holds'[r] = holds[r] \/ r \in Written(op[t])
                                              \/ r \in Written(n)
  PROVE  RaceInv' /\ HeldInv'
<1>1. op'[t] = n /\ \A u \in Users \ {t} : op'[u] = op[u]
  BY DEF SharedInv, SharedTypeOK
<1>2. RaceInv'
  <2> SUFFICES ASSUME NEW u \in Users, NEW v \in Users, u # v
               PROVE  Written(op'[u]) \cap Used(op'[v]) = {}
    BY DEF RaceInv, Written, Used
  <2>1. CASE u = t
    BY <1>1, <2>1
  <2>2. CASE v = t
    BY <1>1, <2>2
  <2>3. CASE u # t /\ v # t
    BY <1>1, <2>3 DEF SharedInv, RaceInv
  <2> QED BY <2>1, <2>2, <2>3
<1>3. ASSUME NEW u \in Users \ {t}
      PROVE  Held(op[u])'
  <2>1. Held(op[u])
    BY DEF SharedInv, HeldInv
  <2>2. op[u].via \subseteq Roots
    BY OpShape DEF SharedInv
  <2>3. \A r \in op[u].via : holds'[r] = holds[r]
    <3> TAKE r \in op[u].via
    <3>1. r \in Roots /\ r \in Used(op[u])
      BY <2>2 DEF Used
    <3>2. r \notin Written(n)
      BY <3>1
    <3>3. r \notin Written(op[t])
      BY <3>1, Exclusive DEF SharedInv
    <3> QED BY <3>1, <3>2, <3>3
  <2> QED BY <1>1, <2>1, <2>3 DEF Held, FromOwnTarget
<1>4. Held(op[t])'
  BY <1>1 DEF Held, FromOwnTarget
<1> QED BY <1>2, <1>3, <1>4 DEF HeldInv

LEMMA NothingUsed ==
  ASSUME NEW n \in {Idle, RawRelease}
  PROVE  /\ Written(n) = {} /\ Used(n) = {} /\ n.via = {}
         /\ {n.dst, n.src} \cap Objects = {}
BY PointersAssumption DEF Written, Used, Idle, RawRelease, Pointers

LEMMA OpenKept ==
  ASSUME SharedInv, NEW u \in Users, open'[u] = open[u],
         op'[u] = op[u] \/ open[u] = <<>>,
         \A o \in Objects : o \in Releasing /\ o \in alive' => o \in alive
  PROVE  Opened(u)'
<1> SUFFICES ASSUME NEW i \in 1 .. Len(open[u])
             PROVE  open[u][i] = op'[u].dst \/ open[u][i] \in Objects \ alive'
  BY DEF Opened
<1>1. open[u][i] = op[u].dst \/ open[u][i] \in Objects \ alive
  BY DEF SharedInv, OpenInv, Opened
<1>2. open[u][i] \in Releasing
  BY DEF Releasing
<1>3. op'[u] = op[u]
  OBVIOUS
<1> QED BY <1>1, <1>2, <1>3

LEMMA CountKept ==
  ASSUME SharedInv, NEW q \in Objects, refCount'[q] = refCount[q],
         q \in alive' <=> q \in alive, CountedPtrs(q)' = CountedPtrs(q),
         Releases(q)' = Releases(q), Raws(q)' = Raws(q)
  PROVE  Count(q)'
BY DEF SharedInv, CountInv, Count

LEMMA UncountedKept ==
  ASSUME SharedInv, UNCHANGED add,
         \A u \in Users : add[u] # Null => op'[u] = op[u]
  PROVE  Uncounted' = Uncounted
BY DEF Uncounted

(* What the four ways in which an operation ends have in common. *)
LEMMA Finished ==
  ASSUME SharedInv, NEW t \in Users, op' = [op EXCEPT ![t] = Idle],
         rel[t] = Null, open[t] = <<>>, UNCHANGED <<rel, raw, open, alive>>,
         add' = [add EXCEPT ![t] = Null],
         \A p \in Pointers \ Written(op[t]) : holds'[p] = holds[p]
  PROVE  RaceInv' /\ HeldInv' /\ PhaseInv' /\ OpenInv'
<1>1. RaceInv' /\ HeldInv'
  BY NothingUsed, UseKept DEF Pointers
<1>2. ASSUME NEW u \in Users \ {t}
      PROVE  Phase(u)'
  <2>1. \A p \in Pointers \cap {op[u].dst, op[u].src} : p \in Used(op[u])
    BY PointersAssumption DEF Used
  <2>2. \A p \in Pointers \cap {op[u].dst, op[u].src} : p \notin Written(op[t])
    BY <2>1, Exclusive DEF SharedInv
  <2> QED BY <2>2, PhaseKept DEF SharedInv, SharedTypeOK
<1>3. Phase(t)'
  BY DEF Phase, Idle, SharedInv, SharedTypeOK
<1>4. OpenInv'
  BY OpenKept DEF OpenInv, SharedInv, SharedTypeOK
<1> QED BY <1>1, <1>2, <1>3, <1>4 DEF PhaseInv

(* A pointer that Set fills is not counted before AddRef. *)
LEMMA SetUncounted ==
  ASSUME SharedInv, NEW dst \in Pointers, NEW x, NEW q \in Objects,
         holds[dst] = Null, holds' = [holds EXCEPT ![dst] = x],
         Uncounted' = Uncounted \cup {dst}
  PROVE  CountedPtrs(q)' = CountedPtrs(q)
<1>1. dst \notin CountedPtrs(q)' /\ dst \notin CountedPtrs(q)
  BY PointersAssumption DEF CountedPtrs, Pointers
<1>2. \A p \in Pointers \ {dst} : holds'[p] = holds[p]
  BY HoldsType DEF SharedInv
<1>3. \A p \in Pointers \ {dst} :
        p \in CountedPtrs(q)' <=> p \in CountedPtrs(q)
  BY <1>2 DEF CountedPtrs
<1>4. CountedPtrs(q) \subseteq Pointers /\ CountedPtrs(q)' \subseteq Pointers
  BY DEF CountedPtrs
<1> QED BY <1>1, <1>3, <1>4

(* Release gives up what a pointer holds and leaves its ReleaseRef.        *)
LEMMA Emptied ==
  ASSUME SharedInv, NEW t \in Users, NEW p \in Pointers, NEW q \in Objects,
         p \notin Uncounted, Uncounted' = Uncounted, rel[t] # q,
         holds' = [holds EXCEPT ![p] = Null],
         rel' = [rel EXCEPT ![t] = holds[p]],
         raw' = raw, refCount'[q] = refCount[q], q \in alive' <=> q \in alive
  PROVE  Count(q)'
<1>1. Raws(q)' = Raws(q)
  BY DEF Raws
<1>2. q # Null
  BY PointersAssumption DEF Pointers
<1>3. holds'[p] = Null /\ \A r \in Pointers \ {p} : holds'[r] = holds[r]
  BY HoldsType DEF SharedInv
<1>4. CASE q # holds[p]
  <2>1. CountedPtrs(q)' = CountedPtrs(q)
    BY <1>2, <1>3, <1>4 DEF CountedPtrs
  <2>2. Releases(q)' = Releases(q)
    BY <1>4 DEF Releases, SharedInv, SharedTypeOK
  <2> QED BY <1>1, <2>1, <2>2, CountKept
<1>5. CASE q = holds[p]
  <2>1. CountedPtrs(q)' = CountedPtrs(q) \ {p} /\ p \in CountedPtrs(q)
    BY <1>2, <1>3, <1>5 DEF CountedPtrs
  <2>2. Releases(q)' = Releases(q) \cup {t} /\ t \notin Releases(q)
    BY <1>5 DEF Releases, SharedInv, SharedTypeOK
  <2>3. /\ Cardinality(CountedPtrs(q)') = Cardinality(CountedPtrs(q)) - 1
        /\ Cardinality(Releases(q)') = Cardinality(Releases(q)) + 1
    BY <2>1, <2>2, OneMoreElement, OneFewerElement, FiniteReferences
  <2> QED BY <1>1, <2>3, CountsKnown DEF Count
<1> QED BY <1>4, <1>5

-----------------------------------------------------------------------------
(* One lemma for each action: it preserves SharedInv.                      *)
LEMMA MakeStep ==
  ASSUME SharedInv, NEW t \in Users, NEW dst \in Roots, NEW o \in Objects,
         Make(t, dst, o)
  PROVE  SharedInv'
<1> DEFINE n == [kind |-> "copy", dst |-> dst, src |-> dst, via |-> {}]
<1>1. /\ op[t] = Idle /\ o \notin alive /\ ptr[dst] = Null /\ Uses(t, n)
      /\ op' = [op EXCEPT ![t] = n] /\ alive' = alive \cup {o}
      /\ refCount' = [refCount EXCEPT ![o] = 1] /\ raw' = raw \cup {<<t, o>>}
      /\ ptr' = [ptr EXCEPT ![dst] = o] /\ add' = [add EXCEPT ![t] = o]
      /\ rel' = rel /\ open' = open /\ o \notin Releasing
  BY DEF Make
<1>2. /\ rel[t] = Null /\ add[t] = Null /\ dst \in Pointers
      /\ o # Null /\ dst # Null /\ dst \notin Objects /\ open[t] = <<>>
  BY <1>1, PointersAssumption DEF SharedInv, PhaseInv, Phase, Pointers
<1>3. n \in Ops
  <2>1. Cardinality({dst} \cap Objects) = Cardinality(n.via)
    BY <1>2
  <2> QED BY <1>2, <2>1 DEF Ops
<1>4. Written(n) = {dst} /\ n.via = {} /\ n.dst = dst /\ n.src = dst
  BY <1>2 DEF Written
<1> HIDE DEF n
<1>5. SharedTypeOK'
  BY <1>1, <1>2, <1>3 DEF SharedInv, SharedTypeOK
<1>6. /\ dst \in Pointers \ Releasing /\ holds[dst] = Null
      /\ holds' = [holds EXCEPT ![dst] = o] /\ Releasing' = Releasing
  <2>1. \A u \in Users \ {t} : dst \notin Written(op[u])
    BY <1>1, <1>2, <1>4 DEF Uses, Used
  <2>2. dst \in Pointers \ Releasing /\ holds[dst] = ptr[dst]
    BY <1>2, <2>1, OwnNotReleasing
  <2> QED BY <1>1, <2>2, HoldsSet DEF SharedInv
<1>7. holds'[dst] = o /\ \A p \in Pointers \ {dst} : holds'[p] = holds[p]
  BY <1>2, <1>6, HoldsType DEF SharedInv
<1>8. RaceInv' /\ HeldInv'
  <2>1. \A u \in Users \ {t} : /\ Written(n) \cap Used(op[u]) = {}
                               /\ Used(n) \cap Written(op[u]) = {}
    BY <1>1 DEF Uses
  <2>2. {n.dst, n.src} \cap Objects = {}
    BY <1>2, <1>4
  <2>3. \A r \in Roots : holds'[r] = holds[r] \/ r \in Written(n)
    BY <1>4, <1>7 DEF Pointers
  <2> QED BY <1>1, <2>1, <2>2, <2>3, UseKept
<1>9. \A u \in Users \ {t} : dst \notin {op[u].dst, op[u].src}
  <2>1. \A u \in Users \ {t} : dst \notin Used(op[u])
    BY <1>1, <1>4 DEF Uses
  <2> QED BY <2>1, <1>2 DEF Used
<1>10. PhaseInv'
  <2>1. ASSUME NEW u \in Users \ {t}
        PROVE  Phase(u)'
    BY <1>1, <1>7, <1>9, PhaseKept DEF SharedInv, SharedTypeOK
  <2>2. /\ op'[t] = n /\ add'[t] = o /\ <<t, o>> \in raw'
        /\ rel'[t] = Null /\ open'[t] = <<>>
    BY <1>1, <1>2 DEF SharedInv, SharedTypeOK
  <2>3. n.kind = "copy" /\ n # Idle
    BY <1>2 DEF n, Idle
  <2>4. Phase(t)'
    BY <1>2, <1>4, <1>7, <2>2, <2>3 DEF Phase
  <2> QED BY <2>1, <2>4 DEF PhaseInv
<1>11. OpenInv'
  <2> SUFFICES ASSUME NEW u \in Users
               PROVE  Opened(u)'
    BY DEF OpenInv
  <2>1. op'[u] = op[u] \/ open[u] = <<>>
    BY <1>1, <1>2 DEF SharedInv, SharedTypeOK
  <2> QED BY <1>1, <2>1, OpenKept
<1>12. Uncounted' = Uncounted \cup {dst}
  BY <1>1, <1>2, <1>4 DEF Uncounted, SharedInv, SharedTypeOK
<1>13. \A q \in Objects : CountedPtrs(q)' = CountedPtrs(q)
  BY <1>2, <1>6, <1>12, SetUncounted
<1>14. \A q \in Objects : Releases(q)' = Releases(q)
  BY <1>1 DEF Releases
<1>15. CountInv'
  <2>1. ASSUME NEW q \in Objects, q # o
        PROVE  Count(q)'
    <3>1. Raws(q)' = Raws(q)
      BY <1>1, <2>1 DEF Raws
    <3>2. refCount'[q] = refCount[q] /\ (q \in alive' <=> q \in alive)
      BY <1>1, <2>1 DEF SharedInv, SharedTypeOK
    <3> QED BY <3>1, <3>2, <1>13, <1>14, CountKept
  <2>2. /\ Cardinality(CountedPtrs(o)) = 0 /\ Cardinality(Releases(o)) = 0
        /\ Raws(o) = {}
    BY <1>1, DeadUncounted
  <2>3. Raws(o)' = {t}
    BY <1>1, <2>2 DEF Raws
  <2>4. refCount'[o] = 1 /\ o \in alive'
    BY <1>1 DEF SharedInv, SharedTypeOK
  <2>5. Count(o)'
    <3>1. /\ Cardinality(CountedPtrs(o)') = 0 /\ Cardinality(Releases(o)') = 0
          /\ Cardinality(Raws(o)') = 1
      BY <1>13, <1>14, <2>2, <2>3, FS_Singleton
    <3> QED BY <2>4, <3>1 DEF Count
  <2> QED BY <2>1, <2>5 DEF CountInv
<1> QED BY <1>5, <1>8, <1>10, <1>11, <1>15 DEF SharedInv

LEMMA GiveUpRawStep ==
  ASSUME SharedInv, NEW t \in Users, NEW o \in Objects, GiveUpRaw(t, o)
  PROVE  SharedInv'
<1>1. /\ op[t] = Idle /\ <<t, o>> \in raw
      /\ op' = [op EXCEPT ![t] = RawRelease] /\ raw' = raw \ {<<t, o>>}
      /\ rel' = [rel EXCEPT ![t] = o]
      /\ UNCHANGED <<ptr, refCount, alive, add, open>>
  BY DEF GiveUpRaw
<1>2. rel[t] = Null /\ add[t] = Null /\ o # Null /\ open[t] = <<>>
  BY <1>1, PointersAssumption DEF SharedInv, PhaseInv, Phase, Pointers
<1>3. SharedTypeOK'
  BY <1>1 DEF SharedInv, SharedTypeOK
<1>4. holds' = holds
  BY <1>1, HoldsKept
<1>5. RaceInv' /\ HeldInv'
  <2>1. /\ Written(RawRelease) = {} /\ Used(RawRelease) = {}
        /\ {RawRelease.dst, RawRelease.src} \cap Objects = {}
    BY NothingUsed
  <2> QED BY <1>1, <1>4, <2>1, UseKept
<1>6. PhaseInv'
  <2>1. ASSUME NEW u \in Users \ {t}
        PROVE  Phase(u)'
    BY <1>1, <1>4, PhaseKept DEF SharedInv, SharedTypeOK
  <2>2. Phase(t)'
    BY <1>1, <1>2 DEF Phase, RawRelease, Idle, SharedInv, SharedTypeOK
  <2> QED BY <2>1, <2>2 DEF PhaseInv
<1>7. OpenInv'
  <2> SUFFICES ASSUME NEW u \in Users
               PROVE  Opened(u)'
    BY DEF OpenInv
  <2>1. op'[u] = op[u] \/ open[u] = <<>>
    BY <1>1, <1>2 DEF SharedInv, SharedTypeOK
  <2> QED BY <1>1, <2>1, OpenKept
<1>8. Uncounted' = Uncounted
  BY <1>1, <1>2, UncountedKept DEF SharedInv, SharedTypeOK
<1>9. \A q \in Objects : CountedPtrs(q)' = CountedPtrs(q)
  BY <1>4, <1>8 DEF CountedPtrs
<1>10. CountInv'
  <2>1. ASSUME NEW q \in Objects, q # o
        PROVE  Count(q)'
    <3>1. Raws(q)' = Raws(q) /\ Releases(q)' = Releases(q)
      BY <1>1, <1>2, <2>1, PointersAssumption
      DEF Raws, Releases, SharedInv, SharedTypeOK, Pointers
    <3> QED BY <1>1, <1>9, <3>1, CountKept
  <2>2. /\ Raws(o)' = Raws(o) \ {t} /\ t \in Raws(o)
        /\ Releases(o)' = Releases(o) \cup {t} /\ t \notin Releases(o)
    BY <1>1, <1>2 DEF Raws, Releases, SharedInv, SharedTypeOK
  <2>3. /\ Cardinality(Raws(o)') = Cardinality(Raws(o)) - 1
        /\ Cardinality(Releases(o)') = Cardinality(Releases(o)) + 1
    BY <2>2, OneMoreElement, OneFewerElement, FiniteReferences
  <2>4. Count(o)'
    BY <1>1, <1>9, <2>3, CountsKnown DEF Count
  <2> QED BY <2>1, <2>4 DEF CountInv
<1> QED BY <1>3, <1>5, <1>6, <1>7, <1>10 DEF SharedInv

LEMMA BeginStep ==
  ASSUME SharedInv, NEW t \in Users, NEW n \in Ops, Begin(t, n)
  PROVE  SharedInv'
<1>1. /\ op[t] = Idle /\ Uses(t, n)
      /\ n.kind = "copy" => ptr[n.dst] # ptr[n.src]
      /\ op' = [op EXCEPT ![t] = n] /\ rel' = [rel EXCEPT ![t] = ptr[n.dst]]
      /\ open' = [open EXCEPT ![t] = IF ptr[n.dst] = Null THEN open[t]
                                                        ELSE <<n.dst>>]
      /\ UNCHANGED <<ptr, refCount, alive, raw, add>>
  BY DEF Begin
<1>2. /\ n.kind \in {"copy", "move", "drop"} /\ n.dst \in Pointers
      /\ n.src \in Pointers /\ n.via \subseteq Roots
  BY DEF Ops
<1>3. /\ rel[t] = Null /\ add[t] = Null /\ n.dst # Null
      /\ n.dst \in Written(n) /\ n # Idle /\ open[t] = <<>>
  <2>1. rel[t] = Null /\ add[t] = Null /\ open[t] = <<>>
    BY <1>1 DEF SharedInv, PhaseInv, Phase
  <2>2. n.dst # Null
    BY <1>2, PointersAssumption
  <2>3. n.dst \in Written(n)
    BY <2>2 DEF Written
  <2>4. n # Idle
    BY <1>2 DEF Idle
  <2> QED BY <2>1, <2>2, <2>3, <2>4
<1>4. \A u \in Users \ {t} : /\ Written(n) \cap Used(op[u]) = {}
                             /\ Used(n) \cap Written(op[u]) = {}
  BY <1>1 DEF Uses
<1>5. SharedTypeOK'
  <2>1. <<n.dst>> \in Seq(Pointers)
    BY <1>2
  <2>2. open' \in [Users -> Seq(Pointers)]
    BY <1>1, <2>1 DEF SharedInv, SharedTypeOK
  <2> QED BY <1>1, <1>2, <2>2 DEF SharedInv, SharedTypeOK
<1>6. \A r \in n.via : r \notin Releasing /\ holds[r] = ptr[r]
  <2> TAKE r \in n.via
  <2>1. \A u \in Users \ {t} : r \notin Written(op[u])
    BY <1>4 DEF Used
  <2> QED BY <1>2, <1>3, <2>1, OwnNotReleasing
<1>7. n.dst \notin Releasing /\ holds[n.dst] = ptr[n.dst]
  <2>1. \A u \in Users \ {t} : n.dst \notin Written(op[u])
    BY <1>3, <1>4 DEF Used
  <2>2. n.dst \in Roots \cup alive
    <3>1. CASE n.dst \in Objects
      <4>1. PICK r \in n.via : ptr[r] = n.dst
        BY <1>1, <3>1 DEF Uses
      <4>2. r \in Pointers \ OwnTargets
        <5>1. ASSUME NEW u \in Users, FromOwnTarget(op[u]), op[u].dst = r
              PROVE  FALSE
          <6>1. u # t
            BY <1>1, <5>1 DEF FromOwnTarget, Idle
          <6>2. r \in Used(n) /\ r \in Pointers /\ r # Null
            BY <1>2, PointersAssumption DEF Used, Pointers
          <6>3. r \in Written(op[u])
            BY <5>1, <6>2 DEF Written
          <6> QED BY <1>4, <6>1, <6>2, <6>3
        <5> QED BY <1>2, <5>1 DEF OwnTargets, Pointers
      <4>3. holds[r] = n.dst
        BY <1>6, <4>1
      <4> QED BY <3>1, <4>2, <4>3, ReferencedLives
    <3> QED BY <1>2, <3>1 DEF Pointers
  <2> QED BY <1>3, <2>1, <2>2, OwnNotReleasing
<1>8. \/ Releasing' = Releasing \cup {n.dst}
      \/ Releasing' = Releasing /\ ptr[n.dst] = Null
  <2>1. CASE ptr[n.dst] = Null
    <3>1. open' = open
      BY <1>1, <2>1 DEF SharedInv, SharedTypeOK
    <3> QED BY <1>1, <2>1, <3>1, HoldsKept
  <2>2. CASE ptr[n.dst] # Null
    <3>1. \A u \in Users \ {t} : open'[u] = open[u]
      BY <1>1 DEF SharedInv, SharedTypeOK
    <3>2. open'[t] = <<n.dst>>
      BY <1>1, <2>2 DEF SharedInv, SharedTypeOK
    <3>3. OpenIn(t)' = {n.dst}
      BY <3>2 DEF OpenIn
    <3>4. OpenIn(t) = {}
      BY <1>3 DEF OpenIn
    <3> QED BY <3>1, <3>3, <3>4, ReleasingIs
  <2> QED BY <2>1, <2>2
<1>9. holds' = [holds EXCEPT ![n.dst] = Null]
  BY <1>1, <1>2, <1>8, HoldsGivenUp DEF SharedInv
<1>10. /\ holds'[n.dst] = Null
       /\ \A p \in Pointers \ {n.dst} : holds'[p] = holds[p]
  BY <1>2, <1>9, HoldsType DEF SharedInv
<1>11. RaceInv' /\ HeldInv'
  <2>1. \A r \in Roots : holds'[r] = holds[r] \/ r \in Written(n)
    BY <1>3, <1>10 DEF Pointers
  <2>2. \/ FromOwnTarget(n)
        \/ \A p \in {n.dst, n.src} \cap Objects :
             \E r \in n.via : holds'[r] = p
    <3> SUFFICES ASSUME ~FromOwnTarget(n),
                        NEW p \in {n.dst, n.src} \cap Objects
                 PROVE  \E r \in n.via : holds'[r] = p
      OBVIOUS
    <3>1. PICK r \in n.via : ptr[r] = p
      BY <1>1 DEF Uses
    <3>2. r # n.dst /\ r \in Pointers
      BY <1>2 DEF FromOwnTarget, Pointers
    <3> QED BY <1>6, <1>10, <3>1, <3>2
  <2> QED BY <1>1, <1>4, <2>1, <2>2, UseKept
<1>12. \A u \in Users \ {t} : n.dst \notin {op[u].dst, op[u].src}
  <2>1. \A u \in Users \ {t} : n.dst \notin Used(op[u])
    BY <1>3, <1>4
  <2> QED BY <2>1, <1>3 DEF Used
<1>13. PhaseInv'
  <2>1. ASSUME NEW u \in Users \ {t}
        PROVE  Phase(u)'
    BY <1>1, <1>10, <1>12, PhaseKept DEF SharedInv, SharedTypeOK
  <2>2. op'[t] = n /\ add'[t] = Null
    BY <1>1, <1>3 DEF SharedInv, SharedTypeOK
  <2>3. n.kind = "copy" => n.src # n.dst
    BY <1>1
  <2>4. Phase(t)'
    BY <1>3, <1>10, <2>2, <2>3 DEF Phase
  <2> QED BY <2>1, <2>4 DEF PhaseInv
<1>14. OpenInv'
  <2>1. ASSUME NEW u \in Users \ {t}
        PROVE  Opened(u)'
    <3>1. op'[u] = op[u] /\ open'[u] = open[u]
      BY <1>1 DEF SharedInv, SharedTypeOK
    <3> QED BY <1>1, <3>1, OpenKept
  <2>2. Opened(t)'
    <3>1. open'[t] = <<>> \/ open'[t] = <<n.dst>>
      BY <1>1, <1>3 DEF SharedInv, SharedTypeOK
    <3>2. op'[t] = n
      BY <1>1 DEF SharedInv, SharedTypeOK
    <3>3. \A i \in 1 .. Len(open'[t]) : open'[t][i] = n.dst
      BY <3>1
    <3> QED BY <3>2, <3>3 DEF Opened
  <2> QED BY <2>1, <2>2 DEF OpenInv
<1>15. Uncounted' = Uncounted /\ n.dst \notin Uncounted
  <2>1. Uncounted' = Uncounted
    BY <1>1, <1>3, UncountedKept DEF SharedInv, SharedTypeOK
  <2> QED BY <2>1, <1>3, <1>12 DEF Uncounted
<1>16. CountInv'
  <2> SUFFICES ASSUME NEW q \in Objects
               PROVE  Count(q)'
    BY DEF CountInv
  <2>1. rel[t] # q
    BY <1>3, PointersAssumption DEF Pointers
  <2> QED BY <1>1, <1>2, <1>7, <1>9, <1>15, <2>1, Emptied
<1> QED BY <1>5, <1>11, <1>13, <1>14, <1>16 DEF SharedInv

LEMMA ReleaseRefStep ==
  ASSUME SharedInv, NEW t \in Users, NEW o \in Objects, rel[t] = o,
         ReleaseRef(t)
  PROVE  SharedInv'
<1>1. o \in Pointers /\ o \notin Roots
  BY PointersAssumption DEF Pointers
<1>2. /\ refCount' = [refCount EXCEPT ![o] = refCount[o] - 1]
      /\ UNCHANGED <<ptr, raw, op, add>>
  BY DEF ReleaseRef
<1>3. o # Null /\ op[t] # Idle /\ add[t] = Null
  BY DEF ReleaseRef, SharedInv, PhaseInv, Phase
<1>4. t \in Releases(o)
  BY DEF Releases
<1>5. refCount[o] \in Nat \ {0} /\ refCount[o] - 1 \in Nat
  <2>1. Cardinality(Releases(o)) # 0
    BY <1>4, CountsKnown
  <2> QED BY <2>1, CountsKnown
<1>6. Uncounted' = Uncounted
  BY <1>2 DEF Uncounted
<1>7. \A q \in Objects : Raws(q)' = Raws(q)
  BY <1>2 DEF Raws
<1>8. RaceInv'
  BY <1>2 DEF SharedInv, RaceInv, Written, Used
<1>9. CASE refCount[o] - 1 # 0
  <2>1. /\ rel' = [rel EXCEPT ![t] = Null] /\ UNCHANGED <<alive, open>>
    BY <1>9 DEF ReleaseRef, IsLast
  <2>2. SharedTypeOK'
    BY <1>1, <1>2, <1>5, <2>1 DEF SharedInv, SharedTypeOK
  <2>3. holds' = holds /\ Releasing' = Releasing
    BY <1>2, <2>1, HoldsKept
  <2>4. HeldInv'
    BY <1>2, <2>3 DEF SharedInv, HeldInv, Held, FromOwnTarget
  <2>5. PhaseInv'
    <3>1. ASSUME NEW u \in Users \ {t}
          PROVE  Phase(u)'
      BY <1>2, <2>1, <2>3, PhaseKept DEF SharedInv, SharedTypeOK
    <3>2. Phase(t)'
      BY <1>2, <1>3, <2>1, <2>3 DEF SharedInv, PhaseInv, Phase
    <3> QED BY <3>1, <3>2 DEF PhaseInv
  <2>6. OpenInv'
    BY <1>2, <2>1, OpenKept DEF OpenInv
  <2>7. \A q \in Objects : CountedPtrs(q)' = CountedPtrs(q)
    BY <1>6, <2>3 DEF CountedPtrs
  <2>8. ASSUME NEW q \in Objects, q # o
        PROVE  Count(q)'
    <3>1. Releases(q)' = Releases(q)
      BY <2>1, <2>8, PointersAssumption
      DEF Releases, SharedInv, SharedTypeOK, Pointers
    <3>2. refCount'[q] = refCount[q]
      BY <1>2, <2>8 DEF SharedInv, SharedTypeOK
    <3> QED BY <1>7, <2>1, <2>7, <3>1, <3>2, CountKept
  <2>9. Count(o)'
    <3>1. Releases(o)' = Releases(o) \ {t}
      BY <1>3, <2>1 DEF Releases, SharedInv, SharedTypeOK
    <3>2. Cardinality(Releases(o)') = Cardinality(Releases(o)) - 1
      BY <1>4, <3>1, OneFewerElement, FiniteReferences
    <3>3. refCount'[o] = refCount[o] - 1 /\ refCount'[o] > 0
      BY <1>1, <1>2, <1>5, <1>9 DEF SharedInv, SharedTypeOK
    <3>4. o \in alive' /\ o \in alive
      BY <1>1, <1>5, <2>1, CountsKnown
    <3> QED BY <1>1, <1>7, <2>7, <3>2, <3>3, <3>4, CountsKnown DEF Count
  <2> QED BY <1>8, <2>2, <2>4, <2>5, <2>6, <2>8, <2>9 DEF SharedInv, CountInv
<1>10. CASE refCount[o] - 1 = 0
  <2>1. /\ alive' = alive \ {o} /\ rel' = [rel EXCEPT ![t] = ptr[o]]
        /\ open' = [open EXCEPT ![t] = IF ptr[o] = Null THEN open[t]
                                       ELSE Append(open[t], o)]
    BY <1>10 DEF ReleaseRef, IsLast
  <2>2. refCount[o] = 1
    BY <1>5, <1>10
  <2>3. /\ Releases(o) = {t} /\ CountedPtrs(o) = {} /\ Raws(o) = {}
        /\ \A u \in Users : /\ o # op[u].dst /\ <<u, o>> \notin raw
                            /\ o = op[u].src => FromOwnTarget(op[u])
    BY <1>1, <2>2, LastReference
  <2>4. SharedTypeOK'
    <3>1. Append(open[t], o) \in Seq(Pointers)
      BY <1>1 DEF SharedInv, SharedTypeOK
    <3>2. open' \in [Users -> Seq(Pointers)]
      BY <2>1, <3>1 DEF SharedInv, SharedTypeOK
    <3> QED BY <1>1, <1>2, <1>5, <2>1, <3>2 DEF SharedInv, SharedTypeOK
  <2>5. o \notin Releasing /\ holds[o] = ptr[o]
    <3>1. o \in alive
      BY <1>5, CountsKnown
    <3> QED BY <2>3, <3>1, NotReleasing
  <2>6. \/ Releasing' = Releasing \cup {o}
        \/ Releasing' = Releasing /\ ptr[o] = Null
    <3>1. CASE ptr[o] = Null
      <4>1. open' = open
        BY <2>1, <3>1 DEF SharedInv, SharedTypeOK
      <4> QED BY <1>2, <3>1, <4>1, HoldsKept
    <3>2. CASE ptr[o] # Null
      <4>1. \A u \in Users \ {t} : open'[u] = open[u]
        BY <2>1 DEF SharedInv, SharedTypeOK
      <4>2. open'[t] = Append(open[t], o) /\ open[t] \in Seq(Pointers)
        BY <2>1, <3>2 DEF SharedInv, SharedTypeOK
      <4>3. OpenIn(t)' = OpenIn(t) \cup {o}
        <5>1. /\ Len(open'[t]) = Len(open[t]) + 1 /\ Len(open[t]) \in Nat
              /\ open'[t][Len(open[t]) + 1] = o
              /\ \A i \in 1 .. Len(open[t]) : open'[t][i] = open[t][i]
          BY <4>2
        <5>2. 1 .. Len(open[t]) + 1
                = (1 .. Len(open[t])) \cup {Len(open[t]) + 1}
          BY <5>1
        <5> QED BY <5>1, <5>2 DEF OpenIn
      <4> QED BY <4>1, <4>3, ReleasingIs
    <3> QED BY <3>1, <3>2
  <2>7. holds' = [holds EXCEPT ![o] = Null]
    BY <1>1, <1>2, <2>6, HoldsGivenUp DEF SharedInv
  <2>8. holds'[o] = Null /\ \A p \in Pointers \ {o} : holds'[p] = holds[p]
    BY <1>1, <2>7, HoldsType DEF SharedInv
  <2>9. HeldInv'
    <3>1. ASSUME NEW u \in Users
          PROVE  Held(op[u])'
      <4>1. \A r \in op[u].via : holds'[r] = holds[r]
        BY <1>1, <2>8, OpShape DEF SharedInv, Pointers
      <4> QED BY <1>2, <4>1 DEF SharedInv, HeldInv, Held, FromOwnTarget
    <3> QED BY <3>1 DEF HeldInv
  <2>10. PhaseInv'
    <3>1. ASSUME NEW u \in Users \ {t}
          PROVE  Phase(u)'
      <4>1. rel'[u] = rel[u] /\ open'[u] = open[u]
        BY <2>1 DEF SharedInv, SharedTypeOK
      <4> QED BY <1>2, <2>3, <2>8, <4>1, PhaseKept
    <3>2. Phase(t)'
      <4>1. Phase(t) /\ op'[t] = op[t] /\ add'[t] = Null
        BY <1>2, <1>3 DEF SharedInv, PhaseInv
      <4>2. op[t].dst \in Pointers => holds'[op[t].dst] = holds[op[t].dst]
        BY <2>3, <2>8
      <4>3. op[t].kind \in {"copy", "move"} => op[t].dst \in Pointers
        BY OpShape DEF SharedInv
      <4> QED BY <1>3, <4>1, <4>2, <4>3 DEF Phase
    <3> QED BY <3>1, <3>2 DEF PhaseInv
  <2>11. OpenInv'
    <3>1. ASSUME NEW u \in Users \ {t}
          PROVE  Opened(u)'
      <4>1. open'[u] = open[u]
        BY <2>1 DEF SharedInv, SharedTypeOK
      <4> QED BY <1>2, <2>1, <4>1, OpenKept
    <3>2. Opened(t)'
      <4> SUFFICES ASSUME NEW i \in 1 .. Len(open'[t])
                   PROVE  \/ open'[t][i] = op[t].dst
                          \/ open'[t][i] \in Objects \ alive'
        BY <1>2 DEF Opened
      <4>1. \A j \in 1 .. Len(open[t]) :
              open[t][j] = op[t].dst \/ open[t][j] \in Objects \ alive'
        BY <2>1 DEF SharedInv, OpenInv, Opened
      <4>2. open[t] \in Seq(Pointers)
        BY DEF SharedInv, SharedTypeOK
      <4>3. \/ open'[t] = open[t]
            \/ open'[t] = Append(open[t], o)
        BY <2>1 DEF SharedInv, SharedTypeOK
      <4>4. CASE open'[t] = open[t]
        BY <4>1, <4>4
      <4>5. CASE open'[t] = Append(open[t], o)
        <5>1. \/ i \in 1 .. Len(open[t]) /\ open'[t][i] = open[t][i]
              \/ open'[t][i] = o
          BY <4>2, <4>5
        <5> QED BY <2>1, <4>1, <5>1
      <4> QED BY <4>3, <4>4, <4>5
    <3> QED BY <3>1, <3>2 DEF OpenInv
  <2>12. o \notin Uncounted
    BY <2>3 DEF Uncounted
  <2>13. ASSUME NEW q \in Objects, q # o
         PROVE  Count(q)'
    <3>1. refCount'[q] = refCount[q] /\ (q \in alive' <=> q \in alive)
      BY <1>2, <2>1, <2>13 DEF SharedInv, SharedTypeOK
    <3> QED BY <1>1, <1>2, <1>6, <2>1, <2>5, <2>7, <2>12, <2>13, <3>1, Emptied
  <2>14. Count(o)'
    <3>1. CountedPtrs(o)' = {}
      BY <1>1, <1>3, <1>6, <2>3, <2>8 DEF CountedPtrs
    <3>2. ptr[o] # o
      BY <1>1, <2>3, <2>5, <2>12 DEF CountedPtrs
    <3>3. Releases(o)' = {}
      BY <2>1, <2>3, <3>2 DEF Releases, SharedInv, SharedTypeOK
    <3>4. Raws(o)' = {}
      BY <1>1, <1>7, <2>3
    <3>5. refCount'[o] = 0 /\ o \notin alive'
      BY <1>1, <1>2, <1>10, <2>1 DEF SharedInv, SharedTypeOK
    <3> QED BY <3>1, <3>3, <3>4, <3>5, FS_EmptySet DEF Count
  <2> QED BY <1>8, <2>4, <2>9, <2>10, <2>11, <2>13, <2>14
          DEF SharedInv, CountInv
<1> QED BY <1>9, <1>10

LEMMA SetNullStep ==
  ASSUME SharedInv, NEW t \in Users, SetNull(t)
  PROVE  SharedInv'
<1> DEFINE n == Len(open[t])
           front == SubSeq(open[t], 1, n - 1)
           last == open[t][n]
<1>1. /\ rel[t] = Null /\ open[t] # <<>>
      /\ ptr' = [ptr EXCEPT ![last] = Null]
      /\ open' = [open EXCEPT ![t] = front]
      /\ UNCHANGED <<refCount, alive, raw, op, rel, add>>
  BY DEF SetNull
<1>2. open[t] \in Seq(Pointers)
  BY DEF SharedInv, SharedTypeOK
<1>3. n \in Nat \ {0}
  BY <1>1, <1>2
<1>4. /\ front \in Seq(Pointers) /\ Len(front) = n - 1
      /\ \A i \in 1 .. n - 1 : front[i] = open[t][i]
  BY <1>2, <1>3
<1>5. last \in Pointers /\ last \in Releasing
  <2>1. last \in Pointers
    BY <1>2, <1>3
  <2>2. n \in 1 .. Len(open[t])
    BY <1>3
  <2> QED BY <2>1, <2>2 DEF Releasing
<1> HIDE DEF front
<1>6. open'[t] = front /\ \A u \in Users \ {t} : open'[u] = open[u]
  BY <1>1 DEF SharedInv, SharedTypeOK
<1>7. SharedTypeOK'
  BY <1>1, <1>4, <1>5 DEF SharedInv, SharedTypeOK
<1>8. Releasing = Releasing' \cup {last}
  <2>1. OpenIn(t) = OpenIn(t)' \cup {last}
    <3>1. 1 .. n = (1 .. n - 1) \cup {n}
      BY <1>3
    <3>2. OpenIn(t)' = {front[i] : i \in 1 .. n - 1}
      BY <1>4, <1>6 DEF OpenIn
    <3>3. OpenIn(t) = {open[t][i] : i \in 1 .. n}
      BY DEF OpenIn
    <3> HIDE DEF n
    <3> QED BY <1>4, <3>1, <3>2, <3>3
  <2> QED BY <1>6, <2>1, ReleasingIs
<1>9. holds' = holds
  <2> HIDE DEF last
  <2>1. holds' = [p \in Pointers |->
                    IF p \in Releasing' THEN Null ELSE ptr'[p]]
    BY DEF holds
  <2>2. ASSUME NEW p \in Pointers
        PROVE  (IF p \in Releasing' THEN Null ELSE ptr'[p])
                 = (IF p \in Releasing THEN Null ELSE ptr[p])
    <3>1. CASE p = last
      <4>1. ptr'[p] = Null
        BY <1>1, <3>1 DEF SharedInv, SharedTypeOK
      <4> QED BY <1>5, <3>1, <4>1
    <3>2. CASE p # last
      <4>1. ptr'[p] = ptr[p]
        BY <1>1, <3>2 DEF SharedInv, SharedTypeOK
      <4> QED BY <1>8, <3>2, <4>1
    <3> QED BY <3>1, <3>2
  <2> QED BY <2>1, <2>2 DEF holds
<1>10. RaceInv' /\ HeldInv'
  BY <1>1, <1>9 DEF SharedInv, RaceInv, HeldInv, Held, FromOwnTarget,
                    Written, Used
<1>11. PhaseInv'
  <2>1. ASSUME NEW u \in Users \ {t}
        PROVE  Phase(u)'
    BY <1>1, <1>6, <1>9, PhaseKept
  <2>2. Phase(t)'
    BY <1>1, <1>9 DEF SharedInv, PhaseInv, Phase
  <2> QED BY <2>1, <2>2 DEF PhaseInv
<1>12. OpenInv'
  <2>1. ASSUME NEW u \in Users \ {t}
        PROVE  Opened(u)'
    BY <1>1, <1>6, OpenKept
  <2>2. Opened(t)'
    <3> SUFFICES ASSUME NEW i \in 1 .. Len(front)
                 PROVE  front[i] = op[t].dst \/ front[i] \in Objects \ alive
      BY <1>1, <1>6 DEF Opened
    <3>1. i \in 1 .. Len(open[t]) /\ front[i] = open[t][i]
      BY <1>3, <1>4
    <3> QED BY <3>1 DEF SharedInv, OpenInv, Opened
  <2> QED BY <2>1, <2>2 DEF OpenInv
<1>13. Uncounted' = Uncounted
  BY <1>1, UncountedKept
<1>14. \A q \in Objects : /\ CountedPtrs(q)' = CountedPtrs(q)
                          /\ Releases(q)' = Releases(q) /\ Raws(q)' = Raws(q)
  BY <1>1, <1>9, <1>13 DEF CountedPtrs, Releases, Raws
<1>15. CountInv'
  BY <1>1, <1>14, CountKept DEF CountInv
<1> QED BY <1>7, <1>10, <1>11, <1>12, <1>15 DEF SharedInv

(* A source that can be read is not in the middle of a Release. *)
LEMMA SourceRead ==
  ASSUME SharedInv, NEW t \in Users, op[t].kind \in {"copy", "move"},
         Released(t), ~Strays(t), NEW p \in Pointers,
         p = op[t].src \/ (p = op[t].dst /\ p \in Written(op[t]))
  PROVE  p \in Pointers \ Releasing /\ holds[p] = ptr[p]
<1>1. open[t] = <<>>
  BY DEF Released
<1>2. p \in Used(op[t])
  BY PointersAssumption DEF Used
<1>3. \A u \in Users \ {t} : p \notin Written(op[u])
  BY <1>2, Exclusive DEF SharedInv
<1>4. p \in Roots \cup alive
  <2>1. CASE p \in Objects /\ p = op[t].src
    BY <2>1 DEF Strays
  <2>2. CASE p \in Objects /\ p = op[t].dst
    BY <2>2, ReferencedLives
  <2> QED BY <2>1, <2>2 DEF Pointers
<1> QED BY <1>1, <1>3, <1>4, OwnNotReleasing

LEMMA SetCopyStep ==
  ASSUME SharedInv, NEW t \in Users, SetCopy(t)
  PROVE  SharedInv'
<1> DEFINE dst == op[t].dst
           x == ptr[op[t].src]
<1>1. /\ op[t].kind = "copy" /\ rel[t] = Null /\ add[t] = Null
      /\ open[t] = <<>> /\ Released(t) /\ ~Strays(t)
      /\ ptr' = [ptr EXCEPT ![dst] = x] /\ add' = [add EXCEPT ![t] = x]
      /\ op' = [op EXCEPT ![t] = IF x = Null THEN Idle ELSE op[t]]
      /\ UNCHANGED <<refCount, alive, raw, rel, open>>
  BY DEF SetCopy, Released, Counted
<1>2. dst \in Pointers /\ op[t].src \in Pointers
  BY <1>1, OpShape DEF SharedInv
<1>3. holds[dst] = Null /\ op[t].src # dst
  BY <1>1 DEF SharedInv, PhaseInv, Phase
<1>4. Written(op[t]) = {dst}
  BY <1>1, <1>2, PointersAssumption DEF Written
<1>5. /\ dst \in Pointers \ Releasing /\ holds[dst] = ptr[dst]
      /\ holds[op[t].src] = x
  <2>1. dst \in Pointers \ Releasing /\ holds[dst] = ptr[dst]
    BY <1>1, <1>2, <1>4, SourceRead
  <2>2. holds[op[t].src] = x
    BY <1>1, <1>2, SourceRead
  <2> QED BY <2>1, <2>2
<1>6. holds' = [holds EXCEPT ![dst] = x]
  BY <1>1, <1>5, HoldsSet DEF SharedInv
<1>7. holds'[dst] = x /\ \A p \in Pointers \ {dst} : holds'[p] = holds[p]
  BY <1>2, <1>6, HoldsType DEF SharedInv
<1>8. SharedTypeOK'
  BY <1>1, <1>2 DEF SharedInv, SharedTypeOK
<1>9. \A q \in Objects : Releases(q)' = Releases(q) /\ Raws(q)' = Raws(q)
  BY <1>1 DEF Releases, Raws
<1>10. CASE x = Null
  <2>1. add' = add /\ op' = [op EXCEPT ![t] = Idle]
    BY <1>1, <1>10 DEF SharedInv, SharedTypeOK
  <2>2. holds' = holds
    BY <1>3, <1>6, <1>10, HoldsType DEF SharedInv
  <2>3. RaceInv' /\ HeldInv' /\ PhaseInv' /\ OpenInv'
    BY <1>1, <1>10, <2>1, <2>2, Finished
  <2>4. Uncounted' = Uncounted
    BY <1>1, <2>1, UncountedKept DEF SharedInv, SharedTypeOK
  <2>5. \A q \in Objects : CountedPtrs(q)' = CountedPtrs(q)
    BY <2>2, <2>4 DEF CountedPtrs
  <2>6. CountInv'
    BY <1>1, <1>9, <2>5, CountKept DEF CountInv
  <2> QED BY <1>8, <2>3, <2>6 DEF SharedInv
<1>11. CASE x # Null
  <2>1. op' = op /\ op' = [op EXCEPT ![t] = op[t]]
    BY <1>1, <1>11 DEF SharedInv, SharedTypeOK
  <2>2. RaceInv'
    BY <2>1 DEF SharedInv, RaceInv, Written, Used
  <2>3. HeldInv'
    <3>1. ASSUME NEW u \in Users, ~FromOwnTarget(op[u]),
                 NEW r \in op[u].via
          PROVE  holds'[r] = holds[r]
      <4>1. r \in Pointers /\ r \in Used(op[u])
        BY OpShape DEF SharedInv, Pointers, Used
      <4>2. r # dst
        BY <1>4, <3>1, <4>1, Exclusive DEF SharedInv, FromOwnTarget
      <4> QED BY <1>7, <4>1, <4>2
    <3> QED BY <2>1, <3>1 DEF SharedInv, HeldInv, Held, FromOwnTarget
  <2>4. \A u \in Users \ {t} : dst \notin {op[u].dst, op[u].src}
    <3>1. \A u \in Users \ {t} : dst \notin Used(op[u])
      BY <1>4, Exclusive DEF SharedInv
    <3> QED BY <3>1, <1>2, PointersAssumption DEF Used
  <2>5. PhaseInv'
    <3>1. ASSUME NEW u \in Users \ {t}
          PROVE  Phase(u)'
      <4>1. add'[u] = add[u]
        BY <1>1 DEF SharedInv, SharedTypeOK
      <4> QED BY <1>1, <1>7, <2>1, <2>4, <4>1, PhaseKept
    <3>2. /\ holds'[dst] = x /\ holds'[op[t].src] = x /\ add'[t] = x
          /\ op'[t] = op[t] /\ rel'[t] = Null /\ op[t] # Idle
          /\ open'[t] = <<>>
      BY <1>1, <1>2, <1>3, <1>5, <1>7, <2>1 DEF SharedInv, SharedTypeOK, Idle
    <3>3. Phase(t)'
      BY <1>1, <1>3, <1>11, <3>2 DEF Phase
    <3> QED BY <3>1, <3>3 DEF PhaseInv
  <2>6. OpenInv'
    BY <1>1, <2>1, OpenKept DEF OpenInv
  <2>7. Uncounted' = Uncounted \cup {dst}
    BY <1>1, <1>11, <2>1 DEF Uncounted, SharedInv, SharedTypeOK
  <2>8. \A q \in Objects : CountedPtrs(q)' = CountedPtrs(q)
    BY <1>2, <1>3, <1>6, <2>7, SetUncounted
  <2>9. CountInv'
    BY <1>1, <1>9, <2>8, CountKept DEF CountInv
  <2> QED BY <1>8, <2>2, <2>3, <2>5, <2>6, <2>9 DEF SharedInv
<1> QED BY <1>10, <1>11

LEMMA AddRefStep ==
  ASSUME SharedInv, NEW t \in Users, NEW o \in Objects, add[t] = o, AddRef(t)
  PROVE  SharedInv'
<1>1. /\ add[t] # Null /\ refCount' = [refCount EXCEPT ![o] = @ + 1]
      /\ add' = [add EXCEPT ![t] = Null] /\ op' = [op EXCEPT ![t] = Idle]
      /\ o \in alive /\ UNCHANGED <<ptr, alive, raw, rel, open>>
  BY DEF AddRef, Strays
<1>2. PICK dst \in Pointers : dst = op[t].dst
  BY <1>1, UncountedAre
<1>3. /\ rel[t] = Null /\ holds[dst] = o /\ dst \in Uncounted
      /\ dst \in Written(op[t]) /\ open[t] = <<>>
  BY <1>1, <1>2, UncountedAre DEF SharedInv, PhaseInv, Phase
<1>4. SharedTypeOK'
  BY <1>1 DEF SharedInv, SharedTypeOK
<1>5. holds' = holds
  BY <1>1, HoldsKept
<1>6. RaceInv' /\ HeldInv' /\ PhaseInv' /\ OpenInv'
  BY <1>1, <1>3, <1>5, Finished
<1>7. Uncounted' = Uncounted \ {dst}
  <2>1. \A u \in Users \ {t} : /\ op'[u] = op[u] /\ add'[u] = add[u]
                               /\ add[u] # Null => op[u].dst # dst
    <3>1. \A u \in Users \ {t} : dst \notin Used(op[u])
      BY <1>3, Exclusive DEF SharedInv
    <3>2. dst # Null
      BY PointersAssumption
    <3> QED BY <1>1, <3>1, <3>2 DEF Used, SharedInv, SharedTypeOK
  <2>2. add'[t] = Null
    BY <1>1 DEF SharedInv, SharedTypeOK
  <2> QED BY <1>1, <1>2, <2>1, <2>2 DEF Uncounted
<1>8. \A q \in Objects : Releases(q)' = Releases(q) /\ Raws(q)' = Raws(q)
  BY <1>1 DEF Releases, Raws
<1>9. ASSUME NEW q \in Objects, q # o
      PROVE  Count(q)'
  <2>1. CountedPtrs(q)' = CountedPtrs(q)
    BY <1>3, <1>5, <1>7, <1>9 DEF CountedPtrs
  <2>2. refCount'[q] = refCount[q]
    BY <1>1, <1>9 DEF SharedInv, SharedTypeOK
  <2> QED BY <1>1, <1>8, <2>1, <2>2, CountKept
<1>10. Count(o)'
  <2>1. /\ CountedPtrs(o)' = CountedPtrs(o) \cup {dst}
        /\ dst \notin CountedPtrs(o)
    BY <1>3, <1>5, <1>7 DEF CountedPtrs
  <2>2. Cardinality(CountedPtrs(o)') = Cardinality(CountedPtrs(o)) + 1
    BY <2>1, OneMoreElement, FiniteReferences
  <2>3. refCount'[o] = refCount[o] + 1 /\ o \in alive'
    BY <1>1 DEF SharedInv, SharedTypeOK
  <2> QED BY <1>8, <2>2, <2>3, CountsKnown DEF Count
<1> QED BY <1>4, <1>6, <1>9, <1>10 DEF SharedInv, CountInv

LEMMA TakeMovedStep ==
  ASSUME SharedInv, NEW t \in Users, TakeMoved(t)
  PROVE  SharedInv'
<1>1. /\ op[t].kind = "move" /\ rel[t] = Null /\ add[t] = Null
      /\ open[t] = <<>> /\ Released(t) /\ ~Strays(t)
      /\ op' = [op EXCEPT ![t] = Idle]
      /\ UNCHANGED <<refCount, alive, raw, rel, add, open>>
  BY DEF TakeMoved, Released
<1>2. PICK dst \in Pointers, src \in Pointers :
        dst = op[t].dst /\ src = op[t].src
  BY <1>1, OpShape DEF SharedInv
<1>3. ptr' = [ptr EXCEPT ![dst] = ptr[src], ![src] = Null]
  BY <1>2 DEF TakeMoved
<1>4. holds[dst] = Null
  BY <1>1, <1>2 DEF SharedInv, PhaseInv, Phase
<1>5. Written(op[t]) = {dst, src}
  BY <1>1, <1>2 DEF Written
<1>6. SharedTypeOK'
  BY <1>1, <1>3 DEF SharedInv, SharedTypeOK
<1>7. /\ dst \notin Releasing /\ holds[dst] = ptr[dst]
      /\ src \notin Releasing /\ holds[src] = ptr[src]
  <2>1. dst \notin Releasing /\ holds[dst] = ptr[dst]
    BY <1>1, <1>2, <1>5, SourceRead
  <2>2. src \notin Releasing /\ holds[src] = ptr[src]
    BY <1>1, <1>2, SourceRead
  <2> QED BY <2>1, <2>2
<1>8. /\ \A p \in Pointers \ {dst, src} : holds'[p] = holds[p]
      /\ holds'[src] = Null /\ (dst # src => holds'[dst] = holds[src])
  <2>1. Releasing' = Releasing
    BY <1>1 DEF Releasing
  <2>2. /\ \A p \in Pointers \ {dst, src} : ptr'[p] = ptr[p]
        /\ ptr'[src] = Null /\ (dst # src => ptr'[dst] = ptr[src])
    BY <1>3 DEF SharedInv, SharedTypeOK
  <2> QED BY <1>7, <2>1, <2>2 DEF holds
<1>9. RaceInv' /\ HeldInv' /\ PhaseInv' /\ OpenInv'
  <2>1. add' = [add EXCEPT ![t] = Null]
    BY <1>1 DEF SharedInv, SharedTypeOK
  <2> QED BY <1>1, <1>5, <1>8, <2>1, Finished
<1>10. Uncounted' = Uncounted
  BY <1>1, UncountedKept DEF SharedInv, SharedTypeOK
<1>11. dst \notin Uncounted /\ src \notin Uncounted
  <2>1. dst \in Used(op[t]) /\ src \in Used(op[t])
    BY <1>2, PointersAssumption DEF Used
  <2> QED BY <1>1, <2>1, CountedAre
<1>12. \A q \in Objects : Releases(q)' = Releases(q) /\ Raws(q)' = Raws(q)
  BY <1>1 DEF Releases, Raws
<1>13. ASSUME NEW q \in Objects
       PROVE  Cardinality(CountedPtrs(q)') = Cardinality(CountedPtrs(q))
  <2>1. q # Null
    BY PointersAssumption DEF Pointers
  <2>2. CASE dst = src \/ holds[src] # q
    <3>1. \A p \in Pointers : holds'[p] = q <=> holds[p] = q
      BY <1>4, <1>8, <2>1, <2>2
    <3>2. CountedPtrs(q)' = CountedPtrs(q)
      BY <1>10, <3>1 DEF CountedPtrs
    <3> QED BY <3>2
  <2>3. CASE dst # src /\ holds[src] = q
    <3>1. holds'[dst] = q /\ holds'[src] = Null
      BY <1>8, <2>3
    <3>2. /\ src \in CountedPtrs(q) /\ dst \notin CountedPtrs(q)
          /\ CountedPtrs(q)' = (CountedPtrs(q) \ {src}) \cup {dst}
      BY <1>4, <1>8, <1>10, <1>11, <2>1, <2>3, <3>1 DEF CountedPtrs
    <3>3. /\ IsFiniteSet(CountedPtrs(q) \ {src})
          /\ Cardinality(CountedPtrs(q) \ {src})
               = Cardinality(CountedPtrs(q)) - 1
      BY <3>2, FiniteReferences, FS_RemoveElement
    <3>4. Cardinality((CountedPtrs(q) \ {src}) \cup {dst})
            = Cardinality(CountedPtrs(q) \ {src}) + 1
      BY <3>2, <3>3, OneMoreElement
    <3> QED BY <3>2, <3>3, <3>4, FiniteReferences
  <2> QED BY <2>2, <2>3
<1>14. CountInv'
  BY <1>1, <1>12, <1>13 DEF SharedInv, CountInv, Count
<1> QED BY <1>6, <1>9, <1>14 DEF SharedInv

LEMMA EndDropStep ==
  ASSUME SharedInv, NEW t \in Users, EndDrop(t)
  PROVE  SharedInv'
<1>1. /\ rel[t] = Null /\ add[t] = Null /\ op' = [op EXCEPT ![t] = Idle]
      /\ open[t] = <<>>
      /\ UNCHANGED <<ptr, refCount, alive, raw, rel, add, open>>
  BY DEF EndDrop, Released
<1>2. SharedTypeOK'
  BY <1>1 DEF SharedInv, SharedTypeOK
<1>3. holds' = holds
  BY <1>1, HoldsKept
<1>4. RaceInv' /\ HeldInv' /\ PhaseInv' /\ OpenInv'
  <2>1. add' = [add EXCEPT ![t] = Null]
    BY <1>1 DEF SharedInv, SharedTypeOK
  <2> QED BY <1>1, <1>3, <2>1, Finished
<1>5. Uncounted' = Uncounted
  BY <1>1, UncountedKept DEF SharedInv, SharedTypeOK
<1>6. \A q \in Objects : /\ CountedPtrs(q)' = CountedPtrs(q)
                         /\ Releases(q)' = Releases(q) /\ Raws(q)' = Raws(q)
  BY <1>1, <1>3, <1>5 DEF CountedPtrs, Releases, Raws
<1>7. CountInv'
  BY <1>1, <1>6, CountKept DEF CountInv
<1> QED BY <1>2, <1>4, <1>7 DEF SharedInv

-----------------------------------------------------------------------------
LEMMA SharedInitially == SharedInit => SharedInv
<1> SUFFICES ASSUME SharedInit PROVE SharedInv
  OBVIOUS
<1>1. SharedTypeOK
  BY DEF SharedInit, SharedTypeOK
<1>2. /\ \A t \in Users : /\ op[t] = Idle /\ rel[t] = Null /\ add[t] = Null
                         /\ open[t] = <<>>
      /\ Releasing = {}
  BY DEF SharedInit, Releasing
<1>3. RaceInv /\ HeldInv
  BY <1>2, NothingUsed DEF RaceInv, HeldInv, Held
<1>4. PhaseInv /\ OpenInv
  BY <1>2 DEF PhaseInv, Phase, Idle, OpenInv, Opened
<1>5. ASSUME NEW o \in Objects
      PROVE  Count(o)
  <2>1. o # Null
    BY PointersAssumption DEF Pointers
  <2>2. CountedPtrs(o) = {} /\ Releases(o) = {} /\ Raws(o) = {}
    BY <1>2, <2>1 DEF SharedInit, CountedPtrs, holds, Releases, Raws
  <2>3. refCount[o] = 0 /\ o \notin alive
    BY DEF SharedInit
  <2> QED BY <2>2, <2>3, FS_EmptySet DEF Count
<1> QED BY <1>1, <1>3, <1>4, <1>5 DEF SharedInv, CountInv

LEMMA SharedInductive == SharedInv /\ [SharedNext]_sharedVars => SharedInv'
<1> SUFFICES ASSUME SharedInv, [SharedNext]_sharedVars PROVE SharedInv'
  OBVIOUS
<1>1. CASE UNCHANGED sharedVars
  <2>1. /\ ptr' = ptr /\ refCount' = refCount /\ alive' = alive /\ raw' = raw
        /\ op' = op /\ rel' = rel /\ add' = add /\ open' = open
        /\ holds' = holds
    BY <1>1, HoldsKept DEF sharedVars
  <2>2. SharedTypeOK'
    BY <2>1 DEF SharedInv, SharedTypeOK
  <2>3. RaceInv' /\ HeldInv'
    BY <2>1 DEF SharedInv, RaceInv, HeldInv, Held, FromOwnTarget, Written, Used
  <2>4. PhaseInv' /\ OpenInv'
    BY <2>1 DEF SharedInv, PhaseInv, Phase, OpenInv, Opened, FromOwnTarget
  <2>5. ASSUME NEW q \in Objects
        PROVE  Count(q)'
    <3>1. Uncounted' = Uncounted
      BY <2>1 DEF Uncounted
    <3> QED BY <2>1, <3>1, CountKept DEF CountedPtrs, Releases, Raws
  <2> QED BY <2>2, <2>3, <2>4, <2>5 DEF SharedInv, CountInv
<1>2. ASSUME NEW t \in Users, NEW dst \in Roots, NEW o \in Objects,
             Make(t, dst, o)
      PROVE  SharedInv'
  BY <1>2, MakeStep
<1>3. ASSUME NEW t \in Users, NEW o \in Objects, GiveUpRaw(t, o)
      PROVE  SharedInv'
  BY <1>3, GiveUpRawStep
<1>4. ASSUME NEW t \in Users, NEW o \in Ops, Begin(t, o)
      PROVE  SharedInv'
  BY <1>4, BeginStep
<1>5. ASSUME NEW t \in Users, ReleaseRef(t)
      PROVE  SharedInv'
  <2>1. PICK o \in Objects : rel[t] = o
    BY <1>5 DEF ReleaseRef, SharedInv, SharedTypeOK
  <2> QED BY <1>5, <2>1, ReleaseRefStep
<1>6. ASSUME NEW t \in Users, SetCopy(t)
      PROVE  SharedInv'
  BY <1>6, SetCopyStep
<1>7. ASSUME NEW t \in Users, AddRef(t)
      PROVE  SharedInv'
  <2>1. PICK o \in Objects : add[t] = o
    BY <1>7 DEF AddRef, SharedInv, SharedTypeOK
  <2> QED BY <1>7, <2>1, AddRefStep
<1>8. ASSUME NEW t \in Users, TakeMoved(t)
      PROVE  SharedInv'
  BY <1>8, TakeMovedStep
<1>9. ASSUME NEW t \in Users, EndDrop(t)
      PROVE  SharedInv'
  BY <1>9, EndDropStep
<1>10. ASSUME NEW t \in Users, SetNull(t)
       PROVE  SharedInv'
  BY <1>10, SetNullStep
<1>11. ASSUME NEW t \in Users, UseOfDeleted(t)
       PROVE  SharedInv'
  BY <1>1, <1>11 DEF UseOfDeleted
<1> QED BY <1>1, <1>2, <1>3, <1>4, <1>5, <1>6, <1>7, <1>8, <1>9, <1>10, <1>11
        DEF SharedNext

-----------------------------------------------------------------------------
(* In every reachable state the variables have their types. *)
THEOREM Typing == SharedSpec => []SharedTypeOK
<1>1. SharedInv => SharedTypeOK
  BY DEF SharedInv
<1> QED BY SharedInitially, SharedInductive, <1>1, PTL DEF SharedSpec

(* RefCounting.h: no thread follows or leaves a pointer to a deleted       *)
(* object, whatever the order in which the threads assign, copy and        *)
(* destroy theirs; but for an assignment from a member of the object that  *)
(* its target points to, head = head->next.                                *)
THEOREM NothingDangles == SharedSpec => []HeldIsAlive
<1>1. ASSUME SharedInv PROVE HeldIsAlive
  <2>1. ASSUME NEW p \in Pointers \ (Releasing \cup OwnTargets)
        PROVE  ptr[p] \in alive \cup {Null}
    <3>1. holds[p] = ptr[p]
      BY DEF holds
    <3> QED BY <1>1, <3>1, ReferencedLives DEF SharedInv, SharedTypeOK
  <2>2. ASSUME NEW t \in Users
        PROVE  /\ rel[t] \in alive \cup {Null}
               /\ {op[t].dst} \cap Objects \subseteq alive
               /\ \/ FromOwnTarget(op[t])
                  \/ {add[t]} \cup ({op[t].src} \cap Objects)
                       \subseteq alive \cup {Null}
    BY <1>1, ReferencedLives DEF SharedInv, SharedTypeOK
  <2> QED BY <2>1, <2>2 DEF HeldIsAlive, OwnTargets
<1> QED BY SharedInitially, SharedInductive, <1>1, PTL DEF SharedSpec

(* The pointers that hold an object are those counted and, one for each    *)
(* AddRef still to come, those that the assignments in between have stored.*)
LEMMA PointersTo ==
  ASSUME SharedInv, NEW o \in Objects
  PROVE  Cardinality({p \in Pointers : holds[p] = o})
           = Cardinality(CountedPtrs(o))
               + Cardinality({t \in Users : add[t] = o})
<1> DEFINE All == {p \in Pointers : holds[p] = o}
           Adders == {t \in Users : add[t] = o}
           Rest == {p \in All : p \in Uncounted}
           dst == [t \in Adders |-> op[t].dst]
<1>1. o # Null
  BY PointersAssumption DEF Pointers
<1>2. IsFiniteSet(Adders) /\ IsFiniteSet(Rest)
  BY PointersAssumption, FS_Subset
<1>3. ASSUME NEW t \in Adders
      PROVE  op[t].dst \in Rest /\ op[t].dst \in Written(op[t])
  BY <1>1, UncountedAre DEF SharedInv, PhaseInv, Phase
<1>4. dst \in Bijection(Adders, Rest)
  <2>1. dst \in [Adders -> Rest]
    BY <1>3
  <2>2. ASSUME NEW t \in Adders, NEW u \in Adders, dst[t] = dst[u]
        PROVE  t = u
    <3>1. op[t].dst = op[u].dst
      BY <2>2
    <3>2. op[u].dst \in Used(op[u])
      BY <1>3, PointersAssumption DEF Used
    <3> QED BY <1>3, <3>1, <3>2, Exclusive DEF SharedInv
  <2>3. ASSUME NEW p \in Rest
        PROVE  \E t \in Adders : dst[t] = p
    <3>1. PICK t \in Users : add[t] # Null /\ p = op[t].dst
      BY DEF Uncounted
    <3>2. add[t] = o
      BY <3>1 DEF SharedInv, PhaseInv, Phase
    <3> QED BY <3>1, <3>2
  <2> QED BY <2>1, <2>2, <2>3, Fun_IsBij
<1>5. Cardinality(Rest) = Cardinality(Adders)
  BY <1>2, <1>4, FS_Bijection DEF ExistsBijection
<1>6. All = CountedPtrs(o) \cup Rest /\ CountedPtrs(o) \cap Rest = {}
  BY DEF CountedPtrs
<1>7. Cardinality(CountedPtrs(o) \cup Rest)
        = Cardinality(CountedPtrs(o)) + Cardinality(Rest)
  <2> HIDE DEF Rest
  <2>1. Cardinality(CountedPtrs(o) \cup Rest)
          = Cardinality(CountedPtrs(o)) + Cardinality(Rest) - Cardinality({})
    BY <1>2, <1>6, FiniteReferences, FS_Union
  <2>2. Cardinality(Rest) \in Nat /\ Cardinality({}) = 0
    BY <1>2, FS_CardinalityType, FS_EmptySet
  <2> QED BY <2>1, <2>2, FiniteReferences
<1> QED BY <1>5, <1>6, <1>7

(* RefCounting.h: a count is the number of pointers and of creators'       *)
(* references, and an object lives exactly as long as it is not 0.         *)
THEOREM CountsAreExact == SharedSpec => []CountsReferences
<1>1. ASSUME SharedInv PROVE CountsReferences
  <2> SUFFICES ASSUME NEW o \in Objects
               PROVE  /\ refCount[o]
                             + Cardinality({t \in Users : add[t] = o})
                           = Cardinality({p \in Pointers : holds[p] = o})
                               + Cardinality(Releases(o))
                               + Cardinality(Raws(o))
                      /\ o \in alive <=> refCount[o] > 0
    <3>1. ASSUME NEW o \in Objects
          PROVE  {p \in Pointers : holds[p] = o}
                   = {p \in Pointers \ Releasing : ptr[p] = o}
      BY PointersAssumption DEF holds, Pointers
    <3> QED BY <3>1 DEF CountsReferences, Releases, Raws
  <2> DEFINE Adds == {t \in Users : add[t] = o}
             All == {p \in Pointers : holds[p] = o}
  <2>1. Cardinality(Adds) \in Nat
    BY PointersAssumption, FS_Subset, FS_CardinalityType
  <2>2. Cardinality(All) = Cardinality(CountedPtrs(o)) + Cardinality(Adds)
    BY <1>1, PointersTo
  <2> HIDE DEF Adds, All
  <2>3. refCount[o] + Cardinality(Adds)
          = Cardinality(All) + Cardinality(Releases(o)) + Cardinality(Raws(o))
    BY <1>1, <2>1, <2>2, CountsKnown
  <2>4. o \in alive <=> refCount[o] > 0
    BY <1>1, CountsKnown
  <2> QED BY <2>3, <2>4 DEF Adds, All
<1> QED BY SharedInitially, SharedInductive, <1>1, PTL DEF SharedSpec

-----------------------------------------------------------------------------
(* StompAllocator                                                          *)

(* What division and remainder are. *)
LEMMA Division ==
  ASSUME NEW a \in Nat, NEW p \in Nat \ {0}
  PROVE  /\ a \div p \in Nat /\ a % p \in 0 .. p - 1
         /\ a = p * (a \div p) + (a % p)
BY SMT

(* Two multiples of p that differ do so by at least p. *)
LEMMA Multiples ==
  ASSUME NEW p \in Nat \ {0}, NEW i \in Int, NEW j \in Int, i < j
  PROVE  p * i + p <= p * j
<1>1. j - i - 1 \in Nat
  OBVIOUS
<1>2. p * (j - i - 1) >= 0
  BY <1>1
<1>3. p * (j - i - 1) = p * j - p * i - p
  BY SMT
<1> QED BY <1>2, <1>3

LEMMA Remainder ==
  ASSUME NEW p \in Nat \ {0}, NEW k \in Nat, NEW d \in 0 .. p - 1
  PROVE  (p * k + d) % p = d
<1> DEFINE a == p * k + d
           q == a \div p
           r == a % p
<1>1. p * k \in Nat /\ a \in Nat
  OBVIOUS
<1>2. q \in Nat /\ r \in 0 .. p - 1 /\ a = p * q + r
  BY <1>1, Division
<1> HIDE DEF q, r
<1>3. ~(q < k)
  BY <1>2, Multiples
<1>4. ~(k < q)
  BY <1>2, Multiples
<1>5. q = k
  BY <1>2, <1>3, <1>4
<1>6. r = d
  BY <1>2, <1>5
<1> QED BY <1>6 DEF r

(* Alloc takes enough pages and not one too many. *)
LEMMA PagesFit ==
  ASSUME NEW size \in Nat \ {0}
  PROVE  /\ PageCount(size) \in Nat \ {0}
         /\ PageCount(size) * PageSize \in Nat
         /\ PageCount(size) * PageSize > 0
         /\ DataOffset(size) \in 0 .. PageSize - 1
         /\ DataOffset(size) + size = PageCount(size) * PageSize
<1> DEFINE n == PageCount(size)
           r == (size + PageSize - 1) % PageSize
<1>1. PageSize \in Nat \ {0}
  BY StompAssumption
<1>2. /\ n \in Nat /\ r \in 0 .. PageSize - 1
      /\ size + PageSize - 1 = PageSize * n + r
  <2> DEFINE a == size + PageSize - 1
  <2>1. a \in Nat
    BY <1>1
  <2>2. n = a \div PageSize /\ r = a % PageSize
    BY DEF PageCount
  <2> HIDE DEF a, n, r
  <2>3. /\ n \in Nat /\ r \in 0 .. PageSize - 1 /\ a = PageSize * n + r
    BY <1>1, <2>1, <2>2, Division
  <2> QED BY <2>3 DEF a
<1> HIDE DEF n, r
<1>3. n * PageSize = PageSize * n /\ PageSize * n \in Nat
  BY <1>1, <1>2
<1>4. n * PageSize - size = PageSize - 1 - r /\ n * PageSize > 0
  BY <1>1, <1>2, <1>3
<1>5. n # 0
  BY <1>1, <1>2, <1>4
<1>6. DataOffset(size) = n * PageSize - size
  BY DEF n, DataOffset
<1>7. /\ n \in Nat \ {0} /\ n * PageSize \in Nat /\ n * PageSize > 0
      /\ DataOffset(size) \in 0 .. PageSize - 1
      /\ DataOffset(size) + size = n * PageSize
  BY <1>1, <1>2, <1>3, <1>4, <1>5, <1>6
<1> QED BY <1>7 DEF n

-----------------------------------------------------------------------------
(* The region of a block, as Release computes its base. *)
RegionOf(b) == <<BaseAddress(b[1]), PageCount(b[2]) * PageSize>>

(* What Alloc returns for pages from page on. *)
BlockAt(page, size) == <<page * PageSize + DataOffset(size), size>>
RegionAt(page, size) == <<page * PageSize, PageCount(size) * PageSize>>

ShapeInv ==
  \A b \in blocks : \E page \in Nat, size \in BlockSizes :
    b = BlockAt(page, size) /\ page % Granule = 0
(* Regions and blocks belong together, one to one. *)
PairInv ==
  /\ regions = {RegionOf(b) : b \in blocks}
  /\ \A b, c \in blocks : BaseAddress(b[1]) = BaseAddress(c[1]) => b = c
ApartInv ==
  \A r, s \in regions : r # s => Bytes(r) \cap Bytes(s) = {}

StompInv == IsFiniteSet(blocks) /\ ShapeInv /\ PairInv /\ ApartInv

LEMMA ItsRegion ==
  ASSUME NEW page \in Nat, NEW size \in BlockSizes
  PROVE  /\ BaseAddress(BlockAt(page, size)[1]) = page * PageSize
         /\ RegionOf(BlockAt(page, size)) = RegionAt(page, size)
<1> DEFINE d == DataOffset(size)
<1>1. size \in Nat \ {0} /\ PageSize \in Nat \ {0}
  BY StompAssumption
<1>2. d \in 0 .. PageSize - 1
  BY <1>1, PagesFit
<1> HIDE DEF d
<1>3. page * PageSize = PageSize * page /\ page * PageSize \in Nat
  BY <1>1
<1>4. (page * PageSize + d) % PageSize = d
  BY <1>1, <1>2, <1>3, Remainder
<1>5. (page * PageSize + d) - ((page * PageSize + d) % PageSize)
        = page * PageSize
  BY <1>2, <1>3, <1>4
<1>6. BaseAddress(page * PageSize + d) = page * PageSize
  BY <1>5 DEF BaseAddress
<1>7. /\ BlockAt(page, size)[1] = page * PageSize + d
      /\ BlockAt(page, size)[2] = size
  BY DEF BlockAt, d
<1> QED BY <1>6, <1>7 DEF RegionOf, RegionAt

(* A block lies in its region and ends where the region ends.              *)
LEMMA InRegion ==
  ASSUME NEW page \in Nat, NEW size \in BlockSizes
  PROVE  LET b == BlockAt(page, size)
             r == RegionAt(page, size)
         IN  /\ b[1] \in Nat /\ b[2] \in Nat /\ r[1] \in Nat /\ r[2] \in Nat
             /\ r[2] > 0 /\ Bytes(b) \subseteq Bytes(r)
             /\ b[1] + b[2] = r[1] + r[2]
<1> DEFINE d == DataOffset(size)
           base == page * PageSize
           len == PageCount(size) * PageSize
<1>1. size \in Nat \ {0} /\ PageSize \in Nat \ {0}
  BY StompAssumption
<1>2. d \in 0 .. PageSize - 1 /\ len \in Nat /\ len > 0 /\ d + size = len
  BY <1>1, PagesFit
<1>3. base \in Nat
  BY <1>1
<1>4. /\ BlockAt(page, size) = <<base + d, size>>
      /\ RegionAt(page, size) = <<base, len>>
  BY DEF BlockAt, RegionAt
<1> HIDE DEF d, base, len
<1>5. /\ base + d \in Nat /\ base + d + size = base + len
      /\ base + d .. base + d + size - 1 \subseteq base .. base + len - 1
  BY <1>1, <1>2, <1>3
<1> QED BY <1>1, <1>2, <1>3, <1>4, <1>5 DEF Bytes

LEMMA BlockFacts ==
  ASSUME ShapeInv, NEW b \in blocks
  PROVE  LET r == RegionOf(b)
         IN  /\ b[1] \in Nat /\ b[2] \in Nat /\ r[1] \in Nat /\ r[2] \in Nat
             /\ r[2] > 0 /\ Bytes(b) \subseteq Bytes(r)
             /\ b[1] + b[2] = r[1] + r[2]
             /\ r[1] = BaseAddress(b[1])
             /\ r[1] \in Bytes(r)
             /\ \E page \in Nat, size \in BlockSizes :
                  /\ page % Granule = 0 /\ b[2] = size
                  /\ r = RegionAt(page, size)
<1>1. PICK page \in Nat, size \in BlockSizes :
        b = BlockAt(page, size) /\ page % Granule = 0
  BY DEF ShapeInv
<1>2. RegionOf(b) = RegionAt(page, size) /\ b[2] = size
  BY <1>1, ItsRegion DEF BlockAt
<1>3. RegionOf(b)[1] = BaseAddress(b[1])
  BY DEF RegionOf
<1>4. ASSUME NEW r, r[1] \in Nat, r[2] \in Nat, r[2] > 0
      PROVE  r[1] \in Bytes(r)
  BY <1>4 DEF Bytes
<1> QED BY <1>1, <1>2, <1>3, <1>4, InRegion

LEMMA AllocStep ==
  ASSUME StompInv, NEW size \in BlockSizes, Alloc(size)
  PROVE  StompInv'
<1>1. PICK page \in 1 .. LastPage :
        /\ page % Granule = 0
        /\ Bytes(RegionAt(page, size)) \cap Mapped = {}
        /\ regions' = regions \cup {RegionAt(page, size)}
        /\ blocks' = blocks \cup {BlockAt(page, size)}
  BY DEF Alloc, RegionAt, BlockAt
<1> DEFINE b == BlockAt(page, size)
           r == RegionAt(page, size)
<1>2. page \in Nat
  BY StompAssumption
<1>3. /\ BaseAddress(b[1]) = r[1] /\ RegionOf(b) = r
      /\ r[1] \in Bytes(r)
  <2>1. /\ BaseAddress(b[1]) = page * PageSize /\ RegionOf(b) = r
    BY <1>2, ItsRegion
  <2>2. r[1] = page * PageSize
    BY DEF RegionAt
  <2>3. r[1] \in Nat /\ r[2] \in Nat /\ r[2] > 0
    BY <1>2, InRegion
  <2> HIDE DEF r
  <2>4. r[1] \in Bytes(r)
    BY <2>3 DEF Bytes
  <2> QED BY <2>1, <2>2, <2>4
<1>4. IsFiniteSet(blocks')
  BY <1>1, FS_AddElement DEF StompInv
<1>5. ShapeInv'
  BY <1>1, <1>2 DEF StompInv, ShapeInv, BlockAt
<1> HIDE DEF b, r
<1>6. /\ regions' = regions \cup {r} /\ blocks' = blocks \cup {b}
      /\ \A q \in regions : Bytes(r) \cap Bytes(q) = {}
  BY <1>1 DEF b, r, Mapped
<1>7. \A c \in blocks : BaseAddress(c[1]) # BaseAddress(b[1])
  <2> SUFFICES ASSUME NEW c \in blocks, BaseAddress(c[1]) = r[1]
               PROVE  FALSE
    BY <1>3
  <2>1. RegionOf(c) \in regions
    BY DEF StompInv, PairInv
  <2>2. r[1] \in Bytes(RegionOf(c))
    BY BlockFacts DEF StompInv
  <2> QED BY <1>3, <1>6, <2>1, <2>2
<1>8. PairInv'
  <2>1. regions' = {RegionOf(c) : c \in blocks'}
    BY <1>3, <1>6 DEF StompInv, PairInv
  <2>2. \A c, d \in blocks' : BaseAddress(c[1]) = BaseAddress(d[1]) => c = d
    BY <1>6, <1>7 DEF StompInv, PairInv
  <2> QED BY <2>1, <2>2 DEF PairInv, RegionOf, BaseAddress
<1>9. ApartInv'
  BY <1>6 DEF StompInv, ApartInv, Bytes
<1> QED BY <1>4, <1>5, <1>8, <1>9 DEF StompInv

LEMMA ReleaseStep ==
  ASSUME StompInv, NEW b \in blocks, Release(b)
  PROVE  StompInv'
<1>1. /\ blocks' = blocks \ {b}
      /\ regions' = {r \in regions : r[1] # BaseAddress(b[1])}
  BY DEF Release
<1>2. IsFiniteSet(blocks')
  BY <1>1, FS_Subset DEF StompInv
<1>3. ShapeInv'
  BY <1>1 DEF StompInv, ShapeInv, BlockAt
<1>4. PairInv'
  <2>1. \A c \in blocks : RegionOf(c)[1] = BaseAddress(c[1])
    BY DEF RegionOf
  <2>2. \A c \in blocks : RegionOf(c)[1] # BaseAddress(b[1]) <=> c # b
    BY <2>1 DEF StompInv, PairInv
  <2>3. regions' = {RegionOf(c) : c \in blocks'}
    BY <1>1, <2>2 DEF StompInv, PairInv
  <2>4. \A c, d \in blocks' : BaseAddress(c[1]) = BaseAddress(d[1]) => c = d
    BY <1>1 DEF StompInv, PairInv
  <2> QED BY <2>3, <2>4 DEF PairInv, RegionOf, BaseAddress
<1>5. ApartInv'
  BY <1>1 DEF StompInv, ApartInv, Bytes
<1> QED BY <1>2, <1>3, <1>4, <1>5 DEF StompInv

LEMMA StompInvariance == StompSpec => []StompInv
<1>1. StompInit => StompInv
  BY FS_EmptySet DEF StompInit, StompInv, ShapeInv, PairInv, ApartInv
<1>2. StompInv /\ [StompNext]_stompVars => StompInv'
  <2> SUFFICES ASSUME StompInv, [StompNext]_stompVars PROVE StompInv'
    OBVIOUS
  <2>1. ASSUME UNCHANGED <<regions, blocks>>
        PROVE  StompInv'
    BY <2>1 DEF StompInv, ShapeInv, PairInv, ApartInv
  <2>2. ASSUME NEW size \in BlockSizes, Alloc(size)
        PROVE  StompInv'
    BY <2>2, AllocStep
  <2>3. ASSUME NEW size \in BlockSizes, AllocFails(size)
        PROVE  StompInv'
    BY <2>1, <2>3 DEF AllocFails
  <2>4. ASSUME NEW b \in blocks, Release(b)
        PROVE  StompInv'
    BY <2>4, ReleaseStep
  <2> QED BY <2>1, <2>2, <2>3, <2>4 DEF StompNext, stompVars
<1> QED BY <1>1, <1>2, PTL DEF StompSpec

-----------------------------------------------------------------------------
(* Allocator.cpp:15-33: a block has a region of its own, in which it lies  *)
(* at the end, and Release frees that region and no other.                 *)
THEOREM RegionsPair == StompSpec => []OneRegionEach
<1>1. ASSUME StompInv
      PROVE  OneRegionEach
  <2>1. Cardinality(regions) = Cardinality(blocks)
    <3> DEFINE f == [b \in blocks |-> RegionOf(b)]
    <3>1. f \in [blocks -> regions]
      BY <1>1 DEF StompInv, PairInv
    <3>2. \A b, c \in blocks : f[b] = f[c] => b = c
      <4>1. \A b \in blocks : f[b][1] = BaseAddress(b[1])
        BY DEF RegionOf
      <4> QED BY <1>1, <4>1 DEF StompInv, PairInv
    <3>3. \A r \in regions : \E b \in blocks : f[b] = r
      BY <1>1 DEF StompInv, PairInv
    <3> HIDE DEF f
    <3>4. f \in Bijection(blocks, regions)
      BY <3>1, <3>2, <3>3, Fun_IsBij
    <3> QED BY <1>1, <3>4, FS_Bijection DEF ExistsBijection, StompInv
  <2>2. ASSUME NEW b \in blocks
        PROVE  /\ RegionOf(b) \in regions
               /\ Bytes(b) \subseteq Bytes(RegionOf(b))
               /\ b[1] + b[2] = RegionOf(b)[1] + RegionOf(b)[2]
    BY <1>1, BlockFacts DEF StompInv, PairInv
  <2>3. ASSUME NEW b \in blocks, NEW c \in blocks \ {b}
        PROVE  Bytes(b) \cap Bytes(c) = {}
    <3>1. RegionOf(b) # RegionOf(c)
      <4>1. BaseAddress(b[1]) # BaseAddress(c[1])
        BY <1>1 DEF StompInv, PairInv
      <4> QED BY <4>1 DEF RegionOf
    <3>2. Bytes(RegionOf(b)) \cap Bytes(RegionOf(c)) = {}
      BY <1>1, <2>2, <3>1 DEF StompInv, ApartInv
    <3> QED BY <2>2, <3>2
  <2> QED BY <2>1, <2>2, <2>3 DEF OneRegionEach
<1> QED BY <1>1, StompInvariance, PTL

(* Remainders of a sum. *)
LEMMA SumRemainder ==
  ASSUME NEW p \in Nat \ {0}, NEW a \in Nat, NEW b \in Nat,
         a % p = 0, (a + b) % p = 0
  PROVE  b % p = 0
<1> DEFINE i == a \div p
           j == (a + b) \div p
           k == b \div p
           r == b % p
<1>1. i \in Nat /\ a = p * i
  BY Division
<1>2. j \in Nat /\ a + b = p * j
  <2>1. a + b \in Nat
    OBVIOUS
  <2> QED BY <2>1, Division
<1>3. k \in Nat /\ r \in 0 .. p - 1 /\ b = p * k + r
  BY Division
<1> HIDE DEF i, j, k, r
<1>4. p * (i + k) = p * i + p * k /\ i + k \in Nat
  BY <1>1, <1>3
<1>5. p * j = p * (i + k) + r
  BY <1>1, <1>2, <1>3, <1>4
<1>6. r = 0
  BY <1>2, <1>3, <1>4, <1>5, Multiples
<1> QED BY <1>6 DEF r

(* Allocator.cpp:22-26: a byte written behind a block faults at once,      *)
(* unless the block fills whole granules.                                  *)
THEOREM NothingBehind == StompSpec => []OverrunFaults
<1>1. ASSUME StompInv, NEW b \in blocks, NEW c \in blocks,
             b[1] + b[2] \in Bytes(RegionOf(c))
      PROVE  PageCount(b[2]) % Granule = 0
  <2> DEFINE r == RegionOf(b)
             q == RegionOf(c)
             x == r[1] + r[2]
  <2>1. /\ r[1] \in Nat /\ r[2] \in Nat /\ r[2] > 0
        /\ q[1] \in Nat /\ q[2] \in Nat /\ b[1] + b[2] = x
    BY <1>1, BlockFacts DEF StompInv
  <2>2. PICK page \in Nat : page % Granule = 0 /\ r = RegionAt(page, b[2])
    BY <1>1, BlockFacts DEF StompInv
  <2>3. PICK next \in Nat : next % Granule = 0 /\ q[1] = next * PageSize
    BY <1>1, BlockFacts DEF StompInv, RegionAt
  <2>4. x \in Bytes(q)
    BY <1>1, <2>1
  <2>5. r # q => Bytes(r) \cap Bytes(q) = {}
    BY <1>1 DEF StompInv, PairInv, ApartInv
  <2> DEFINE n == PageCount(b[2])
  <2>6. n \in Nat
    <3>1. b[2] \in Nat \ {0}
      BY <1>1, BlockFacts, StompAssumption DEF StompInv
    <3> QED BY <3>1, PagesFit
  <2>7. r[1] = page * PageSize /\ r[2] = n * PageSize
    BY <2>2 DEF RegionAt
  <2> HIDE DEF r, q, n
  <2>8. x = q[1]
    <3>1. x \notin Bytes(r)
      BY <2>1 DEF Bytes
    <3>2. x - 1 \in Bytes(r) /\ x \in Nat
      BY <2>1 DEF Bytes
    <3>3. x - 1 \notin Bytes(q)
      BY <2>4, <2>5, <3>1, <3>2
    <3>4. q[1] <= x /\ x <= q[1] + q[2] - 1
      BY <2>1, <2>4 DEF Bytes
    <3>5. ~(q[1] <= x - 1 /\ x - 1 <= q[1] + q[2] - 1)
      BY <2>1, <3>2, <3>3 DEF Bytes
    <3> HIDE DEF x
    <3> QED BY <2>1, <3>2, <3>4, <3>5
  <2>9. page + n = next
    <3>1. PageSize \in Nat \ {0}
      BY StompAssumption
    <3>2. /\ x = page * PageSize + n * PageSize
          /\ page * PageSize + n * PageSize = PageSize * (page + n)
          /\ next * PageSize = PageSize * next
      BY <2>6, <2>7, <3>1
    <3>3. PageSize * (page + n) = PageSize * next
      BY <2>3, <2>8, <3>2
    <3>4. ~(page + n < next) /\ ~(next < page + n)
      BY <2>6, <3>1, <3>3, Multiples
    <3> QED BY <2>6, <3>4
  <2>10. n % Granule = 0
    BY <2>2, <2>3, <2>6, <2>9, SumRemainder, StompAssumption
  <2> QED BY <2>10 DEF n
<1>2. ASSUME StompInv
      PROVE  OverrunFaults
  <2> SUFFICES ASSUME NEW b \in blocks, b[1] + b[2] \in Mapped
               PROVE  PageCount(b[2]) % Granule = 0
    BY DEF OverrunFaults
  <2>1. PICK c \in blocks : b[1] + b[2] \in Bytes(RegionOf(c))
    BY <1>2 DEF Mapped, StompInv, PairInv
  <2> QED BY <1>1, <1>2, <2>1
<1> QED BY <1>2, StompInvariance, PTL
=============================================================================
