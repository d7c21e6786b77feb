----------------------- MODULE DeadLockProfilerProofs -----------------------
(***************************************************************************)
(* Theorems about DeadLockProfiler, for any number of threads, locks and   *)
(* holds.  First the search: SearchInv is an invariant of its turns, by    *)
(* induction on them, and Effort bounds their number.  Then the profiler:  *)
(* IInv is inductive.                                                      *)
(***************************************************************************)
EXTENDS DeadLockProfiler, SequenceTheorems, FiniteSetTheorems, TLAPS

Vertices(size) == 0 .. size - 1

Searches(size, edges) ==
  [order : [Vertices(size) -> Int], count : Nat,
   finished : SUBSET Vertices(size), parent : [Vertices(size) -> Int],
   root : 0 .. size, path : Seq(Vertices(size)), left : SUBSET edges,
   cycle : Seq(Vertices(size))]

(* What CheckCycle prints. *)
IsCycle(c, edges) ==
  /\ Len(c) >= 3 /\ c[1] = Last(c)
  /\ \A i \in 1 .. Len(c) - 1 : <<c[i], c[i + 1]>> \in edges

(* No vertices in S make up a cycle. *)
Acyclic(S, edges) ==
  \A T \in (SUBSET S) \ {{}} : \E x \in T : \A y \in T : <<x, y>> \notin edges

(* The path is a path, of vertices discovered one after the other, and     *)
(* _parent leads back along it.                                            *)
PathInv(d, edges) ==
  /\ Len(d.path) <= d.count
  /\ \A i \in 1 .. Len(d.path) : d.path[i] \notin d.finished
  /\ \A i, j \in 1 .. Len(d.path) :
       i < j => d.order[d.path[i]] < d.order[d.path[j]]
  /\ \A i \in 2 .. Len(d.path) :
       /\ d.parent[d.path[i]] = d.path[i - 1]
       /\ <<d.path[i - 1], d.path[i]>> \in edges

Discovered(d, size) == {v \in Vertices(size) : d.order[v] # -1}

(* What was discovered is finished or on the path. *)
OrderInv(d, size) ==
  /\ \A v \in Discovered(d, size) :
       /\ d.order[v] \in 0 .. d.count - 1
       /\ v \in d.finished \/ \E i \in 1 .. Len(d.path) : d.path[i] = v
  /\ d.finished \subseteq Discovered(d, size)
  /\ \A i \in 1 .. Len(d.path) : d.path[i] \in Discovered(d, size)
  /\ \A v \in 0 .. d.root - 1 : v \in Discovered(d, size)
  /\ Cardinality(Discovered(d, size)) = d.count

(* An edge that was looked at leads to a finished vertex or is on the      *)
(* path; those of a finished vertex were all looked at.                    *)
EdgeInv(d, edges) ==
  /\ \A e \in edges \ d.left :
       \/ e[2] \in d.finished
       \/ \E i \in 2 .. Len(d.path) : e = <<d.path[i - 1], d.path[i]>>
  /\ \A e \in d.left : e[1] \notin d.finished

OpenInv(d, size, edges) ==
  /\ PathInv(d, edges) /\ OrderInv(d, size) /\ EdgeInv(d, edges)
  /\ Acyclic(d.finished, edges)

SearchInv(d, size, edges) ==
  /\ d \in Searches(size, edges)
  /\ d.cycle # <<>> => IsCycle(d.cycle, edges)
  /\ d.cycle = <<>> => OpenInv(d, size, edges)

(* More turns than the search can still take. *)
Effort(d, size) ==
  Len(d.path) + 2 * (size - d.count) + (size - d.root) + Cardinality(d.left)

-----------------------------------------------------------------------------
(* A set of natural numbers has a least one: what the proofs by induction  *)
(* below use.                                                              *)
LEMMA LeastNatural ==
  ASSUME NEW T \in SUBSET Nat, T # {}
  PROVE  \E n \in T : \A m \in T : n <= m
<1> DEFINE R == {p \in Nat \X Nat : p[1] < p[2]}
<1>1. IsWellFoundedOn(R, Nat)
  BY NatLessThanWellFounded DEF OpToRel
<1> HIDE DEF R
<1>2. PICK n \in T : \A m \in T : <<m, n>> \notin R
  BY <1>1, WFMin
<1>3. \A m \in T : ~(m < n)
  BY <1>2 DEF R
<1> QED BY <1>3

LEMMA Induction ==
  ASSUME NEW last \in Nat, NEW S, 0 \in S,
         \A n \in 1 .. last : n - 1 \in S => n \in S
  PROVE  0 .. last \subseteq S
<1> SUFFICES ASSUME (0 .. last) \ S # {}
             PROVE  FALSE
  OBVIOUS
<1>1. (0 .. last) \ S \in SUBSET Nat
  OBVIOUS
<1>2. PICK n \in (0 .. last) \ S : \A m \in (0 .. last) \ S : n <= m
  BY <1>1, LeastNatural
<1>3. n \in 1 .. last /\ n - 1 \in 0 .. last /\ ~(n <= n - 1)
  BY <1>2
<1> QED BY <1>2, <1>3

LEMMA LeastOf ==
  ASSUME NEW T \in SUBSET Nat, T # {}
  PROVE  Min(T) \in T
<1>1. PICK n \in T : \A m \in T : n <= m
  BY LeastNatural
<1> QED BY <1>1 DEF Min

(* Sequences, seen from their end. *)
LEMMA LastOf ==
  ASSUME NEW S, NEW s \in Seq(S), s # <<>>
  PROVE  /\ Len(s) \in Nat /\ Len(s) >= 1
         /\ Last(s) = s[Len(s)] /\ Last(s) \in S
         /\ Front(s) \in Seq(S) /\ Len(Front(s)) = Len(s) - 1
         /\ \A i \in 1 .. Len(s) - 1 : Front(s)[i] = s[i]
<1>1. Len(s) \in Nat /\ Len(s) >= 1
  BY EmptySeq, LenProperties
<1>2. Last(s) = s[Len(s)] /\ Last(s) \in S
  BY <1>1 DEF Last
<1>3. /\ Front(s) \in Seq(S) /\ Len(Front(s)) = Len(s) - 1
      /\ \A i \in 1 .. Len(s) - 1 : Front(s)[i] = s[i]
  <2>1. PICK n \in Int : n = Len(s) - 1 /\ n >= 0
    BY <1>1
  <2>2. 1 \in Int /\ \A i \in 1 .. n : s[i] \in S
    BY <1>1, <2>1, ElementOfSeq
  <2>3. /\ SubSeq(s, 1, n) \in Seq(S)
        /\ Len(SubSeq(s, 1, n)) = IF 1 <= n THEN n - 1 + 1 ELSE 0
        /\ \A i \in 1 .. n - 1 + 1 : SubSeq(s, 1, n)[i] = s[1 + i - 1]
    BY <2>2, SubSeqProperties
  <2>4. \A i \in 1 .. n : i \in 1 .. n - 1 + 1 /\ 1 + i - 1 = i
    OBVIOUS
  <2>5. (IF 1 <= n THEN n - 1 + 1 ELSE 0) = n
    BY <2>1
  <2>6. Front(s) = SubSeq(s, 1, n)
    BY <2>1 DEF Front
  <2> QED BY <2>1, <2>3, <2>4, <2>5, <2>6
<1> QED BY <1>1, <1>2, <1>3

LEMMA AppendOf ==
  ASSUME NEW S, NEW s \in Seq(S), NEW x \in S
  PROVE  /\ Append(s, x) \in Seq(S) /\ Len(Append(s, x)) = Len(s) + 1
         /\ \A i \in 1 .. Len(s) : Append(s, x)[i] = s[i]
         /\ Append(s, x)[Len(s) + 1] = x
         /\ Append(s, x) # <<>> /\ Last(Append(s, x)) = x
         /\ Front(Append(s, x)) = s
<1>1. Len(s) \in Nat
  OBVIOUS
<1>2. /\ Append(s, x) \in Seq(S) /\ Len(Append(s, x)) = Len(s) + 1
      /\ \A i \in 1 .. Len(s) : Append(s, x)[i] = s[i]
      /\ Append(s, x)[Len(s) + 1] = x
  BY AppendProperties
<1>3. Append(s, x) # <<>>
  BY <1>1, <1>2
<1>4. Last(Append(s, x)) = x
  BY <1>2 DEF Last
<1>5. /\ Front(Append(s, x)) \in Seq(S) /\ Len(Front(Append(s, x))) = Len(s)
      /\ \A i \in 1 .. Len(s) : Front(Append(s, x))[i] = s[i]
  <2>1. PICK longer \in Seq(S) : longer = Append(s, x)
    BY <1>2
  <2>2. /\ Front(longer) \in Seq(S) /\ Len(Front(longer)) = Len(longer) - 1
        /\ \A i \in 1 .. Len(longer) - 1 : Front(longer)[i] = longer[i]
    BY <1>3, <2>1, LastOf, Zenon
  <2>3. Len(longer) - 1 = Len(s)
    BY <1>1, <1>2, <2>1
  <2> QED BY <1>2, <2>1, <2>2, <2>3
<1>6. Front(Append(s, x)) = s
  BY <1>5, SeqEqual
<1> QED BY <1>2, <1>3, <1>4, <1>6

-----------------------------------------------------------------------------
(* The search.                                                             *)
Graph(size, edges) ==
  /\ size \in Nat /\ edges \subseteq Vertices(size) \X Vertices(size)
  /\ \A v \in Vertices(size) : <<v, v>> \notin edges

LEMMA SearchTypes ==
  ASSUME NEW size \in Nat, NEW edges, NEW d \in Searches(size, edges)
  PROVE  /\ d.order \in [Vertices(size) -> Int] /\ d.count \in Nat
         /\ d.finished \subseteq Vertices(size)
         /\ d.parent \in [Vertices(size) -> Int]
         /\ d.root \in 0 .. size /\ d.path \in Seq(Vertices(size))
         /\ d.left \subseteq edges /\ d.cycle \in Seq(Vertices(size))
         /\ Len(d.path) \in Nat
         /\ \A i \in 1 .. Len(d.path) :
              d.path[i] \in Vertices(size) /\ d.path[i] \in Nat
<1>1. /\ d.order \in [Vertices(size) -> Int] /\ d.count \in Nat
      /\ d.finished \subseteq Vertices(size)
      /\ d.parent \in [Vertices(size) -> Int]
      /\ d.root \in 0 .. size /\ d.path \in Seq(Vertices(size))
      /\ d.left \subseteq edges /\ d.cycle \in Seq(Vertices(size))
  BY DEF Searches
<1>2. Len(d.path) \in Nat
  BY <1>1
<1>3. \A i \in 1 .. Len(d.path) : d.path[i] \in Vertices(size)
  BY <1>1
<1>4. Vertices(size) \subseteq Nat
  BY DEF Vertices
<1> QED BY <1>1, <1>2, <1>3, <1>4

(* Vertices on the path are different, as their orders are.                *)
LEMMA PathDiffers ==
  ASSUME NEW size \in Nat, NEW edges, NEW d \in Searches(size, edges),
         PathInv(d, edges),
         NEW i \in 1 .. Len(d.path), NEW j \in 1 .. Len(d.path), i < j
  PROVE  d.path[i] # d.path[j]
<1>1. /\ d.order[d.path[i]] \in Int /\ d.order[d.path[j]] \in Int
      /\ d.order[d.path[i]] < d.order[d.path[j]]
  BY SearchTypes DEF PathInv
<1> QED BY <1>1

(* The loop that prints goes back along the path.                          *)
LEMMA WayIsPath ==
  ASSUME NEW size \in Nat, NEW edges, NEW d \in Searches(size, edges),
         PathInv(d, edges), NEW p \in 1 .. Len(d.path)
  PROVE  WayDown(d, Last(d.path), d.path[p])
           = SubSeq(d.path, p, Len(d.path))
<1>1. PICK path \in Seq(Vertices(size)) : path = d.path
  BY SearchTypes
<1>2. PICK len \in Nat : len = Len(path)
  BY <1>1, SearchTypes
<1>3. PICK count \in Nat : count = d.count /\ len <= count
  BY <1>1, <1>2, SearchTypes DEF PathInv
<1>4. p \in 1 .. len /\ Last(path) = path[len] /\ len \in 1 .. len
  BY <1>1, <1>2 DEF Last
<1> DEFINE Longer(w) == IF Head(w) = path[p] \/ d.parent[Head(w)] = -1 THEN w
                        ELSE <<d.parent[Head(w)]>> \o w
           IsWay(h) == h = [n \in 0 .. count |->
                              IF n = 0 THEN <<path[len]>>
                              ELSE Longer(h[n - 1])]
           From(n) == IF n <= len - p THEN len - n ELSE p
           g == CHOOSE h : IsWay(h)
<1>5. WayDown(d, Last(path), path[p]) = g[count]
  BY <1>1, <1>3, <1>4 DEF WayDown
<1>6. PICK f : f = [n \in 0 .. count |-> SubSeq(path, From(n), len)]
  OBVIOUS
<1>7. ASSUME NEW q \in 1 .. len
      PROVE  /\ Head(SubSeq(path, q, len)) = path[q]
             /\ q > p => Longer(SubSeq(path, q, len))
                           = SubSeq(path, q - 1, len)
             /\ q = p => Longer(SubSeq(path, q, len)) = SubSeq(path, q, len)
  <2>1. Head(SubSeq(path, q, len)) = path[q]
    <3>1. q \in 1 .. Len(path) /\ len \in q .. Len(path)
      BY <1>2
    <3> QED BY <3>1, HeadTailOfSubSeq
  <2>2. ASSUME q > p
        PROVE  Longer(SubSeq(path, q, len)) = SubSeq(path, q - 1, len)
    <3>1. path[p] # path[q]
      BY <1>1, <1>2, <1>4, <2>2, PathDiffers
    <3>2. q \in 2 .. Len(d.path)
      BY <1>1, <1>2, <1>4, <2>2
    <3>3. d.parent[path[q]] = path[q - 1]
      BY <1>1, <3>2 DEF PathInv
    <3>4. path[q - 1] \in Nat
      <4>1. q - 1 \in 1 .. Len(d.path)
        BY <3>2, SearchTypes
      <4> QED BY <1>1, <4>1, SearchTypes
    <3>5. SubSeq(path, q - 1, len) = <<path[q - 1]>> \o SubSeq(path, q, len)
      <4>1. /\ q - 1 \in 1 .. Len(path) /\ len \in q - 1 .. Len(path)
            /\ (q - 1) + 1 = q
        BY <1>1, <1>2, <3>2
      <4> QED BY <4>1, SubSeqRecursiveFirst
    <3> QED BY <2>1, <3>1, <3>3, <3>4, <3>5
  <2> QED BY <2>1, <2>2
<1> HIDE DEF Longer
<1>8. IsWay(f)
  <2>1. f[0] = <<path[len]>>
    <3>1. From(0) = len
      BY <1>4
    <3>2. SubSeq(path, len, len) = <<path[len]>>
      <4>1. PICK x : x = path[len]
        OBVIOUS
      <4>2. x \in Vertices(size)
        BY <1>2, <1>4, <4>1
      <4>3. \A i \in len .. len : path[i] \in Vertices(size)
        BY <4>1, <4>2
      <4>4. /\ SubSeq(path, len, len) \in Seq(Vertices(size))
            /\ Len(SubSeq(path, len, len))
                 = IF len <= len THEN len - len + 1 ELSE 0
            /\ \A i \in 1 .. len - len + 1 :
                 SubSeq(path, len, len)[i] = path[len + i - 1]
        BY <4>3, len \in Int, SubSeqProperties
      <4>5. /\ Len(SubSeq(path, len, len)) = 1
            /\ SubSeq(path, len, len)[1] = x
        <5>1. len <= len /\ len - len + 1 = 1 /\ len + 1 - 1 = len
          OBVIOUS
        <5>2. PICK s : s = SubSeq(path, len, len)
          OBVIOUS
        <5>3. 1 \in 1 .. len - len + 1 /\ s[1] = path[len + 1 - 1]
          BY <4>4, <5>1, <5>2
        <5>4. Len(s) = 1
          BY <4>4, <5>1, <5>2
        <5> QED BY <4>1, <5>1, <5>2, <5>3, <5>4
      <4>6. <<x>> \in Seq(Vertices(size)) /\ Len(<<x>>) = 1 /\ <<x>>[1] = x
        BY <4>2
      <4>7. \A i \in 1 .. 1 : SubSeq(path, len, len)[i] = <<x>>[i]
        BY <4>5, <4>6
      <4> QED BY <4>1, <4>4, <4>5, <4>6, <4>7, SeqEqual
    <3> QED BY <1>6, <3>1, <3>2
  <2>2. ASSUME NEW n \in 1 .. count
        PROVE  f[n] = Longer(f[n - 1])
    <3>1. n - 1 \in 0 .. count /\ n \in 0 .. count
      BY <1>3
    <3>2. CASE n <= len - p
      <4>1. /\ From(n - 1) = len - n + 1 /\ From(n) = len - n
            /\ len - n + 1 \in 1 .. len /\ len - n + 1 > p
            /\ (len - n + 1) - 1 = len - n
        BY <1>4, <3>2
      <4>2. Longer(SubSeq(path, len - n + 1, len)) = SubSeq(path, len - n, len)
        BY <1>7, <4>1
      <4> QED BY <1>6, <3>1, <4>1, <4>2
    <3>3. CASE ~(n <= len - p)
      <4>1. From(n - 1) = p /\ From(n) = p
        BY <1>4, <3>3
      <4>2. Longer(SubSeq(path, p, len)) = SubSeq(path, p, len)
        BY <1>4, <1>7
      <4> QED BY <1>6, <3>1, <4>1, <4>2
    <3> QED BY <3>2, <3>3
  <2> HIDE DEF From
  <2>3. \A n \in 0 .. count : n = 0 \/ n \in 1 .. count
    OBVIOUS
  <2> QED BY <1>6, <2>1, <2>2, <2>3
<1> HIDE DEF IsWay
<1>9. IsWay(g)
  BY <1>8
<1> HIDE DEF g
<1>10. f[count] = g[count]
  <2> DEFINE Same == {n \in 0 .. count : f[n] = g[n]}
  <2>1. 0 \in Same
    BY <1>8, <1>9 DEF IsWay
  <2>2. ASSUME NEW n \in 1 .. count, n - 1 \in Same
        PROVE  n \in Same
    <3>1. n \in 0 .. count /\ n # 0
      BY <1>3
    <3>2. f[n] = Longer(f[n - 1]) /\ g[n] = Longer(g[n - 1])
      BY <1>8, <1>9, <3>1 DEF IsWay
    <3> QED BY <2>2, <3>1, <3>2
  <2>3. count \in 0 .. count
    OBVIOUS
  <2> HIDE DEF Same
  <2>4. count \in Same
    BY <2>1, <2>2, <2>3, Induction
  <2> QED BY <2>4 DEF Same
<1>11. f[count] = SubSeq(path, p, len)
  <2>1. From(count) = p
    BY <1>3, <1>4
  <2> HIDE DEF From
  <2> QED BY <1>6, <2>1
<1> QED BY <1>1, <1>2, <1>5, <1>10, <1>11

(* An edge from the end of the path back into it closes a cycle.           *)
LEMMA BackEdge ==
  ASSUME NEW size, NEW edges, Graph(size, edges),
         NEW d \in Searches(size, edges), PathInv(d, edges),
         NEW p \in 1 .. Len(d.path), NEW there, there = d.path[p],
         <<Last(d.path), there>> \in edges
  PROVE  LET c == Append(WayDown(d, Last(d.path), there), there)
         IN  c \in Seq(Vertices(size)) /\ c # <<>> /\ IsCycle(c, edges)
<1>1. size \in Nat
  BY DEF Graph
<1>2. PICK path \in Seq(Vertices(size)) : path = d.path
  BY <1>1, SearchTypes
<1>3. PICK len \in Nat : len = Len(path)
  BY <1>2
<1>4. p \in 1 .. len /\ Last(path) = path[len] /\ len \in 1 .. len
  <2>1. p \in 1 .. len /\ len \in 1 .. len
    BY <1>2, <1>3
  <2>2. Last(path) = path[len]
    BY <1>3 DEF Last
  <2> QED BY <2>1, <2>2
<1>5. p < len
  <2>1. path[p] # path[len]
    BY <1>2, <1>4 DEF Graph
  <2> QED BY <1>4, <2>1
<1>6. PICK way : way = WayDown(d, Last(d.path), there)
  OBVIOUS
<1>7. way = SubSeq(path, p, len)
  BY <1>1, <1>2, <1>3, <1>6, WayIsPath
<1>8. /\ way \in Seq(Vertices(size)) /\ Len(way) = len - p + 1
      /\ \A i \in 1 .. len - p + 1 : way[i] = path[p + i - 1]
  <2>1. \A i \in p .. len : path[i] \in Vertices(size)
    BY <1>3, <1>4
  <2>2. p \in Int /\ len \in Int /\ p <= len
    BY <1>5
  <2> QED BY <1>7, <2>1, <2>2, SubSeqProperties
<1>9. there \in Vertices(size)
  BY <1>2, <1>3, <1>4
<1>10. PICK c : c = Append(way, there)
  OBVIOUS
<1>11. /\ c \in Seq(Vertices(size)) /\ Len(c) = len - p + 2
       /\ \A i \in 1 .. len - p + 1 : c[i] = path[p + i - 1]
       /\ c[len - p + 2] = there /\ c # <<>> /\ Last(c) = there
  <2>2. PICK n \in Nat : n = Len(way) /\ n = len - p + 1
    BY <1>4, <1>8
  <2>1. /\ Append(way, there) \in Seq(Vertices(size))
        /\ Len(Append(way, there)) = Len(way) + 1
        /\ \A i \in 1 .. Len(way) : Append(way, there)[i] = way[i]
        /\ Append(way, there)[Len(way) + 1] = there
        /\ Append(way, there) # <<>> /\ Last(Append(way, there)) = there
    <3> DEFINE V == Vertices(size)
    <3>1. way \in Seq(V)
      BY <1>8
    <3>2. there \in V
      BY <1>9
    <3> HIDE DEF V
    <3>3. /\ Append(way, there) \in Seq(V)
          /\ Len(Append(way, there)) = Len(way) + 1
          /\ \A i \in 1 .. Len(way) : Append(way, there)[i] = way[i]
          /\ Append(way, there)[Len(way) + 1] = there
          /\ Append(way, there) # <<>> /\ Last(Append(way, there)) = there
      BY ONLY <3>1, <3>2, AppendOf, ZenonT(60)
    <3> QED BY <3>3 DEF V
  <2>3. /\ Len(c) = n + 1 /\ \A i \in 1 .. n : c[i] = way[i]
        /\ c[n + 1] = there
    BY <1>10, <2>1, <2>2
  <2>4. n + 1 = len - p + 2
    BY <1>4, <2>2
  <2> QED BY <1>8, <1>10, <2>1, <2>2, <2>3, <2>4
<1>12. Len(c) >= 3 /\ c[1] = Last(c)
  <2>1. 1 \in 1 .. len - p + 1 /\ p + 1 - 1 = p
    BY <1>4, <1>5
  <2> QED BY <1>2, <1>5, <1>11, <2>1
<1>13. ASSUME NEW i \in 1 .. Len(c) - 1
       PROVE  <<c[i], c[i + 1]>> \in edges
  <2>1. i \in 1 .. len - p + 1 /\ c[i] = path[p + i - 1]
    BY <1>4, <1>11
  <2>2. CASE i = len - p + 1
    <3>1. p + i - 1 = len /\ i + 1 = len - p + 2
      BY <1>4, <2>2
    <3> QED BY <1>2, <1>4, <1>11, <2>1, <3>1
  <2>3. CASE i # len - p + 1
    <3>1. /\ i + 1 \in 1 .. len - p + 1 /\ p + (i + 1) - 1 = p + i
          /\ p + i \in 2 .. len /\ (p + i) - 1 = p + i - 1
      BY <1>4, <2>1, <2>3
    <3>2. c[i + 1] = path[p + i]
      BY <1>11, <3>1
    <3>3. <<path[p + i - 1], path[p + i]>> \in edges
      BY <1>2, <1>3, <3>1 DEF PathInv
    <3> QED BY <2>1, <3>2, <3>3
  <2> QED BY <2>2, <2>3
<1>14. IsCycle(c, edges)
  BY <1>12, <1>13 DEF IsCycle
<1> QED BY <1>6, <1>10, <1>11, <1>14

(* Dfs of a vertex that was not discovered begins.                         *)
LEMMA DiscoverKeeps ==
  ASSUME NEW size, NEW edges, Graph(size, edges),
         NEW d \in Searches(size, edges), OpenInv(d, size, edges),
         NEW there \in Vertices(size), d.order[there] = -1,
         NEW e \in Searches(size, edges),
         e.order = [d.order EXCEPT ![there] = d.count],
         e.count = d.count + 1, e.finished = d.finished,
         e.path = Append(d.path, there),
         \A v \in Vertices(size) : v # there => e.parent[v] = d.parent[v],
         d.path # <<>> => /\ e.parent[there] = Last(d.path)
                          /\ <<Last(d.path), there>> \in edges,
         \A x \in d.left : x \in e.left
                             \/ (d.path # <<>> /\ x = <<Last(d.path), there>>),
         e.left \subseteq d.left,
         \A v \in 0 .. e.root - 1 : v = there \/ v \in 0 .. d.root - 1
  PROVE  OpenInv(e, size, edges)
<1>1. size \in Nat
  BY DEF Graph
<1>2. PICK path \in Seq(Vertices(size)) : path = d.path
  BY <1>1, SearchTypes
<1>3. PICK len \in Nat : len = Len(path)
  BY <1>2
<1>4. PICK count \in Nat : count = d.count
  BY <1>1, SearchTypes
<1>5. PICK order \in [Vertices(size) -> Int] : order = d.order
  BY <1>1, SearchTypes
<1>6. PICK longer \in Seq(Vertices(size)) : longer = e.path
  BY <1>1, SearchTypes
<1>7. /\ Len(longer) = len + 1 /\ longer[len + 1] = there
      /\ \A i \in 1 .. len : longer[i] = path[i]
  <2>1. longer = Append(path, there)
    BY <1>2, <1>6
  <2> QED BY <1>3, <2>1, AppendProperties
<1>8. /\ e.order \in [Vertices(size) -> Int] /\ e.order[there] = count
      /\ \A v \in Vertices(size) : v # there => e.order[v] = order[v]
  BY <1>4, <1>5
<1>9. PathInv(d, edges) /\ OrderInv(d, size) /\ EdgeInv(d, edges)
  BY DEF OpenInv
<1>10. /\ there \notin d.finished
       /\ \A i \in 1 .. len : path[i] \in Vertices(size) /\ path[i] # there
       /\ \A i \in 1 .. len : order[path[i]] \in 0 .. count - 1
  <2>1. there \notin Discovered(d, size)
    BY DEF Discovered
  <2>2. /\ d.finished \subseteq Discovered(d, size)
        /\ \A i \in 1 .. len : path[i] \in Discovered(d, size)
        /\ \A v \in Discovered(d, size) : order[v] \in 0 .. count - 1
    BY <1>2, <1>3, <1>4, <1>5, <1>9 DEF OrderInv
  <2>3. Discovered(d, size) \subseteq Vertices(size)
    BY DEF Discovered
  <2> QED BY <2>1, <2>2, <2>3
<1>11. len # 0 => path # <<>> /\ Last(path) = path[len]
  <2> SUFFICES ASSUME len # 0
               PROVE  path # <<>> /\ Last(path) = path[len]
    OBVIOUS
  <2>1. path # <<>>
    BY <1>3, EmptySeq
  <2> QED BY <1>3, <2>1 DEF Last
<1>12. PathInv(e, edges)
  <2>1. Len(e.path) <= e.count
    BY <1>2, <1>3, <1>4, <1>6, <1>7, <1>9 DEF PathInv
  <2>2. ASSUME NEW i \in 1 .. len + 1
        PROVE  longer[i] \notin e.finished
    <3>1. CASE i \in 1 .. len
      BY <1>2, <1>3, <1>7, <1>9, <3>1 DEF PathInv
    <3>2. CASE i = len + 1
      BY <1>7, <1>10, <3>2
    <3> QED BY <3>1, <3>2
  <2>3. ASSUME NEW i \in 1 .. len + 1, NEW j \in 1 .. len + 1, i < j
        PROVE  e.order[longer[i]] < e.order[longer[j]]
    <3>1. i \in 1 .. len /\ longer[i] = path[i]
      BY <1>7, <2>3
    <3>2. CASE j \in 1 .. len
      <4>1. order[path[i]] < order[path[j]]
        BY <1>2, <1>3, <1>5, <1>9, <2>3, <3>1, <3>2 DEF PathInv
      <4>2. longer[j] = path[j]
        BY <1>7, <3>2
      <4>3. /\ e.order[path[i]] = order[path[i]]
            /\ e.order[path[j]] = order[path[j]]
        BY <1>8, <1>10, <3>1, <3>2
      <4> QED BY <3>1, <4>1, <4>2, <4>3
    <3>3. CASE j = len + 1
      <4>1. e.order[longer[i]] \in 0 .. count - 1
        BY <1>8, <1>10, <3>1
      <4> QED BY <1>7, <1>8, <3>3, <4>1
    <3> QED BY <3>2, <3>3
  <2>4. ASSUME NEW i \in 2 .. len + 1
        PROVE  /\ e.parent[longer[i]] = longer[i - 1]
               /\ <<longer[i - 1], longer[i]>> \in edges
    <3>1. i - 1 \in 1 .. len /\ longer[i - 1] = path[i - 1]
      <4>1. i - 1 \in 1 .. len
        BY <1>3
      <4> QED BY <1>7, <4>1
    <3>2. CASE i \in 2 .. len
      <4>1. /\ d.parent[path[i]] = path[i - 1]
            /\ <<path[i - 1], path[i]>> \in edges
        BY <1>2, <1>3, <1>9, <3>2 DEF PathInv
      <4>2. i \in 1 .. len
        BY <3>2
      <4>3. /\ longer[i] = path[i] /\ path[i] # there
            /\ path[i] \in Vertices(size)
        BY <1>7, <1>10, <4>2
      <4>4. e.parent[path[i]] = d.parent[path[i]]
        BY <4>3
      <4> QED BY <3>1, <4>1, <4>3, <4>4
    <3>3. CASE i = len + 1
      <4>1. longer[i] = there /\ i - 1 = len /\ len # 0
        BY <1>3, <1>7, <3>3
      <4> QED BY <1>2, <1>11, <3>1, <4>1
    <3> QED BY <3>2, <3>3
  <2> QED BY <1>6, <1>7, <2>1, <2>2, <2>3, <2>4 DEF PathInv
<1>13. OrderInv(e, size)
  <2>1. Discovered(e, size) = Discovered(d, size) \cup {there}
    <3>1. ASSUME NEW v \in Vertices(size)
          PROVE  e.order[v] # -1 <=> order[v] # -1 \/ v = there
      BY <1>8
    <3> QED BY <1>5, <3>1 DEF Discovered
  <2>2. ASSUME NEW v \in Discovered(e, size)
        PROVE  /\ e.order[v] \in 0 .. e.count - 1
               /\ v \in e.finished
                    \/ \E i \in 1 .. Len(longer) : longer[i] = v
    <3>1. CASE v = there
      <4>1. e.order[v] = count /\ e.count = count + 1
        BY <1>4, <1>8, <3>1
      <4>2. len + 1 \in 1 .. Len(longer)
        BY <1>7
      <4> QED BY <1>7, <3>1, <4>1, <4>2
    <3>2. CASE v # there
      <4>1. v \in Discovered(d, size) /\ v \in Vertices(size)
        BY <2>1, <3>2 DEF Discovered
      <4>2. order[v] \in 0 .. count - 1
        BY <1>4, <1>5, <1>9, <4>1 DEF OrderInv
      <4>3. e.order[v] \in 0 .. e.count - 1
        BY <1>4, <1>8, <3>2, <4>1, <4>2
      <4>4. v \in d.finished \/ \E i \in 1 .. len : path[i] = v
        BY <1>2, <1>3, <1>9, <4>1 DEF OrderInv
      <4>5. \A i \in 1 .. len : i \in 1 .. Len(longer)
        BY <1>7
      <4> QED BY <1>7, <4>3, <4>4, <4>5
    <3> QED BY <3>1, <3>2
  <2>3. e.finished \subseteq Discovered(e, size)
    BY <1>9, <2>1 DEF OrderInv
  <2>4. ASSUME NEW i \in 1 .. Len(longer)
        PROVE  longer[i] \in Discovered(e, size)
    <3>1. CASE i \in 1 .. len
      BY <1>2, <1>3, <1>7, <1>9, <2>1, <3>1 DEF OrderInv
    <3>2. CASE i = len + 1
      BY <1>7, <2>1, <3>2
    <3> QED BY <1>7, <3>1, <3>2
  <2>5. \A v \in 0 .. e.root - 1 : v \in Discovered(e, size)
    BY <1>9, <2>1 DEF OrderInv
  <2>6. Cardinality(Discovered(e, size)) = e.count
    <3>1. IsFiniteSet(Vertices(size))
      BY <1>1, FS_Interval DEF Vertices
    <3>2. IsFiniteSet(Discovered(d, size))
      <4>1. Discovered(d, size) \in SUBSET Vertices(size)
        BY DEF Discovered
      <4> QED BY <3>1, <4>1, FS_Subset
    <3>3. there \notin Discovered(d, size)
      BY DEF Discovered
    <3>4. Cardinality(Discovered(d, size)) = count
      BY <1>4, <1>9 DEF OrderInv
    <3>5. Cardinality(Discovered(d, size) \cup {there})
            = Cardinality(Discovered(d, size)) + 1
      BY <3>2, <3>3, FS_AddElement
    <3> QED BY <1>4, <2>1, <3>4, <3>5
  <2> QED BY <1>6, <2>2, <2>3, <2>4, <2>5, <2>6 DEF OrderInv
<1>14. EdgeInv(e, edges)
  <2>1. ASSUME NEW x \in edges \ e.left
        PROVE  \/ x[2] \in e.finished
               \/ \E i \in 2 .. Len(longer) : x = <<longer[i - 1], longer[i]>>
    <3>1. CASE x \in d.left
      <4>1. path # <<>> /\ x = <<Last(path), there>>
        BY <1>2, <2>1, <3>1
      <4>2. len # 0
        BY <1>2, <1>3, <4>1, EmptySeq
      <4>3. /\ len + 1 \in 2 .. Len(longer) /\ (len + 1) - 1 = len
            /\ longer[len] = path[len]
        BY <1>7, <4>2
      <4>4. x = <<longer[(len + 1) - 1], longer[len + 1]>>
        BY <1>7, <1>11, <4>1, <4>2, <4>3
      <4> QED BY <4>3, <4>4
    <3>2. CASE x \in edges \ d.left
      <4>1. \/ x[2] \in d.finished
            \/ \E i \in 2 .. len : x = <<path[i - 1], path[i]>>
        BY <1>2, <1>3, <1>9, <3>2 DEF EdgeInv
      <4>2. \A i \in 2 .. len : /\ i \in 2 .. Len(longer)
                                /\ longer[i - 1] = path[i - 1]
                                /\ longer[i] = path[i]
        <5>1. \A i \in 2 .. len : /\ i \in 2 .. len + 1 /\ i \in 1 .. len
                                  /\ i - 1 \in 1 .. len
          BY <1>3
        <5> QED BY <1>7, <5>1
      <4> QED BY <4>1, <4>2
    <3> QED BY <2>1, <3>1, <3>2
  <2>2. \A x \in e.left : x[1] \notin e.finished
    BY <1>9 DEF EdgeInv
  <2> QED BY <1>6, <2>1, <2>2 DEF EdgeInv
<1> QED BY <1>12, <1>13, <1>14 DEF OpenInv

(* Dfs of a vertex ends: the vertices that are finished make up no cycle.  *)
LEMMA ReturnKeeps ==
  ASSUME NEW size, NEW edges, Graph(size, edges),
         NEW d \in Searches(size, edges), OpenInv(d, size, edges),
         d.path # <<>>, LeftFrom(d, Last(d.path)) = {},
         NEW e \in Searches(size, edges),
         e.order = d.order, e.count = d.count, e.finished = Finish(d),
         e.path = Front(d.path), e.parent = d.parent, e.left = d.left,
         e.root = d.root
  PROVE  OpenInv(e, size, edges)
<1>1. size \in Nat
  BY DEF Graph
<1>2. PICK path \in Seq(Vertices(size)) : path = d.path
  BY <1>1, SearchTypes
<1>3. PICK len \in Nat : len = Len(path)
  BY <1>2
<1>4. PICK here \in Vertices(size) : here = Last(path)
  BY <1>2, LastOf
<1>5. PICK front \in Seq(Vertices(size)) : front = e.path
  BY <1>1, SearchTypes
<1>6. /\ len >= 1 /\ here = path[len] /\ Len(front) = len - 1
      /\ \A i \in 1 .. len - 1 : front[i] = path[i]
  <2>1. path # <<>> /\ front = Front(path)
    BY <1>2, <1>5
  <2> QED BY <1>3, <1>4, <2>1, LastOf
<1>7. e.finished = d.finished \cup {here}
  BY <1>2, <1>4 DEF Finish
<1>8. /\ PathInv(d, edges) /\ OrderInv(d, size) /\ EdgeInv(d, edges)
      /\ Acyclic(d.finished, edges)
  BY DEF OpenInv
<1>9. \A i \in 1 .. len - 1 : path[i] # here
  <2>1. \A i \in 1 .. len - 1 : /\ i \in 1 .. Len(d.path)
                                /\ len \in 1 .. Len(d.path) /\ i < len
    BY <1>2, <1>3, <1>6
  <2> QED BY <1>1, <1>2, <1>6, <1>8, <2>1, PathDiffers
<1>10. here \in Discovered(d, size) /\ here \notin d.finished
  <2>1. len \in 1 .. len
    BY <1>6
  <2> QED BY <1>2, <1>3, <1>6, <1>8, <2>1 DEF OrderInv, PathInv
<1>11. Discovered(e, size) = Discovered(d, size)
  BY DEF Discovered
<1>12. PathInv(e, edges)
  <2>1. Len(front) <= e.count
    <3>1. PICK count \in Nat : count = d.count
      BY <1>1, SearchTypes
    <3> QED BY <1>2, <1>3, <1>6, <1>8, <3>1 DEF PathInv
  <2>2. \A i \in 1 .. len - 1 : i \in 1 .. len
    OBVIOUS
  <2>3. \A i \in 1 .. len - 1 : front[i] \notin e.finished
    BY <1>2, <1>3, <1>6, <1>7, <1>8, <1>9, <2>2 DEF PathInv
  <2>4. \A i, j \in 1 .. len - 1 :
          i < j => e.order[front[i]] < e.order[front[j]]
    BY <1>2, <1>3, <1>6, <1>8, <2>2 DEF PathInv
  <2>5. ASSUME NEW i \in 2 .. len - 1
        PROVE  /\ e.parent[front[i]] = front[i - 1]
               /\ <<front[i - 1], front[i]>> \in edges
    <3>1. i \in 1 .. len - 1 /\ i - 1 \in 1 .. len - 1 /\ i \in 2 .. len
      OBVIOUS
    <3> QED BY <1>2, <1>3, <1>6, <1>8, <3>1 DEF PathInv
  <2> QED BY <1>5, <1>6, <2>1, <2>3, <2>4, <2>5 DEF PathInv
<1>13. OrderInv(e, size)
  <2>1. ASSUME NEW v \in Discovered(d, size)
        PROVE  v \in e.finished \/ \E i \in 1 .. Len(front) : front[i] = v
    <3>1. v \in d.finished \/ \E i \in 1 .. len : path[i] = v
      BY <1>2, <1>3, <1>8 DEF OrderInv
    <3>2. CASE v \in d.finished
      BY <1>7, <3>2
    <3>3. CASE \E i \in 1 .. len : path[i] = v
      <4>1. PICK i \in 1 .. len : path[i] = v
        BY <3>3
      <4>2. CASE i = len
        BY <1>6, <1>7, <4>1, <4>2
      <4>3. CASE i # len
        <5>1. i \in 1 .. len - 1
          BY <4>3
        <5> QED BY <1>6, <4>1, <5>1
      <4> QED BY <4>2, <4>3
    <3> QED BY <3>1, <3>2, <3>3
  <2>2. \A v \in Discovered(d, size) : e.order[v] \in 0 .. e.count - 1
    BY <1>8 DEF OrderInv
  <2>3. e.finished \subseteq Discovered(d, size)
    BY <1>7, <1>8, <1>10 DEF OrderInv
  <2>4. ASSUME NEW i \in 1 .. Len(front)
        PROVE  front[i] \in Discovered(d, size)
    <3>1. i \in 1 .. len /\ front[i] = path[i]
      BY <1>6
    <3> QED BY <1>2, <1>3, <1>8, <3>1 DEF OrderInv
  <2>5. \A v \in 0 .. e.root - 1 : v \in Discovered(d, size)
    BY <1>8 DEF OrderInv
  <2>6. Cardinality(Discovered(d, size)) = e.count
    BY <1>8 DEF OrderInv
  <2> QED BY <1>5, <1>11, <2>1, <2>2, <2>3, <2>4, <2>5, <2>6 DEF OrderInv
<1>14. EdgeInv(e, edges)
  <2>1. ASSUME NEW x \in edges \ d.left
        PROVE  \/ x[2] \in e.finished
               \/ \E i \in 2 .. Len(front) : x = <<front[i - 1], front[i]>>
    <3>1. \/ x[2] \in d.finished
          \/ \E i \in 2 .. len : x = <<path[i - 1], path[i]>>
      BY <1>2, <1>3, <1>8 DEF EdgeInv
    <3>2. CASE x[2] \in d.finished
      BY <1>7, <3>2
    <3>3. CASE \E i \in 2 .. len : x = <<path[i - 1], path[i]>>
      <4>1. PICK i \in 2 .. len : x = <<path[i - 1], path[i]>>
        BY <3>3
      <4>2. CASE i = len
        BY <1>6, <1>7, <4>1, <4>2
      <4>3. CASE i # len
        <5>1. /\ i \in 2 .. Len(front) /\ i \in 1 .. len - 1
              /\ i - 1 \in 1 .. len - 1
          BY <1>6, <4>3
        <5> QED BY <1>6, <4>1, <5>1
      <4> QED BY <4>2, <4>3
    <3> QED BY <3>1, <3>2, <3>3
  <2>2. ASSUME NEW x \in d.left
        PROVE  x[1] \notin e.finished
    <3>1. x[1] \notin d.finished
      BY <1>8 DEF EdgeInv
    <3>2. x[1] # here
      BY <1>2, <1>4 DEF LeftFrom
    <3> QED BY <1>7, <3>1, <3>2
  <2> QED BY <1>5, <2>1, <2>2 DEF EdgeInv
<1>15. Acyclic(e.finished, edges)
  <2>1. SUFFICES ASSUME NEW T \in SUBSET e.finished, T # {},
                        \A y \in T : \E z \in T : <<y, z>> \in edges
                 PROVE  FALSE
    BY DEF Acyclic
  <2>2. ASSUME NEW y \in T \cap d.finished, NEW z \in T, <<y, z>> \in edges
        PROVE  z \in T \cap d.finished
    <3>1. PICK x : x = <<y, z>>
      OBVIOUS
    <3>2. x \in edges \ d.left
      BY <1>8, <2>2, <3>1 DEF EdgeInv
    <3>3. ASSUME NEW i \in 2 .. len, x = <<path[i - 1], path[i]>>
          PROVE  FALSE
      <4>1. i - 1 \in 1 .. len /\ y = path[i - 1]
        BY <3>1, <3>3
      <4> QED BY <1>2, <1>3, <1>8, <4>1 DEF PathInv
    <3> QED BY <1>2, <1>3, <1>8, <3>1, <3>2, <3>3 DEF EdgeInv
  <2>3. CASE T \cap d.finished # {}
    <3>1. T \cap d.finished \in (SUBSET d.finished) \ {{}}
      BY <2>3
    <3>2. PICK y \in T \cap d.finished :
            \A z \in T \cap d.finished : <<y, z>> \notin edges
      BY <1>8, <3>1 DEF Acyclic
    <3> QED BY <2>1, <2>2, <3>2
  <2>4. CASE T \cap d.finished = {}
    <3>1. T = {here}
      BY <1>7, <2>1, <2>4
    <3> QED BY <2>1, <3>1 DEF Graph
  <2> QED BY <2>3, <2>4
<1> QED BY <1>12, <1>13, <1>14, <1>15 DEF OpenInv

(* The sets of the search are finite, and its effort is a number.          *)
LEMMA EffortBound ==
  ASSUME NEW size, NEW edges, Graph(size, edges),
         NEW d \in Searches(size, edges)
  PROVE  /\ IsFiniteSet(edges) /\ Cardinality(edges) \in Nat
         /\ Cardinality(edges) <= size * size
         /\ IsFiniteSet(d.left) /\ Cardinality(d.left) \in Nat
         /\ Effort(d, size) \in Int
         /\ OrderInv(d, size) /\ ~Over(d) => Effort(d, size) >= 1
<1>1. size \in Nat /\ edges \in SUBSET (Vertices(size) \X Vertices(size))
  BY DEF Graph
<1>2. IsFiniteSet(Vertices(size)) /\ Cardinality(Vertices(size)) = size
  <2>1. /\ IsFiniteSet(0 .. size - 1)
        /\ Cardinality(0 .. size - 1)
             = IF 0 > size - 1 THEN 0 ELSE size - 1 - 0 + 1
    BY <1>1, FS_Interval
  <2> QED BY <1>1, <2>1 DEF Vertices
<1>3. /\ IsFiniteSet(Vertices(size) \X Vertices(size))
      /\ Cardinality(Vertices(size) \X Vertices(size)) = size * size
  BY <1>2, FS_Product
<1>4. IsFiniteSet(edges) /\ Cardinality(edges) <= size * size
  BY <1>1, <1>3, FS_Subset
<1>5. Cardinality(edges) \in Nat
  BY <1>4, FS_CardinalityType
<1>6. IsFiniteSet(d.left)
  <2>1. d.left \in SUBSET edges
    BY <1>1, SearchTypes
  <2> QED BY <1>4, <2>1, FS_Subset
<1>7. Cardinality(d.left) \in Nat
  BY <1>6, FS_CardinalityType
<1>8. Len(d.path) \in Nat /\ d.count \in Nat /\ d.root \in 0 .. size
  BY <1>1, SearchTypes
<1>a. PICK a \in Nat : a = Len(d.path)
  BY <1>8
<1>b. PICK b \in Nat : b = d.count
  BY <1>8
<1>c. PICK c \in Nat : c = d.root /\ c <= size
  BY <1>1, <1>8
<1>e. PICK left \in Nat : left = Cardinality(d.left)
  BY <1>7
<1>9. Effort(d, size) = a + 2 * (size - b) + (size - c) + left
  BY <1>a, <1>b, <1>c, <1>e DEF Effort
<1>10. ASSUME OrderInv(d, size), ~Over(d)
       PROVE  Effort(d, size) >= 1
  <2>1. Discovered(d, size) \in SUBSET Vertices(size)
    BY DEF Discovered
  <2>2. Cardinality(Discovered(d, size)) <= size
    BY <1>2, <2>1, FS_Subset
  <2>3. b <= size
    BY <1>b, <1>10, <2>2 DEF OrderInv
  <2>4. a >= 1 \/ c < size
    <3>1. CASE d.path # <<>>
      <4>1. a # 0
        BY <1>1, <1>a, <3>1, SearchTypes, EmptySeq
      <4> QED BY <4>1
    <3>2. CASE d.path = <<>> /\ c \in Vertices(size)
      BY <1>1, <3>2 DEF Vertices
    <3>3. d.order \in [Vertices(size) -> Int]
      BY <1>1, SearchTypes
    <3> QED BY <1>c, <1>10, <3>1, <3>2, <3>3 DEF Over
  <2> QED BY <1>1, <1>c, <1>9, <2>3, <2>4
<1>11. Effort(d, size) \in Int
  BY <1>1, <1>9
<1> QED BY <1>4, <1>5, <1>6, <1>7, <1>10, <1>11

LEMMA DiscoverTypes ==
  ASSUME NEW size \in Nat, NEW edges, NEW d \in Searches(size, edges),
         NEW v \in Vertices(size), NEW e, e = Discover(d, v)
  PROVE  /\ e \in Searches(size, edges)
         /\ e.order = [d.order EXCEPT ![v] = d.count]
         /\ e.count = d.count + 1 /\ e.path = Append(d.path, v)
         /\ e.finished = d.finished /\ e.parent = d.parent
         /\ e.left = d.left /\ e.root = d.root /\ e.cycle = d.cycle
         /\ Len(e.path) = Len(d.path) + 1
<1>1. /\ e.order = [d.order EXCEPT ![v] = d.count]
      /\ e.count = d.count + 1 /\ e.path = Append(d.path, v)
      /\ e.finished = d.finished /\ e.parent = d.parent
      /\ e.left = d.left /\ e.root = d.root /\ e.cycle = d.cycle
      /\ e = [order |-> e.order, count |-> e.count, finished |-> e.finished,
              parent |-> e.parent, root |-> e.root, path |-> e.path,
              left |-> e.left, cycle |-> e.cycle]
  BY DEF Discover, Searches
<1>2. /\ d.order \in [Vertices(size) -> Int] /\ d.count \in Nat
      /\ d.finished \subseteq Vertices(size)
      /\ d.parent \in [Vertices(size) -> Int]
      /\ d.root \in 0 .. size /\ d.path \in Seq(Vertices(size))
      /\ d.left \subseteq edges /\ d.cycle \in Seq(Vertices(size))
  BY SearchTypes
<1>3. /\ e.order \in [Vertices(size) -> Int] /\ e.count \in Nat
      /\ e.path \in Seq(Vertices(size)) /\ Len(e.path) = Len(d.path) + 1
  <2>1. e.order \in [Vertices(size) -> Int] /\ e.count \in Nat
    BY <1>1, <1>2
  <2>2. PICK path \in Seq(Vertices(size)) : path = d.path
    BY <1>2
  <2> QED BY <1>1, <2>1, <2>2, AppendProperties
<1>4. e \in Searches(size, edges)
  BY <1>1, <1>2, <1>3 DEF Searches
<1> QED BY <1>1, <1>3, <1>4

LEMMA EffortLess ==
  ASSUME NEW size, NEW edges, Graph(size, edges),
         NEW d \in Searches(size, edges), NEW e \in Searches(size, edges),
         d.root <= e.root, Cardinality(e.left) <= Cardinality(d.left),
         \/ Len(e.path) = Len(d.path) + 1 /\ e.count = d.count + 1
         \/ Len(e.path) = Len(d.path) - 1 /\ e.count = d.count
         \/ /\ Len(e.path) = Len(d.path) /\ e.count = d.count
            /\ \/ d.root + 1 <= e.root
               \/ Cardinality(e.left) + 1 <= Cardinality(d.left)
  PROVE  Effort(e, size) + 1 <= Effort(d, size)
<1>1. size \in Nat
  BY DEF Graph
<1>2. PICK a \in Int : a = Len(d.path)
  BY <1>1, SearchTypes
<1>3. PICK b \in Int : b = d.count
  BY <1>1, SearchTypes
<1>4. PICK c \in Int : c = d.root
  BY <1>1, SearchTypes
<1>5. PICK l \in Int : l = Cardinality(d.left)
  BY EffortBound
<1>6. PICK a1 \in Int : a1 = Len(e.path)
  BY <1>1, SearchTypes
<1>7. PICK b1 \in Int : b1 = e.count
  BY <1>1, SearchTypes
<1>8. PICK c1 \in Int : c1 = e.root
  BY <1>1, SearchTypes
<1>9. PICK l1 \in Int : l1 = Cardinality(e.left)
  BY EffortBound
<1>10. PICK x : x = Effort(d, size)
  OBVIOUS
<1>11. PICK y : y = Effort(e, size)
  OBVIOUS
<1>12. x = a + 2 * (size - b) + (size - c) + l
  BY <1>2, <1>3, <1>4, <1>5, <1>10 DEF Effort
<1>13. y = a1 + 2 * (size - b1) + (size - c1) + l1
  BY <1>6, <1>7, <1>8, <1>9, <1>11 DEF Effort
<1>14. /\ c <= c1 /\ l1 <= l
       /\ \/ a1 = a + 1 /\ b1 = b + 1
          \/ a1 = a - 1 /\ b1 = b
          \/ a1 = a /\ b1 = b /\ (c + 1 <= c1 \/ l1 + 1 <= l)
  BY <1>2, <1>3, <1>4, <1>5, <1>6, <1>7, <1>8, <1>9
<1>15. y + 1 <= x
  BY ONLY <1>1, <1>12, <1>13, <1>14, a \in Int, b \in Int, c \in Int,
          l \in Int, a1 \in Int, b1 \in Int, c1 \in Int, l1 \in Int
<1> QED BY ONLY <1>10, <1>11, <1>15

(* What a turn does to a search that is not over.                          *)
Goes(d, e, size, edges) ==
  SearchInv(e, size, edges)
    /\ (Over(e) \/ Effort(e, size) + 1 <= Effort(d, size))

LEMMA NextRootKeeps ==
  ASSUME NEW size, NEW edges, Graph(size, edges),
         NEW d, SearchInv(d, size, edges), ~Over(d), d.path = <<>>
  PROVE  Goes(d, NextRoot(d), size, edges)
<1>1. size \in Nat
  BY DEF Graph
<1>2. /\ d \in Searches(size, edges) /\ d.cycle = <<>>
      /\ OpenInv(d, size, edges)
  BY DEF SearchInv, Over
<1>3. d.order \in [Vertices(size) -> Int] /\ d.root \in 0 .. size
  BY <1>1, <1>2, SearchTypes
<1>4. d.root \in Vertices(size)
  BY <1>2, <1>3 DEF Over
<1>5. PICK f : f = [d EXCEPT !.root = @ + 1]
  OBVIOUS
<1>6. /\ f.root = d.root + 1 /\ f.order = d.order /\ f.count = d.count
      /\ f.finished = d.finished /\ f.parent = d.parent /\ f.path = d.path
      /\ f.left = d.left /\ f.cycle = d.cycle
  BY <1>2, <1>5 DEF Searches
<1>7. f \in Searches(size, edges)
  <2>1. d.root + 1 \in 0 .. size
    BY <1>1, <1>4 DEF Vertices
  <2> QED BY <1>2, <1>5, <2>1 DEF Searches
<1>8. \A v \in 0 .. f.root - 1 : v = d.root \/ v \in 0 .. d.root - 1
  BY <1>3, <1>6
<1>9. Cardinality(d.left) \in Nat /\ Len(d.path) \in Nat /\ d.count \in Nat
  BY <1>1, <1>2, EffortBound, SearchTypes
<1>10. CASE d.order[d.root] = -1
  <2>1. PICK e : e = Discover(f, d.root)
    OBVIOUS
  <2>2. NextRoot(d) = e
    BY <1>5, <1>10, <2>1 DEF NextRoot
  <2>3. /\ e \in Searches(size, edges)
        /\ e.order = [f.order EXCEPT ![d.root] = f.count]
        /\ e.count = f.count + 1 /\ e.path = Append(f.path, d.root)
        /\ e.finished = f.finished /\ e.parent = f.parent
        /\ e.left = f.left /\ e.root = f.root /\ e.cycle = f.cycle
        /\ Len(e.path) = Len(f.path) + 1
    BY ONLY <1>1, <1>4, <1>7, <2>1, DiscoverTypes
  <2>4. OpenInv(e, size, edges)
    <3>1. /\ e.order = [d.order EXCEPT ![d.root] = d.count]
          /\ e.count = d.count + 1 /\ e.finished = d.finished
          /\ e.path = Append(d.path, d.root)
          /\ \A v \in Vertices(size) : v # d.root => e.parent[v] = d.parent[v]
      BY <1>6, <2>3
    <3>2. d.path # <<>> => /\ e.parent[d.root] = Last(d.path)
                           /\ <<Last(d.path), d.root>> \in edges
      OBVIOUS
    <3>3. /\ \A x \in d.left :
               x \in e.left \/ (d.path # <<>> /\ x = <<Last(d.path), d.root>>)
          /\ e.left \subseteq d.left
          /\ \A v \in 0 .. e.root - 1 : v = d.root \/ v \in 0 .. d.root - 1
      <4>1. e.left = d.left /\ e.root = f.root
        BY <1>6, <2>3
      <4>2. \A v \in 0 .. e.root - 1 : v = d.root \/ v \in 0 .. d.root - 1
        BY <1>8, <4>1
      <4> QED BY <4>1, <4>2
    <3> QED BY <1>2, <1>4, <1>10, <2>3, <3>1, <3>2, <3>3, DiscoverKeeps
  <2>5. Effort(e, size) + 1 <= Effort(d, size)
    <3>1. /\ Len(e.path) = Len(d.path) + 1 /\ e.count = d.count + 1
          /\ d.root <= e.root /\ Cardinality(e.left) <= Cardinality(d.left)
      BY <1>3, <1>6, <1>9, <2>3
    <3> QED BY <1>2, <2>3, <3>1, EffortLess
  <2> QED BY <1>2, <1>6, <2>2, <2>3, <2>4, <2>5 DEF Goes, SearchInv
<1>11. CASE d.order[d.root] # -1
  <2>1. NextRoot(d) = f
    BY <1>5, <1>11 DEF NextRoot
  <2>2. OpenInv(f, size, edges)
    <3>1. d.root \in Discovered(d, size)
      BY <1>4, <1>11 DEF Discovered
    <3>2. Discovered(f, size) = Discovered(d, size)
      BY <1>6 DEF Discovered
    <3>3. \A v \in 0 .. f.root - 1 : v \in Discovered(d, size)
      BY <1>2, <1>8, <3>1 DEF OpenInv, OrderInv
    <3>4. OrderInv(f, size)
      BY <1>2, <1>6, <3>2, <3>3 DEF OpenInv, OrderInv
    <3>5. PathInv(f, edges) /\ EdgeInv(f, edges) /\ Acyclic(f.finished, edges)
      BY <1>2, <1>6 DEF OpenInv, PathInv, EdgeInv
    <3> QED BY <3>4, <3>5 DEF OpenInv
  <2>3. Effort(f, size) + 1 <= Effort(d, size)
    <3>1. /\ Len(f.path) = Len(d.path) /\ f.count = d.count
          /\ d.root <= f.root /\ d.root + 1 <= f.root
          /\ Cardinality(f.left) <= Cardinality(d.left)
      BY <1>3, <1>6, <1>9
    <3> QED BY <1>2, <1>7, <3>1, EffortLess
  <2> QED BY <1>2, <1>6, <1>7, <2>1, <2>2, <2>3 DEF Goes, SearchInv
<1> QED BY <1>10, <1>11

LEMMA ReturnGoes ==
  ASSUME NEW size, NEW edges, Graph(size, edges),
         NEW d, SearchInv(d, size, edges), ~Over(d), d.path # <<>>,
         LeftFrom(d, Last(d.path)) = {}
  PROVE  Goes(d, Return(d), size, edges)
<1>1. size \in Nat
  BY DEF Graph
<1>2. /\ d \in Searches(size, edges) /\ d.cycle = <<>>
      /\ OpenInv(d, size, edges)
  BY DEF SearchInv, Over
<1>3. PICK path \in Seq(Vertices(size)) : path = d.path
  BY <1>1, <1>2, SearchTypes
<1>4. /\ Len(path) \in Nat /\ Front(path) \in Seq(Vertices(size))
      /\ Len(Front(path)) = Len(path) - 1 /\ Last(path) \in Vertices(size)
  BY <1>3, LastOf
<1>5. PICK e : e = Return(d)
  OBVIOUS
<1>6. /\ e.finished = Finish(d) /\ e.path = Front(path) /\ e.order = d.order
      /\ e.count = d.count /\ e.parent = d.parent /\ e.root = d.root
      /\ e.left = d.left /\ e.cycle = d.cycle
  BY <1>2, <1>3, <1>5 DEF Return, Searches
<1>7. e \in Searches(size, edges)
  <2>1. Finish(d) \in SUBSET Vertices(size)
    BY <1>1, <1>2, <1>3, <1>4, SearchTypes DEF Finish
  <2> QED BY <1>2, <1>3, <1>4, <1>5, <2>1 DEF Return, Searches
<1>8. OpenInv(e, size, edges)
  BY <1>2, <1>3, <1>6, <1>7, ReturnKeeps
<1>9. Effort(e, size) + 1 <= Effort(d, size)
  <2>1. /\ Cardinality(d.left) \in Nat /\ d.count \in Nat
        /\ d.root \in 0 .. size
    BY <1>1, <1>2, EffortBound, SearchTypes
  <2>2. /\ Len(e.path) = Len(d.path) - 1 /\ e.count = d.count
        /\ d.root <= e.root /\ Cardinality(e.left) <= Cardinality(d.left)
    BY <1>3, <1>4, <1>6, <2>1
  <2> QED BY <1>2, <1>7, <2>2, EffortLess
<1> QED BY <1>2, <1>5, <1>6, <1>7, <1>8, <1>9 DEF Goes, SearchInv

LEMMA NextEdgeKeeps ==
  ASSUME NEW size, NEW edges, Graph(size, edges),
         NEW d, SearchInv(d, size, edges), ~Over(d), d.path # <<>>,
         LeftFrom(d, Last(d.path)) # {}
  PROVE  Goes(d, NextEdge(d), size, edges)
<1>1. size \in Nat
  BY DEF Graph
<1>2. /\ d \in Searches(size, edges) /\ d.cycle = <<>>
      /\ OpenInv(d, size, edges)
  BY DEF SearchInv, Over
<1>3. PICK path \in Seq(Vertices(size)) : path = d.path
  BY <1>1, <1>2, SearchTypes
<1>4. PICK here \in Vertices(size) : here = Last(path)
  BY <1>3, LastOf
<1>5. PICK there : there = Min(LeftFrom(d, here))
  OBVIOUS
<1>6. <<here, there>> \in d.left /\ <<here, there>> \in edges
      /\ there \in Vertices(size)
  <2>1. /\ d.left \subseteq edges
        /\ edges \subseteq Vertices(size) \X Vertices(size)
    BY <1>1, <1>2, SearchTypes DEF Graph
  <2>2. \A there1 \in LeftFrom(d, here) : <<here, there1>> \in d.left
    BY <2>1 DEF LeftFrom
  <2>3. LeftFrom(d, here) \in SUBSET Vertices(size)
    BY <2>1, <2>2
  <2>4. LeftFrom(d, here) \in SUBSET Nat
    BY <2>3 DEF Vertices
  <2>5. there \in LeftFrom(d, here)
    BY <1>3, <1>4, <1>5, <2>4, LeastOf
  <2> QED BY <2>1, <2>2, <2>3, <2>5
<1>7. PICK f : f = [d EXCEPT !.left = @ \ {<<here, there>>}]
  OBVIOUS
<1>8. /\ f.left = d.left \ {<<here, there>>} /\ f.order = d.order
      /\ f.count = d.count /\ f.finished = d.finished /\ f.parent = d.parent
      /\ f.path = d.path /\ f.root = d.root /\ f.cycle = d.cycle
  BY <1>2, <1>7 DEF Searches
<1>9. f \in Searches(size, edges)
  BY <1>2, <1>7 DEF Searches
<1>10. NextEdge(d) = IF d.order[there] = -1
                     THEN Discover([f EXCEPT !.parent[there] = here], there)
                     ELSE Known(f, here, there)
  BY <1>3, <1>4, <1>5, <1>7 DEF NextEdge
<1>11. /\ Len(d.path) \in Nat /\ d.count \in Nat /\ d.root \in 0 .. size
       /\ d.order \in [Vertices(size) -> Int]
       /\ d.parent \in [Vertices(size) -> Int]
  BY <1>1, <1>2, SearchTypes
<1>12. /\ Cardinality(d.left) \in Nat
       /\ Cardinality(f.left) = Cardinality(d.left) - 1
  <2>1. IsFiniteSet(d.left) /\ Cardinality(d.left) \in Nat
    BY <1>2, EffortBound
  <2> QED BY <1>6, <1>8, <2>1, FS_RemoveElement
<1>13. CASE d.order[there] = -1
  <2>1. PICK g : g = [f EXCEPT !.parent[there] = here]
    OBVIOUS
  <2>2. /\ g.parent = [f.parent EXCEPT ![there] = here] /\ g.order = f.order
        /\ g.count = f.count /\ g.finished = f.finished /\ g.left = f.left
        /\ g.path = f.path /\ g.root = f.root /\ g.cycle = f.cycle
    BY <1>9, <2>1 DEF Searches
  <2>3. g \in Searches(size, edges)
    <3>1. g.parent \in [Vertices(size) -> Int]
      <4>1. here \in Int
        BY <1>4 DEF Vertices
      <4>2. g.parent = [d.parent EXCEPT ![there] = here]
        BY <1>8, <2>2
      <4> QED BY <1>11, <4>1, <4>2
    <3> QED BY <1>9, <2>1, <2>2, <3>1 DEF Searches
  <2>4. PICK e : e = Discover(g, there)
    OBVIOUS
  <2>5. /\ e \in Searches(size, edges)
        /\ e.order = [g.order EXCEPT ![there] = g.count]
        /\ e.count = g.count + 1 /\ e.path = Append(g.path, there)
        /\ e.finished = g.finished /\ e.parent = g.parent
        /\ e.left = g.left /\ e.root = g.root /\ e.cycle = g.cycle
        /\ Len(e.path) = Len(g.path) + 1
    <3>1. there \in Vertices(size)
      BY <1>6
    <3>2. /\ e.count = g.count + 1 /\ e.path = Append(g.path, there)
          /\ e.finished = g.finished /\ e.parent = g.parent
          /\ e.left = g.left /\ e.root = g.root /\ e.cycle = g.cycle
      BY <2>3, <2>4 DEF Discover, Searches
    <3>3. e \in Searches(size, edges)
      BY ONLY <1>1, <2>3, <2>4, <3>1, DiscoverTypes
    <3>4. e.order = [g.order EXCEPT ![there] = g.count]
      BY ONLY <1>1, <2>3, <2>4, <3>1, DiscoverTypes
    <3>5. Len(e.path) = Len(g.path) + 1
      BY <1>1, <2>3, <3>1, <3>2, SearchTypes, AppendProperties
    <3> QED BY ONLY <3>2, <3>3, <3>4, <3>5
  <2>6. OpenInv(e, size, edges)
    <3>1. /\ e.order = [d.order EXCEPT ![there] = d.count]
          /\ e.count = d.count + 1 /\ e.finished = d.finished
          /\ e.path = Append(d.path, there)
      BY <1>8, <2>2, <2>5
    <3>2. /\ \A v \in Vertices(size) : v # there => e.parent[v] = d.parent[v]
          /\ e.parent[there] = Last(d.path)
          /\ <<Last(d.path), there>> \in edges
      BY <1>3, <1>4, <1>6, <1>8, <1>11, <2>2, <2>5
    <3>3. /\ \A x \in d.left : x \in e.left
                 \/ (d.path # <<>> /\ x = <<Last(d.path), there>>)
          /\ e.left \subseteq d.left /\ e.root = d.root
      <4>1. e.left = d.left \ {<<here, there>>} /\ e.root = d.root
        BY <1>8, <2>2, <2>5
      <4>2. \A x \in d.left : x \in e.left \/ x = <<here, there>>
        BY <4>1
      <4> QED BY <1>3, <1>4, <4>1, <4>2
    <3>4. \A v \in 0 .. e.root - 1 : v = there \/ v \in 0 .. d.root - 1
      BY <3>3
    <3> QED BY <1>2, <1>6, <1>13, <2>5, <3>1, <3>2, <3>3, <3>4, DiscoverKeeps
  <2>7. Effort(e, size) + 1 <= Effort(d, size)
    <3>1. /\ Len(e.path) = Len(d.path) + 1 /\ e.count = d.count + 1
          /\ d.root <= e.root /\ Cardinality(e.left) <= Cardinality(d.left)
      BY <1>8, <1>11, <1>12, <2>2, <2>5
    <3> QED BY <1>2, <2>5, <3>1, EffortLess
  <2>8. NextEdge(d) = e
    BY <1>10, <1>13, <2>1, <2>4
  <2>9. e.cycle = <<>>
    BY <1>2, <1>8, <2>2, <2>5
  <2> QED BY <2>5, <2>6, <2>7, <2>8, <2>9 DEF Goes, SearchInv
<1>14. CASE d.order[there] # -1
  <2>1. /\ PathInv(d, edges) /\ OrderInv(d, size) /\ EdgeInv(d, edges)
        /\ Acyclic(d.finished, edges)
    BY <1>2 DEF OpenInv
  <2>2. PICK len \in Nat : len = Len(path) /\ len >= 1 /\ here = path[len]
    BY <1>3, <1>4, LastOf
  <2>3. there \in Discovered(d, size)
    BY <1>6, <1>14 DEF Discovered
  <2>4. ASSUME there \notin d.finished
        PROVE  \E p \in 1 .. len : path[p] = there
                                     /\ ~(d.order[here] < d.order[there])
    <3>1. PICK p \in 1 .. len : path[p] = there
      BY <1>3, <2>1, <2>2, <2>3, <2>4 DEF OrderInv
    <3>2. CASE p = len
      BY <1>4, <1>11, <2>2, <3>1, <3>2
    <3>3. CASE p # len
      <4>1. p < len /\ len \in 1 .. len
        BY <2>2, <3>3
      <4>2. d.order[there] < d.order[here]
        BY <1>3, <2>1, <2>2, <3>1, <4>1 DEF PathInv
      <4>3. d.order[there] \in Int /\ d.order[here] \in Int
        BY <1>4, <1>6, <1>11
      <4> QED BY <3>1, <4>2, <4>3
    <3> QED BY <3>2, <3>3
  <2>5. PathInv(f, edges)
    BY <1>8, <2>1 DEF PathInv
  <2>6. CASE there \in d.finished
    <3>1. NextEdge(d) = f
      BY <1>8, <1>10, <1>14, <2>6 DEF Known
    <3>2. OrderInv(f, size)
      <4>1. Discovered(f, size) = Discovered(d, size)
        BY <1>8 DEF Discovered
      <4> QED BY <1>8, <2>1, <4>1 DEF OrderInv
    <3>3. EdgeInv(f, edges)
      <4>1. \A x \in edges \ f.left :
              \/ x[2] \in f.finished
              \/ \E i \in 2 .. Len(f.path) : x = <<f.path[i - 1], f.path[i]>>
        <5>1. \A x \in edges \ f.left :
                x \in edges \ d.left \/ x = <<here, there>>
          BY <1>8
        <5> QED BY <1>8, <2>1, <2>6, <5>1 DEF EdgeInv
      <4>2. \A x \in f.left : x[1] \notin f.finished
        BY <1>8, <2>1 DEF EdgeInv
      <4> QED BY <4>1, <4>2 DEF EdgeInv
    <3>4. OpenInv(f, size, edges)
      BY <1>8, <2>1, <2>5, <3>2, <3>3 DEF OpenInv
    <3>5. Effort(f, size) + 1 <= Effort(d, size)
      <4>1. /\ Len(f.path) = Len(d.path) /\ f.count = d.count
            /\ d.root <= f.root /\ Cardinality(f.left) <= Cardinality(d.left)
            /\ Cardinality(f.left) + 1 <= Cardinality(d.left)
        BY <1>8, <1>11, <1>12
      <4> QED BY <1>2, <1>9, <4>1, EffortLess
    <3> QED BY <1>2, <1>8, <1>9, <3>1, <3>4, <3>5 DEF Goes, SearchInv
  <2>7. CASE there \notin d.finished
    <3>1. PICK p \in 1 .. len : path[p] = there
                                  /\ ~(d.order[here] < d.order[there])
      BY <2>4, <2>7
    <3>2. PICK c : c = Append(WayDown(f, here, there), there)
      OBVIOUS
    <3>3. PICK e : e = [f EXCEPT !.cycle = c]
      OBVIOUS
    <3>4. NextEdge(d) = e
      BY <1>8, <1>10, <1>14, <2>7, <3>1, <3>2, <3>3 DEF Known
    <3>5. c \in Seq(Vertices(size)) /\ c # <<>> /\ IsCycle(c, edges)
      <4>1. /\ p \in 1 .. Len(f.path) /\ there = f.path[p]
            /\ here = Last(f.path) /\ <<Last(f.path), there>> \in edges
        BY <1>3, <1>4, <1>6, <1>8, <2>2, <3>1
      <4> QED BY <1>9, <2>5, <3>2, <4>1, BackEdge
    <3>6. e \in Searches(size, edges) /\ e.cycle = c
      BY <1>9, <3>3, <3>5 DEF Searches
    <3> QED BY <3>4, <3>5, <3>6 DEF Goes, SearchInv, Over
  <2> QED BY <2>6, <2>7
<1> QED BY <1>13, <1>14

LEMMA TurnKeeps ==
  ASSUME NEW size, NEW edges, Graph(size, edges),
         NEW d, SearchInv(d, size, edges), ~Over(d)
  PROVE  Goes(d, Turn(d), size, edges)
<1>1. CASE d.path = <<>>
  BY <1>1, NextRootKeeps DEF Turn
<1>2. CASE d.path # <<>> /\ LeftFrom(d, Last(d.path)) = {}
  BY <1>2, ReturnGoes DEF Turn
<1>3. CASE d.path # <<>> /\ LeftFrom(d, Last(d.path)) # {}
  BY <1>3, NextEdgeKeeps DEF Turn
<1> QED BY <1>1, <1>2, <1>3

(* The search begins with everything unvisited.                            *)
LEMMA UnvisitedHolds ==
  ASSUME NEW size, NEW edges, Graph(size, edges)
  PROVE  /\ SearchInv(Unvisited(edges, size), size, edges)
         /\ Effort(Unvisited(edges, size), size) <= Turns(size)
<1>1. size \in Nat
  BY DEF Graph
<1>2. PICK d : d = Unvisited(edges, size)
  OBVIOUS
<1>3. /\ d.order = [v \in Vertices(size) |-> -1] /\ d.count = 0
      /\ d.finished = {} /\ d.parent = [v \in Vertices(size) |-> -1]
      /\ d.root = 0 /\ d.path = <<>> /\ d.left = edges /\ d.cycle = <<>>
  BY <1>2 DEF Unvisited, Vertices
<1>4. d \in Searches(size, edges)
  <2>1. /\ [v \in Vertices(size) |-> -1] \in [Vertices(size) -> Int]
        /\ 0 \in 0 .. size /\ <<>> \in Seq(Vertices(size))
    BY <1>1
  <2> QED BY <1>2, <2>1 DEF Unvisited, Searches, Vertices
<1>5. Len(d.path) = 0
  BY <1>3
<1>6. Discovered(d, size) = {}
  BY <1>3 DEF Discovered
<1>7. OpenInv(d, size, edges)
  <2>1. PathInv(d, edges)
    BY <1>3, <1>5 DEF PathInv
  <2>2. OrderInv(d, size)
    BY <1>3, <1>5, <1>6, FS_EmptySet DEF OrderInv
  <2>3. EdgeInv(d, edges)
    BY <1>3 DEF EdgeInv
  <2>4. Acyclic({}, edges)
    BY DEF Acyclic
  <2> QED BY <1>3, <2>1, <2>2, <2>3, <2>4 DEF OpenInv
<1>8. Effort(d, size) <= Turns(size)
  <2>1. Cardinality(edges) \in Nat /\ Cardinality(edges) <= size * size
    BY <1>4, EffortBound
  <2>2. PICK square \in Nat : square = size * size
    BY <1>1
  <2>3. Turns(size) = 3 * size + square
    BY <2>2 DEF Turns
  <2>4. Effort(d, size) = 0 + 2 * (size - 0) + (size - 0) + Cardinality(edges)
    BY <1>3, <1>5 DEF Effort
  <2> QED BY <1>1, <2>1, <2>2, <2>3, <2>4
<1> QED BY <1>2, <1>3, <1>4, <1>7, <1>8 DEF SearchInv

(* What CheckCycle finds: a cycle, or that there is none.                  *)
LEMMA CheckCycleFinds ==
  ASSUME NEW size, NEW edges, Graph(size, edges)
  PROVE  /\ CheckCycle(edges, size) \in Seq(Vertices(size))
         /\ IF CheckCycle(edges, size) # <<>>
            THEN IsCycle(CheckCycle(edges, size), edges)
            ELSE Acyclic(Vertices(size), edges)
<1>1. size \in Nat
  BY DEF Graph
<1>2. PICK turns \in Nat : turns = Turns(size)
  <2>1. PICK square \in Nat : square = size * size
    BY <1>1
  <2> QED BY <1>1, <2>1 DEF Turns
<1> DEFINE Then(d) == IF Over(d) THEN d ELSE Turn(d)
           IsSearch(h) == h = [n \in 0 .. turns |->
                                 IF n = 0 THEN Unvisited(edges, size)
                                 ELSE Then(h[n - 1])]
           g == CHOOSE h : IsSearch(h)
<1>3. CheckCycle(edges, size) = g[turns].cycle
  BY <1>2 DEF CheckCycle
<1>4. \E h : IsSearch(h)
  <2> DEFINE Begins(h, m) == h = [n \in 0 .. m |->
                                    IF n = 0 THEN Unvisited(edges, size)
                                    ELSE Then(h[n - 1])]
             Begun == {m \in 0 .. turns : \E h : Begins(h, m)}
  <2> HIDE DEF Then
  <2>1. 0 \in Begun
    <3>1. PICK h : h = [n \in 0 .. 0 |-> Unvisited(edges, size)]
      OBVIOUS
    <3>2. Begins(h, 0)
      <4>1. \A n \in 0 .. 0 : n = 0
        OBVIOUS
      <4> QED BY <3>1, <4>1
    <3> QED BY <3>2
  <2>2. ASSUME NEW m \in 1 .. turns, m - 1 \in Begun
        PROVE  m \in Begun
    <3>1. PICK h : Begins(h, m - 1)
      BY <2>2
    <3>2. PICK j : j = [n \in 0 .. m |-> IF n = m THEN Then(h[m - 1])
                                                  ELSE h[n]]
      OBVIOUS
    <3>3. ASSUME NEW n \in 0 .. m
          PROVE  j[n] = IF n = 0 THEN Unvisited(edges, size)
                                 ELSE Then(j[n - 1])
      <4>1. CASE n = 0
        <5>1. 0 \in 0 .. m - 1 /\ 0 # m
          OBVIOUS
        <5>2. h[0] = Unvisited(edges, size)
          BY <3>1, <5>1
        <5> QED BY <3>2, <4>1, <5>1, <5>2
      <4>2. CASE n = m
        <5>1. m - 1 \in 0 .. m /\ m - 1 # m /\ m # 0
          OBVIOUS
        <5> QED BY <3>2, <4>2, <5>1
      <4>3. CASE n # 0 /\ n # m
        <5>1. n \in 0 .. m - 1 /\ n - 1 \in 0 .. m /\ n - 1 # m
          BY <4>3
        <5>2. h[n] = Then(h[n - 1])
          BY <3>1, <4>3, <5>1
        <5> QED BY <3>2, <4>3, <5>1, <5>2
      <4> QED BY <4>1, <4>2, <4>3
    <3>4. Begins(j, m)
      BY <3>2, <3>3
    <3> QED BY <3>4
  <2>3. turns \in 0 .. turns
    OBVIOUS
  <2> HIDE DEF Begun
  <2>4. turns \in Begun
    BY <2>1, <2>2, <2>3, Induction
  <2> QED BY <2>4 DEF Begun
<1> HIDE DEF IsSearch
<1>5. IsSearch(g)
  BY <1>4
<1> HIDE DEF g
<1>6. g[0] = Unvisited(edges, size)
  BY <1>2, <1>5 DEF IsSearch
<1>7. \A n \in 1 .. turns : g[n] = Then(g[n - 1])
  BY <1>2, <1>5 DEF IsSearch
<1> DEFINE Done(n) == SearchInv(g[n], size, edges)
                        /\ (Over(g[n]) \/ Effort(g[n], size) + n <= turns)
           Good == {n \in 0 .. turns : Done(n)}
<1>8. 0 .. turns \subseteq Good
  <2>1. 0 \in Good
    <3>1. Effort(g[0], size) \in Int
      BY <1>6, UnvisitedHolds, EffortBound DEF SearchInv
    <3> QED BY <1>2, <1>6, <3>1, UnvisitedHolds
  <2>2. ASSUME NEW n \in 1 .. turns, n - 1 \in Good
        PROVE  n \in Good
    <3>1. PICK d : d = g[n - 1]
      OBVIOUS
    <3>2. /\ SearchInv(d, size, edges)
          /\ Over(d) \/ Effort(d, size) + (n - 1) <= turns
      BY <2>2, <3>1
    <3>3. g[n] = Then(d) /\ n \in 0 .. turns
      BY <1>7, <3>1
    <3>4. CASE Over(d)
      BY <3>2, <3>3, <3>4
    <3>5. CASE ~Over(d)
      <4>1. PICK e : e = Turn(d) /\ g[n] = e
        BY <3>3, <3>5
      <4>2. Goes(d, e, size, edges)
        BY <3>2, <3>5, <4>1, TurnKeeps
      <4>3. SearchInv(e, size, edges)
        BY <4>2 DEF Goes
      <4>4. Effort(d, size) \in Int /\ Effort(e, size) \in Int
        BY <3>2, <4>3, EffortBound DEF SearchInv
      <4>5. Over(e) \/ Effort(e, size) + n <= turns
        BY <3>2, <3>5, <4>2, <4>4 DEF Goes
      <4> QED BY <3>3, <4>1, <4>3, <4>5
    <3> QED BY <3>4, <3>5
  <2> HIDE DEF Good
  <2> QED BY <2>1, <2>2, Induction
<1>9. PICK d : d = g[turns]
  OBVIOUS
<1>10. /\ SearchInv(d, size, edges)
       /\ Over(d) \/ Effort(d, size) + turns <= turns
  <2>1. turns \in 0 .. turns
    OBVIOUS
  <2> QED BY <1>8, <1>9, <2>1
<1>11. d \in Searches(size, edges)
  BY <1>10 DEF SearchInv
<1>12. CASE d.cycle # <<>>
  BY <1>1, <1>3, <1>9, <1>10, <1>11, <1>12, SearchTypes DEF SearchInv
<1>13. CASE d.cycle = <<>>
  <2>1. OpenInv(d, size, edges)
    BY <1>10, <1>13 DEF SearchInv
  <2>2. Over(d)
    <3>1. SUFFICES ASSUME ~Over(d)
                   PROVE  FALSE
      OBVIOUS
    <3>2. Effort(d, size) \in Int /\ Effort(d, size) >= 1
      BY <1>11, <2>1, <3>1, EffortBound DEF OpenInv
    <3> QED BY <1>10, <3>1, <3>2
  <2>3. d.path = <<>> /\ d.root \notin Vertices(size) /\ d.root \in 0 .. size
    <3>1. d.order \in [Vertices(size) -> Int] /\ d.root \in 0 .. size
      BY <1>1, <1>11, SearchTypes
    <3> QED BY <1>13, <2>2, <3>1 DEF Over
  <2>4. d.root = size
    BY <1>1, <2>3 DEF Vertices
  <2>5. \A v \in Vertices(size) : v \in d.finished
    <3>1. \A v \in Vertices(size) : v \in Discovered(d, size)
      BY <2>1, <2>4 DEF OpenInv, OrderInv, Vertices
    <3>2. Len(d.path) = 0
      BY <2>3
    <3> QED BY <2>1, <3>1, <3>2 DEF OpenInv, OrderInv
  <2>6. d.finished = Vertices(size)
    BY <1>1, <1>11, <2>5, SearchTypes
  <2>7. CheckCycle(edges, size) = <<>>
    BY <1>3, <1>9, <1>13
  <2> QED BY <2>1, <2>6, <2>7 DEF OpenInv
<1> QED BY <1>12, <1>13

-----------------------------------------------------------------------------
(* The profiler.  The locks whose names LLockStack has.                    *)
LocksOf(t) ==
  CASE pc[t] = "run"     -> held[t]
    [] pc[t] = "wait"    -> Append(held[t], wants[t])
    [] pc[t] = "release" -> Front(held[t])

(* The guards: a thread owns what it holds, and holds what it owns.        *)
HoldInv ==
  /\ \A t \in Threads :
       /\ Len(held[t]) <= Depth
       /\ pc[t] = "wait" => wants[t] \in Locks /\ Len(held[t]) < Depth
       /\ pc[t] = "release" => held[t] # <<>>
       /\ \A i \in 1 .. Len(held[t]) : owner[held[t][i]] = t
  /\ \A l \in Locks :
       owner[l] # NoThread =>
         \E i \in 1 .. Len(held[owner[l]]) : held[owner[l]][i] = l

(* What is on a stack are ids, of the names of those locks.                *)
StackInv ==
  \A t \in Threads :
    /\ Len(stack[t]) = Len(LocksOf(t))
    /\ \A i \in 1 .. Len(stack[t]) :
         /\ stack[t][i] \in Vertices(Len(names))
         /\ names[stack[t][i] + 1] = Class[LocksOf(t)[i]]

(* The orders that were recorded are of ids that were given out, and those *)
(* on the stacks were recorded.                                            *)
HistoryInv ==
  /\ Graph(Len(names), history)
  /\ \A t \in Threads :
       \A i \in 2 .. Len(stack[t]) :
         stack[t][i - 1] # stack[t][i] =>
           <<stack[t][i - 1], stack[t][i]>> \in history

CrashInv ==
  /\ crash \in {"no", "DEADLOCK_DETECTED", "WRITE_LOCK_TIMEOUT"}
  /\ crash = "DEADLOCK_DETECTED" => IsCycle(report, history)
  /\ crash # "DEADLOCK_DETECTED" => ~HasCycle(history)

IInv == TypeOK /\ HoldInv /\ StackInv /\ HistoryInv /\ CrashInv

(* Names are given out once, and their ids stay.                           *)
LEMMA NamesFit ==
  ASSUME NEW seen \in Seq(Names), IsInjective(seen)
  PROVE  Len(seen) \in Nat /\ Vertices(Len(seen)) \subseteq Ids
<1>1. Len(seen) \in Nat /\ DOMAIN seen = 1 .. Len(seen)
  OBVIOUS
<1>2. IsFiniteSet(Names)
  <2> DEFINE name == [l \in Locks |-> Class[l]]
  <2>1. name \in Surjection(Locks, Names)
    BY DEF Surjection, Names
  <2> QED BY <2>1, ClassAssumption, FS_Surjection
<1>3. seen \in Injection(1 .. Len(seen), Names)
  BY <1>1 DEF Injection, IsInjective
<1>4. Cardinality(1 .. Len(seen)) <= Cardinality(Names)
  BY <1>2, <1>3, FS_Injection
<1>5. Cardinality(1 .. Len(seen)) = Len(seen)
  <2>1. PICK n \in Nat : n = Len(seen)
    BY <1>1
  <2>2. Cardinality(1 .. n) = IF 1 > n THEN 0 ELSE n - 1 + 1
    BY FS_Interval
  <2> QED BY <2>1, <2>2
<1>6. Cardinality(Names) \in Nat
  BY <1>2, FS_CardinalityType
<1> QED BY <1>1, <1>4, <1>5, <1>6 DEF Vertices, Ids

LEMMA IdOfName ==
  ASSUME NEW seen \in Seq(Names), IsInjective(seen),
         NEW k \in 1 .. Len(seen)
  PROVE  IdOf(seen, seen[k]) = k - 1
<1>1. DOMAIN seen = 1 .. Len(seen)
  OBVIOUS
<1>2. \A i \in DOMAIN seen : seen[i] = seen[k] => i = k
  BY <1>1 DEF IsInjective
<1>3. (CHOOSE i \in DOMAIN seen : seen[i] = seen[k]) = k
  BY <1>1, <1>2
<1> QED BY <1>3 DEF IdOf

LEMMA NamesGrow ==
  ASSUME names \in Seq(Names), IsInjective(names),
         NEW l \in Locks, NEW seen, seen = NamesWith(Class[l])
  PROVE  /\ seen \in Seq(Names) /\ IsInjective(seen)
         /\ Len(names) \in Nat /\ Len(seen) \in Nat /\ Len(names) <= Len(seen)
         /\ \A i \in 1 .. Len(names) : seen[i] = names[i]
         /\ IdOf(seen, Class[l]) \in Vertices(Len(seen))
         /\ seen[IdOf(seen, Class[l]) + 1] = Class[l]
<1>1. Class[l] \in Names /\ Len(names) \in Nat
  BY DEF Names
<1>2. /\ seen \in Seq(Names) /\ IsInjective(seen)
      /\ Len(seen) \in Nat /\ Len(names) <= Len(seen)
      /\ \A i \in 1 .. Len(names) : seen[i] = names[i]
      /\ \E k \in 1 .. Len(seen) : seen[k] = Class[l]
  <2>1. CASE Contains(names, Class[l])
    BY <1>1, <2>1 DEF NamesWith, Contains
  <2>2. CASE ~Contains(names, Class[l])
    <3>1. seen = Append(names, Class[l])
      BY <2>2 DEF NamesWith
    <3>2. PICK n \in Nat : n = Len(names)
      BY <1>1
    <3>3. /\ seen \in Seq(Names) /\ Len(seen) = n + 1
          /\ \A i \in 1 .. n : seen[i] = names[i]
          /\ seen[n + 1] = Class[l]
      BY <1>1, <3>1, <3>2, AppendProperties
    <3>4. \A i \in 1 .. n : names[i] # Class[l]
      BY <2>2, <3>2 DEF Contains
    <3>5. \A i, j \in 1 .. n : names[i] = names[j] => i = j
      BY <3>2 DEF IsInjective
    <3>6. \A i, j \in 1 .. n + 1 : seen[i] = seen[j] => i = j
      <4>1. \A i \in 1 .. n + 1 : i \in 1 .. n \/ i = n + 1
        OBVIOUS
      <4> QED BY <3>3, <3>4, <3>5, <4>1
    <3>7. IsInjective(seen)
      BY <3>3, <3>6 DEF IsInjective
    <3>8. n + 1 \in 1 .. Len(seen) /\ n <= Len(seen)
      BY <3>3
    <3> QED BY <3>2, <3>3, <3>7, <3>8
  <2> QED BY <2>1, <2>2
<1>3. PICK k \in 1 .. Len(seen) : seen[k] = Class[l]
  BY <1>2
<1>4. IdOf(seen, Class[l]) = k - 1
  BY <1>2, <1>3, IdOfName
<1>5. k - 1 \in Vertices(Len(seen)) /\ (k - 1) + 1 = k
  BY <1>2 DEF Vertices
<1> QED BY <1>1, <1>2, <1>3, <1>4, <1>5

(* The reference definition, and what the search says.                     *)
LEMMA CycleIsCycle ==
  ASSUME NEW c \in Seq(Ids), NEW edges, IsCycle(c, edges)
  PROVE  HasCycle(edges)
<1>1. PICK n \in Nat : n = Len(c)
  OBVIOUS
<1>2. /\ n >= 3 /\ c[1] = c[n]
      /\ \A i \in 1 .. n - 1 : <<c[i], c[i + 1]>> \in edges
  BY <1>1 DEF IsCycle, Last
<1> DEFINE S == {c[i] : i \in 1 .. n}
<1>3. S \in SUBSET Ids /\ S # {}
  <2>1. 1 \in 1 .. n
    BY <1>2
  <2> QED BY <1>1, <2>1
<1>4. ASSUME NEW x \in S
      PROVE  \E y \in S : <<x, y>> \in edges
  <2>1. PICK i \in 1 .. n : x = c[i]
    OBVIOUS
  <2>2. CASE i # n
    <3>1. i \in 1 .. n - 1 /\ i + 1 \in 1 .. n
      BY <2>2
    <3> QED BY <1>2, <2>1, <3>1
  <2>3. CASE i = n
    <3>1. 1 \in 1 .. n - 1 /\ 1 + 1 \in 1 .. n
      BY <1>2
    <3> QED BY <1>2, <2>1, <2>3, <3>1
  <2> QED BY <2>2, <2>3
<1> HIDE DEF S
<1> QED BY <1>3, <1>4 DEF HasCycle

LEMMA AcyclicHasNone ==
  ASSUME NEW V, NEW edges \in SUBSET (V \X V), Acyclic(V, edges)
  PROVE  ~HasCycle(edges)
<1>1. SUFFICES ASSUME NEW S \in (SUBSET Ids) \ {{}},
                      \A x \in S : \E y \in S : <<x, y>> \in edges
               PROVE  FALSE
  BY DEF HasCycle
<1>2. S \in (SUBSET V) \ {{}}
  BY <1>1
<1> QED BY <1>1, <1>2 DEF Acyclic

LEMMA LocksTypes ==
  ASSUME TypeOK, HoldInv, NEW t \in Threads
  PROVE  /\ LocksOf(t) \in Seq(Locks) /\ held[t] \in Seq(Locks)
         /\ stack[t] \in Seq(Ids)
         /\ Len(held[t]) \in Nat /\ Len(stack[t]) \in Nat
         /\ Len(LocksOf(t)) \in Nat
<1>1. /\ held[t] \in Seq(Locks) /\ stack[t] \in Seq(Ids)
      /\ pc[t] \in {"run", "wait", "release"}
  BY DEF TypeOK
<1>2. PICK h \in Seq(Locks) : h = held[t]
  BY <1>1
<1>3. LocksOf(t) \in Seq(Locks)
  <2>1. CASE pc[t] = "run"
    BY <1>1, <2>1 DEF LocksOf
  <2>2. CASE pc[t] = "wait"
    <3>1. wants[t] \in Locks
      BY <2>2 DEF HoldInv
    <3>2. LocksOf(t) = Append(h, wants[t])
      BY <1>2, <2>2 DEF LocksOf
    <3> QED BY <3>1, <3>2, AppendProperties
  <2>3. CASE pc[t] = "release"
    <3>1. h # <<>>
      BY <1>2, <2>3 DEF HoldInv
    <3>2. LocksOf(t) = Front(h)
      BY <1>2, <2>3 DEF LocksOf
    <3> QED BY <3>1, <3>2, LastOf
  <2> QED BY <1>1, <2>1, <2>2, <2>3
<1> QED BY <1>1, <1>3, LenProperties

-----------------------------------------------------------------------------
LEMMA Initially == Init => IInv
<1> SUFFICES ASSUME Init
             PROVE  IInv
  OBVIOUS
<1>1. TypeOK
  <2>1. /\ \A S : <<>> \in Seq(S) /\ Len(<<>>) = 0
        /\ IsInjective(<<>>)
    BY DEF IsInjective
  <2> QED BY <2>1, DepthAssumption DEF Init, TypeOK
<1>2. HoldInv
  BY DepthAssumption, NoneAssumption DEF Init, HoldInv
<1>3. StackInv
  BY DEF Init, StackInv, LocksOf
<1>4. HistoryInv
  BY DEF Init, HistoryInv, Graph
<1>5. CrashInv
  BY DEF Init, CrashInv, HasCycle
<1> QED BY <1>1, <1>2, <1>3, <1>4, <1>5 DEF IInv

LEMMA PushKeeps ==
  ASSUME IInv, NEW t \in Threads, NEW l \in Locks, PushLock(t, l)
  PROVE  IInv'
<1>1. TypeOK /\ HoldInv /\ StackInv /\ HistoryInv /\ CrashInv
  BY DEF IInv
<1>2. PICK seen : seen = NamesWith(Class[l])
  OBVIOUS
<1>3. PICK id : id = IdOf(seen, Class[l])
  OBVIOUS
<1>4. PICK new : new = NewEdges(t, id)
  OBVIOUS
<1>5. /\ crash = "no" /\ pc[t] = "run" /\ Len(held[t]) < Depth
      /\ names' = seen /\ history' = history \cup new
      /\ report' = IF new = {} THEN <<>> ELSE CheckCycle(history', Len(seen))
      /\ IF report' # <<>>
         THEN /\ crash' = "DEADLOCK_DETECTED"
              /\ UNCHANGED <<stack, wants, pc>>
         ELSE /\ stack' = [stack EXCEPT ![t] = Append(@, id)]
              /\ wants' = [wants EXCEPT ![t] = l]
              /\ pc' = [pc EXCEPT ![t] = "wait"]
              /\ UNCHANGED crash
      /\ held' = held /\ owner' = owner
  BY <1>2, <1>3, <1>4 DEF PushLock
<1>6. /\ seen \in Seq(Names) /\ IsInjective(seen)
      /\ Len(names) \in Nat /\ Len(seen) \in Nat /\ Len(names) <= Len(seen)
      /\ \A i \in 1 .. Len(names) : seen[i] = names[i]
      /\ id \in Vertices(Len(seen)) /\ seen[id + 1] = Class[l]
  BY <1>1, <1>2, <1>3, NamesGrow DEF TypeOK
<1>7. /\ Vertices(Len(seen)) \subseteq Ids
      /\ Vertices(Len(names)) \subseteq Vertices(Len(seen))
  BY <1>6, NamesFit DEF Vertices
<1>8. /\ stack[t] \in Seq(Ids) /\ held[t] \in Seq(Locks)
      /\ Len(stack[t]) \in Nat /\ Len(stack[t]) = Len(held[t])
      /\ LocksOf(t) = held[t]
  <2>1. LocksOf(t) = held[t]
    BY <1>5 DEF LocksOf
  <2> QED BY <1>1, <2>1, LocksTypes DEF StackInv
<1>9. PICK s \in Seq(Ids) : s = stack[t]
  BY <1>8
<1>10. PICK n \in Nat : n = Len(s)
  BY <1>8, <1>9
<1>11. s # <<>> => n >= 1 /\ PrevId(t) = s[n] /\ s[n] \in Vertices(Len(names))
  <2> SUFFICES ASSUME s # <<>>
               PROVE  n >= 1 /\ PrevId(t) = s[n]
                        /\ s[n] \in Vertices(Len(names))
    OBVIOUS
  <2>1. n >= 1
    BY <1>10, EmptySeq
  <2>2. PrevId(t) = s[n]
    BY <1>9, <1>10 DEF PrevId, Last
  <2>3. n \in 1 .. Len(stack[t])
    BY <1>9, <1>10, <2>1
  <2> QED BY <1>1, <1>9, <2>1, <2>2, <2>3 DEF StackInv
<1>12. \A e \in new : s # <<>> /\ id # s[n] /\ e = <<s[n], id>>
  BY <1>4, <1>9, <1>11 DEF NewEdges
<1>13. Graph(Len(seen), history')
  <2>1. /\ history \subseteq Vertices(Len(names)) \X Vertices(Len(names))
        /\ \A v \in Vertices(Len(names)) : <<v, v>> \notin history
    BY <1>1 DEF HistoryInv, Graph
  <2>2. history' \subseteq Vertices(Len(seen)) \X Vertices(Len(seen))
    BY <1>5, <1>6, <1>7, <1>11, <1>12, <2>1
  <2>3. \A v \in Vertices(Len(seen)) : <<v, v>> \notin history'
    BY <1>5, <1>12, <2>1
  <2> QED BY <1>6, <2>2, <2>3 DEF Graph
<1>14. PICK c : c = CheckCycle(history', Len(seen))
  OBVIOUS
<1>15. /\ c \in Seq(Vertices(Len(seen)))
       /\ IF c # <<>> THEN IsCycle(c, history')
                      ELSE Acyclic(Vertices(Len(seen)), history')
  BY <1>13, <1>14, CheckCycleFinds
<1>16. report' \in Seq(Ids)
  <2>1. Seq(Vertices(Len(seen))) \subseteq Seq(Ids)
    BY <1>7
  <2> QED BY <1>5, <1>14, <1>15, <2>1
<1>17. history' \subseteq Ids \X Ids
  BY <1>7, <1>13 DEF Graph
<1>18. ASSUME NEW u \in Threads, NEW i \in 1 .. Len(stack[u])
       PROVE  /\ stack[u][i] \in Vertices(Len(seen))
              /\ seen[stack[u][i] + 1] = Class[LocksOf(u)[i]]
  <2>1. /\ stack[u][i] \in Vertices(Len(names))
        /\ names[stack[u][i] + 1] = Class[LocksOf(u)[i]]
    BY <1>1 DEF StackInv
  <2>2. stack[u][i] + 1 \in 1 .. Len(names)
    BY <1>6, <2>1 DEF Vertices
  <2> QED BY <1>6, <1>7, <2>1, <2>2
<1>19. CASE report' # <<>>
  <2>1. /\ crash' = "DEADLOCK_DETECTED" /\ stack' = stack /\ wants' = wants
        /\ pc' = pc
    BY <1>5, <1>19
  <2>2. TypeOK'
    BY <1>1, <1>5, <1>6, <1>16, <1>17, <2>1 DEF TypeOK
  <2>3. HoldInv'
    BY <1>1, <1>5, <2>1 DEF HoldInv
  <2>4. \A u \in Threads : LocksOf(u)' = LocksOf(u)
    BY <1>5, <2>1 DEF LocksOf
  <2>5. StackInv'
    BY <1>1, <1>5, <1>18, <2>1, <2>4 DEF StackInv
  <2>6. HistoryInv'
    BY <1>1, <1>5, <1>13, <2>1 DEF HistoryInv
  <2>7. CrashInv'
    <3>1. report' = c /\ c # <<>>
      BY <1>5, <1>14, <1>19
    <3> QED BY <1>15, <2>1, <3>1 DEF CrashInv
  <2> QED BY <2>2, <2>3, <2>5, <2>6, <2>7 DEF IInv
<1>20. CASE report' = <<>>
  <2>1. /\ stack' = [stack EXCEPT ![t] = Append(stack[t], id)]
        /\ wants' = [wants EXCEPT ![t] = l]
        /\ pc' = [pc EXCEPT ![t] = "wait"]
        /\ crash' = "no"
    BY <1>5, <1>20
  <2>2. PICK longer : longer = Append(s, id)
    OBVIOUS
  <2>3. /\ longer \in Seq(Ids) /\ Len(longer) = n + 1
        /\ longer[n + 1] = id
        /\ \A i \in 1 .. n : longer[i] = s[i]
    BY <1>6, <1>7, <1>10, <2>2, AppendProperties
  <2>4. /\ stack'[t] = longer /\ wants'[t] = l /\ pc'[t] = "wait"
        /\ \A u \in Threads : u # t =>
             stack'[u] = stack[u] /\ wants'[u] = wants[u] /\ pc'[u] = pc[u]
    BY <1>1, <1>9, <2>1, <2>2 DEF TypeOK
  <2>5. TypeOK'
    <3>1. stack' \in [Threads -> Seq(Ids)]
      BY <1>1, <1>9, <2>1, <2>2, <2>3 DEF TypeOK
    <3>2. wants' \in [Threads -> Locks \cup {NoLock}]
      BY <1>1, <2>1 DEF TypeOK
    <3>3. pc' \in [Threads -> {"run", "wait", "release"}]
      BY <1>1, <2>1 DEF TypeOK
    <3>4. ASSUME NEW u \in Threads
          PROVE  Len(stack'[u]) <= Depth
      <4>1. CASE u = t
        BY <1>5, <1>8, <1>9, <1>10, <2>3, <2>4, <4>1, DepthAssumption
      <4>2. CASE u # t
        BY <1>1, <2>4, <4>2 DEF TypeOK
      <4> QED BY <4>1, <4>2
    <3> QED BY <1>1, <1>5, <1>6, <1>16, <1>17, <2>1, <3>1, <3>2, <3>3, <3>4
            DEF TypeOK
  <2>6. HoldInv'
    <3>1. \A u \in Threads :
            pc'[u] = "wait" => wants'[u] \in Locks /\ Len(held[u]) < Depth
      BY <1>1, <1>5, <2>4 DEF HoldInv
    <3>2. \A u \in Threads : pc'[u] = "release" => held[u] # <<>>
      BY <1>1, <2>4 DEF HoldInv
    <3> QED BY <1>1, <1>5, <3>1, <3>2 DEF HoldInv
  <2>7. \A u \in Threads : u # t => LocksOf(u)' = LocksOf(u)
    BY <1>5, <2>4 DEF LocksOf
  <2>8. PICK h \in Seq(Locks) : h = held[t]
    BY <1>8
  <2>9. /\ Len(LocksOf(t)') = n + 1 /\ LocksOf(t)'[n + 1] = l
        /\ \A i \in 1 .. n : LocksOf(t)'[i] = LocksOf(t)[i]
    <3>1. LocksOf(t)' = Append(h, l)
      BY <1>5, <2>4, <2>8 DEF LocksOf
    <3>2. Len(h) = n
      BY <1>8, <1>9, <1>10, <2>8
    <3>3. /\ Len(Append(h, l)) = n + 1 /\ Append(h, l)[n + 1] = l
          /\ \A i \in 1 .. n : Append(h, l)[i] = h[i]
      BY <3>2, AppendProperties
    <3> QED BY <1>8, <2>8, <3>1, <3>3
  <2>10. StackInv'
    <3>1. ASSUME NEW u \in Threads
          PROVE  /\ Len(stack'[u]) = Len(LocksOf(u)')
                 /\ \A i \in 1 .. Len(stack'[u]) :
                      /\ stack'[u][i] \in Vertices(Len(seen))
                      /\ seen[stack'[u][i] + 1] = Class[LocksOf(u)'[i]]
      <4>1. CASE u # t
        BY <1>1, <1>18, <2>4, <2>7, <4>1 DEF StackInv
      <4>2. CASE u = t
        <5>1. Len(longer) = Len(LocksOf(t)')
          BY <2>3, <2>9
        <5>2. ASSUME NEW i \in 1 .. n + 1
              PROVE  /\ longer[i] \in Vertices(Len(seen))
                     /\ seen[longer[i] + 1] = Class[LocksOf(t)'[i]]
          <6>1. CASE i = n + 1
            BY <1>6, <2>3, <2>9, <6>1
          <6>2. CASE i \in 1 .. n
            <7>1. i \in 1 .. Len(stack[t])
              BY <1>9, <1>10, <6>2
            <7>2. /\ s[i] \in Vertices(Len(seen))
                  /\ seen[s[i] + 1] = Class[LocksOf(t)[i]]
              BY <1>9, <1>18, <7>1
            <7>3. longer[i] = s[i] /\ LocksOf(t)'[i] = LocksOf(t)[i]
              BY <2>3, <2>9, <6>2
            <7> QED BY <7>2, <7>3
          <6> QED BY <6>1, <6>2
        <5> QED BY <2>3, <2>4, <4>2, <5>1, <5>2
      <4> QED BY <4>1, <4>2
    <3> QED BY <1>5, <3>1 DEF StackInv
  <2>11. HistoryInv'
    <3>1. ASSUME NEW u \in Threads, NEW i \in 2 .. Len(stack'[u]),
                 stack'[u][i - 1] # stack'[u][i]
          PROVE  <<stack'[u][i - 1], stack'[u][i]>> \in history'
      <4>1. CASE u # t
        BY <1>1, <1>5, <2>4, <3>1, <4>1 DEF HistoryInv
      <4>2. CASE u = t /\ i \in 2 .. n
        <5>1. /\ i \in 2 .. Len(stack[t]) /\ i \in 1 .. n /\ i - 1 \in 1 .. n
          BY <1>9, <1>10, <4>2
        <5> QED BY <1>1, <1>5, <1>9, <2>3, <2>4, <3>1, <4>2, <5>1
                DEF HistoryInv
      <4>3. CASE u = t /\ i = n + 1
        <5>1. i - 1 = n /\ n \in 1 .. n /\ s # <<>>
          BY <1>10, <2>3, <2>4, <3>1, <4>3
        <5>2. longer[i - 1] = s[n] /\ longer[i] = id /\ id # s[n]
          BY <2>3, <2>4, <3>1, <4>3, <5>1
        <5>3. <<s[n], id>> \in history \cup NewEdges(t, id)
          BY <1>9, <1>11, <5>1, <5>2 DEF NewEdges
        <5> QED BY <1>4, <1>5, <2>4, <4>3, <5>2, <5>3
      <4>4. u # t \/ (u = t /\ i \in 2 .. n) \/ (u = t /\ i = n + 1)
        BY <2>3, <2>4, <3>1
      <4> QED BY <4>1, <4>2, <4>3, <4>4
    <3> QED BY <1>5, <1>13, <3>1 DEF HistoryInv
  <2>12. CrashInv'
    <3>1. CASE new = {}
      BY <1>1, <1>5, <2>1, <3>1 DEF CrashInv
    <3>2. CASE new # {}
      <4>1. c = <<>>
        BY <1>5, <1>14, <1>20, <3>2
      <4>2. ~HasCycle(history')
        BY <1>13, <1>15, <4>1, AcyclicHasNone DEF Graph
      <4> QED BY <2>1, <4>2 DEF CrashInv
    <3> QED BY <3>1, <3>2
  <2> QED BY <2>5, <2>6, <2>10, <2>11, <2>12 DEF IInv
<1> QED BY <1>19, <1>20

LEMMA AcquireKeeps ==
  ASSUME IInv, NEW t \in Threads, Acquire(t)
  PROVE  IInv'
<1>1. TypeOK /\ HoldInv /\ StackInv /\ HistoryInv /\ CrashInv
  BY DEF IInv
<1>2. PICK l \in Locks : l = wants[t]
  BY <1>1 DEF Acquire, HoldInv
<1>3. /\ pc[t] = "wait" /\ owner[l] \in {NoThread, t}
      /\ owner' = [owner EXCEPT ![l] = t]
      /\ held' = [held EXCEPT ![t] = Append(held[t], l)]
      /\ wants' = [wants EXCEPT ![t] = NoLock]
      /\ pc' = [pc EXCEPT ![t] = "run"]
      /\ names' = names /\ history' = history /\ stack' = stack
      /\ crash' = crash /\ report' = report
  BY <1>2 DEF Acquire
<1>4. PICK h \in Seq(Locks) : h = held[t]
  BY <1>1 DEF TypeOK
<1>5. PICK n \in Nat : n = Len(h) /\ n < Depth
  BY <1>1, <1>3, <1>4 DEF HoldInv
<1>6. PICK longer : longer = Append(h, l)
  OBVIOUS
<1>7. /\ longer \in Seq(Locks) /\ Len(longer) = n + 1 /\ longer[n + 1] = l
      /\ \A i \in 1 .. n : longer[i] = h[i]
  BY <1>5, <1>6, AppendProperties
<1>8. /\ held'[t] = longer /\ pc'[t] = "run" /\ owner'[l] = t
      /\ \A u \in Threads : u # t =>
           held'[u] = held[u] /\ wants'[u] = wants[u] /\ pc'[u] = pc[u]
      /\ \A m \in Locks : m # l => owner'[m] = owner[m]
  BY <1>1, <1>3, <1>4, <1>6 DEF TypeOK
<1>9. TypeOK'
  <2>1. /\ held' \in [Threads -> Seq(Locks)]
        /\ owner' \in [Locks -> Threads \cup {NoThread}]
        /\ wants' \in [Threads -> Locks \cup {NoLock}]
        /\ pc' \in [Threads -> {"run", "wait", "release"}]
    BY <1>1, <1>3, <1>4, <1>6, <1>7 DEF TypeOK
  <2> QED BY <1>1, <1>3, <2>1 DEF TypeOK
<1>10. HoldInv'
  <2>1. ASSUME NEW u \in Threads
        PROVE  /\ Len(held'[u]) <= Depth
               /\ pc'[u] = "wait" =>
                    wants'[u] \in Locks /\ Len(held'[u]) < Depth
               /\ pc'[u] = "release" => held'[u] # <<>>
               /\ \A i \in 1 .. Len(held'[u]) : owner'[held'[u][i]] = u
    <3>1. CASE u = t
      <4>1. Len(held'[u]) <= Depth
        BY <1>5, <1>7, <1>8, <3>1, DepthAssumption
      <4>2. ASSUME NEW i \in 1 .. n + 1
            PROVE  owner'[longer[i]] = t
        <5>1. CASE i = n + 1
          BY <1>7, <1>8, <5>1
        <5>2. CASE i \in 1 .. n
          <6>1. longer[i] = h[i] /\ h[i] \in Locks /\ owner[h[i]] = t
            BY <1>1, <1>4, <1>5, <1>7, <5>2 DEF HoldInv
          <6> QED BY <1>8, <6>1
        <5> QED BY <5>1, <5>2
      <4> QED BY <1>7, <1>8, <3>1, <4>1, <4>2
    <3>2. CASE u # t
      <4>1. held[u] \in Seq(Locks)
        BY <1>1 DEF TypeOK
      <4>2. ASSUME NEW i \in 1 .. Len(held[u])
            PROVE  owner'[held[u][i]] = u
        <5>1. held[u][i] \in Locks /\ owner[held[u][i]] = u
          BY <1>1, <4>1 DEF HoldInv
        <5>2. held[u][i] # l
          BY <1>3, <3>2, <5>1, NoneAssumption
        <5> QED BY <1>8, <5>1, <5>2
      <4> QED BY <1>1, <1>8, <3>2, <4>2 DEF HoldInv
    <3> QED BY <3>1, <3>2
  <2>2. ASSUME NEW m \in Locks, owner'[m] # NoThread
        PROVE  \E i \in 1 .. Len(held'[owner'[m]]) : held'[owner'[m]][i] = m
    <3>1. CASE m = l
      <4>1. n + 1 \in 1 .. Len(longer)
        BY <1>7
      <4> QED BY <1>7, <1>8, <3>1, <4>1
    <3>2. CASE m # l
      <4>1. /\ owner'[m] = owner[m] /\ owner[m] \in Threads
            /\ \E i \in 1 .. Len(held[owner[m]]) : held[owner[m]][i] = m
        BY <1>1, <1>8, <2>2, <3>2 DEF HoldInv, TypeOK
      <4>2. CASE owner[m] = t
        <5>1. PICK i \in 1 .. n : h[i] = m
          BY <1>4, <1>5, <4>1, <4>2
        <5>2. i \in 1 .. Len(longer)
          BY <1>7
        <5> QED BY <1>7, <1>8, <4>1, <4>2, <5>1, <5>2
      <4>3. CASE owner[m] # t
        BY <1>8, <4>1, <4>3
      <4> QED BY <4>2, <4>3
    <3> QED BY <3>1, <3>2
  <2> QED BY <2>1, <2>2 DEF HoldInv
<1>11. ASSUME NEW u \in Threads
       PROVE  LocksOf(u)' = LocksOf(u)
  <2>1. CASE u = t
    <3>1. LocksOf(u) = longer
      BY <1>2, <1>3, <1>4, <1>6, <2>1 DEF LocksOf
    <3>2. LocksOf(u)' = longer
      BY <1>8, <2>1 DEF LocksOf
    <3> QED BY <3>1, <3>2
  <2>2. CASE u # t
    BY <1>8, <2>2 DEF LocksOf
  <2> QED BY <2>1, <2>2
<1>12. StackInv'
  BY <1>1, <1>3, <1>11 DEF StackInv
<1>13. HistoryInv'
  BY <1>1, <1>3 DEF HistoryInv
<1>14. CrashInv'
  BY <1>1, <1>3 DEF CrashInv
<1> QED BY <1>9, <1>10, <1>12, <1>13, <1>14 DEF IInv

(* The crashes of PopLock are out of reach: what is on top of the stack is *)
(* the id of the innermost lock.                                           *)
LEMMA TopIsInnermost ==
  ASSUME IInv, NEW t \in Threads, pc[t] = "run", held[t] # <<>>
  PROVE  stack[t] # <<>> /\ Last(stack[t]) = IdOf(names, Class[Last(held[t])])
<1>1. TypeOK /\ HoldInv /\ StackInv
  BY DEF IInv
<1>2. LocksOf(t) = held[t]
  BY DEF LocksOf
<1>3. PICK h \in Seq(Locks) : h = held[t]
  BY <1>1 DEF TypeOK
<1>4. PICK s \in Seq(Ids) : s = stack[t]
  BY <1>1 DEF TypeOK
<1>5. PICK n \in Nat : n = Len(h) /\ n >= 1 /\ Last(h) = h[n]
  BY <1>3, LastOf
<1>6. Len(s) = n /\ n \in 1 .. Len(s)
  BY <1>1, <1>2, <1>3, <1>4, <1>5 DEF StackInv
<1>7. s[n] \in Vertices(Len(names)) /\ names[s[n] + 1] = Class[h[n]]
  BY <1>1, <1>2, <1>3, <1>4, <1>6 DEF StackInv
<1>8. s # <<>> /\ Last(s) = s[n]
  BY <1>5, <1>6, LastOf DEF Last
<1>9. IdOf(names, Class[h[n]]) = s[n]
  <2>1. names \in Seq(Names) /\ IsInjective(names) /\ Len(names) \in Nat
    BY <1>1 DEF TypeOK
  <2>2. s[n] + 1 \in 1 .. Len(names) /\ (s[n] + 1) - 1 = s[n]
    BY <1>7, <2>1 DEF Vertices
  <2>3. IdOf(names, names[s[n] + 1]) = (s[n] + 1) - 1
    BY <2>1, <2>2, IdOfName
  <2> QED BY <1>7, <2>2, <2>3
<1> QED BY <1>3, <1>4, <1>5, <1>8, <1>9

LEMMA PopKeeps ==
  ASSUME IInv, NEW t \in Threads, PopLock(t)
  PROVE  IInv'
<1>1. TypeOK /\ HoldInv /\ StackInv /\ HistoryInv /\ CrashInv
  BY DEF IInv
<1>2. pc[t] = "run" /\ held[t] # <<>>
  BY DEF PopLock
<1>3. stack[t] # <<>> /\ Last(stack[t]) = IdOf(names, Class[Last(held[t])])
  BY <1>2, TopIsInnermost
<1>4. /\ stack' = [stack EXCEPT ![t] = Front(stack[t])]
      /\ pc' = [pc EXCEPT ![t] = "release"]
      /\ crash' = crash /\ names' = names /\ history' = history
      /\ held' = held /\ owner' = owner /\ wants' = wants /\ report' = report
  BY <1>3 DEF PopLock, Popped
<1>5. PICK s \in Seq(Ids) : s = stack[t]
  BY <1>1 DEF TypeOK
<1>6. PICK h \in Seq(Locks) : h = held[t]
  BY <1>1 DEF TypeOK
<1>7. LocksOf(t) = h
  BY <1>2, <1>6 DEF LocksOf
<1>8. PICK n \in Nat : n = Len(h)
  BY <1>6
<1>9. PICK front : front = Front(s)
  OBVIOUS
<1>10. /\ Len(s) = n /\ n >= 1 /\ front \in Seq(Ids) /\ Len(front) = n - 1
       /\ \A i \in 1 .. n - 1 : front[i] = s[i]
  <2>1. Len(s) = n
    BY <1>1, <1>5, <1>7, <1>8 DEF StackInv
  <2>2. /\ Len(s) >= 1 /\ Front(s) \in Seq(Ids) /\ Len(Front(s)) = Len(s) - 1
        /\ \A i \in 1 .. Len(s) - 1 : Front(s)[i] = s[i]
    BY <1>3, <1>5, LastOf
  <2> QED BY <1>9, <2>1, <2>2
<1>11. Len(Front(h)) = n - 1 /\ \A i \in 1 .. n - 1 : Front(h)[i] = h[i]
  BY <1>2, <1>6, <1>8, LastOf
<1>12. /\ stack'[t] = front /\ pc'[t] = "release"
       /\ \A u \in Threads : u # t => stack'[u] = stack[u] /\ pc'[u] = pc[u]
  BY <1>1, <1>4, <1>5, <1>9 DEF TypeOK
<1>13. TypeOK'
  <2>1. /\ stack' \in [Threads -> Seq(Ids)]
        /\ pc' \in [Threads -> {"run", "wait", "release"}]
    BY <1>1, <1>4, <1>5, <1>9, <1>10 DEF TypeOK
  <2>2. ASSUME NEW u \in Threads
        PROVE  Len(stack'[u]) <= Depth
    <3>1. CASE u = t
      <4>1. Len(s) <= Depth
        BY <1>1, <1>5 DEF TypeOK
      <4> QED BY <1>10, <1>12, <3>1, <4>1, DepthAssumption
    <3>2. CASE u # t
      BY <1>1, <1>12, <3>2 DEF TypeOK
    <3> QED BY <3>1, <3>2
  <2> QED BY <1>1, <1>4, <2>1, <2>2 DEF TypeOK
<1>14. HoldInv'
  <2>1. \A u \in Threads :
          /\ pc'[u] = "wait" => pc[u] = "wait"
          /\ pc'[u] = "release" => held[u] # <<>>
    BY <1>1, <1>2, <1>12 DEF HoldInv
  <2> QED BY <1>1, <1>4, <2>1 DEF HoldInv
<1>15. LocksOf(t)' = Front(h)
  BY <1>4, <1>6, <1>12 DEF LocksOf
<1>16. \A u \in Threads : u # t => LocksOf(u)' = LocksOf(u)
  BY <1>4, <1>12 DEF LocksOf
<1>17. StackInv'
  <2>1. ASSUME NEW u \in Threads
        PROVE  /\ Len(stack'[u]) = Len(LocksOf(u)')
               /\ \A i \in 1 .. Len(stack'[u]) :
                    /\ stack'[u][i] \in Vertices(Len(names))
                    /\ names[stack'[u][i] + 1] = Class[LocksOf(u)'[i]]
    <3>1. CASE u = t
      <4>1. \A i \in 1 .. n - 1 : i \in 1 .. Len(stack[t])
        BY <1>5, <1>10
      <4>2. \A i \in 1 .. n - 1 : /\ s[i] \in Vertices(Len(names))
                                  /\ names[s[i] + 1] = Class[h[i]]
        BY <1>1, <1>5, <1>7, <4>1 DEF StackInv
      <4> QED BY <1>10, <1>11, <1>12, <1>15, <3>1, <4>2
    <3>2. CASE u # t
      BY <1>1, <1>12, <1>16, <3>2 DEF StackInv
    <3> QED BY <3>1, <3>2
  <2> QED BY <1>4, <2>1 DEF StackInv
<1>18. HistoryInv'
  <2>1. ASSUME NEW u \in Threads, NEW i \in 2 .. Len(stack'[u]),
               stack'[u][i - 1] # stack'[u][i]
        PROVE  <<stack'[u][i - 1], stack'[u][i]>> \in history
    <3>1. CASE u = t
      <4>1. /\ i \in 2 .. Len(stack[t]) /\ i \in 1 .. n - 1
            /\ i - 1 \in 1 .. n - 1
        BY <1>5, <1>10, <1>12, <2>1, <3>1
      <4> QED BY <1>1, <1>5, <1>10, <1>12, <2>1, <3>1, <4>1 DEF HistoryInv
    <3>2. CASE u # t
      BY <1>1, <1>12, <2>1, <3>2 DEF HistoryInv
    <3> QED BY <3>1, <3>2
  <2> QED BY <1>1, <1>4, <2>1 DEF HistoryInv
<1>19. CrashInv'
  BY <1>1, <1>4 DEF CrashInv
<1> QED BY <1>13, <1>14, <1>17, <1>18, <1>19 DEF IInv

LEMMA ReleaseKeeps ==
  ASSUME IInv, NEW t \in Threads, Release(t)
  PROVE  IInv'
<1>1. TypeOK /\ HoldInv /\ StackInv /\ HistoryInv /\ CrashInv
  BY DEF IInv
<1>2. PICK h \in Seq(Locks) : h = held[t] /\ h # <<>>
  BY <1>1 DEF TypeOK, HoldInv, Release
<1>3. PICK front : front = Front(h)
  OBVIOUS
<1>4. PICK l : l = Last(h)
  OBVIOUS
<1>5. PICK n \in Nat : n = Len(h)
  BY <1>2
<1>6. /\ n >= 1 /\ l = h[n] /\ l \in Locks
      /\ front \in Seq(Locks) /\ Len(front) = n - 1
      /\ \A i \in 1 .. n - 1 : front[i] = h[i]
  BY <1>2, <1>3, <1>4, <1>5, LastOf
<1>7. /\ pc[t] = "release"
      /\ held' = [held EXCEPT ![t] = front]
      /\ owner' = [m \in Locks |->
                     IF m = l /\ ~Contains(front, m) THEN NoThread
                     ELSE owner[m]]
      /\ pc' = [pc EXCEPT ![t] = "run"]
      /\ names' = names /\ history' = history /\ stack' = stack
      /\ wants' = wants /\ crash' = crash /\ report' = report
  BY <1>2, <1>3, <1>4 DEF Release
<1>8. /\ held'[t] = front /\ pc'[t] = "run"
      /\ \A u \in Threads : u # t => held'[u] = held[u] /\ pc'[u] = pc[u]
  BY <1>1, <1>7 DEF TypeOK
<1>9. owner[l] = t
  <2>1. n \in 1 .. Len(held[t])
    BY <1>2, <1>5, <1>6
  <2> QED BY <1>1, <1>2, <1>6, <2>1 DEF HoldInv
<1>10. TypeOK'
  <2>1. /\ held' \in [Threads -> Seq(Locks)]
        /\ owner' \in [Locks -> Threads \cup {NoThread}]
        /\ pc' \in [Threads -> {"run", "wait", "release"}]
    BY <1>1, <1>6, <1>7 DEF TypeOK
  <2> QED BY <1>1, <1>7, <2>1 DEF TypeOK
<1>11. HoldInv'
  <2>1. ASSUME NEW u \in Threads
        PROVE  /\ Len(held'[u]) <= Depth
               /\ pc'[u] = "wait" =>
                    wants'[u] \in Locks /\ Len(held'[u]) < Depth
               /\ pc'[u] = "release" => held'[u] # <<>>
               /\ \A i \in 1 .. Len(held'[u]) : owner'[held'[u][i]] = u
    <3>1. CASE u = t
      <4>1. Len(h) <= Depth
        BY <1>1, <1>2 DEF HoldInv
      <4>2. ASSUME NEW i \in 1 .. n - 1
            PROVE  owner'[front[i]] = t
        <5>1. i \in 1 .. Len(held[t]) /\ i \in 1 .. Len(front)
          BY <1>2, <1>5, <1>6
        <5>2. owner[h[i]] = t /\ front[i] = h[i] /\ front[i] \in Locks
          BY <1>1, <1>2, <1>6, <5>1 DEF HoldInv
        <5>3. Contains(front, front[i])
          BY <5>1 DEF Contains
        <5> QED BY <1>7, <5>2, <5>3
      <4> QED BY <1>5, <1>6, <1>8, <3>1, <4>1, <4>2, DepthAssumption
    <3>2. CASE u # t
      <4>1. held[u] \in Seq(Locks)
        BY <1>1 DEF TypeOK
      <4>2. ASSUME NEW i \in 1 .. Len(held[u])
            PROVE  owner'[held[u][i]] = u
        <5>1. held[u][i] \in Locks /\ owner[held[u][i]] = u
          BY <1>1, <4>1 DEF HoldInv
        <5>2. held[u][i] # l
          BY <1>9, <3>2, <5>1
        <5> QED BY <1>7, <5>1, <5>2
      <4> QED BY <1>1, <1>7, <1>8, <3>2, <4>2 DEF HoldInv
    <3> QED BY <3>1, <3>2
  <2>2. ASSUME NEW m \in Locks, owner'[m] # NoThread
        PROVE  \E i \in 1 .. Len(held'[owner'[m]]) : held'[owner'[m]][i] = m
    <3>1. /\ owner'[m] = owner[m] /\ ~(m = l /\ ~Contains(front, m))
          /\ owner[m] \in Threads
      BY <1>1, <1>7, <2>2 DEF TypeOK
    <3>2. PICK i \in 1 .. Len(held[owner[m]]) : held[owner[m]][i] = m
      BY <1>1, <2>2, <3>1 DEF HoldInv
    <3>3. CASE owner[m] = t
      <4>1. \E j \in 1 .. n - 1 : front[j] = m
        <5>1. CASE Contains(front, m)
          BY <1>6, <5>1 DEF Contains
        <5>2. CASE m # l
          <6>1. i \in 1 .. n /\ h[i] = m
            BY <1>2, <1>5, <3>2, <3>3
          <6>2. i \in 1 .. n - 1
            BY <1>6, <5>2, <6>1
          <6> QED BY <1>6, <6>1, <6>2
        <5> QED BY <3>1, <5>1, <5>2
      <4> QED BY <1>6, <1>8, <3>1, <3>3, <4>1
    <3>4. CASE owner[m] # t
      BY <1>8, <3>1, <3>2, <3>4
    <3> QED BY <3>3, <3>4
  <2> QED BY <2>1, <2>2 DEF HoldInv
<1>12. ASSUME NEW u \in Threads
       PROVE  LocksOf(u)' = LocksOf(u)
  <2>1. CASE u = t
    BY <1>2, <1>3, <1>7, <1>8, <2>1 DEF LocksOf
  <2>2. CASE u # t
    BY <1>7, <1>8, <2>2 DEF LocksOf
  <2> QED BY <2>1, <2>2
<1>13. StackInv'
  BY <1>1, <1>7, <1>12 DEF StackInv
<1>14. HistoryInv'
  BY <1>1, <1>7 DEF HistoryInv
<1>15. CrashInv'
  BY <1>1, <1>7 DEF CrashInv
<1> QED BY <1>10, <1>11, <1>13, <1>14, <1>15 DEF IInv

LEMMA TimeoutKeeps ==
  ASSUME IInv, NEW t \in Threads, Timeout(t)
  PROVE  IInv'
<1>1. /\ crash = "no" /\ crash' = "WRITE_LOCK_TIMEOUT"
      /\ UNCHANGED <<names, history, stack, held, owner, wants, pc, report>>
  BY DEF Timeout
<1>2. TypeOK'
  <2>1. crash' \in {"no", "DEADLOCK_DETECTED", "INVALID_UNLOCK",
                    "MULTIPLE_UNLOCK", "WRITE_LOCK_TIMEOUT"}
    BY <1>1
  <2> QED BY <1>1, <2>1 DEF IInv, TypeOK
<1>3. HoldInv'
  BY <1>1 DEF IInv, HoldInv
<1>4. ASSUME NEW u \in Threads
      PROVE  LocksOf(u)' = LocksOf(u)
  BY <1>1 DEF LocksOf
<1>5. StackInv'
  BY <1>1, <1>4 DEF IInv, StackInv
<1>6. HistoryInv'
  BY <1>1 DEF IInv, HistoryInv
<1>7. CrashInv'
  BY <1>1 DEF IInv, CrashInv
<1> QED BY <1>2, <1>3, <1>5, <1>6, <1>7 DEF IInv

LEMMA Inductive == IInv /\ [Next]_vars => IInv'
<1> SUFFICES ASSUME IInv, [Next]_vars
             PROVE  IInv'
  OBVIOUS
<1>1. ASSUME NEW t \in Threads, NEW l \in Locks, PushLock(t, l)
      PROVE  IInv'
  BY <1>1, PushKeeps
<1>2. ASSUME NEW t \in Threads, Acquire(t)
      PROVE  IInv'
  BY <1>2, AcquireKeeps
<1>3. ASSUME NEW t \in Threads, PopLock(t)
      PROVE  IInv'
  BY <1>3, PopKeeps
<1>4. ASSUME NEW t \in Threads, Release(t)
      PROVE  IInv'
  BY <1>4, ReleaseKeeps
<1>5. ASSUME NEW t \in Threads, Timeout(t)
      PROVE  IInv'
  BY <1>5, TimeoutKeeps
<1>6. CASE UNCHANGED vars
  BY <1>6 DEF vars, IInv, TypeOK, HoldInv, StackInv, LocksOf, HistoryInv,
              CrashInv
<1>7. CASE Crashed
  BY <1>6, <1>7 DEF Crashed
<1> QED BY <1>1, <1>2, <1>3, <1>4, <1>5, <1>6, <1>7 DEF Next

LEMMA Invariance == Spec => []IInv
BY Initially, Inductive, PTL DEF Spec

-----------------------------------------------------------------------------
(* The search misses no cycle of the recorded orders, however many locks   *)
(* there are, and crashes for nothing else.                                *)
THEOREM CyclesAreFound == Spec => []FindsCycles
<1>1. IInv => FindsCycles
  <2> SUFFICES ASSUME IInv
               PROVE  FindsCycles
    OBVIOUS
  <2>1. CrashInv /\ report \in Seq(Ids)
    BY DEF IInv, TypeOK
  <2>2. ASSUME crash = "DEADLOCK_DETECTED"
        PROVE  HasCycle(history)
    BY <2>1, <2>2, CycleIsCycle DEF CrashInv
  <2> QED BY <2>1, <2>2 DEF CrashInv, FindsCycles
<1> QED BY <1>1, Invariance, PTL

(* What is printed before the crash leads from a lock back to it, along    *)
(* recorded orders.                                                        *)
THEOREM ReportsAreCycles == Spec => []ReportIsCycle
<1>1. IInv => ReportIsCycle
  BY DEF IInv, CrashInv, ReportIsCycle, IsCycle
<1> QED BY <1>1, Invariance, PTL

(* LLockStack names what a thread holds and waits for, in order, so that   *)
(* PopLock finds the innermost lock on top.                                *)
THEOREM StacksNameHolds == Spec => []StackNamesHolds
<1>1. IInv => StackNamesHolds
  <2> SUFFICES ASSUME IInv
               PROVE  StackNamesHolds
    OBVIOUS
  <2>1. TypeOK /\ HoldInv /\ StackInv
    BY DEF IInv
  <2>2. ASSUME NEW t \in Threads
        PROVE  stack[t] = [i \in DOMAIN LocksOf(t) |->
                             IdOf(names, Class[LocksOf(t)[i]])]
    <3>1. PICK s \in Seq(Ids) : s = stack[t]
      BY <2>1 DEF TypeOK
    <3>2. PICK locks \in Seq(Locks) : locks = LocksOf(t)
      BY <2>1, LocksTypes
    <3>3. PICK n \in Nat : n = Len(locks) /\ n = Len(s)
      BY <2>1, <3>1, <3>2 DEF StackInv
    <3>4. ASSUME NEW i \in 1 .. n
          PROVE  s[i] = IdOf(names, Class[locks[i]])
      <4>1. s[i] \in Vertices(Len(names)) /\ names[s[i] + 1] = Class[locks[i]]
        BY <2>1, <3>1, <3>2, <3>3 DEF StackInv
      <4>2. names \in Seq(Names) /\ IsInjective(names) /\ Len(names) \in Nat
        BY <2>1 DEF TypeOK
      <4>3. s[i] + 1 \in 1 .. Len(names) /\ (s[i] + 1) - 1 = s[i]
        BY <4>1, <4>2 DEF Vertices
      <4>4. IdOf(names, names[s[i] + 1]) = (s[i] + 1) - 1
        BY <4>2, <4>3, IdOfName
      <4> QED BY <4>1, <4>3, <4>4
    <3>5. DOMAIN locks = 1 .. n
      <4>1. DOMAIN locks = 1 .. Len(locks)
        BY <3>2
      <4> QED BY <3>3, <4>1
    <3>6. s = [i \in 1 .. n |-> s[i]]
      BY <3>1, <3>3
    <3>7. s = [i \in DOMAIN locks |-> IdOf(names, Class[locks[i]])]
      BY <3>4, <3>5, <3>6
    <3> QED BY <3>1, <3>2, <3>7
  <2> QED BY <2>1, <2>2 DEF StackNamesHolds, LocksOf
<1> QED BY <1>1, Invariance, PTL

(* DeadLockProfiler.cpp:30-31, the part of it that holds: to take the      *)
(* innermost lock again records nothing and crashes nothing.  Of a lock    *)
(* further down the run lock_order_recursion shows the contrary.           *)
InnermostPassedOver ==
  [][\A t \in Threads :
       held[t] # <<>> /\ PushLock(t, Last(held[t])) =>
         UNCHANGED <<names, history, crash>>]_vars

THEOREM InnermostRecursion == Spec => InnermostPassedOver
<1>1. ASSUME IInv, NEW t \in Threads, held[t] # <<>>,
             PushLock(t, Last(held[t]))
      PROVE  UNCHANGED <<names, history, crash>>
  <2>1. PICK l : l = Last(held[t])
    OBVIOUS
  <2>2. pc[t] = "run"
    BY <1>1 DEF PushLock
  <2>3. stack[t] # <<>> /\ PrevId(t) = IdOf(names, Class[l])
    BY <1>1, <2>1, <2>2, TopIsInnermost DEF PrevId
  <2>4. Contains(names, Class[l])
    <3>1. PICK h \in Seq(Locks) : h = held[t]
      BY <1>1 DEF IInv, TypeOK
    <3>2. PICK n \in Nat : n = Len(h) /\ n >= 1 /\ Last(h) = h[n]
      BY <1>1, <3>1, LastOf
    <3>3. LocksOf(t) = h /\ Len(stack[t]) = n
      BY <1>1, <2>2, <3>1, <3>2 DEF LocksOf, IInv, StackInv
    <3>4. /\ stack[t][n] \in Vertices(Len(names))
          /\ names[stack[t][n] + 1] = Class[h[n]]
      BY <1>1, <3>2, <3>3 DEF IInv, StackInv
    <3>5. Len(names) \in Nat
      BY <1>1 DEF IInv, TypeOK
    <3>6. stack[t][n] + 1 \in 1 .. Len(names)
      BY <3>4, <3>5 DEF Vertices
    <3> QED BY <2>1, <3>1, <3>2, <3>4, <3>6 DEF Contains
  <2>5. NamesWith(Class[l]) = names
    BY <2>4 DEF NamesWith
  <2>6. NewEdges(t, IdOf(names, Class[l])) = {}
    BY <2>3 DEF NewEdges
  <2>7. PICK id : id = IdOf(names, Class[l])
    OBVIOUS
  <2>8. PICK new : new = NewEdges(t, id) /\ new = {}
    BY <2>6, <2>7
  <2>9. /\ names' = names /\ history' = history \cup new
        /\ report' = IF new = {} THEN <<>>
                     ELSE CheckCycle(history', Len(names))
        /\ report' = <<>> => crash' = crash
    BY <1>1, <2>1, <2>5, <2>7, <2>8 DEF PushLock
  <2> QED BY <2>8, <2>9
<1>2. ASSUME IInv, [Next]_vars
      PROVE  [\A t \in Threads :
                held[t] # <<>> /\ PushLock(t, Last(held[t])) =>
                  UNCHANGED <<names, history, crash>>]_vars
  BY <1>1, <1>2
<1> QED BY <1>2, Invariance, PTL DEF Spec, InnermostPassedOver

-----------------------------------------------------------------------------
(* From a lock on a stack with another one above it, the recorded orders   *)
(* lead to a lock in between.                                              *)
LEMMA OrderAbove ==
  ASSUME IInv, NEW t \in Threads, NEW i \in 1 .. Len(stack[t]),
         NEW j \in i .. Len(stack[t]), stack[t][j] # stack[t][i]
  PROVE  \E m \in i .. Len(stack[t]) :
           <<stack[t][i], stack[t][m]>> \in history
<1>1. TypeOK /\ HistoryInv
  BY DEF IInv
<1>2. PICK s \in Seq(Ids) : s = stack[t]
  BY <1>1 DEF TypeOK
<1>3. PICK n \in Nat : n = Len(s)
  BY <1>2
<1> DEFINE Others == {m \in i .. n : s[m] # s[i]}
<1>4. Others \in SUBSET Nat /\ j \in Others
  BY <1>2, <1>3
<1>5. PICK m \in Others : \A k \in Others : m <= k
  BY <1>4, LeastNatural
<1>6. m \in i .. n /\ m # i /\ s[m] # s[i]
  BY <1>5
<1>7. m \in 2 .. n /\ m - 1 \in i .. n /\ ~(m <= m - 1)
  BY <1>2, <1>3, <1>6
<1>8. s[m - 1] = s[i]
  BY <1>5, <1>7
<1>9. <<s[m - 1], s[m]>> \in history
  BY <1>1, <1>2, <1>3, <1>6, <1>7, <1>8 DEF HistoryInv
<1> QED BY <1>2, <1>3, <1>6, <1>8, <1>9

LEMMA TopOfWaiter ==
  ASSUME IInv, NEW t \in Threads, pc[t] = "wait"
  PROVE  /\ wants[t] \in Locks /\ Len(stack[t]) \in Nat /\ Len(stack[t]) >= 1
         /\ stack[t][Len(stack[t])] \in Vertices(Len(names))
         /\ names[stack[t][Len(stack[t])] + 1] = Class[wants[t]]
         /\ \A i \in 1 .. Len(held[t]) :
              /\ i \in 1 .. Len(stack[t])
              /\ stack[t][i] \in Vertices(Len(names))
              /\ names[stack[t][i] + 1] = Class[held[t][i]]
<1>1. TypeOK /\ HoldInv /\ StackInv
  BY DEF IInv
<1>2. PICK l \in Locks : l = wants[t]
  BY <1>1 DEF HoldInv
<1>3. PICK h \in Seq(Locks) : h = held[t]
  BY <1>1 DEF TypeOK
<1>4. PICK n \in Nat : n = Len(h)
  BY <1>3
<1>5. PICK longer : longer = Append(h, l)
  OBVIOUS
<1>6. /\ Len(longer) = n + 1 /\ longer[n + 1] = l
      /\ \A i \in 1 .. n : longer[i] = h[i]
  BY <1>4, <1>5, AppendProperties
<1>7. LocksOf(t) = longer
  BY <1>2, <1>3, <1>5 DEF LocksOf
<1>8. Len(stack[t]) = n + 1
  BY <1>1, <1>6, <1>7 DEF StackInv
<1>9. \A i \in 1 .. n + 1 : /\ stack[t][i] \in Vertices(Len(names))
                            /\ names[stack[t][i] + 1] = Class[longer[i]]
  BY <1>1, <1>7, <1>8 DEF StackInv
<1>10. n + 1 \in 1 .. n + 1 /\ n + 1 >= 1 /\ n + 1 \in Nat
  OBVIOUS
<1>11. \A i \in 1 .. n : i \in 1 .. n + 1
  OBVIOUS
<1> QED BY <1>2, <1>3, <1>4, <1>6, <1>8, <1>9, <1>10, <1>11

(* While the process runs, threads wait for each other in a circle only    *)
(* where all of them have just taken, and wait for, locks of one name.     *)
THEOREM NoCircle == Spec => []NoCircularWait
<1>1. ASSUME IInv, crash = "no", NEW S \in SUBSET Threads, Circle(S)
      PROVE  \E name \in Names :
               \A t \in S : /\ held[t] # <<>> /\ Class[Last(held[t])] = name
                            /\ Class[wants[t]] = name
  <2>1. TypeOK /\ HoldInv /\ StackInv /\ HistoryInv /\ ~HasCycle(history)
    BY <1>1 DEF IInv, CrashInv
  <2> DEFINE Top(t) == stack[t][Len(stack[t])]
             Wanted == {Top(t) : t \in S}
             On(t, i) == i \in 1 .. Len(stack[t])
                           /\ \E j \in 1 .. i : stack[t][j] \in Wanted
             V == {v \in Ids : \E t \in S : \E i \in 1 .. Len(stack[t]) :
                                 stack[t][i] = v /\ On(t, i)}
  <2>2. /\ S # {} /\ AllWait(S)
        /\ \A R \in SUBSET S : R # {} /\ AllWait(R) => R = S
    BY <1>1 DEF Circle
  <2>3. \A t \in S : t \in Threads /\ pc[t] = "wait"
    BY <2>2 DEF AllWait, WaitsFor
  <2>4. ASSUME NEW t \in S, NEW i \in 1 .. Len(stack[t]), On(t, i)
        PROVE  stack[t][i] \in V
    <3>1. stack[t] \in Seq(Ids)
      BY <2>1, <2>3 DEF TypeOK
    <3>2. stack[t][i] \in Ids
      BY <3>1
    <3> HIDE DEF On
    <3> QED BY <2>4, <3>2
  <2>5. ASSUME NEW t \in S, NEW i \in 1 .. Len(stack[t]), On(t, i),
               NEW m \in i .. Len(stack[t])
        PROVE  On(t, m) /\ stack[t][m] \in V
    <3>1. Len(stack[t]) \in Nat
      BY <2>3, <1>1, TopOfWaiter
    <3>2. m \in 1 .. Len(stack[t]) /\ \A j \in 1 .. i : j \in 1 .. m
      BY <3>1
    <3>3. On(t, m)
      BY <2>5, <3>2
    <3> QED BY <2>4, <3>2, <3>3
  <2>6. ASSUME NEW t \in S, NEW i \in 1 .. Len(stack[t]), On(t, i),
               NEW j \in i .. Len(stack[t]), stack[t][j] # stack[t][i]
        PROVE  \E y \in V : <<stack[t][i], y>> \in history
    <3>1. PICK m \in i .. Len(stack[t]) :
            <<stack[t][i], stack[t][m]>> \in history
      BY <1>1, <2>3, <2>6, OrderAbove
    <3> QED BY <2>5, <2>6, <3>1
  <2>7. ASSUME NEW t \in S, NEW u \in S, WaitsFor(t, u)
        PROVE  \E k \in 1 .. Len(held[u]) : stack[u][k] = Top(t)
    <3>1. PICK l \in Locks : l = wants[t]
      BY <1>1, <2>3, TopOfWaiter
    <3>2. owner[l] = u /\ u \in Threads /\ u # NoThread
      BY <2>3, <2>7, <3>1, NoneAssumption DEF WaitsFor
    <3>3. PICK k \in 1 .. Len(held[u]) : held[u][k] = l
      BY <2>1, <3>2 DEF HoldInv
    <3>4. /\ stack[u][k] \in Vertices(Len(names))
          /\ names[stack[u][k] + 1] = Class[l]
      BY <1>1, <2>3, <3>3, TopOfWaiter
    <3>5. Top(t) \in Vertices(Len(names)) /\ names[Top(t) + 1] = Class[l]
      BY <1>1, <2>3, <3>1, TopOfWaiter
    <3>6. \A a, b \in Vertices(Len(names)) :
            names[a + 1] = names[b + 1] => a = b
      <4>1. names \in Seq(Names) /\ IsInjective(names) /\ Len(names) \in Nat
        BY <2>1 DEF TypeOK
      <4>2. \A a \in Vertices(Len(names)) : a + 1 \in DOMAIN names /\ a \in Int
        BY <4>1 DEF Vertices
      <4> QED BY <4>1, <4>2 DEF IsInjective
    <3> QED BY <3>4, <3>5, <3>6
  <2>8. ASSUME NEW u \in S, NEW t \in S, NEW k \in 1 .. Len(held[u]),
               stack[u][k] = Top(t)
        PROVE  k \in 1 .. Len(stack[u]) /\ On(u, k)
    <3>1. k \in 1 .. Len(stack[u]) /\ k \in 1 .. k
      BY <1>1, <2>3, TopOfWaiter
    <3> QED BY <2>8, <3>1
  <2>9. ASSUME NEW u \in S
        PROVE  \E t \in S : \E k \in 1 .. Len(held[u]) : stack[u][k] = Top(t)
    <3> DEFINE R == {w \in S : \E t \in S : WaitsFor(t, w)}
    <3>1. \A t \in S : \E w \in R : WaitsFor(t, w)
      BY <2>2 DEF AllWait
    <3>2. R # {} /\ AllWait(R)
      BY <2>2, <3>1 DEF AllWait
    <3>3. R = S
      BY <2>2, <3>2
    <3>4. PICK t \in S : WaitsFor(t, u)
      BY <3>3
    <3> QED BY <2>7, <3>4
  <2>10. V \in (SUBSET Ids) \ {{}}
    <3>1. PICK u \in S : TRUE
      BY <2>2
    <3>2. PICK t \in S : \E k \in 1 .. Len(held[u]) : stack[u][k] = Top(t)
      BY <2>9
    <3>3. PICK k \in 1 .. Len(held[u]) : stack[u][k] = Top(t)
      BY <3>2
    <3>4. stack[u][k] \in V
      BY <2>4, <2>8, <3>3
    <3> QED BY <3>4
  <2>11. PICK x \in V : \A y \in V : <<x, y>> \notin history
    <3> HIDE DEF V
    <3> QED BY <2>1, <2>10 DEF HasCycle
  <2>12. ASSUME NEW t \in S, NEW i \in 1 .. Len(stack[t]), On(t, i),
                stack[t][i] = x, NEW j \in i .. Len(stack[t])
         PROVE  stack[t][j] = x
    <3> HIDE DEF V, On
    <3> QED BY <2>6, <2>11, <2>12
  <2>13. \A t \in S : Top(t) = x
    <3> DEFINE R == {t \in S : Top(t) = x}
    <3>1. \A t \in S : Len(stack[t]) \in Nat /\ Len(stack[t]) >= 1
      BY <1>1, <2>3, TopOfWaiter
    <3>2. R # {}
      <4>1. PICK t \in S :
              \E i \in 1 .. Len(stack[t]) : stack[t][i] = x /\ On(t, i)
        OBVIOUS
      <4>2. PICK i \in 1 .. Len(stack[t]) : stack[t][i] = x /\ On(t, i)
        BY <4>1
      <4>3. Len(stack[t]) \in i .. Len(stack[t])
        BY <3>1
      <4> HIDE DEF On
      <4> QED BY <2>12, <4>2, <4>3
    <3>3. AllWait(R)
      <4>1. ASSUME NEW t \in R
            PROVE  \E u \in R : WaitsFor(t, u)
        <5>1. PICK u \in S : WaitsFor(t, u)
          BY <2>2 DEF AllWait
        <5>2. PICK k \in 1 .. Len(held[u]) : stack[u][k] = Top(t)
          BY <2>7, <5>1
        <5>3. k \in 1 .. Len(stack[u]) /\ On(u, k) /\ stack[u][k] = x
          BY <2>8, <5>2
        <5>4. Len(stack[u]) \in k .. Len(stack[u])
          BY <3>1, <5>3
        <5>5. Top(u) = x
          <6> HIDE DEF On
          <6> QED BY <2>12, <5>3, <5>4
        <5> QED BY <5>1, <5>5
      <4> QED BY <4>1 DEF AllWait
    <3> QED BY <2>2, <3>2, <3>3
  <2>14. ASSUME NEW u \in S
         PROVE  /\ held[u] # <<>> /\ Class[Last(held[u])] = names[x + 1]
                /\ Class[wants[u]] = names[x + 1]
    <3>1. PICK t \in S : \E k \in 1 .. Len(held[u]) : stack[u][k] = Top(t)
      BY <2>9
    <3>2. PICK k \in 1 .. Len(held[u]) : stack[u][k] = Top(t)
      BY <3>1
    <3>3. k \in 1 .. Len(stack[u]) /\ On(u, k) /\ stack[u][k] = x
      BY <2>8, <2>13, <3>2
    <3>4. PICK h \in Seq(Locks) : h = held[u]
      BY <2>1, <2>3 DEF TypeOK
    <3>5. h # <<>>
      BY <3>2, <3>4
    <3>6. PICK n \in Nat : n = Len(h) /\ n >= 1 /\ Last(h) = h[n]
      BY <3>4, <3>5, LastOf
    <3>7. n \in 1 .. Len(stack[u]) /\ names[stack[u][n] + 1] = Class[h[n]]
      <4>1. n \in 1 .. Len(held[u])
        BY <3>4, <3>6
      <4> QED BY <1>1, <2>3, <3>4, <4>1, TopOfWaiter
    <3>8. n \in k .. Len(stack[u])
      BY <3>2, <3>4, <3>6, <3>7
    <3>9. stack[u][n] = x
      <4> HIDE DEF On
      <4> QED BY <2>12, <3>3, <3>8
    <3>10. names[x + 1] = Class[wants[u]]
      BY <1>1, <2>3, <2>13, TopOfWaiter
    <3> QED BY <3>4, <3>5, <3>6, <3>7, <3>9, <3>10
  <2>15. PICK u \in S : TRUE
    BY <2>2
  <2>16. Class[wants[u]] \in Names
    BY <1>1, <2>3, TopOfWaiter DEF Names
  <2>17. names[x + 1] \in Names
    BY <2>14, <2>16
  <2> QED BY <2>14, <2>17
<1>2. IInv => NoCircularWait
  BY <1>1 DEF NoCircularWait
<1> QED BY <1>2, Invariance, PTL
=============================================================================
