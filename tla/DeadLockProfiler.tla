-------------------------- MODULE DeadLockProfiler --------------------------
(***************************************************************************)
(* The profiler that debug builds run in front of every lock               *)
(* (ServerCore/DeadLockProfiler.cpp), with the threads that use it through *)
(* WriteLockGuard, the only guard the code takes.  PushLock and PopLock    *)
(* hold _lock from the first statement to the last, so each is one action; *)
(* CheckCycle is an operator, with the calls of Dfs as a path.  The lock   *)
(* itself is what RWSpinLock shows it to be, an exclusive recursive one    *)
(* whose waiters give up in the end.                                       *)
(*                                                                         *)
(*   run      outside the profiler and the lock                            *)
(*   wait     WriteLock: PushLock done, spinning on _lockFlag              *)
(*   release  WriteUnlock: PopLock done, lock not given back yet           *)
(*                                                                         *)
(* Locks go by the name of the class they are in (typeid(this).name()), ids*)
(* count from 0 in the order in which names are first seen.                *)
(***************************************************************************)
EXTENDS Integers, Sequences, SequencesExt, FiniteSets

CONSTANTS
  Threads,
  Locks,
  Class,       \* the name that WRITE_LOCK passes for each lock
  NoThread,
  NoLock,
  Depth        \* bound on the holds of one thread

ASSUME ClassAssumption == DOMAIN Class = Locks /\ IsFiniteSet(Locks)
ASSUME NoneAssumption == NoThread \notin Threads /\ NoLock \notin Locks
ASSUME DepthAssumption == Depth \in Nat

VARIABLES
  names,       \* _nameToId and _idToName: names in the order of their ids
  history,     \* _lockHistory, as the set of its edges
  stack,       \* LLockStack of each thread
  held,        \* the locks each thread has, innermost last
  owner,       \* who has each lock
  wants,       \* the lock a thread in WriteLock spins on
  pc,
  crash,       \* the argument of CRASH, "no" before
  report       \* history: the cycle that Dfs printed, node after node

vars == <<names, history, stack, held, owner, wants, pc, crash, report>>

Names == {Class[l] : l \in Locks}
Ids == 0 .. Cardinality(Names) - 1

TypeOK ==
  /\ names \in Seq(Names) /\ IsInjective(names)
  /\ history \subseteq Ids \X Ids
  /\ stack \in [Threads -> Seq(Ids)]
  /\ \A t \in Threads : Len(stack[t]) <= Depth
  /\ held \in [Threads -> Seq(Locks)]
  /\ owner \in [Locks -> Threads \cup {NoThread}]
  /\ wants \in [Threads -> Locks \cup {NoLock}]
  /\ pc \in [Threads -> {"run", "wait", "release"}]
  /\ crash \in {"no", "MULTIPLE_UNLOCK", "INVALID_UNLOCK",
                "DEADLOCK_DETECTED", "WRITE_LOCK_TIMEOUT"}
  /\ report \in Seq(Ids)

Init ==
  /\ names = <<>>
  /\ history = {}
  /\ stack = [t \in Threads |-> <<>>]
  /\ held = [t \in Threads |-> <<>>]
  /\ owner = [l \in Locks |-> NoThread]
  /\ wants = [t \in Threads |-> NoLock]
  /\ pc = [t \in Threads |-> "run"]
  /\ crash = "no"
  /\ report = <<>>

-----------------------------------------------------------------------------
(* The search.  Its state d is _discoveredOrder, _discoveredCount,         *)
(* _finished and _parent, lockId of the loop in CheckCycle (root), the     *)
(* vertices whose Dfs is under way (path), the edges that no loop over a   *)
(* nextSet has come to (left), and the cycle printed before CRASH.         *)
Unvisited(edges, count) ==
  [order    |-> [id \in 0 .. count - 1 |-> -1],
   count    |-> 0,
   finished |-> {},
   parent   |-> [id \in 0 .. count - 1 |-> -1],
   root     |-> 0,
   path     |-> <<>>,
   left     |-> edges,
   cycle    |-> <<>>]

(* Dfs of a vertex begins. *)
Discover(d, there) ==
  [d EXCEPT !.order[there] = d.count, !.count = @ + 1,
            !.path = Append(@, there)]

(* Mutant: _finished is never set. *)
StillOpen(d) == d.finished

Finish(d) == d.finished \cup {Last(d.path)}

(* Dfs of a vertex ends. *)
Return(d) == [d EXCEPT !.finished = Finish(d), !.path = Front(@)]

(* One turn of the loop in CheckCycle. *)
NextRoot(d) ==
  LET e == [d EXCEPT !.root = @ + 1]
  IN  IF d.order[d.root] = -1 THEN Discover(e, d.root) ELSE e

(* The loop that prints the way from there down to here.                   *)
WayDown(d, here, there) ==
  LET way[n \in 0 .. d.count] ==
        IF n = 0 THEN <<here>>
        ELSE LET w == way[n - 1]
             IN  IF Head(w) = there \/ d.parent[Head(w)] = -1 THEN w
                 ELSE <<d.parent[Head(w)]>> \o w
  IN  way[d.count]

(* An edge to a vertex that was discovered: one forward or to a finished   *)
(* vertex says nothing, one back to an ancestor closes a cycle.            *)
Known(d, here, there) ==
  IF d.order[here] < d.order[there] \/ there \in d.finished
  THEN d
  ELSE [d EXCEPT !.cycle = Append(WayDown(d, here, there), there)]

LeftFrom(d, here) == {e[2] : e \in {x \in d.left : x[1] = here}}

(* One turn of the loop in Dfs, over a set<int32>. *)
NextEdge(d) ==
  LET here == Last(d.path)
      there == Min(LeftFrom(d, here))
      e == [d EXCEPT !.left = @ \ {<<here, there>>}]
  IN  IF d.order[there] = -1
      THEN Discover([e EXCEPT !.parent[there] = here], there)
      ELSE Known(e, here, there)

Turn(d) ==
  IF d.path = <<>> THEN NextRoot(d)
  ELSE IF LeftFrom(d, Last(d.path)) = {} THEN Return(d) ELSE NextEdge(d)

Over(d) == d.cycle # <<>> \/ (d.path = <<>> /\ d.root \notin DOMAIN d.order)

(* Every vertex is a root, is discovered and returns once, every edge is   *)
(* looked at once: more turns than these are never needed.                 *)
Turns(count) == 3 * count + count * count

(* The cycle that CheckCycle prints, or none. *)
CheckCycle(edges, count) ==
  LET after[n \in 0 .. Turns(count)] ==
        IF n = 0 THEN Unvisited(edges, count)
        ELSE LET d == after[n - 1] IN IF Over(d) THEN d ELSE Turn(d)
  IN  after[Turns(count)].cycle

-----------------------------------------------------------------------------
NamesWith(name) == IF Contains(names, name) THEN names ELSE Append(names, name)

IdOf(seen, name) == (CHOOSE i \in DOMAIN seen : seen[i] = name) - 1

(* Mutant: the outermost lock is taken for the previous one. *)
OutermostId(t) == Head(stack[t])

PrevId(t) == Last(stack[t])

(* The edge a push adds, unless it is known or the lock is the same. *)
NewEdges(t, id) ==
  (IF stack[t] = <<>> \/ id = PrevId(t) THEN {} ELSE {<<PrevId(t), id>>})
    \ history

(* PushLock, at the start of WriteLock. *)
PushLock(t, l) ==
  LET seen == NamesWith(Class[l])
      id == IdOf(seen, Class[l])
      new == NewEdges(t, id)
  IN  /\ crash = "no" /\ pc[t] = "run"
      /\ Len(held[t]) < Depth
      /\ names' = seen
      /\ history' = history \cup new
      /\ report' = IF new = {} THEN <<>> ELSE CheckCycle(history', Len(seen))
      /\ IF report' # <<>>
         THEN /\ crash' = "DEADLOCK_DETECTED"
              /\ UNCHANGED <<stack, wants, pc>>
         ELSE /\ stack' = [stack EXCEPT ![t] = Append(@, id)]
              /\ wants' = [wants EXCEPT ![t] = l]
              /\ pc' = [pc EXCEPT ![t] = "wait"]
              /\ UNCHANGED crash
      /\ UNCHANGED <<held, owner>>

(* The rest of WriteLock. *)
Acquire(t) ==
  /\ crash = "no" /\ pc[t] = "wait"
  /\ owner[wants[t]] \in {NoThread, t}
  /\ owner' = [owner EXCEPT ![wants[t]] = t]
  /\ held' = [held EXCEPT ![t] = Append(@, wants[t])]
  /\ wants' = [wants EXCEPT ![t] = NoLock]
  /\ pc' = [pc EXCEPT ![t] = "run"]
  /\ UNCHANGED <<names, history, stack, crash, report>>

(* WriteLock spins for ten seconds on a lock that somebody else has.       *)
Timeout(t) ==
  /\ crash = "no" /\ pc[t] = "wait"
  /\ owner[wants[t]] \notin {NoThread, t}
  /\ crash' = "WRITE_LOCK_TIMEOUT"
  /\ UNCHANGED <<names, history, stack, held, owner, wants, pc, report>>

(* Mutant: the id stays on the stack. *)
NotPopped(t) == stack[t]

Popped(t) == Front(stack[t])

(* PopLock, at the start of WriteUnlock of the innermost lock. *)
PopLock(t) ==
  /\ crash = "no" /\ pc[t] = "run"
  /\ held[t] # <<>>
  /\ IF stack[t] # <<>> /\ Last(stack[t]) = IdOf(names, Class[Last(held[t])])
     THEN /\ stack' = [stack EXCEPT ![t] = Popped(t)]
          /\ pc' = [pc EXCEPT ![t] = "release"]
          /\ UNCHANGED crash
     ELSE /\ crash' = IF stack[t] = <<>> THEN "MULTIPLE_UNLOCK"
                                         ELSE "INVALID_UNLOCK"
          /\ UNCHANGED <<stack, pc>>
  /\ UNCHANGED <<names, history, held, owner, wants, report>>

(* The rest of WriteUnlock: a lock that is held more than once stays. *)
Release(t) ==
  /\ crash = "no" /\ pc[t] = "release"
  /\ held' = [held EXCEPT ![t] = Front(@)]
  /\ owner' = [l \in Locks |->
                 IF l = Last(held[t]) /\ ~Contains(Front(held[t]), l)
                 THEN NoThread
                 ELSE owner[l]]
  /\ pc' = [pc EXCEPT ![t] = "run"]
  /\ UNCHANGED <<names, history, stack, wants, crash, report>>

(* CRASH ends the process. *)
Crashed == crash # "no" /\ UNCHANGED vars

Next ==
  \/ \E t \in Threads : \/ \E l \in Locks : PushLock(t, l)
                        \/ Acquire(t) \/ Timeout(t)
                        \/ PopLock(t) \/ Release(t)
  \/ Crashed

Spec == Init /\ [][Next]_vars

-----------------------------------------------------------------------------
(* Reference definition: a graph has a cycle when in some of its vertices  *)
(* each has a successor among them.                                        *)
HasCycle(edges) ==
  \E S \in (SUBSET Ids) \ {{}} :
    \A x \in S : \E y \in S : <<x, y>> \in edges

(* The search in CheckCycle, which is run only when an edge is new, misses *)
(* no cycle of the recorded orders and takes no other edge for one.        *)
FindsCycles == crash = "DEADLOCK_DETECTED" <=> HasCycle(history)

(* What is printed before the crash is a cycle of recorded orders: the     *)
(* walk up _parent ends, at the vertex it has to end at.                   *)
ReportIsCycle ==
  crash = "DEADLOCK_DETECTED" =>
    /\ Len(report) >= 3
    /\ report[1] = Last(report)
    /\ \A i \in 1 .. Len(report) - 1 : <<report[i], report[i + 1]>> \in history

(* t cannot go on before u gives a lock back. *)
WaitsFor(t, u) ==
  pc[t] = "wait" /\ t # u /\ owner[wants[t]] = u

(* Threads that wait for each other, and no fewer of them do. *)
AllWait(S) == \A t \in S : \E u \in S : WaitsFor(t, u)
Circle(S) ==
  S # {} /\ AllWait(S) /\ \A R \in SUBSET S : R # {} /\ AllWait(R) => R = S

(* DeadLockProfiler.cpp:37: "the device that detects deadlocks with other  *)
(* threads".  The only circle of waiting threads that the profiler lets    *)
(* come about is one within a class: each thread of it waits for a lock of *)
(* the name of the lock that it took last, and all these names are one.    *)
NoCircularWait ==
  crash = "no" =>
    \A S \in SUBSET Threads :
      Circle(S) =>
        \E name \in Names :
          \A t \in S : /\ held[t] # <<>> /\ Class[Last(held[t])] = name
                      /\ Class[wants[t]] = name

(* LLockStack names what the thread holds and is about to hold, in order,  *)
(* so scoped guards never meet the crashes of PopLock.                     *)
StackNamesHolds ==
  /\ TypeOK
  /\ \A t \in Threads :
       LET locks == CASE pc[t] = "run"     -> held[t]
                      [] pc[t] = "wait"    -> Append(held[t], wants[t])
                      [] pc[t] = "release" -> Front(held[t])
       IN  stack[t] = [i \in DOMAIN locks |-> IdOf(names, Class[locks[i]])]

(* DeadLockProfiler.cpp:30-32: the lock allows recursion; a recursive      *)
(* acquisition means nothing and is passed over (32: "not a new edge but   *)
(* one that returns to its own node, as A -> A").                          *)
RecursionPassedOver ==
  [][\A t \in Threads :
       \A l \in Range(held[t]) : PushLock(t, l) => crash' = "no"]_vars
=============================================================================
