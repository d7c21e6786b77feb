----------------------------- MODULE SharedPtr -----------------------------
(***************************************************************************)
(* RefCountable and TSharedPtr (ServerCore/RefCounting.h): objects that    *)
(* count their references, shared by threads.  The names carry a prefix so *)
(* that a run can extend this module beside others.                        *)
(*                                                                         *)
(* A TSharedPtr is a variable, one of Roots, or the member of a counted    *)
(* object; an object has one such member, and its name stands for it.      *)
(* _refCount is atomic and _ptr is not, so a TSharedPtr is used like any   *)
(* C++ object: see Uses.  Nothing stops a program from assigning to a      *)
(* variable the member of the object that it points to, head = head->next: *)
(* Release deletes the object and Set reads its member.  The model takes   *)
(* that step as far as the code defines it: see Strays.                    *)
(***************************************************************************)
EXTENDS Naturals, FiniteSets, Sequences

CONSTANTS
  Users,    \* threads
  Roots,    \* TSharedPtr variables
  Objects,  \* of classes derived from RefCountable
  Null

Pointers == Roots \cup Objects

ASSUME PointersAssumption ==
  /\ Roots \cap Objects = {} /\ Null \notin Pointers
  /\ IsFiniteSet(Pointers) /\ IsFiniteSet(Users)

VARIABLES
  ptr,       \* _ptr of each TSharedPtr
  refCount,  \* _refCount
  alive,     \* objects constructed and not deleted
  raw,       \* <<t, o>> while t has the reference of the new that made o
  op,        \* the operation each thread is in
  rel,       \* the object whose ReleaseRef comes next in a thread, or Null
  add,       \* the object whose AddRef comes next in a thread, or Null
  open       \* the TSharedPtrs inside whose Release a thread is, outermost
             \* first

sharedVars == <<ptr, refCount, alive, raw, op, rel, add, open>>

(* An assignment of src to dst, or the destructor of a variable; members   *)
(* are reached through the variables of via, one each.                     *)
Ops ==
  {o \in [kind : {"copy", "move", "drop"}, dst : Pointers, src : Pointers,
          via : SUBSET Roots] :
     /\ o.kind = "drop" => o.src = o.dst /\ o.dst \in Roots
     /\ Cardinality(o.via) = Cardinality({o.dst, o.src} \cap Objects)}
Idle == [kind |-> "idle", dst |-> Null, src |-> Null, via |-> {}]
RawRelease == [kind |-> "drop", dst |-> Null, src |-> Null, via |-> {}]

SharedTypeOK ==
  /\ ptr \in [Pointers -> Objects \cup {Null}]
  /\ refCount \in [Objects -> Nat]
  /\ alive \subseteq Objects
  /\ raw \subseteq Users \X Objects
  /\ op \in [Users -> Ops \cup {Idle, RawRelease}]
  /\ rel \in [Users -> Objects \cup {Null}]
  /\ add \in [Users -> Objects \cup {Null}]
  /\ open \in [Users -> Seq(Pointers)]

SharedInit ==
  /\ ptr = [p \in Pointers |-> Null]
  /\ refCount = [o \in Objects |-> 0]
  /\ alive = {} /\ raw = {}
  /\ op = [t \in Users |-> Idle]
  /\ rel = [t \in Users |-> Null]
  /\ add = [t \in Users |-> Null]
  /\ open = [t \in Users |-> <<>>]

Written(o) == IF o.kind = "move" THEN {o.dst, o.src} ELSE {o.dst} \ {Null}
Used(o) == ({o.dst, o.src} \ {Null}) \cup o.via

(* What an operation starts from: a member is that of the object that a    *)
(* variable points to, and there is no data race, as C++ demands of every  *)
(* program: what one thread writes no other uses.                          *)
Uses(t, o) ==
  /\ \A p \in {o.dst, o.src} \cap Objects : \E r \in o.via : ptr[r] = p
  /\ \A u \in Users \ {t} :
       Written(o) \cap Used(op[u]) = {} /\ Used(o) \cap Written(op[u]) = {}

(* head = head->next: src is reached through the variable assigned to.     *)
FromOwnTarget(o) == o.dst \in o.via

(* What Release has passed to ReleaseRef and still has in _ptr. *)
Releasing ==
  UNION {{open[t][i] : i \in 1 .. Len(open[t])} : t \in Users}

(* No step of the code is left but one that follows a pointer to a deleted *)
(* object: an AddRef, or the read of src when that was a member.           *)
Released(t) == rel[t] = Null /\ add[t] = Null /\ open[t] = <<>>
Strays(t) ==
  \/ add[t] \in Objects \ alive
  \/ /\ op[t].kind \in {"copy", "move"} /\ Released(t)
     /\ op[t].src \in Objects \ alive

-----------------------------------------------------------------------------
(* TSharedPtr(new T()): the count of 1 that the constructor of             *)
(* RefCountable sets belongs to the creator, Set adds that of dst.  The    *)
(* memory of a deleted object is new again once its destructor has ended.  *)
Make(t, dst, o) ==
  /\ op[t] = Idle /\ o \notin alive \cup Releasing /\ ptr[dst] = Null
  /\ LET new == [kind |-> "copy", dst |-> dst, src |-> dst, via |-> {}]
     IN  Uses(t, new) /\ op' = [op EXCEPT ![t] = new]
  /\ alive' = alive \cup {o}
  /\ refCount' = [refCount EXCEPT ![o] = 1]
  /\ raw' = raw \cup {<<t, o>>}
  /\ ptr' = [ptr EXCEPT ![dst] = o]
  /\ add' = [add EXCEPT ![t] = o]
  /\ UNCHANGED <<rel, open>>

(* The creator's ReleaseRef. *)
GiveUpRaw(t, o) ==
  /\ op[t] = Idle /\ <<t, o>> \in raw
  /\ op' = [op EXCEPT ![t] = RawRelease]
  /\ raw' = raw \ {<<t, o>>}
  /\ rel' = [rel EXCEPT ![t] = o]
  /\ UNCHANGED <<ptr, refCount, alive, add, open>>

(* Copy and move assignment, and the destructor, start with Release: the   *)
(* ReleaseRef of the object is next, while _ptr still has it.  A copy to   *)
(* an empty pointer is also the copy constructor, a move the move          *)
(* constructor.                                                            *)
Begin(t, o) ==
  /\ op[t] = Idle /\ Uses(t, o)
  /\ o.kind = "copy" => ptr[o.dst] # ptr[o.src]
  /\ op' = [op EXCEPT ![t] = o]
  /\ rel' = [rel EXCEPT ![t] = ptr[o.dst]]
  /\ open' = [open EXCEPT ![t] = IF ptr[o.dst] = Null THEN @ ELSE <<o.dst>>]
  /\ UNCHANGED <<ptr, refCount, alive, raw, add>>

(* Mutant: ReleaseRef deletes when one reference is left. *)
IsNearlyLast(count) == count <= 1
(* The test of ReleaseRef on the count that it has decremented. *)
IsLast(count) == count = 0

(* RefCountable::ReleaseRef; delete runs the destructor of the object's    *)
(* member, whose Release is next.                                          *)
ReleaseRef(t) ==
  /\ rel[t] # Null
  /\ LET o == rel[t]
         count == refCount[o] - 1
     IN  /\ refCount' = [refCount EXCEPT ![o] = count]
         /\ IF IsLast(count)
            THEN /\ alive' = alive \ {o}
                 /\ rel' = [rel EXCEPT ![t] = ptr[o]]
                 /\ open' = [open EXCEPT ![t] =
                               IF ptr[o] = Null THEN @ ELSE Append(@, o)]
            ELSE /\ rel' = [rel EXCEPT ![t] = Null]
                 /\ UNCHANGED <<alive, open>>
  /\ UNCHANGED <<ptr, raw, op, add>>

(* The end of the innermost Release, after the ReleaseRef and all that it  *)
(* deletes.                                                                *)
SetNull(t) ==
  /\ rel[t] = Null /\ open[t] # <<>>
  /\ LET n == Len(open[t])
     IN  /\ ptr' = [ptr EXCEPT ![open[t][n]] = Null]
         /\ open' = [open EXCEPT ![t] = SubSeq(@, 1, n - 1)]
  /\ UNCHANGED <<refCount, alive, raw, op, rel, add>>

(* Mutant: Set stores the pointer and forgets AddRef. *)
Forgotten(o) == Null
(* The object that Set counts. *)
Counted(o) == o

(* Set of a copy assignment, up to AddRef. *)
SetCopy(t) ==
  /\ op[t].kind = "copy" /\ Released(t) /\ ~Strays(t)
  /\ ptr' = [ptr EXCEPT ![op[t].dst] = ptr[op[t].src]]
  /\ add' = [add EXCEPT ![t] = Counted(ptr[op[t].src])]
  /\ op' = [op EXCEPT ![t] = IF ptr[op[t].src] = Null THEN Idle ELSE @]
  /\ UNCHANGED <<refCount, alive, raw, rel, open>>

(* RefCountable::AddRef, the end of Set. *)
AddRef(t) ==
  /\ add[t] # Null /\ ~Strays(t)
  /\ refCount' = [refCount EXCEPT ![add[t]] = @ + 1]
  /\ add' = [add EXCEPT ![t] = Null]
  /\ op' = [op EXCEPT ![t] = Idle]
  /\ UNCHANGED <<ptr, alive, raw, rel, open>>

(* The rest of a move assignment: what src has, also when it is dst.       *)
TakeMoved(t) ==
  /\ op[t].kind = "move" /\ Released(t) /\ ~Strays(t)
  /\ ptr' = [ptr EXCEPT ![op[t].dst] = ptr[op[t].src],
                        ![op[t].src] = Null]
  /\ op' = [op EXCEPT ![t] = Idle]
  /\ UNCHANGED <<refCount, alive, raw, rel, add, open>>

(* The end of a destructor or of the creator's ReleaseRef. *)
EndDrop(t) ==
  /\ op[t].kind = "drop" /\ Released(t)
  /\ op' = [op EXCEPT ![t] = Idle]
  /\ UNCHANGED <<ptr, refCount, alive, raw, rel, add, open>>

(* What a use of a deleted object does is undefined: that thread goes no   *)
(* further here, so that the state it leaves is a last one for it.         *)
UseOfDeleted(t) == Strays(t) /\ UNCHANGED sharedVars

SharedNext ==
  \E t \in Users :
    \/ \E dst \in Roots, o \in Objects : Make(t, dst, o)
    \/ \E o \in Objects : GiveUpRaw(t, o)
    \/ \E o \in Ops : Begin(t, o)
    \/ ReleaseRef(t) \/ SetNull(t) \/ SetCopy(t) \/ AddRef(t)
    \/ TakeMoved(t) \/ EndDrop(t) \/ UseOfDeleted(t)

SharedSpec == SharedInit /\ [][SharedNext]_sharedVars

-----------------------------------------------------------------------------
(* No thread follows a pointer to a deleted object, works on the member of *)
(* one or leaves a TSharedPtr with one, however the operations interleave; *)
(* but for an assignment from the object that its target points to, which  *)
(* may read, and store, what Release has deleted.                          *)
HeldIsAlive ==
  LET own == {op[t].dst : t \in {u \in Users : FromOwnTarget(op[u])}}
  IN  /\ \A p \in Pointers \ (Releasing \cup own) :
            ptr[p] \in alive \cup {Null}
      /\ \A t \in Users :
           /\ rel[t] \in alive \cup {Null}
           /\ {op[t].dst} \cap Objects \subseteq alive
           /\ FromOwnTarget(op[t])
                \/ ({add[t]} \cup ({op[t].src} \cap Objects)
                      \subseteq alive \cup {Null})

(* The count of an object is the number of pointers to it and of creators' *)
(* references, but for the ReleaseRef and AddRef still to come, and for a  *)
(* pointer that Release is about to null; so an object lives as long as    *)
(* something refers to it and no longer.                                   *)
CountsReferences ==
  \A o \in Objects :
    /\ refCount[o] + Cardinality({t \in Users : add[t] = o})
         = Cardinality({p \in Pointers \ Releasing : ptr[p] = o})
             + Cardinality({t \in Users : rel[t] = o})
             + Cardinality({t \in Users : <<t, o>> \in raw})
    /\ o \in alive <=> refCount[o] > 0
=============================================================================
