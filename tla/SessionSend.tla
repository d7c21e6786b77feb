---------------------------- MODULE SessionSend ----------------------------
(***************************************************************************)
(* The sending half of one connected Session (ServerCore/Session.cpp):     *)
(* Send, RegisterSend, ProcessSend, HandleError and the effect of          *)
(* Disconnect on them, run by threads that interleave at every access to   *)
(* shared state.  The pc of a thread names what it does next:              *)
(*                                                                         *)
(*   idle       in GetQueuedCompletionStatus, or outside the library       *)
(*   enter      Send: past IsConnected, waiting for WRITE_LOCK             *)
(*   exchange   Send: buffer pushed, lock held, before the exchange        *)
(*   register   RegisterSend: before its IsConnected check                 *)
(*   drain      RegisterSend: owner set, before the locked drain loop      *)
(*   post       RegisterSend: before WSASend                               *)
(*   failed     RegisterSend: WSASend refused, HandleError has returned    *)
(*   sent, zero ProcessSend entered with numOfBytes > 0, = 0               *)
(*   recheck    ProcessSend: OnSend done, waiting for WRITE_LOCK           *)
(*   quiesce    ProcessSend: lock held, queue seen empty                   *)
(*                                                                         *)
(* WRITE_LOCK is the recursive lock that RWSpinLock describes; here it is  *)
(* its owner.  A session connects once in its life, so connected starts    *)
(* true and only ever falls.                                               *)
(***************************************************************************)
EXTENDS Naturals, Sequences

CONSTANTS
  Threads,      \* threads that call Send or dispatch completions
  NoThread,     \* the lock is free
  Buffers,      \* one for each call of Send; bounds the number of calls
  NoBuffer,
  Errors        \* how WSASend may fail at once: "reset" or "other"

ASSUME NoThreadAssumption == NoThread \notin Threads
ASSUME NoBufferAssumption == NoBuffer \notin Buffers
ASSUME ErrorsAssumption == Errors \subseteq {"reset", "other"}

VARIABLES
  connected,       \* _connected
  sendQueue,       \* _sendQueue
  sendRegistered,  \* _sendRegistered
  sendEvent,       \* _sendEvent: is owner set, and sendBuffers
  lock,            \* owner of _locks[0]
  inFlight,        \* gather lists the kernel has and has not completed
  submitted,       \* history: the buffers WSASend accepted, in order
  pc,
  arg,             \* the sendBuffer argument of a thread inside Send
  unsent           \* buffers no call of Send has been made for yet

vars == <<connected, sendQueue, sendRegistered, sendEvent, lock, inFlight,
          submitted, pc, arg, unsent>>

Labels == {"idle", "enter", "exchange", "register", "drain", "post",
           "failed", "sent", "zero", "recheck", "quiesce"}

TypeOK ==
  /\ connected \in BOOLEAN
  /\ sendQueue \in Seq(Buffers)
  /\ sendRegistered \in BOOLEAN
  /\ sendEvent \in [owner : BOOLEAN, bufs : Seq(Buffers)]
  /\ lock \in Threads \cup {NoThread}
  /\ inFlight \in SUBSET Seq(Buffers)
  /\ submitted \in Seq(Buffers)
  /\ pc \in [Threads -> Labels]
  /\ arg \in [Threads -> Buffers \cup {NoBuffer}]
  /\ \A t \in Threads : pc[t] = "enter" => arg[t] # NoBuffer
  /\ unsent \in SUBSET Buffers

Init ==
  /\ connected = TRUE
  /\ sendQueue = <<>>
  /\ sendRegistered = FALSE
  /\ sendEvent = [owner |-> FALSE, bufs |-> <<>>]
  /\ lock = NoThread
  /\ inFlight = {}
  /\ submitted = <<>>
  /\ pc = [t \in Threads |-> "idle"]
  /\ arg = [t \in Threads |-> NoBuffer]
  /\ unsent = Buffers

Goto(t, label) == pc' = [pc EXCEPT ![t] = label]

(* End of the outermost call: the guard of ProcessSend, if t holds it, is  *)
(* destroyed.                                                              *)
Return(t) ==
  /\ Goto(t, "idle")
  /\ lock' = IF lock = t THEN NoThread ELSE lock

-----------------------------------------------------------------------------
(* Session::Send.  The early return of an unconnected session changes      *)
(* nothing and is not an action.                                           *)
Send(t, b) ==
  /\ pc[t] = "idle"
  /\ b \in unsent
  /\ connected
  /\ unsent' = unsent \ {b}
  /\ arg' = [arg EXCEPT ![t] = b]
  /\ Goto(t, "enter")
  /\ UNCHANGED <<connected, sendQueue, sendRegistered, sendEvent, lock,
                 inFlight, submitted>>

(* Mutant: the new buffer overtakes what is already queued. *)
OvertakingQueue(b) == <<b>> \o sendQueue

(* Mutant: the argument was moved from before it is pushed. *)
MovedFromQueue(b) == Append(sendQueue, NoBuffer)

LongerQueue(b) == Append(sendQueue, b)

Push(t) ==
  /\ pc[t] = "enter"
  /\ lock = NoThread
  /\ lock' = t
  /\ sendQueue' = LongerQueue(arg[t])
  /\ arg' = [arg EXCEPT ![t] = NoBuffer]
  /\ Goto(t, "exchange")
  /\ UNCHANGED <<connected, sendRegistered, sendEvent, inFlight, submitted,
                 unsent>>

(* Mutant: the result of the exchange is not looked at. *)
AlwaysFirst == TRUE

(* Mutant: the result of the exchange is tested the wrong way round. *)
LateToRegister == sendRegistered

FirstToRegister == ~sendRegistered

(* _sendRegistered.exchange(true): the thread that finds false owns        *)
(* _sendEvent from here on.                                                *)
Exchange(t) ==
  /\ pc[t] = "exchange"
  /\ sendRegistered' = TRUE
  /\ lock' = NoThread
  /\ Goto(t, IF FirstToRegister THEN "register" ELSE "idle")
  /\ UNCHANGED <<connected, sendQueue, sendEvent, inFlight, submitted, arg,
                 unsent>>

-----------------------------------------------------------------------------
(* Mutant: ADD_REF is forgotten. *)
EventWithoutOwner == sendEvent

EventWithOwner == [sendEvent EXCEPT !.owner = TRUE]

(* Session::RegisterSend, entered from Send without the lock and from      *)
(* ProcessSend with it.  On an unconnected session it returns with         *)
(* _sendRegistered still set.                                              *)
RegisterCheck(t) ==
  /\ pc[t] = "register"
  /\ IF connected
     THEN /\ sendEvent' = EventWithOwner
          /\ Goto(t, "drain")
          /\ UNCHANGED lock
     ELSE /\ Return(t)
          /\ UNCHANGED sendEvent
  /\ UNCHANGED <<connected, sendQueue, sendRegistered, inFlight, submitted,
                 arg, unsent>>

Drain(t) ==
  /\ pc[t] = "drain"
  /\ lock \in {NoThread, t}
  /\ sendEvent' = [sendEvent EXCEPT !.bufs = @ \o sendQueue]
  /\ sendQueue' = <<>>
  /\ Goto(t, "post")
  /\ UNCHANGED <<connected, sendRegistered, lock, inFlight, submitted, arg,
                 unsent>>

(* WSASend succeeds or is pending: a completion will follow. *)
PostAccepted(t) ==
  /\ pc[t] = "post"
  /\ inFlight' = inFlight \cup {sendEvent.bufs}
  /\ submitted' = submitted \o sendEvent.bufs
  /\ Return(t)
  /\ UNCHANGED <<connected, sendQueue, sendRegistered, sendEvent, arg, unsent>>

(* WSASend fails at once and HandleError runs: a reset disconnects, any    *)
(* other error is only logged.                                             *)
PostRejected(t, error) ==
  /\ pc[t] = "post"
  /\ connected' = (connected /\ error # "reset")
  /\ Goto(t, "failed")
  /\ UNCHANGED <<sendQueue, sendRegistered, sendEvent, lock, inFlight,
                 submitted, arg, unsent>>

(* The rest of the error branch: the batch is dropped and _sendRegistered  *)
(* is cleared, without the lock when the caller is Send.                   *)
AbandonSend(t) ==
  /\ pc[t] = "failed"
  /\ sendEvent' = [owner |-> FALSE, bufs |-> <<>>]
  /\ sendRegistered' = FALSE
  /\ Return(t)
  /\ UNCHANGED <<connected, sendQueue, inFlight, submitted, arg, unsent>>

-----------------------------------------------------------------------------
(* IocpCore::Dispatch hands the completion of a WSASend to an idle thread; *)
(* moved is whether any bytes went out.                                    *)
Complete(t, batch, moved) ==
  /\ pc[t] = "idle"
  /\ inFlight' = inFlight \ {batch}
  /\ Goto(t, IF moved THEN "sent" ELSE "zero")
  /\ UNCHANGED <<connected, sendQueue, sendRegistered, sendEvent, lock,
                 submitted, arg, unsent>>

(* Session::ProcessSend up to OnSend; with zero bytes it disconnects and   *)
(* returns, _sendRegistered still set.                                     *)
ProcessSend(t) ==
  /\ pc[t] \in {"sent", "zero"}
  /\ sendEvent' = [owner |-> FALSE, bufs |-> <<>>]
  /\ connected' = (connected /\ pc[t] = "sent")
  /\ Goto(t, IF pc[t] = "sent" THEN "recheck" ELSE "idle")
  /\ UNCHANGED <<sendQueue, sendRegistered, lock, inFlight, submitted, arg,
                 unsent>>

(* Mutant: the rest of ProcessSend runs without WRITE_LOCK. *)
NoGuard(t) == UNCHANGED lock

WriteGuard(t) ==
  /\ lock = NoThread
  /\ lock' = t

(* Mutant: ProcessSend registers again without testing for an empty queue. *)
AlwaysRegister == "register"

QuiesceOrRegister == IF sendQueue = <<>> THEN "quiesce" ELSE "register"

(* The end of ProcessSend, under WRITE_LOCK to its last statement. *)
Recheck(t) ==
  /\ pc[t] = "recheck"
  /\ WriteGuard(t)
  /\ Goto(t, QuiesceOrRegister)
  /\ UNCHANGED <<connected, sendQueue, sendRegistered, sendEvent, inFlight,
                 submitted, arg, unsent>>

Quiesce(t) ==
  /\ pc[t] = "quiesce"
  /\ sendRegistered' = FALSE
  /\ Return(t)
  /\ UNCHANGED <<connected, sendQueue, sendEvent, inFlight, submitted, arg,
                 unsent>>

(* Session::Disconnect called on the receiving side of the session, at any *)
(* moment; SessionLifecycle models where from.                             *)
Disconnect ==
  /\ connected
  /\ connected' = FALSE
  /\ UNCHANGED <<sendQueue, sendRegistered, sendEvent, lock, inFlight,
                 submitted, pc, arg, unsent>>

(* All calls of Send are made and the workers wait for completions that do *)
(* not come: the one state in which nothing more happens.                  *)
Quiescent ==
  /\ unsent = {} \/ ~connected
  /\ inFlight = {}
  /\ \A t \in Threads : pc[t] = "idle"
  /\ UNCHANGED vars

-----------------------------------------------------------------------------
(* The steps of a call under way. *)
Step(t) ==
  \/ Push(t)
  \/ Exchange(t)
  \/ RegisterCheck(t)
  \/ Drain(t)
  \/ PostAccepted(t)
  \/ \E error \in Errors : PostRejected(t, error)
  \/ AbandonSend(t)
  \/ ProcessSend(t)
  \/ Recheck(t)
  \/ Quiesce(t)

DispatchSome ==
  \E t \in Threads, batch \in inFlight, moved \in BOOLEAN :
    Complete(t, batch, moved)

Next ==
  \/ \E t \in Threads : Step(t) \/ \E b \in Buffers : Send(t, b)
  \/ DispatchSome
  \/ Disconnect
  \/ Quiescent

Spec == Init /\ [][Next]_vars

(* Threads are scheduled.  Strong fairness of the steps that take the      *)
(* lock: a thread that fails to get it for ten seconds ends the process    *)
(* (Lock.cpp:30), so in a process that goes on every waiter gets it.       *)
(* Nothing is assumed of Send, of Disconnect, and of completions: a peer   *)
(* that does not read keeps a WSASend outstanding for as long as it likes. *)
Fairness ==
  \A t \in Threads : /\ WF_vars(Step(t))
                     /\ SF_vars(Push(t))
                     /\ SF_vars(Recheck(t))
                     /\ SF_vars(Drain(t))

FairSpec == Spec /\ Fairness

-----------------------------------------------------------------------------
(* The thread that owns _sendEvent and, with it, the right to call WSASend.*)
Token(t) ==
  pc[t] \in {"register", "drain", "post", "failed", "sent", "zero",
             "recheck", "quiesce"}

(* _sendRegistered does its job: at most one send is outstanding, and      *)
(* while the kernel has the event no thread reads or writes it.  The       *)
(* comment at Session.cpp:192-194 says that the lock keeps threads out of  *)
(* WSASend; Send has given it back by then.                                *)
OneSendInFlight ==
  /\ \A t, u \in Threads : Token(t) /\ Token(u) => t = u
  /\ \A x, y \in inFlight : x = y
  /\ inFlight # {} => \A t \in Threads : ~Token(t)

(* What Session.cpp:177 and IocpEvent.h:90 say of sendBuffers: while the   *)
(* kernel sends, the event keeps alive the session and exactly the buffers *)
(* being sent; and the owner that IocpCore::Dispatch follows is set.       *)
SendEventHeld ==
  /\ inFlight # {} => sendEvent.owner
  /\ inFlight \subseteq {sendEvent.bufs}
  /\ \A t \in Threads : pc[t] \in {"sent", "zero"} => sendEvent.owner

(* WSASend never gets an empty gather list: it would complete with zero    *)
(* bytes, and ProcessSend would take that for the peer's disconnect.       *)
NeverEmptyGather == <<>> \notin inFlight

(* What Session.cpp:31 and :285 say: data left in _sendQueue because a     *)
(* send is registered is picked up when that send is over.  So on a        *)
(* connected session a non-empty queue has someone who will drain it.      *)
QueueServed ==
  connected /\ sendQueue # <<>> =>
    \/ inFlight # {}
    \/ \E t \in Threads : Token(t) \/ pc[t] = "exchange"

(* Every WSASend is completed and the completion dispatched, sooner or     *)
(* later: the one thing that Send has to count on in its peer.             *)
SendsComplete == []<>(inFlight = {})

(* Session.cpp:31 and :285, in the long run: a buffer given to Send is     *)
(* handed to WSASend or the session is disconnected, unless a send before  *)
(* it stays outstanding for ever.  It never waits for anything else.       *)
QueuedSettles ==
  SendsComplete =>
    \A b \in Buffers :
      (\E i \in DOMAIN sendQueue : sendQueue[i] = b)
        ~> \/ \E i \in DOMAIN submitted : submitted[i] = b
           \/ ~connected

(* Refinement: the abstract queue is the batch on its way to WSASend       *)
(* followed by _sendQueue.                                                 *)
UnsentBatch ==
  IF \E t \in Threads : pc[t] \in {"post", "failed"}
  THEN sendEvent.bufs
  ELSE <<>>

Promise == INSTANCE Outbox WITH queue <- UnsentBatch \o sendQueue

(* Whatever the interleaving, buffers reach WSASend in the order of the    *)
(* calls of Send, at most once, and are lost only in refused batches.      *)
ImplementsOutbox == Promise!Spec
=============================================================================
