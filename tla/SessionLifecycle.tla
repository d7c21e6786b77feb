-------------------------- MODULE SessionLifecycle --------------------------
(***************************************************************************)
(* Sessions from AcceptEx or ConnectEx to their destruction: Listener,     *)
(* Service, the connection side of Session, and GameServer's               *)
(* GameSessionManager with its Broadcast.  Workers run the completions     *)
(* that IocpCore::Dispatch hands them; the main thread broadcasts.  What   *)
(* SessionSend and RecvStream say of the data is left out: a send may or   *)
(* may not find a send registered, and its queue empty or not.             *)
(*                                                                         *)
(* A thread is at one of these points, in a session s or with an accept    *)
(* event e:                                                                *)
(*                                                                         *)
(*   idle            in GetQueuedCompletionStatus; main between broadcasts *)
(*   accept          Listener::RegisterAccept                              *)
(*   connect         ProcessConnect: before _connected.store(true)         *)
(*   addSession      ProcessConnect: before AddSession                     *)
(*   onConnected     ProcessConnect: before OnConnected                    *)
(*   recvCheck       RegisterRecv: before IsConnected                      *)
(*   recvPost        RegisterRecv: owner set, before WSARecv               *)
(*   recvFailed      RegisterRecv: after HandleError                       *)
(*   send            Send: past IsConnected, waiting for WRITE_LOCK        *)
(*   sendCheck, sendPost, sendFailed   in RegisterSend as in RegisterRecv  *)
(*   sent            ProcessSend: OnSend done, waiting for WRITE_LOCK      *)
(*   disconnect      Disconnect: this thread made _connected fall          *)
(*   onDisconnected  ProcessDisconnect: before OnDisconnected              *)
(*   release         ProcessDisconnect: before ReleaseSession              *)
(*   broadcast       in the loop of Broadcast, holding its lock            *)
(***************************************************************************)
EXTENDS Naturals, Sequences, FiniteSets

CONSTANTS
  Workers,       \* threads in the loop of IocpCore::Dispatch
  Main,          \* the thread that calls Broadcast
  Sessions,      \* session objects: bounds how many are ever created
  Events,        \* accept events, one for each of _maxSessionCount
  None,
  Roles,         \* the service types considered: "server", "client"
  Errors         \* how WSARecv, WSASend, DisconnectEx may fail at once:
                 \* "reset", "other", "disconnect"

ASSUME RolesAssumption == Roles \subseteq {"server", "client"}
ASSUME ErrorsAssumption == Errors \subseteq {"reset", "other", "disconnect"}
ASSUME NamesAssumption ==
  /\ Main \notin Workers
  /\ None \notin Workers \cup {Main} \cup Sessions \cup Events
ASSUME CountAssumption ==
  /\ IsFiniteSet(Sessions) /\ IsFiniteSet(Events)
  /\ Cardinality(Events) <= Cardinality(Sessions)

Threads == Workers \cup {Main}
Kinds == {"connect", "recv", "send", "disconnect"}

VARIABLES
  role,            \* Service::_type
  fresh,           \* session objects not created yet
  accepting,       \* acceptEvent->session
  acceptsPending,  \* accept events the kernel has
  pending,         \* <<session, kind>>: overlapped operations it has
  owner,           \* <<session, kind>>: events whose owner is set
  up,              \* history: sockets that were ever connected
  connected,       \* sessions with _connected
  sendRegistered,  \* sessions with _sendRegistered
  sessionLock,     \* holder of each session's _locks[0]
  services,        \* Service::_sessions
  game,            \* GameSessionManager::_sessions
  gameLock,        \* holder of its lock
  todo,            \* what the loop of Broadcast has left
  callbacks,       \* history: what each session was told, in order
  pc, cur, event,  \* point, session and accept event of each thread
  after,           \* where Disconnect returns to
  crashed          \* an ASSERT_CRASH has failed

session == <<connected, sendRegistered, sessionLock>>
registry == <<services, game, gameLock, todo, callbacks>>
kernel == <<role, fresh, accepting, acceptsPending, pending, owner, up>>
control == <<pc, cur, event, after, crashed>>
vars == <<session, registry, kernel, control>>

Points == {"idle", "accept", "connect", "addSession", "onConnected",
           "recvCheck", "recvPost", "recvFailed", "send", "sendCheck",
           "sendPost", "sendFailed", "sent", "disconnect",
           "onDisconnected", "release", "broadcast"}

TypeOK ==
  /\ role \in Roles
  /\ fresh \subseteq Sessions
  /\ accepting \in [Events -> Sessions \cup {None}]
  /\ acceptsPending \subseteq Events
  /\ pending \subseteq Sessions \X Kinds
  /\ owner \subseteq Sessions \X Kinds
  /\ up \subseteq Sessions
  /\ connected \subseteq Sessions
  /\ sendRegistered \subseteq Sessions
  /\ sessionLock \in [Sessions -> Threads \cup {None}]
  /\ services \subseteq Sessions
  /\ game \subseteq Sessions
  /\ gameLock \in Threads \cup {None}
  /\ todo \subseteq Sessions
  /\ callbacks \in [Sessions -> Seq({"OnConnected", "OnDisconnected"})]
  /\ pc \in [Threads -> Points]
  /\ cur \in [Threads -> Sessions \cup {None}]
  /\ event \in [Threads -> Events \cup {None}]
  /\ after \in [Threads -> Points]
  /\ crashed \in BOOLEAN
  /\ \A t \in Threads :
       /\ cur[t] = None <=> pc[t] \in {"idle", "accept", "broadcast"}
       /\ pc[t] = "idle" => event[t] = None
       /\ pc[t] = "accept" => event[t] # None

(* Listener::StartAccept, for ServerService::Start: an accept is posted on *)
(* every event.                                                            *)
StartAccept ==
  /\ accepting \in [Events -> Sessions]
  /\ \A d, e \in Events : accepting[d] = accepting[e] => d = e
  /\ acceptsPending = Events
  /\ fresh = Sessions \ {accepting[e] : e \in Events}
  /\ pending = {}

(* ClientService::Start: a connect is posted on every session.             *)
StartConnect ==
  /\ accepting = [e \in Events |-> None]
  /\ acceptsPending = {}
  /\ fresh = {}
  /\ pending = Sessions \X {"connect"}

(* The service has started.                                                *)
Init ==
  /\ role \in Roles
  /\ IF role = "server" THEN StartAccept ELSE StartConnect
  /\ owner = pending
  /\ up = {}
  /\ connected = {}
  /\ sendRegistered = {}
  /\ sessionLock = [s \in Sessions |-> None]
  /\ services = {}
  /\ game = {}
  /\ gameLock = None
  /\ todo = {}
  /\ callbacks = [s \in Sessions |-> <<>>]
  /\ pc = [t \in Threads |-> "idle"]
  /\ cur = [t \in Threads |-> None]
  /\ event = [t \in Threads |-> None]
  /\ after = [t \in Threads |-> "idle"]
  /\ crashed = FALSE

At(t, point) == ~crashed /\ pc[t] = point

Goto(t, point) ==
  /\ pc' = [pc EXCEPT ![t] = point]
  /\ UNCHANGED <<cur, event, after, crashed>>

(* Mutant: the accept event is not posted again. *)
BackToLoop(t) == IF t = Main THEN "broadcast" ELSE "idle"

(* Where a thread goes on when the session it worked on needs no more. *)
Rest(t) ==
  CASE t = Main                      -> "broadcast"
    [] t # Main /\ event[t] # None -> "accept"
    [] OTHER                         -> "idle"

Leave(t) ==
  /\ pc' = [pc EXCEPT ![t] = Rest(t)]
  /\ cur' = [cur EXCEPT ![t] = None]
  /\ UNCHANGED <<event, after, crashed>>

(* Mutant: ADD_REF is forgotten. *)
NoRef(s, kind) == owner

(* Mutant: RELEASE_REF is forgotten. *)
KeptRef(s, kind) == owner

AddRef(s, kind) == owner \cup {<<s, kind>>}
ReleaseRef(s, kind) == owner \ {<<s, kind>>}

(* Mutant: the result of the exchange is not looked at. *)
AnyDisconnect(s) == TRUE

FirstDisconnect(s) == s \in connected

(* Session::Disconnect up to RegisterDisconnect; then the thread goes on   *)
(* at the given point.                                                     *)
Disconnect(t, s, point) ==
  /\ connected' = connected \ {s}
  /\ IF FirstDisconnect(s)
     THEN /\ pc' = [pc EXCEPT ![t] = "disconnect"]
          /\ after' = [after EXCEPT ![t] = point]
          /\ cur' = [cur EXCEPT ![t] = s]
     ELSE /\ pc' = [pc EXCEPT ![t] = point]
          /\ cur' = [cur EXCEPT ![t] = IF point = "idle" THEN None ELSE s]
          /\ UNCHANGED after
  /\ UNCHANGED <<event, crashed>>

(* Session::RegisterDisconnect. *)
RegisterDisconnect(t) ==
  /\ At(t, "disconnect")
  /\ LET op == <<cur[t], "disconnect">>
     IN  \/ /\ pending' = pending \cup {op}
            /\ owner' = owner \cup {op}
         \/ /\ "disconnect" \in Errors
            /\ UNCHANGED <<pending, owner>>
  /\ pc' = [pc EXCEPT ![t] = after[t]]
  /\ cur' = [cur EXCEPT ![t] = IF after[t] = "idle" THEN None ELSE @]
  /\ after' = [after EXCEPT ![t] = "idle"]
  /\ UNCHANGED <<event, crashed, role, fresh, accepting, acceptsPending, up,
                 session, registry>>

-----------------------------------------------------------------------------
(* Listener::ProcessAccept, up to ProcessConnect when the socket has a     *)
(* peer, and back to RegisterAccept when AcceptEx has failed or the peer   *)
(* is gone again.                                                          *)
ProcessAccept(t, e, ok) ==
  /\ t \in Workers /\ At(t, "idle")
  /\ e \in acceptsPending
  /\ acceptsPending' = acceptsPending \ {e}
  /\ event' = [event EXCEPT ![t] = e]
  /\ IF ok
     THEN /\ up' = up \cup {accepting[e]}
          /\ pc' = [pc EXCEPT ![t] = "connect"]
          /\ cur' = [cur EXCEPT ![t] = accepting[e]]
     ELSE /\ pc' = [pc EXCEPT ![t] = "accept"]
          /\ UNCHANGED <<up, cur>>
  /\ UNCHANGED <<after, crashed, role, fresh, accepting, pending, owner,
                 session, registry>>

(* Service::CreateSession, for an accept event. *)
CreateSession(s, e) ==
  /\ fresh' = fresh \ {s}
  /\ accepting' = [accepting EXCEPT ![e] = s]

(* Listener::RegisterAccept.  When AcceptEx fails at once it calls itself  *)
(* with another new session.  When the bound on sessions is reached the    *)
(* event retires.  CreateSession may also return null, and the next lines  *)
(* follow the pointer: that is the end of the process and has no state     *)
(* here; Startup has it.                                                   *)
RegisterAccept(t) ==
  /\ At(t, "accept")
  /\ \/ \E s \in fresh :
          /\ CreateSession(s, event[t])
          /\ \/ /\ acceptsPending' = acceptsPending \cup {event[t]}
                /\ event' = [event EXCEPT ![t] = None]
                /\ pc' = [pc EXCEPT ![t] = "idle"]
             \/ UNCHANGED <<acceptsPending, event, pc>>
     \/ /\ fresh = {}
        /\ accepting' = [accepting EXCEPT ![event[t]] = None]
        /\ event' = [event EXCEPT ![t] = None]
        /\ pc' = [pc EXCEPT ![t] = "idle"]
        /\ UNCHANGED <<fresh, acceptsPending>>
  /\ UNCHANGED <<cur, after, crashed, role, pending, owner, up, session,
                 registry>>

(* Session::ProcessConnect for a completion of ConnectEx: whether it       *)
(* succeeded is not looked at.                                             *)
ConnectDone(t, s, ok) ==
  /\ up' = IF ok THEN up \cup {s} ELSE up
  /\ pc' = [pc EXCEPT ![t] = "connect"]
  /\ cur' = [cur EXCEPT ![t] = s]
  /\ UNCHANGED <<event, after, crashed, connected>>

(* The rest of Session::ProcessConnect. *)
SetConnected(t) ==
  /\ At(t, "connect")
  /\ connected' = connected \cup {cur[t]}
  /\ Goto(t, "addSession")
  /\ UNCHANGED <<sendRegistered, sessionLock, registry, kernel>>

(* Mutant: AddSession is forgotten. *)
NoSession(s) == services

MoreSessions(s) == services \cup {s}

AddSession(t) ==
  /\ At(t, "addSession")
  /\ services' = MoreSessions(cur[t])
  /\ Goto(t, "onConnected")
  /\ UNCHANGED <<game, gameLock, todo, callbacks, session, kernel>>

(* GameSession::OnConnected, or ServerSession's, which does nothing. *)
OnConnected(t) ==
  /\ At(t, "onConnected")
  /\ role = "server" => gameLock = None
  /\ game' = IF role = "server" THEN game \cup {cur[t]} ELSE game
  /\ callbacks' = [callbacks EXCEPT ![cur[t]] = Append(@, "OnConnected")]
  /\ Goto(t, "recvCheck")
  /\ UNCHANGED <<services, gameLock, todo, session, kernel>>

-----------------------------------------------------------------------------
(* Session::RegisterRecv. *)
RecvCheck(t) ==
  /\ At(t, "recvCheck")
  /\ IF cur[t] \in connected
     THEN Goto(t, "recvPost") /\ owner' = AddRef(cur[t], "recv")
     ELSE Leave(t) /\ UNCHANGED owner
  /\ UNCHANGED <<role, fresh, accepting, acceptsPending, pending, up, session,
                 registry>>

RecvPosted(t) ==
  /\ At(t, "recvPost")
  /\ cur[t] \in up
  /\ pending' = pending \cup {<<cur[t], "recv">>}
  /\ Leave(t)
  /\ UNCHANGED <<role, fresh, accepting, acceptsPending, owner, up, session,
                 registry>>

(* How a request on the socket of s may fail at once, DisconnectEx aside:  *)
(* with WSAENOTCONN when there is no connection.                           *)
Failures(s) == IF s \in up THEN Errors \ {"disconnect"} ELSE {"other"}

(* Mutant: a reset is only logged, like the other errors. *)
NoneDisconnects(error) == FALSE

Disconnects(error) == error = "reset"

(* Session::HandleError. *)
HandleError(t, point) ==
  /\ \E error \in Failures(cur[t]) :
       IF Disconnects(error)
       THEN Disconnect(t, cur[t], point)
       ELSE Goto(t, point) /\ UNCHANGED connected
  /\ UNCHANGED <<sendRegistered, sessionLock, registry, kernel>>

RecvRefused(t) == At(t, "recvPost") /\ HandleError(t, "recvFailed")

RecvFailed(t) ==
  /\ At(t, "recvFailed")
  /\ owner' = ReleaseRef(cur[t], "recv")
  /\ Leave(t)
  /\ UNCHANGED <<role, fresh, accepting, acceptsPending, pending, up, session,
                 registry>>

(* Session::ProcessRecv up to RegisterRecv. *)
RecvDone(t, s, ok) ==
  /\ IF ok
     THEN /\ pc' = [pc EXCEPT ![t] = "recvCheck"]
          /\ cur' = [cur EXCEPT ![t] = s]
          /\ UNCHANGED <<event, after, crashed, connected>>
     ELSE Disconnect(t, s, "idle")
  /\ UNCHANGED up

-----------------------------------------------------------------------------
(* GameSessionManager::Broadcast, with Session::Send for each session. *)
Broadcast ==
  /\ At(Main, "idle")
  /\ role = "server"
  /\ gameLock = None
  /\ gameLock' = Main
  /\ todo' = game
  /\ Goto(Main, "broadcast")
  /\ UNCHANGED <<services, game, callbacks, session, kernel>>

Send(s) ==
  /\ At(Main, "broadcast")
  /\ s \in todo
  /\ todo' = todo \ {s}
  /\ IF s \in connected
     THEN /\ pc' = [pc EXCEPT ![Main] = "send"]
          /\ cur' = [cur EXCEPT ![Main] = s]
     ELSE UNCHANGED <<pc, cur>>
  /\ UNCHANGED <<event, after, crashed, services, game, gameLock, callbacks,
                 session, kernel>>

PushAndExchange(t) ==
  /\ At(t, "send")
  /\ sessionLock[cur[t]] = None
  /\ sendRegistered' = sendRegistered \cup {cur[t]}
  /\ IF cur[t] \in sendRegistered THEN Leave(t) ELSE Goto(t, "sendCheck")
  /\ UNCHANGED <<connected, sessionLock, registry, kernel>>

BroadcastDone ==
  /\ At(Main, "broadcast")
  /\ todo = {}
  /\ gameLock' = None
  /\ Goto(Main, "idle")
  /\ UNCHANGED <<services, game, todo, callbacks, session, kernel>>

(* Mutant: a lock is not given back. *)
StillLocked(t) == sessionLock

(* The guard of ProcessSend, if this thread holds it, is destroyed. *)
Unlocked(t) ==
  [s \in Sessions |-> IF sessionLock[s] = t THEN None ELSE sessionLock[s]]

(* Session::RegisterSend. *)
SendCheck(t) ==
  /\ At(t, "sendCheck")
  /\ IF cur[t] \in connected
     THEN /\ Goto(t, "sendPost")
          /\ owner' = AddRef(cur[t], "send")
          /\ UNCHANGED sessionLock
     ELSE /\ Leave(t)
          /\ sessionLock' = Unlocked(t)
          /\ UNCHANGED owner
  /\ UNCHANGED <<role, fresh, accepting, acceptsPending, pending, up,
                 connected, sendRegistered, registry>>

(* Between the check and WSASend RegisterSend drains _sendQueue under      *)
(* WRITE_LOCK, which recurs when Send or ProcessSend holds it already.     *)
Drains(t) == sessionLock[cur[t]] \in {None, t}

SendPosted(t) ==
  /\ At(t, "sendPost") /\ Drains(t)
  /\ cur[t] \in up
  /\ pending' = pending \cup {<<cur[t], "send">>}
  /\ sessionLock' = Unlocked(t)
  /\ Leave(t)
  /\ UNCHANGED <<role, fresh, accepting, acceptsPending, owner, up, connected,
                 sendRegistered, registry>>

SendRefused(t) ==
  At(t, "sendPost") /\ Drains(t) /\ HandleError(t, "sendFailed")

SendFailed(t) ==
  /\ At(t, "sendFailed")
  /\ owner' = ReleaseRef(cur[t], "send")
  /\ sendRegistered' = sendRegistered \ {cur[t]}
  /\ sessionLock' = Unlocked(t)
  /\ Leave(t)
  /\ UNCHANGED <<role, fresh, accepting, acceptsPending, pending, up,
                 connected, registry>>

(* Session::ProcessSend up to OnSend, and from WRITE_LOCK on. *)
SendDone(t, s, ok) ==
  /\ IF ok
     THEN /\ pc' = [pc EXCEPT ![t] = "sent"]
          /\ cur' = [cur EXCEPT ![t] = s]
          /\ UNCHANGED <<event, after, crashed, connected>>
     ELSE Disconnect(t, s, "idle")
  /\ UNCHANGED up

Recheck(t, empty) ==
  /\ At(t, "sent")
  /\ sessionLock[cur[t]] = None
  /\ IF empty
     THEN /\ sendRegistered' = sendRegistered \ {cur[t]}
          /\ Leave(t)
          /\ UNCHANGED sessionLock
     ELSE /\ sessionLock' = [sessionLock EXCEPT ![cur[t]] = t]
          /\ Goto(t, "sendCheck")
          /\ UNCHANGED sendRegistered
  /\ UNCHANGED <<connected, registry, kernel>>

-----------------------------------------------------------------------------
(* Session::ProcessDisconnect. *)
DisconnectDone(t, s) ==
  /\ pc' = [pc EXCEPT ![t] = "onDisconnected"]
  /\ cur' = [cur EXCEPT ![t] = s]
  /\ UNCHANGED <<event, after, crashed, connected, up>>

OnDisconnected(t) ==
  /\ At(t, "onDisconnected")
  /\ role = "server" => gameLock = None
  /\ game' = game \ {cur[t]}
  /\ callbacks' = [callbacks EXCEPT ![cur[t]] = Append(@, "OnDisconnected")]
  /\ Goto(t, "release")
  /\ UNCHANGED <<services, gameLock, todo, session, kernel>>

ReleaseSession(t) ==
  /\ At(t, "release")
  /\ services' = services \ {cur[t]}
  /\ IF cur[t] \in services
     THEN Leave(t)
     ELSE crashed' = TRUE /\ UNCHANGED <<pc, cur, event, after>>
  /\ UNCHANGED <<game, gameLock, todo, callbacks, session, kernel>>

(* IocpCore::Dispatch and Session::Dispatch: an idle worker takes the      *)
(* completion of an operation; a failed one takes the same path.           *)
Dispatch(t, s, kind, ok) ==
  /\ t \in Workers /\ At(t, "idle")
  /\ <<s, kind>> \in pending
  /\ pending' = pending \ {<<s, kind>>}
  /\ owner' = ReleaseRef(s, kind)
  /\ CASE kind = "connect"    -> ConnectDone(t, s, ok)
       [] kind = "recv"       -> RecvDone(t, s, ok)
       [] kind = "send"       -> SendDone(t, s, ok)
       [] kind = "disconnect" -> DisconnectDone(t, s)
  /\ UNCHANGED <<role, fresh, accepting, acceptsPending, sendRegistered,
                 sessionLock, registry>>

(* A client has nothing left to do, or the process is gone. *)
Stopped ==
  /\ \/ crashed
     \/ pending = {} /\ \A t \in Threads : pc[t] = "idle"
  /\ UNCHANGED vars

-----------------------------------------------------------------------------
(* The steps of a thread in a call that do not wait for a lock. *)
Step(t) ==
  \/ RegisterDisconnect(t) \/ RegisterAccept(t)
  \/ SetConnected(t) \/ AddSession(t)
  \/ RecvCheck(t) \/ RecvPosted(t) \/ RecvRefused(t) \/ RecvFailed(t)
  \/ SendCheck(t) \/ SendPosted(t) \/ SendRefused(t) \/ SendFailed(t)
  \/ ReleaseSession(t)

(* And those that do. *)
LockStep(t) ==
  \/ OnConnected(t) \/ OnDisconnected(t) \/ PushAndExchange(t)
  \/ \E empty \in BOOLEAN : Recheck(t, empty)

Complete(s, kind) ==
  \E t \in Workers, ok \in BOOLEAN : Dispatch(t, s, kind, ok)

Next ==
  \/ \E t \in Threads : Step(t) \/ LockStep(t)
  \/ \E t \in Workers, e \in Events, ok \in BOOLEAN : ProcessAccept(t, e, ok)
  \/ \E s \in Sessions, kind \in Kinds : Complete(s, kind)
  \/ Broadcast
  \/ \E s \in Sessions : Send(s)
  \/ BroadcastDone
  \/ Stopped

Spec == Init /\ [][Next]_vars

(* Threads run; locks that are given back again and again are obtained;    *)
(* what is under way on a socket completes once the session is             *)
(* disconnected, and its turn in the completion queue comes.               *)
Fairness ==
  /\ \A t \in Threads : WF_vars(Step(t)) /\ SF_vars(LockStep(t))
  /\ WF_vars(\E s \in Sessions : Send(s)) /\ WF_vars(BroadcastDone)
  /\ \A s \in Sessions, kind \in Kinds :
       SF_vars(s \notin connected /\ Complete(s, kind))

FairSpec == Spec /\ Fairness

-----------------------------------------------------------------------------
(* While the kernel has an operation on a session, the event's owner keeps *)
(* the session alive ("ADD_REF ... never deleted", Session.cpp:133).       *)
OwnersHeld == TypeOK /\ pending \subseteq owner

(* The assertion in ReleaseSession holds: OnDisconnected and               *)
(* ReleaseSession run once, after AddSession, although ProcessConnect may  *)
(* still be running on another worker.                                     *)
NeverCrashes == ~crashed

(* What is broadcast to is a session of the service. *)
GameWithinService == game \subseteq services

(* A connected session hears of its peer: a receive is outstanding, or a   *)
(* thread is on its way to post one.  Without it nothing would ever        *)
(* disconnect an idle session.                                             *)
ConnectedListens ==
  \A s \in connected :
    \/ <<s, "recv">> \in pending
    \/ \E t \in Threads :
         /\ cur[t] = s
         /\ pc[t] \in {"connect", "addSession", "onConnected", "recvCheck",
                       "recvPost"}

(* Service.h:21: maxSessionCount is the most sessions there are at once.   *)
SessionsBounded == Cardinality(services) <= Cardinality(Events)

(* Session.h:64: OnConnected comes after the connection is made.           *)
OnConnectedWhenUp == \A s \in Sessions : callbacks[s] # <<>> => s \in up

(* A broadcast comes to an end: its lock is not part of a cycle.           *)
BroadcastEnds == pc[Main] # "idle" ~> pc[Main] = "idle"

(* Something still points to the session object. *)
Referenced(s) ==
  \/ s \in services \cup game \cup todo
  \/ \E kind \in Kinds : <<s, kind>> \in owner
  \/ \E e \in Events : accepting[e] = s
  \/ \E t \in Threads : cur[t] = s

(* A session that was connected and is disconnected leaves both registries *)
(* and is destroyed, which closes its socket; no cycle through the owner   *)
(* of one of its own events keeps it.                                      *)
DisconnectedIsFreed ==
  \A s \in Sessions :
    callbacks[s] = <<"OnConnected">> /\ s \notin connected ~> ~Referenced(s)

(* The callbacks of every session come in order and once. *)
Promise == INSTANCE SessionLife
ImplementsSessionLife == Promise!Spec
=============================================================================
