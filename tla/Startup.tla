------------------------------ MODULE Startup ------------------------------
(***************************************************************************)
(* A program from the constructor of CoreGlobal to the loops of its        *)
(* threads: SocketUtils::Init, IocpCore's constructor, the Start of        *)
(* ServerService (with Listener::StartAccept and RegisterAccept) or of     *)
(* ClientService (with Session::RegisterConnect), then                     *)
(* ThreadManager::Launch and InitTLS of each worker.  Every system call on *)
(* the way may fail, and the program notices some of the failures only.    *)
(* What the threads do once they run is SessionLifecycle's matter.  The    *)
(* names of the specification carry a prefix so that a run can extend this *)
(* module beside others.                                                   *)
(***************************************************************************)
EXTENDS Naturals, Sequences, FiniteSets

CONSTANTS
  Main,             \* the thread of main(), which also constructs the globals
  Workers,          \* threads launched by main()
  Sessions,         \* Session objects; one whose count is 0 may be made anew
  None,
  Roles,            \* types of Service a program may make
  MaxSessionCount,  \* _maxSessionCount
  MaxDepth,         \* bound on the nesting of RegisterAccept
  IdLimit           \* values of the owner's half of _lockFlag (2^16)

Threads == Workers \cup {Main}

ASSUME MainAssumption == Main \notin Workers
ASSUME NoneAssumption == None \notin Sessions
ASSUME RolesAssumption == Roles \subseteq {"server", "client"}
ASSUME CountAssumption ==
  /\ MaxSessionCount \in Nat /\ MaxDepth \in Nat /\ IdLimit \in Nat
(* Fewer threads than owners that fit _lockFlag besides "none".            *)
ASSUME IdsAssumption ==
  /\ IsFiniteSet(Workers)
  /\ Cardinality(Workers) + 1 < IdLimit

VARIABLES
  role,    \* Service::_type
  at,      \* where each thread is
  step,    \* index of the next call in Script
  done,    \* calls of Script that succeeded
  posted,  \* AcceptEx or ConnectEx calls outstanding
  held,    \* acceptEvent->session, or the session that is its own owner
  frames,  \* sessions of the SessionRef locals of the calls under way
  refs,    \* use_count of each session
  nextId,  \* SThreadId
  id       \* LThreadId of each thread

startVars == <<role, at, step, done, posted, held, frames, refs, nextId, id>>

Slots == 1 .. MaxSessionCount

(* Calls made in order before any session is made.  A failure of one in    *)
(* Asserted ends the process, of one in Checked makes Start return false;  *)
(* the others go unnoticed: the dummy socket is not looked at, and         *)
(* IocpCore compares with INVALID_HANDLE_VALUE, a failed                   *)
(* CreateIoCompletionPort returns NULL.                                    *)
Globals == <<"WSAStartup", "DummySocket", "ConnectEx", "DisconnectEx",
             "AcceptEx", "CreatePort">>
StartAccept == <<"CreateSocket", "Register", "SetReuseAddress", "SetLinger",
                 "Bind", "Listen">>
Script == IF role = "server" THEN Globals \o StartAccept ELSE Globals

Asserted == {"WSAStartup", "ConnectEx", "DisconnectEx", "AcceptEx"}
(* Mutant: the result of listen is not looked at. *)
NotListen ==
  {"CreateSocket", "Register", "SetReuseAddress", "SetLinger", "Bind"}
Checked == {StartAccept[i] : i \in DOMAIN StartAccept}

(* WSAIoctl cannot find a function through a socket that is none. *)
CanSucceed(call) ==
  call \in {"ConnectEx", "DisconnectEx", "AcceptEx"} => "DummySocket" \in done

PcStates == {"off", "tls", "setup", "create", "post", "connect", "failed",
             "launch", "run", "dead"}

StartTypeOK ==
  /\ role \in Roles
  /\ at \in [Threads -> PcStates]
  /\ step \in Nat \ {0}
  /\ done \subseteq Asserted \cup Checked \cup {"DummySocket", "CreatePort"}
  /\ posted \in 0 .. MaxSessionCount
  /\ held \in [Slots -> Sessions \cup {None}]
  /\ frames \subseteq Sessions
  /\ refs \in [Sessions -> Nat]
  /\ nextId \in Nat \ {0}
  /\ id \in [Threads -> Nat]

StartInit ==
  /\ role \in Roles
  /\ at = [t \in Threads |-> IF t = Main THEN "tls" ELSE "off"]
  /\ step = 1 /\ done = {}
  /\ posted = 0
  /\ held = [i \in Slots |-> None]
  /\ frames = {}
  /\ refs = [s \in Sessions |-> 0]
  /\ nextId = 1
  /\ id = [t \in Threads |-> 0]

Goto(t, to) == at' = [at EXCEPT ![t] = to]

(* CRASH, ASSERT_CRASH or a null pointer: no thread goes on. *)
Die == at' = [t \in Threads |-> "dead"]

Alive == {s \in Sessions : refs[s] > 0}

-----------------------------------------------------------------------------
(* Mutant: the counter is read and not moved on. *)
SameId(n) == n
(* The thread that takes id n leaves this one to the next. *)
IdAfter(n) == n + 1

(* ThreadManager::InitTLS, from its constructor or as a worker begins. *)
InitTLS(t) ==
  /\ at[t] = "tls"
  /\ id' = [id EXCEPT ![t] = nextId]
  /\ nextId' = IdAfter(nextId)
  /\ Goto(t, IF t = Main THEN "setup" ELSE "run")
  /\ UNCHANGED <<role, step, done, posted, held, frames, refs>>

(* The next call of Script succeeds. *)
CallSucceeds ==
  /\ at[Main] = "setup" /\ step <= Len(Script)
  /\ CanSucceed(Script[step])
  /\ done' = done \cup {Script[step]}
  /\ step' = step + 1
  /\ UNCHANGED <<role, at, posted, held, frames, refs, nextId, id>>

(* The next call of Script fails. *)
CallFails ==
  /\ at[Main] = "setup" /\ step <= Len(Script)
  /\ \/ Script[step] \in Asserted /\ Die
     \/ Script[step] \in Checked /\ Goto(Main, "failed")
     \/ Script[step] \notin Asserted \cup Checked /\ UNCHANGED at
  /\ step' = step + 1
  /\ UNCHANGED <<role, done, posted, held, frames, refs, nextId, id>>

EnterLoop ==
  /\ at[Main] = "setup" /\ step > Len(Script)
  /\ Goto(Main, "create")
  /\ UNCHANGED <<role, step, done, posted, held, frames, refs, nextId, id>>

-----------------------------------------------------------------------------
(* Mutant: a SessionRef is overwritten as a plain pointer would be. *)
NeverReleased(s, old, new) == refs[s] + (IF s = new THEN 1 ELSE 0)
(* References of s after the assignment of new to a pointer that was old,  *)
(* and of the n without those of the locals of the calls under way.        *)
Assigned(s, old, new) ==
  refs[s] + (IF s = new THEN 1 ELSE 0) - (IF s = old THEN 1 ELSE 0)
WithoutLocals(s, n) == n - (IF s \in frames THEN 1 ELSE 0)

(* Service::CreateSession in RegisterAccept or ClientService::Start; when  *)
(* the session has no socket or cannot be registered, the caller follows a *)
(* null pointer.  RegisterAccept gives the session to the event at once.   *)
CreateSession ==
  /\ at[Main] = "create" /\ posted < MaxSessionCount
  /\ \/ /\ Die
        /\ UNCHANGED <<held, frames, refs>>
     \/ \E s \in Sessions \ Alive :
          /\ Goto(Main, "post")
          /\ frames' = frames \cup {s}
          /\ IF role = "server"
             THEN /\ held' = [held EXCEPT ![posted + 1] = s]
                  /\ refs' = [q \in Sessions |->
                                Assigned(q, held[posted + 1], s)
                                  + (IF q = s THEN 1 ELSE 0)]
             ELSE /\ refs' = [refs EXCEPT ![s] = 1]
                  /\ UNCHANGED held
  /\ UNCHANGED <<role, step, done, posted, nextId, id>>

(* AcceptEx of RegisterAccept is pending: all the nested calls return. *)
AcceptPosted ==
  /\ at[Main] = "post" /\ role = "server"
  /\ posted' = posted + 1
  /\ frames' = {}
  /\ refs' = [s \in Sessions |-> WithoutLocals(s, refs[s])]
  /\ Goto(Main, "create")
  /\ UNCHANGED <<role, step, done, held, nextId, id>>

(* AcceptEx fails at once: RegisterAccept calls itself. *)
AcceptAgain ==
  /\ at[Main] = "post" /\ role = "server"
  /\ Cardinality(frames) < MaxDepth
  /\ Goto(Main, "create")
  /\ UNCHANGED <<role, step, done, posted, held, frames, refs, nextId, id>>

(* SetReuseAddress or BindAnyAddress of RegisterConnect fails. *)
ConnectRefused ==
  /\ at[Main] = "post" /\ role = "client"
  /\ frames' = {}
  /\ refs' = [s \in Sessions |-> WithoutLocals(s, refs[s])]
  /\ Goto(Main, "failed")
  /\ UNCHANGED <<role, step, done, posted, held, nextId, id>>

(* _connectEvent.owner = shared_from_this(). *)
OwnConnect ==
  /\ at[Main] = "post" /\ role = "client"
  /\ \E s \in frames :
       /\ held' = [held EXCEPT ![posted + 1] = s]
       /\ refs' = [refs EXCEPT ![s] = @ + 1]
  /\ Goto(Main, "connect")
  /\ UNCHANGED <<role, step, done, posted, frames, nextId, id>>

(* ConnectEx is pending, and the loop of ClientService::Start goes on. *)
ConnectPosted ==
  /\ at[Main] = "connect"
  /\ posted' = posted + 1
  /\ frames' = {}
  /\ refs' = [s \in Sessions |-> WithoutLocals(s, refs[s])]
  /\ Goto(Main, "create")
  /\ UNCHANGED <<role, step, done, held, nextId, id>>

(* ConnectEx fails at once: the owner is reset and Start returns false.    *)
ConnectFails ==
  /\ at[Main] = "connect"
  /\ held' = [held EXCEPT ![posted + 1] = None]
  /\ frames' = {}
  /\ refs' = [s \in Sessions |->
                WithoutLocals(s, Assigned(s, held[posted + 1], None))]
  /\ Goto(Main, "failed")
  /\ UNCHANGED <<role, step, done, posted, nextId, id>>

(* Start returns to ASSERT_CRASH. *)
StartReturns ==
  /\ \/ at[Main] = "create" /\ posted = MaxSessionCount /\ Goto(Main, "launch")
     \/ at[Main] = "failed" /\ Die
  /\ UNCHANGED <<role, step, done, posted, held, frames, refs, nextId, id>>

-----------------------------------------------------------------------------
(* ThreadManager::Launch of the next worker. *)
Launch(w) ==
  /\ at[Main] = "launch" /\ at[w] = "off"
  /\ Goto(w, "tls")
  /\ UNCHANGED <<role, step, done, posted, held, frames, refs, nextId, id>>

(* main() goes on to its broadcasts, or waits in Join. *)
AllLaunched ==
  /\ at[Main] = "launch"
  /\ \A w \in Workers : at[w] # "off"
  /\ Goto(Main, "run")
  /\ UNCHANGED <<role, step, done, posted, held, frames, refs, nextId, id>>

(* IocpCore::Dispatch on a port that is NULL: there is no event to follow. *)
DispatchWithoutPort(w) ==
  /\ at[w] = "run" /\ "CreatePort" \notin done
  /\ Die
  /\ UNCHANGED <<role, step, done, posted, held, frames, refs, nextId, id>>

(* The process is gone, or its threads do what SessionLifecycle describes. *)
Quiescent ==
  /\ \A t \in Threads : at[t] = "run" \/ at[t] = "dead"
  /\ UNCHANGED startVars

StartNext ==
  \/ \E t \in Threads : InitTLS(t)
  \/ CallSucceeds \/ CallFails \/ EnterLoop
  \/ CreateSession \/ AcceptPosted \/ AcceptAgain
  \/ ConnectRefused \/ OwnConnect \/ ConnectPosted \/ ConnectFails
  \/ StartReturns
  \/ \E w \in Workers : Launch(w) \/ DispatchWithoutPort(w)
  \/ AllLaunched \/ Quiescent

StartSpec == StartInit /\ [][StartNext]_startVars

-----------------------------------------------------------------------------
(* Lock compares the owner's half of _lockFlag with LThreadId, and takes 0 *)
(* for "no owner": each running thread has an id that fits that half, is   *)
(* not 0 and is nobody else's (Lock.cpp:13-21, ThreadManager.cpp:44-48).   *)
LockIdsFit ==
  \A t \in Threads : at[t] = "run" =>
    /\ id[t] # 0 /\ id[t] < IdLimit
    /\ \A u \in Threads \ {t} : id[u] # id[t]

(* No worker runs beside a service that has only half started: whichever   *)
(* calls failed, it finds the extension functions loaded, the listener     *)
(* listening on the port, and all accepts or connects posted.              *)
WorkersFindService ==
  \A w \in Workers : at[w] = "run" =>
    /\ Asserted \subseteq done
    /\ role = "server" => \A i \in DOMAIN StartAccept : StartAccept[i] \in done
    /\ posted = MaxSessionCount

(* A registration that was retried or failed leaves no session behind with *)
(* its socket, and one that is pending keeps its session: between the      *)
(* calls, those alive are the ones of the events outstanding, each with    *)
(* one reference (Listener.cpp:62-83, Session.cpp:78-110).                 *)
SessionsAccounted ==
  /\ \A i, j \in 1 .. posted : i # j => held[i] # held[j]
  /\ \A i \in 1 .. posted : held[i] \in Alive
  /\ frames = {} =>
       /\ Alive = {held[i] : i \in 1 .. posted}
       /\ \A s \in Alive : refs[s] = 1
=============================================================================
