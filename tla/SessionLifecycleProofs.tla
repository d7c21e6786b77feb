----------------------- MODULE SessionLifecycleProofs -----------------------
(***************************************************************************)
(* Theorems about SessionLifecycle, for any number of workers, sessions    *)
(* and accept events and for every interleaving of their steps.  IInv is   *)
(* inductive.  Its parts say of what there is at most one for each session *)
(* and who has it: the request whose completion starts its life, the       *)
(* Disconnect that ends it, and the use of its recv and its send event.    *)
(***************************************************************************)
EXTENDS SessionLifecycle, SequenceTheorems, TLAPS

(* Where a thread is in ProcessConnect before the contents know of the     *)
(* session, and where it ends the session.                                 *)
Starting == {"connect", "addSession", "onConnected"}
Ending == {"disconnect", "onDisconnected", "release"}

(* The thread has the recv event, or the send event, of its session to     *)
(* itself.                                                                 *)
InRecv(t) ==
  \/ pc[t] \in {"recvCheck", "recvPost", "recvFailed"}
  \/ pc[t] = "disconnect" /\ after[t] = "recvFailed"
InSend(t) ==
  \/ pc[t] \in {"sendCheck", "sendPost", "sendFailed", "sent"}
  \/ pc[t] = "disconnect" /\ after[t] = "sendFailed"

(* A session whose socket has no peer yet. *)
Waiting(s) ==
  \/ s \in fresh
  \/ \E e \in acceptsPending : accepting[e] = s
  \/ <<s, "connect">> \in pending

(* What a session was told: OnConnected, and both.                         *)
Joined == <<"OnConnected">>
Left == <<"OnConnected", "OnDisconnected">>

(* An accept event is with the kernel or with one worker, and Disconnect   *)
(* returns to the code that called it.                                     *)
ThreadInv ==
  /\ event[Main] = None
  /\ \A t, u \in Threads : event[t] = event[u] /\ event[t] # None => t = u
  /\ \A t \in Threads : event[t] \notin acceptsPending
  /\ \A t \in Threads :
       pc[t] = "disconnect" =>
         \/ after[t] \in {"recvFailed", "sendFailed"}
         \/ after[t] = "idle" /\ event[t] = None

(* A session has one way to start: it waits in one place only, or one      *)
(* thread is in ProcessConnect with it.                                    *)
StartInv ==
  /\ \A e \in acceptsPending : accepting[e] \in Sessions \ fresh
  /\ \A d, e \in acceptsPending : accepting[d] = accepting[e] => d = e
  /\ \A s \in Sessions :
       <<s, "connect">> \in pending =>
         s \notin fresh /\ \A e \in acceptsPending : accepting[e] # s
  /\ \A t \in Threads : pc[t] \in Starting => ~Waiting(cur[t])
  /\ \A t, u \in Threads :
       pc[t] \in Starting /\ pc[u] \in Starting /\ cur[t] = cur[u] => t = u

(* What the kernel, the registries and the threads can have of a session,  *)
(* by what it was told.                                                    *)
LifeInv ==
  \A s \in Sessions :
    /\ callbacks[s] \in {<<>>, Joined, Left}
    /\ callbacks[s] = <<>> =>
         /\ s \notin todo
         /\ \A kind \in Kinds : <<s, kind>> \in pending => kind = "connect"
         /\ \A t \in Threads : cur[t] = s => pc[t] \in Starting
    /\ callbacks[s] # <<>> =>
         /\ ~Waiting(s)
         /\ \A t \in Threads : cur[t] = s => pc[t] \notin Starting
    /\ s \in game => callbacks[s] = Joined
    /\ callbacks[s] = Joined => s \in services

(* A session is connected, or one Disconnect is under way or done.         *)
EndInv ==
  /\ \A s \in connected :
       /\ callbacks[s] # Left
       /\ <<s, "disconnect">> \notin pending
       /\ \A t \in Threads : cur[t] = s => pc[t] \notin Ending
  /\ \A s \in Sessions :
       <<s, "disconnect">> \in pending => callbacks[s] = Joined
  /\ \A t \in Threads :
       pc[t] \in Ending => <<cur[t], "disconnect">> \notin pending
  /\ \A t, u \in Threads :
       pc[t] \in Ending /\ pc[u] \in Ending /\ cur[t] = cur[u] => t = u
  /\ \A t \in Threads :
       /\ pc[t] = "onConnected" => cur[t] \in services
       /\ pc[t] \in {"disconnect", "onDisconnected"} =>
            callbacks[cur[t]] = Joined
       /\ pc[t] = "release" =>
            callbacks[cur[t]] = Left /\ cur[t] \in services

(* The kernel has the recv event of a session, or one thread has it, or    *)
(* nobody.                                                                 *)
RecvInv ==
  /\ \A t \in Threads : InRecv(t) => <<cur[t], "recv">> \notin pending
  /\ \A t, u \in Threads : InRecv(t) /\ InRecv(u) /\ cur[t] = cur[u] => t = u
  /\ \A t \in Threads : pc[t] = "recvPost" => <<cur[t], "recv">> \in owner

(* The same for the send event, which _sendRegistered guards.              *)
SendInv ==
  /\ \A t \in Threads :
       InSend(t) =>
         <<cur[t], "send">> \notin pending /\ cur[t] \in sendRegistered
  /\ \A t, u \in Threads : InSend(t) /\ InSend(u) /\ cur[t] = cur[u] => t = u
  /\ \A t \in Threads : pc[t] = "sendPost" => <<cur[t], "send">> \in owner
  /\ \A s \in Sessions : <<s, "send">> \in pending => s \in sendRegistered

IInv ==
  /\ TypeOK /\ ThreadInv /\ StartInv /\ LifeInv /\ EndInv
  /\ RecvInv /\ SendInv /\ pending \subseteq owner /\ ~crashed

Aside == {"idle", "accept", "broadcast"}

(* A step that starts no session and tells the contents nothing. *)
Calm ==
  /\ UNCHANGED <<event, crashed, role, fresh, accepting, acceptsPending,
                 services, game, gameLock, callbacks>>
  /\ todo' \subseteq todo
  /\ connected' \subseteq connected
  /\ \A x \in Sessions, kind \in Kinds :
       <<x, kind>> \in pending' \ pending =>
         kind # "connect" /\ callbacks[x] # <<>>

(* In such a step thread t goes on at p, with a session s the contents     *)
(* know of or with none; a is where Disconnect will return to.             *)
Onward(t, p, s, a) ==
  /\ Calm
  /\ pc' = [pc EXCEPT ![t] = p]
  /\ cur' = [cur EXCEPT ![t] = s]
  /\ after' = [after EXCEPT ![t] = a] /\ a \in Points
  /\ p = "disconnect" =>
       a \in {"recvFailed", "sendFailed"} \/ (a = "idle" /\ event[t] = None)
  /\ \/ /\ s = None /\ p \in Aside
        /\ p = "idle" => event[t] = None
        /\ p = "accept" => event[t] # None
     \/ /\ s \in Sessions /\ callbacks[s] # <<>>
        /\ p \in Points \ (Aside \cup Starting)

-----------------------------------------------------------------------------
LEMMA Lives ==
  /\ Joined # <<>> /\ Left # <<>> /\ Left # Joined
  /\ Append(<<>>, "OnConnected") = Joined
  /\ Append(Joined, "OnDisconnected") = Left
  /\ <<>> \in Seq({"OnConnected", "OnDisconnected"})
  /\ Joined \in Seq({"OnConnected", "OnDisconnected"})
  /\ Left \in Seq({"OnConnected", "OnDisconnected"})
<1>1. Joined # <<>> /\ Left # <<>> /\ Left # Joined
  <2>1. Len(Joined) = 1 /\ Len(Left) = 2 /\ Len(<<>>) = 0
    BY DEF Joined, Left
  <2> QED BY <2>1
<1>2. Append(<<>>, "OnConnected") = Joined
  BY DEF Joined
<1>3. Append(Joined, "OnDisconnected") = Left
  <2>1. PICK S : S = {"OnConnected", "OnDisconnected"}
    OBVIOUS
  <2>2. Joined \in Seq(S) /\ Left \in Seq(S) /\ "OnDisconnected" \in S
    BY <2>1 DEF Joined, Left
  <2>3. PICK both : both = Append(Joined, "OnDisconnected")
    OBVIOUS
  <2>4. /\ both \in Seq(S) /\ Len(both) = Len(Joined) + 1
        /\ \A i \in 1 .. Len(Joined) : both[i] = Joined[i]
        /\ both[Len(Joined) + 1] = "OnDisconnected"
    BY <2>2, <2>3, AppendProperties
  <2>5. Len(Joined) = 1 /\ Len(Left) = 2
    BY DEF Joined, Left
  <2>6. \A i \in 1 .. Len(both) : both[i] = Left[i]
    BY <2>4, <2>5 DEF Joined, Left
  <2>7. Len(both) = Len(Left)
    BY <2>4, <2>5
  <2> QED BY <2>2, <2>3, <2>4, <2>6, <2>7, SeqEqual
<1>4. /\ <<>> \in Seq({"OnConnected", "OnDisconnected"})
      /\ Joined \in Seq({"OnConnected", "OnDisconnected"})
      /\ Left \in Seq({"OnConnected", "OnDisconnected"})
  BY DEF Joined, Left
<1> QED BY <1>1, <1>2, <1>3, <1>4

LEMMA InitIInv == Init => IInv
<1> SUFFICES ASSUME Init PROVE IInv
  OBVIOUS
<1>1. role = "server" \/ role = "client"
  BY RolesAssumption DEF Init
<1>2. /\ accepting \in [Events -> Sessions \cup {None}]
      /\ acceptsPending \subseteq Events /\ fresh \subseteq Sessions
      /\ pending \subseteq Sessions \X {"connect"}
  BY <1>1 DEF Init, StartAccept, StartConnect
<1>3. TypeOK
  <2>1. /\ pending \subseteq Sessions \X Kinds /\ owner = pending
    BY <1>2 DEF Init, Kinds
  <2>2. callbacks \in [Sessions -> Seq({"OnConnected", "OnDisconnected"})]
    BY DEF Init
  <2>3. /\ pc \in [Threads -> Points] /\ after \in [Threads -> Points]
        /\ cur \in [Threads -> Sessions \cup {None}]
        /\ event \in [Threads -> Events \cup {None}]
        /\ \A t \in Threads :
             pc[t] = "idle" /\ cur[t] = None /\ event[t] = None
    BY DEF Init, Points
  <2> QED BY <1>2, <2>1, <2>2, <2>3 DEF Init, TypeOK
<1>4. ThreadInv
  BY <1>2, NamesAssumption DEF Init, ThreadInv, Threads
<1>5. StartInv
  BY <1>1 DEF Init, StartInv, StartAccept, StartConnect, Starting
<1>6. LifeInv
  <2>1. \A s \in Sessions :
          /\ callbacks[s] = <<>> /\ s \notin todo /\ s \notin game
          /\ \A kind \in Kinds : <<s, kind>> \in pending => kind = "connect"
    BY <1>2 DEF Init
  <2>2. \A t \in Threads, s \in Sessions : cur[t] # s
    BY NamesAssumption DEF Init
  <2> QED BY <2>1, <2>2, Lives DEF LifeInv
<1>7. EndInv
  BY <1>2 DEF Init, EndInv, Ending
<1>8. RecvInv /\ SendInv /\ pending \subseteq owner /\ ~crashed
  BY <1>2 DEF Init, RecvInv, SendInv, InRecv, InSend
<1> QED BY <1>3, <1>4, <1>5, <1>6, <1>7, <1>8 DEF IInv

LEMMA RestFacts ==
  ASSUME IInv, NEW t \in Threads
  PROVE  /\ Rest(t) \in Aside
         /\ Rest(t) = "idle" => event[t] = None
         /\ Rest(t) = "accept" => event[t] # None
BY DEF Rest, Aside, IInv, ThreadInv

LEMMA Stays ==
  ASSUME IInv, NEW t \in Threads
  PROVE  /\ cur = [cur EXCEPT ![t] = cur[t]]
         /\ pc = [pc EXCEPT ![t] = pc[t]]
         /\ after = [after EXCEPT ![t] = after[t]]
         /\ after[t] \in Points
BY DEF IInv, TypeOK

LEMMA OnwardKeeps ==
  ASSUME IInv, NEW t \in Threads, NEW p, NEW s, NEW a, Onward(t, p, s, a),
         pending' \subseteq Sessions \X Kinds,
         owner' \subseteq Sessions \X Kinds,
         up' \subseteq Sessions, sendRegistered' \subseteq Sessions,
         sessionLock' \in [Sessions -> Threads \cup {None}]
  PROVE  TypeOK' /\ ThreadInv' /\ StartInv' /\ LifeInv' /\ ~crashed'
<1>. USE DEF IInv, TypeOK
<1>1. /\ pc' \in [Threads -> Points] /\ pc'[t] = p
      /\ cur' \in [Threads -> Sessions \cup {None}] /\ cur'[t] = s
      /\ after' \in [Threads -> Points] /\ after'[t] = a
      /\ \A u \in Threads \ {t} :
           pc'[u] = pc[u] /\ cur'[u] = cur[u] /\ after'[u] = after[u]
  BY DEF Onward, Calm, Aside, Points
<1>2. UNCHANGED <<event, crashed, role, fresh, accepting, acceptsPending,
                 services, game, gameLock, callbacks>>
  BY DEF Onward, Calm
<1>3. TypeOK'
  <2>1. /\ cur'[t] = None <=> pc'[t] \in {"idle", "accept", "broadcast"}
        /\ pc'[t] = "idle" => event'[t] = None
        /\ pc'[t] = "accept" => event'[t] # None
    BY <1>1, NamesAssumption DEF Onward, Calm, Aside
  <2>2. \A u \in Threads :
          /\ cur'[u] = None <=> pc'[u] \in {"idle", "accept", "broadcast"}
          /\ pc'[u] = "idle" => event'[u] = None
          /\ pc'[u] = "accept" => event'[u] # None
    BY <1>1, <1>2, <2>1
  <2>3. todo' \subseteq Sessions /\ connected' \subseteq Sessions
    BY DEF Onward, Calm
  <2> HIDE DEF IInv
  <2> QED BY <1>1, <1>2, <2>2, <2>3 DEF IInv
<1>4. ThreadInv'
  <2>1. pc'[t] = "disconnect" => \/ after'[t] \in {"recvFailed", "sendFailed"}
                                 \/ after'[t] = "idle" /\ event'[t] = None
    BY <1>1, <1>2 DEF Onward, Calm
  <2> QED BY <1>1, <1>2, <2>1 DEF ThreadInv
<1>5. p \notin Starting /\ (s \in Sessions => callbacks[s] # <<>>)
  BY NamesAssumption DEF Onward, Calm, Aside, Starting
<1>6. \A x \in Sessions : Waiting(x)' => Waiting(x)
  <2> SUFFICES ASSUME NEW x \in Sessions, <<x, "connect">> \in pending'
               PROVE  <<x, "connect">> \in pending
    BY <1>2 DEF Waiting
  <2> QED BY DEF Onward, Calm, Kinds
<1>7. StartInv'
  <2>1. \A x \in Sessions :
          <<x, "connect">> \in pending' => <<x, "connect">> \in pending
    BY DEF Onward, Calm, Kinds
  <2>2. \A u \in Threads :
          pc'[u] \in Starting =>
            /\ u # t /\ pc[u] \in Starting
            /\ cur'[u] = cur[u] /\ cur[u] \in Sessions
    <3>1. \A u \in Threads : pc[u] \in Starting => cur[u] \in Sessions
      BY DEF Starting
    <3> HIDE DEF IInv, TypeOK
    <3> QED BY <1>1, <1>5, <3>1
  <2>3. \A u \in Threads : pc'[u] \in Starting => ~Waiting(cur[u])'
    BY <1>6, <2>2 DEF StartInv
  <2>4. \A u \in Threads :
          pc'[u] \in Starting => ~Waiting(cur[u])' /\ cur'[u] = cur[u]
    BY <2>2, <2>3
  <2> QED BY <1>2, <2>1, <2>2, <2>4 DEF StartInv, Waiting
<1>8. LifeInv'
  <2> SUFFICES ASSUME NEW x \in Sessions
      PROVE
        (/\ callbacks[x] \in {<<>>, Joined, Left}
         /\ callbacks[x] = <<>> =>
              /\ x \notin todo
              /\ \A kind \in Kinds :
                   <<x, kind>> \in pending => kind = "connect"
              /\ \A u \in Threads : cur[u] = x => pc[u] \in Starting
         /\ callbacks[x] # <<>> =>
              /\ ~Waiting(x)
              /\ \A u \in Threads : cur[u] = x => pc[u] \notin Starting
         /\ x \in game => callbacks[x] = Joined
         /\ callbacks[x] = Joined => x \in services)'
    BY DEF LifeInv
  <2>1. CASE callbacks[x] = <<>>
    <3>1. /\ x \notin todo'
          /\ \A kind \in Kinds : <<x, kind>> \in pending' => kind = "connect"
      BY <2>1 DEF Onward, Calm, LifeInv
    <3>2. ASSUME NEW u \in Threads, cur'[u] = x
          PROVE  pc'[u] \in Starting
      <4>1. u # t
        BY <1>1, <1>5, <2>1, <3>2
      <4>2. cur[u] = x /\ pc'[u] = pc[u]
        BY <1>1, <3>2, <4>1
      <4> QED BY <2>1, <4>2 DEF LifeInv
    <3> QED BY <1>2, <2>1, <3>1, <3>2 DEF LifeInv
  <2>2. CASE callbacks[x] # <<>>
    <3>1. ~Waiting(x)'
      BY <1>6, <2>2 DEF LifeInv
    <3>2. \A u \in Threads : cur'[u] = x => pc'[u] \notin Starting
      <4>1. \A u \in Threads : cur[u] = x => pc[u] \notin Starting
        BY <2>2 DEF LifeInv
      <4> HIDE DEF IInv, TypeOK
      <4> QED BY <1>1, <1>5, <4>1
    <3> QED BY <1>2, <2>2, <3>1, <3>2 DEF LifeInv
  <2> QED BY <2>1, <2>2
<1> QED BY <1>2, <1>3, <1>4, <1>7, <1>8

(* A step that neither disconnects nor ends a session. *)
LEMMA OnwardAlive ==
  ASSUME IInv, NEW t \in Threads, NEW p, NEW s, NEW a, Onward(t, p, s, a),
         p \notin Ending,
         \A x \in Sessions :
           <<x, "disconnect">> \in pending' => <<x, "disconnect">> \in pending
  PROVE  EndInv'
<1>. USE DEF IInv, TypeOK
<1>1. /\ pc'[t] = p
      /\ \A u \in Threads \ {t} : pc'[u] = pc[u] /\ cur'[u] = cur[u]
  BY DEF Onward, Calm
<1>2. p # "onConnected"
  BY DEF Onward, Calm, Aside, Starting
<1>3. UNCHANGED <<services, callbacks>> /\ connected' \subseteq connected
  BY DEF Onward, Calm
<1>4. \A u \in Threads :
        pc'[u] \in Ending \cup {"onConnected"} =>
          u # t /\ pc'[u] = pc[u] /\ cur'[u] = cur[u] /\ cur[u] \in Sessions
  BY <1>1, <1>2 DEF Ending
<1> QED BY <1>3, <1>4 DEF EndInv, Ending

(* The step of Disconnect that makes _connected fall. *)
LEMMA OnwardDisconnect ==
  ASSUME IInv, NEW t \in Threads, NEW s \in Sessions, NEW a,
         Onward(t, "disconnect", s, a), s \in connected,
         connected' = connected \ {s},
         \A x \in Sessions :
           <<x, "disconnect">> \in pending' => <<x, "disconnect">> \in pending
  PROVE  EndInv'
<1>. USE DEF IInv, TypeOK
<1>1. /\ pc'[t] = "disconnect" /\ cur'[t] = s
      /\ \A u \in Threads \ {t} : pc'[u] = pc[u] /\ cur'[u] = cur[u]
  BY DEF Onward, Calm
<1>2. UNCHANGED <<services, callbacks>>
  BY DEF Onward, Calm
<1>3. callbacks[s] = Joined
  BY NamesAssumption DEF Onward, Calm, LifeInv, EndInv, Aside
<1>4. \A u \in Threads :
        pc[u] \in Ending \cup {"onConnected"} => cur[u] \in Sessions
  BY DEF Ending
<1>5. \A u \in Threads \ {t} : cur'[u] = s => pc'[u] \notin Ending
  BY <1>1 DEF EndInv
<1>6. \A x \in connected' :
        /\ callbacks'[x] # Left /\ <<x, "disconnect">> \notin pending'
        /\ \A u \in Threads : cur'[u] = x => pc'[u] \notin Ending
  <2> SUFFICES ASSUME NEW x \in connected'
               PROVE  /\ callbacks'[x] # Left
                      /\ <<x, "disconnect">> \notin pending'
                      /\ \A u \in Threads : cur'[u] = x => pc'[u] \notin Ending
    OBVIOUS
  <2>1. x \in connected /\ x # s /\ x \in Sessions
    OBVIOUS
  <2>2. \A u \in Threads : cur'[u] = x => u # t /\ cur[u] = x /\ pc'[u] = pc[u]
    BY <1>1, <2>1
  <2> QED BY <1>2, <2>1, <2>2 DEF EndInv
<1>7. \A x \in Sessions :
        <<x, "disconnect">> \in pending' => callbacks'[x] = Joined
  BY <1>2 DEF EndInv
<1>8. \A u \in Threads :
        pc'[u] \in Ending => <<cur'[u], "disconnect">> \notin pending'
  BY <1>1, <1>4 DEF EndInv
<1>9. \A u, v \in Threads :
        pc'[u] \in Ending /\ pc'[v] \in Ending /\ cur'[u] = cur'[v] => u = v
  BY <1>1, <1>5 DEF EndInv
<1>10. \A u \in Threads :
         /\ pc'[u] = "onConnected" => cur'[u] \in services'
         /\ pc'[u] \in {"disconnect", "onDisconnected"} =>
              callbacks'[cur'[u]] = Joined
         /\ pc'[u] = "release" =>
              callbacks'[cur'[u]] = Left /\ cur'[u] \in services'
  BY <1>1, <1>2, <1>3, <1>4 DEF EndInv, Ending
<1> HIDE DEF IInv, TypeOK
<1> QED BY <1>6, <1>7, <1>8, <1>9, <1>10 DEF EndInv

(* How the recv event changes hands. *)
LEMMA RecvMoves ==
  ASSUME IInv, NEW t \in Threads, NEW p, NEW s, NEW a, Onward(t, p, s, a),
         \A x \in Sessions :
           <<x, "recv">> \in pending' \ pending =>
             InRecv(t) /\ cur[t] = x /\ ~InRecv(t)',
         InRecv(t)' =>
           /\ (InRecv(t) /\ cur[t] = s) \/ <<s, "recv">> \in pending
           /\ <<s, "recv">> \notin pending',
         \A x \in Sessions :
           <<x, "recv">> \in owner \ owner' =>
             (InRecv(t) /\ cur[t] = x) \/ <<x, "recv">> \in pending,
         p = "recvPost" => <<s, "recv">> \in owner'
  PROVE  RecvInv'
<1>. USE DEF IInv, TypeOK
<1>1. /\ pc'[t] = p /\ cur'[t] = s
      /\ \A u \in Threads \ {t} :
           pc'[u] = pc[u] /\ cur'[u] = cur[u] /\ after'[u] = after[u]
  BY DEF Onward, Calm
<1>2. \A u \in Threads \ {t} : InRecv(u)' => InRecv(u) /\ cur[u] \in Sessions
  BY <1>1 DEF InRecv
<1>3. pc'[t] = "recvPost" => InRecv(t)'
  BY DEF InRecv
<1>4. \A u \in Threads \ {t} : InRecv(u) /\ InRecv(t) => cur[u] # cur[t]
  BY DEF RecvInv
<1>5. \A u \in Threads \ {t} : InRecv(u) => <<cur[u], "recv">> \notin pending
  BY DEF RecvInv
<1>6. ASSUME NEW u \in Threads \ {t}, InRecv(u)'
      PROVE  /\ <<cur'[u], "recv">> \notin pending'
             /\ InRecv(t)' => cur'[u] # cur'[t]
             /\ pc'[u] = "recvPost" => <<cur'[u], "recv">> \in owner'
  <2>1. InRecv(u) /\ cur[u] \in Sessions /\ cur'[u] = cur[u] /\ pc'[u] = pc[u]
    BY <1>1, <1>2, <1>6
  <2>2. <<cur[u], "recv">> \notin pending'
    BY <1>4, <1>5, <2>1
  <2>3. InRecv(t)' => cur[u] # s
    BY <1>4, <1>5, <2>1
  <2>4. pc[u] = "recvPost" => <<cur[u], "recv">> \in owner'
    BY <1>4, <1>5, <2>1 DEF RecvInv
  <2> QED BY <1>1, <2>1, <2>2, <2>3, <2>4
<1>7. InRecv(t)' => <<cur'[t], "recv">> \notin pending'
  BY <1>1
<1>8. \A u, v \in Threads \ {t} :
        InRecv(u)' /\ InRecv(v)' /\ cur'[u] = cur'[v] => u = v
  BY <1>1, <1>2 DEF RecvInv
<1>9. pc'[t] = "recvPost" => <<cur'[t], "recv">> \in owner'
  BY <1>1
<1>10. \A u \in Threads : pc'[u] = "recvPost" => InRecv(u)'
  BY DEF InRecv
<1> HIDE DEF IInv, TypeOK
<1> QED BY <1>6, <1>7, <1>8, <1>9, <1>10 DEF RecvInv

(* How the send event changes hands. *)
LEMMA SendMoves ==
  ASSUME IInv, NEW t \in Threads, NEW p, NEW s, NEW a, Onward(t, p, s, a),
         \A x \in Sessions :
           <<x, "send">> \in pending' \ pending =>
             InSend(t) /\ cur[t] = x /\ ~InSend(t)',
         InSend(t)' =>
           /\ \/ InSend(t) /\ cur[t] = s
              \/ <<s, "send">> \in pending
              \/ s \in Sessions \ sendRegistered
           /\ <<s, "send">> \notin pending' /\ s \in sendRegistered',
         \A x \in Sessions :
           <<x, "send">> \in owner \ owner' =>
             (InSend(t) /\ cur[t] = x) \/ <<x, "send">> \in pending,
         \A x \in sendRegistered \ sendRegistered' :
           /\ InSend(t) /\ cur[t] = x /\ ~InSend(t)'
           /\ <<x, "send">> \notin pending',
         p = "sendPost" => <<s, "send">> \in owner'
  PROVE  SendInv'
<1>. USE DEF IInv, TypeOK
<1>1. /\ pc'[t] = p /\ cur'[t] = s
      /\ \A u \in Threads \ {t} :
           pc'[u] = pc[u] /\ cur'[u] = cur[u] /\ after'[u] = after[u]
  BY DEF Onward, Calm
<1>2. \A u \in Threads \ {t} : InSend(u)' => InSend(u) /\ cur[u] \in Sessions
  BY <1>1 DEF InSend
<1>3. \A u \in Threads \ {t} : InSend(u) /\ InSend(t) => cur[u] # cur[t]
  BY DEF SendInv
<1>4. \A u \in Threads : InSend(u) =>
        <<cur[u], "send">> \notin pending /\ cur[u] \in sendRegistered
  BY DEF SendInv
<1>5. ASSUME NEW u \in Threads \ {t}, InSend(u)'
      PROVE  /\ <<cur'[u], "send">> \notin pending'
             /\ cur'[u] \in sendRegistered'
             /\ InSend(t)' => cur'[u] # cur'[t]
             /\ pc'[u] = "sendPost" => <<cur'[u], "send">> \in owner'
  <2>1. InSend(u) /\ cur[u] \in Sessions /\ cur'[u] = cur[u] /\ pc'[u] = pc[u]
    BY <1>1, <1>2, <1>5
  <2>2. <<cur[u], "send">> \notin pending' /\ cur[u] \in sendRegistered'
    BY <1>3, <1>4, <2>1
  <2>3. InSend(t)' => cur[u] # s
    BY <1>3, <1>4, <2>1
  <2>4. pc[u] = "sendPost" => <<cur[u], "send">> \in owner'
    BY <1>3, <1>4, <2>1 DEF SendInv
  <2> QED BY <1>1, <2>1, <2>2, <2>3, <2>4
<1>6. InSend(t)' => /\ <<cur'[t], "send">> \notin pending'
                    /\ cur'[t] \in sendRegistered'
  BY <1>1
<1>7. \A u, v \in Threads \ {t} :
        InSend(u)' /\ InSend(v)' /\ cur'[u] = cur'[v] => u = v
  BY <1>1, <1>2 DEF SendInv
<1>8. \A u \in Threads : pc'[u] = "sendPost" => InSend(u)'
  BY DEF InSend
<1>9. pc'[t] = "sendPost" => <<cur'[t], "send">> \in owner'
  BY <1>1
<1>10. \A x \in Sessions : <<x, "send">> \in pending' => x \in sendRegistered'
  BY <1>4 DEF SendInv
<1> HIDE DEF IInv, TypeOK
<1> QED BY <1>5, <1>6, <1>7, <1>8, <1>9, <1>10 DEF SendInv

LEMMA OnwardInv ==
  ASSUME IInv, NEW t \in Threads, NEW p, NEW s, NEW a, Onward(t, p, s, a),
         pending' \subseteq owner', owner' \subseteq Sessions \X Kinds,
         up' \subseteq Sessions, sendRegistered' \subseteq Sessions,
         sessionLock' \in [Sessions -> Threads \cup {None}],
         EndInv', RecvInv', SendInv'
  PROVE  IInv'
BY OnwardKeeps DEF IInv

LEMMA LockTyped ==
  ASSUME IInv, NEW t
  PROVE  Unlocked(t) \in [Sessions -> Threads \cup {None}]
BY DEF Unlocked, IInv, TypeOK

LEMMA KnownSession ==
  ASSUME IInv, NEW t \in Threads, pc[t] \notin Aside \cup Starting
  PROVE  cur[t] \in Sessions /\ callbacks[cur[t]] # <<>>
BY DEF IInv, TypeOK, LifeInv, Aside

LEMMA LeaveOnward ==
  ASSUME IInv, NEW t \in Threads, Leave(t), Calm
  PROVE  Onward(t, Rest(t), None, after[t]) /\ Rest(t) \in Aside
<1>1. Rest(t) # "disconnect"
  BY RestFacts DEF Aside
<1> QED BY <1>1, RestFacts, Stays DEF Leave, Onward

LEMMA GotoOnward ==
  ASSUME IInv, NEW t \in Threads, NEW p \in Points, Goto(t, p), Calm,
         pc[t] \notin Aside \cup Starting, p # "disconnect",
         p \notin Aside \cup Starting
  PROVE  Onward(t, p, cur[t], after[t])
BY KnownSession, Stays DEF Goto, Onward

(* HandleError disconnects, or only goes on. *)
LEMMA HandleErrorEffect ==
  ASSUME IInv, NEW t \in Threads, pc[t] \in {"recvPost", "sendPost"},
         NEW point \in {"recvFailed", "sendFailed"}, HandleError(t, point)
  PROVE  /\ EndInv'
         /\ UNCHANGED <<sendRegistered, sessionLock, pending, owner, up>>
         /\ \/ Onward(t, "disconnect", cur[t], point)
            \/ Onward(t, point, cur[t], after[t])
<1>1. /\ UNCHANGED <<sendRegistered, sessionLock, registry, kernel>>
      /\ \/ Disconnect(t, cur[t], point)
         \/ Goto(t, point) /\ UNCHANGED connected
  BY DEF HandleError
<1>2. UNCHANGED <<pending, owner, up, role, fresh, accepting, acceptsPending,
                  services, game, gameLock, todo, callbacks>>
  BY <1>1 DEF registry, kernel
<1>3. /\ cur[t] \in Sessions /\ callbacks[cur[t]] # <<>>
      /\ pc[t] \notin Aside \cup Starting
      /\ point \in Points \ (Aside \cup Starting \cup Ending)
      /\ "disconnect" \in Points \ (Aside \cup Starting)
  BY KnownSession DEF Aside, Starting, Ending, Points
<1>4. CASE Goto(t, point) /\ UNCHANGED connected
  <2>1. Calm
    BY <1>2, <1>4 DEF Calm, Goto
  <2>2. Onward(t, point, cur[t], after[t])
    BY <1>3, <1>4, <2>1, GotoOnward DEF Ending
  <2> QED BY <1>1, <1>2, <1>3, <2>2, OnwardAlive
<1>5. CASE Disconnect(t, cur[t], point) /\ cur[t] \in connected
  <2>1. /\ pc' = [pc EXCEPT ![t] = "disconnect"]
        /\ after' = [after EXCEPT ![t] = point]
        /\ cur' = [cur EXCEPT ![t] = cur[t]]
        /\ connected' = connected \ {cur[t]} /\ UNCHANGED <<event, crashed>>
    BY <1>5 DEF Disconnect, FirstDisconnect
  <2>2. Calm
    BY <1>2, <2>1 DEF Calm
  <2>3. Onward(t, "disconnect", cur[t], point)
    <3>1. point \in Points /\ point \in {"recvFailed", "sendFailed"}
      BY <1>3
    <3>2. /\ cur[t] \in Sessions /\ callbacks[cur[t]] # <<>>
          /\ "disconnect" \in Points \ (Aside \cup Starting)
      BY <1>3
    <3> QED BY <2>1, <2>2, <3>1, <3>2 DEF Onward
  <2> QED BY <1>1, <1>2, <1>3, <1>5, <2>1, <2>3, OnwardDisconnect
<1>6. CASE Disconnect(t, cur[t], point) /\ cur[t] \notin connected
  <2>1. /\ pc' = [pc EXCEPT ![t] = point] /\ after' = after
        /\ cur' = [cur EXCEPT ![t] = cur[t]]
        /\ connected' = connected \ {cur[t]} /\ UNCHANGED <<event, crashed>>
    BY <1>6 DEF Disconnect, FirstDisconnect
  <2>2. Calm
    BY <1>2, <2>1 DEF Calm
  <2>3. Onward(t, point, cur[t], after[t])
    BY <1>3, <2>1, <2>2, Stays DEF Onward, Ending
  <2> QED BY <1>1, <1>2, <1>3, <2>3, OnwardAlive
<1> QED BY <1>1, <1>4, <1>5, <1>6

LEMMA RecvCheckStep ==
  ASSUME IInv, NEW t \in Threads, RecvCheck(t)
  PROVE  IInv'
<1>1. /\ pc[t] = "recvCheck"
      /\ UNCHANGED <<role, fresh, accepting, acceptsPending, pending, up,
                     session, registry>>
  BY DEF RecvCheck, At
<1>2. UNCHANGED <<connected, sendRegistered, sessionLock, services, game,
                  gameLock, todo, callbacks>>
  BY <1>1 DEF session, registry
<1>3. pc[t] \notin Aside \cup Starting /\ InRecv(t) /\ ~InSend(t)
  BY <1>1 DEF Aside, Starting, InRecv, InSend
<1>4. cur[t] \in Sessions
  BY <1>3, KnownSession
<1>5. PICK p, s : /\ Onward(t, p, s, after[t]) /\ p \notin Ending
                  /\ (p = "recvPost" /\ s = cur[t]) \/ p \in Aside
                  /\ owner \subseteq owner'
                  /\ owner' \subseteq Sessions \X Kinds
                  /\ p = "recvPost" => <<s, "recv">> \in owner'
  <2>1. CASE Goto(t, "recvPost") /\ owner' = AddRef(cur[t], "recv")
    <3>1. Calm
      BY <1>1, <1>2, <2>1 DEF Calm, Goto
    <3>2. Onward(t, "recvPost", cur[t], after[t])
      BY <1>3, <2>1, <3>1, GotoOnward DEF Points, Aside, Starting
    <3> QED BY <1>4, <2>1, <3>2 DEF AddRef, Ending, Kinds, IInv, TypeOK
  <2>2. CASE Leave(t) /\ UNCHANGED owner
    <3>1. Calm
      BY <1>1, <1>2, <2>2 DEF Calm, Leave
    <3>2. Onward(t, Rest(t), None, after[t]) /\ Rest(t) \in Aside
      BY <2>2, <3>1, LeaveOnward
    <3> QED BY <2>2, <3>2 DEF Ending, Aside, IInv, TypeOK
  <2> QED BY <2>1, <2>2 DEF RecvCheck
<1>6. pc'[t] = p /\ ~InSend(t)' /\ (InRecv(t)' => p = "recvPost")
  BY <1>5 DEF Onward, InRecv, InSend, Aside, IInv, TypeOK
<1>7. EndInv'
  BY <1>1, <1>5, OnwardAlive
<1>8. RecvInv'
  BY <1>1, <1>3, <1>5, <1>6, RecvMoves DEF IInv, RecvInv, Aside
<1>9. SendInv'
  BY <1>1, <1>2, <1>5, <1>6, SendMoves DEF Aside
<1> QED BY <1>1, <1>2, <1>5, <1>7, <1>8, <1>9, OnwardInv DEF IInv, TypeOK

LEMMA RecvPostedStep ==
  ASSUME IInv, NEW t \in Threads, RecvPosted(t)
  PROVE  IInv'
<1>1. /\ pc[t] = "recvPost" /\ Leave(t)
      /\ pending' = pending \cup {<<cur[t], "recv">>}
      /\ UNCHANGED <<role, fresh, accepting, acceptsPending, owner, up,
                     session, registry>>
  BY DEF RecvPosted, At
<1>2. UNCHANGED <<connected, sendRegistered, sessionLock, services, game,
                  gameLock, todo, callbacks>>
  BY <1>1 DEF session, registry
<1>3. pc[t] \notin Aside \cup Starting /\ InRecv(t) /\ ~InSend(t)
  BY <1>1 DEF Aside, Starting, InRecv, InSend
<1>4. cur[t] \in Sessions /\ callbacks[cur[t]] # <<>>
  BY <1>3, KnownSession
<1>5. Calm
  BY <1>1, <1>2, <1>4 DEF Calm, Leave
<1>6. Onward(t, Rest(t), None, after[t]) /\ Rest(t) \in Aside
  BY <1>1, <1>5, LeaveOnward
<1>7. pc'[t] = Rest(t) /\ ~InSend(t)' /\ ~InRecv(t)'
  BY <1>6 DEF Onward, InRecv, InSend, Aside, IInv, TypeOK
<1>8. EndInv'
  BY <1>1, <1>6, OnwardAlive DEF Aside, Ending
<1>9. RecvInv'
  BY <1>1, <1>3, <1>6, <1>7, RecvMoves DEF Aside
<1>10. SendInv'
  BY <1>1, <1>2, <1>6, <1>7, SendMoves DEF Aside
<1>11. pending' \subseteq owner'
  BY <1>1 DEF IInv, RecvInv
<1> QED
  BY <1>1, <1>2, <1>6, <1>8, <1>9, <1>10, <1>11, OnwardInv DEF IInv, TypeOK

LEMMA RecvRefusedStep ==
  ASSUME IInv, NEW t \in Threads, RecvRefused(t)
  PROVE  IInv'
<1>1. /\ pc[t] = "recvPost" /\ HandleError(t, "recvFailed")
  BY DEF RecvRefused, At
<1>2. /\ EndInv'
      /\ UNCHANGED <<sendRegistered, sessionLock, pending, owner, up>>
  BY <1>1, HandleErrorEffect
<1>3. PICK p, a : /\ Onward(t, p, cur[t], a)
                  /\ \/ p = "disconnect" /\ a = "recvFailed"
                     \/ p = "recvFailed"
  BY <1>1, HandleErrorEffect
<1>4. InRecv(t) /\ ~InSend(t)
  BY <1>1 DEF InRecv, InSend
<1>5. InRecv(t)' /\ ~InSend(t)'
  BY <1>3 DEF Onward, InRecv, InSend, IInv, TypeOK
<1>6. RecvInv'
  BY <1>2, <1>3, <1>4, RecvMoves DEF IInv, RecvInv
<1>7. SendInv'
  BY <1>2, <1>3, <1>5, SendMoves
<1> QED BY <1>2, <1>3, <1>6, <1>7, OnwardInv DEF IInv, TypeOK

LEMMA RecvFailedStep ==
  ASSUME IInv, NEW t \in Threads, RecvFailed(t)
  PROVE  IInv'
<1>1. /\ pc[t] = "recvFailed" /\ Leave(t)
      /\ owner' = owner \ {<<cur[t], "recv">>}
      /\ UNCHANGED <<role, fresh, accepting, acceptsPending, pending, up,
                     session, registry>>
  BY DEF RecvFailed, ReleaseRef, At
<1>2. UNCHANGED <<connected, sendRegistered, sessionLock, services, game,
                  gameLock, todo, callbacks>>
  BY <1>1 DEF session, registry
<1>3. InRecv(t) /\ ~InSend(t)
  BY <1>1 DEF InRecv, InSend
<1>4. Calm
  BY <1>1, <1>2 DEF Calm, Leave
<1>5. Onward(t, Rest(t), None, after[t]) /\ Rest(t) \in Aside
  BY <1>1, <1>4, LeaveOnward
<1>6. pc'[t] = Rest(t) /\ ~InSend(t)' /\ ~InRecv(t)'
  BY <1>5 DEF Onward, InRecv, InSend, Aside, IInv, TypeOK
<1>7. EndInv'
  BY <1>1, <1>5, OnwardAlive DEF Aside, Ending
<1>8. RecvInv'
  BY <1>1, <1>3, <1>5, <1>6, RecvMoves DEF Aside
<1>9. SendInv'
  BY <1>1, <1>2, <1>5, <1>6, SendMoves DEF Aside
<1>10. pending' \subseteq owner'
  BY <1>1, <1>3 DEF IInv, RecvInv
<1> QED
  BY <1>1, <1>2, <1>5, <1>7, <1>8, <1>9, <1>10, OnwardInv DEF IInv, TypeOK

LEMMA PushAndExchangeStep ==
  ASSUME IInv, NEW t \in Threads, PushAndExchange(t)
  PROVE  IInv'
<1>1. /\ pc[t] = "send" /\ sendRegistered' = sendRegistered \cup {cur[t]}
      /\ UNCHANGED <<connected, sessionLock, registry, kernel>>
  BY DEF PushAndExchange, At
<1>2. UNCHANGED <<role, fresh, accepting, acceptsPending, pending, owner, up,
                  services, game, gameLock, todo, callbacks>>
  BY <1>1 DEF kernel, registry
<1>3. pc[t] \notin Aside \cup Starting /\ ~InRecv(t) /\ ~InSend(t)
  BY <1>1 DEF Aside, Starting, InRecv, InSend
<1>4. cur[t] \in Sessions
  BY <1>3, KnownSession
<1>5. PICK p, s : /\ Onward(t, p, s, after[t]) /\ p \notin Ending
                  /\ \/ /\ p = "sendCheck" /\ s = cur[t]
                        /\ cur[t] \notin sendRegistered
                     \/ p \in Aside
  <2>1. CASE cur[t] \notin sendRegistered /\ Goto(t, "sendCheck")
    <3>1. Calm
      BY <1>1, <1>2, <2>1 DEF Calm, Goto
    <3>2. Onward(t, "sendCheck", cur[t], after[t])
      BY <1>3, <2>1, <3>1, GotoOnward DEF Points, Aside, Starting
    <3> QED BY <2>1, <3>2 DEF Ending
  <2>2. CASE Leave(t)
    <3>1. Calm
      BY <1>1, <1>2, <2>2 DEF Calm, Leave
    <3>2. Onward(t, Rest(t), None, after[t]) /\ Rest(t) \in Aside
      BY <2>2, <3>1, LeaveOnward
    <3> QED BY <3>2 DEF Ending, Aside
  <2> QED BY <2>1, <2>2 DEF PushAndExchange
<1>6. pc'[t] = p /\ ~InRecv(t)' /\ (InSend(t)' => p = "sendCheck")
  BY <1>5 DEF Onward, InRecv, InSend, Aside, IInv, TypeOK
<1>7. EndInv'
  BY <1>2, <1>5, OnwardAlive
<1>8. RecvInv'
  BY <1>2, <1>5, <1>6, RecvMoves DEF Aside
<1>9. SendInv'
  <2>1. InSend(t)' => /\ s \in Sessions \ sendRegistered
                      /\ <<s, "send">> \notin pending' /\ s \in sendRegistered'
    BY <1>1, <1>2, <1>4, <1>5, <1>6 DEF Aside, IInv, SendInv
  <2> QED BY <1>1, <1>2, <1>5, <1>6, <2>1, SendMoves DEF Aside
<1> QED BY <1>1, <1>2, <1>4, <1>5, <1>7, <1>8, <1>9, OnwardInv DEF IInv, TypeOK

LEMMA SendCheckStep ==
  ASSUME IInv, NEW t \in Threads, SendCheck(t)
  PROVE  IInv'
<1>1. /\ pc[t] = "sendCheck"
      /\ UNCHANGED <<role, fresh, accepting, acceptsPending, pending, up,
                     connected, sendRegistered, registry>>
  BY DEF SendCheck, At
<1>2. UNCHANGED <<services, game, gameLock, todo, callbacks>>
  BY <1>1 DEF registry
<1>3. pc[t] \notin Aside \cup Starting /\ InSend(t) /\ ~InRecv(t)
  BY <1>1 DEF Aside, Starting, InRecv, InSend
<1>4. cur[t] \in Sessions
  BY <1>3, KnownSession
<1>5. PICK p, s : /\ Onward(t, p, s, after[t]) /\ p \notin Ending
                  /\ (p = "sendPost" /\ s = cur[t]) \/ p \in Aside
                  /\ owner \subseteq owner'
                  /\ owner' \subseteq Sessions \X Kinds
                  /\ p = "sendPost" => <<s, "send">> \in owner'
                  /\ sessionLock' = sessionLock \/ sessionLock' = Unlocked(t)
  <2>1. CASE /\ Goto(t, "sendPost") /\ owner' = AddRef(cur[t], "send")
             /\ UNCHANGED sessionLock
    <3>1. Calm
      BY <1>1, <1>2, <2>1 DEF Calm, Goto
    <3>2. Onward(t, "sendPost", cur[t], after[t])
      BY <1>3, <2>1, <3>1, GotoOnward DEF Points, Aside, Starting
    <3>3. /\ owner \subseteq owner' /\ owner' \subseteq Sessions \X Kinds
          /\ <<cur[t], "send">> \in owner'
      BY <1>4, <2>1 DEF AddRef, Kinds, IInv, TypeOK
    <3> QED BY <2>1, <3>2, <3>3 DEF Ending
  <2>2. CASE Leave(t) /\ sessionLock' = Unlocked(t) /\ UNCHANGED owner
    <3>1. Calm
      BY <1>1, <1>2, <2>2 DEF Calm, Leave
    <3>2. Onward(t, Rest(t), None, after[t]) /\ Rest(t) \in Aside
      BY <2>2, <3>1, LeaveOnward
    <3> QED BY <2>2, <3>2 DEF Ending, Aside, IInv, TypeOK
  <2> QED BY <2>1, <2>2 DEF SendCheck
<1>6. pc'[t] = p /\ ~InRecv(t)' /\ (InSend(t)' => p = "sendPost")
  BY <1>5 DEF Onward, InRecv, InSend, Aside, IInv, TypeOK
<1>7. EndInv'
  BY <1>1, <1>5, OnwardAlive
<1>8. RecvInv'
  BY <1>1, <1>5, <1>6, RecvMoves DEF Aside
<1>9. SendInv'
  BY <1>1, <1>3, <1>5, <1>6, SendMoves DEF IInv, SendInv, Aside
<1>10. sessionLock' \in [Sessions -> Threads \cup {None}]
  BY <1>5, LockTyped DEF IInv, TypeOK
<1> QED
  BY <1>1, <1>5, <1>7, <1>8, <1>9, <1>10, OnwardInv DEF IInv, TypeOK

LEMMA SendPostedStep ==
  ASSUME IInv, NEW t \in Threads, SendPosted(t)
  PROVE  IInv'
<1>1. /\ pc[t] = "sendPost" /\ Leave(t)
      /\ pending' = pending \cup {<<cur[t], "send">>}
      /\ sessionLock' = Unlocked(t)
      /\ UNCHANGED <<role, fresh, accepting, acceptsPending, owner, up,
                     connected, sendRegistered, registry>>
  BY DEF SendPosted, At
<1>2. UNCHANGED <<services, game, gameLock, todo, callbacks>>
  BY <1>1 DEF registry
<1>3. pc[t] \notin Aside \cup Starting /\ InSend(t) /\ ~InRecv(t)
  BY <1>1 DEF Aside, Starting, InRecv, InSend
<1>4. cur[t] \in Sessions /\ callbacks[cur[t]] # <<>>
  BY <1>3, KnownSession
<1>5. Calm
  BY <1>1, <1>2, <1>4 DEF Calm, Leave
<1>6. Onward(t, Rest(t), None, after[t]) /\ Rest(t) \in Aside
  BY <1>1, <1>5, LeaveOnward
<1>7. pc'[t] = Rest(t) /\ ~InSend(t)' /\ ~InRecv(t)'
  BY <1>6 DEF Onward, InRecv, InSend, Aside, IInv, TypeOK
<1>8. EndInv'
  BY <1>1, <1>6, OnwardAlive DEF Aside, Ending
<1>9. RecvInv'
  BY <1>1, <1>6, <1>7, RecvMoves DEF Aside
<1>10. SendInv'
  BY <1>1, <1>3, <1>6, <1>7, SendMoves DEF Aside
<1>11. /\ pending' \subseteq owner'
       /\ sessionLock' \in [Sessions -> Threads \cup {None}]
  BY <1>1, LockTyped DEF IInv, SendInv
<1> QED
  BY <1>1, <1>6, <1>8, <1>9, <1>10, <1>11, OnwardInv DEF IInv, TypeOK

LEMMA SendRefusedStep ==
  ASSUME IInv, NEW t \in Threads, SendRefused(t)
  PROVE  IInv'
<1>1. /\ pc[t] = "sendPost" /\ HandleError(t, "sendFailed")
  BY DEF SendRefused, At
<1>2. /\ EndInv'
      /\ UNCHANGED <<sendRegistered, sessionLock, pending, owner, up>>
  BY <1>1, HandleErrorEffect
<1>3. PICK p, a : /\ Onward(t, p, cur[t], a)
                  /\ \/ p = "disconnect" /\ a = "sendFailed"
                     \/ p = "sendFailed"
  BY <1>1, HandleErrorEffect
<1>4. InSend(t) /\ ~InRecv(t)
  BY <1>1 DEF InRecv, InSend
<1>5. InSend(t)' /\ ~InRecv(t)'
  BY <1>3 DEF Onward, InRecv, InSend, IInv, TypeOK
<1>6. RecvInv'
  BY <1>2, <1>3, <1>5, RecvMoves
<1>7. SendInv'
  BY <1>2, <1>3, <1>4, SendMoves DEF IInv, SendInv
<1> QED BY <1>2, <1>3, <1>6, <1>7, OnwardInv DEF IInv, TypeOK

LEMMA SendFailedStep ==
  ASSUME IInv, NEW t \in Threads, SendFailed(t)
  PROVE  IInv'
<1>1. /\ pc[t] = "sendFailed" /\ Leave(t)
      /\ owner' = owner \ {<<cur[t], "send">>}
      /\ sendRegistered' = sendRegistered \ {cur[t]}
      /\ sessionLock' = Unlocked(t)
      /\ UNCHANGED <<role, fresh, accepting, acceptsPending, pending, up,
                     connected, registry>>
  BY DEF SendFailed, ReleaseRef, At
<1>2. UNCHANGED <<services, game, gameLock, todo, callbacks>>
  BY <1>1 DEF registry
<1>3. InSend(t) /\ ~InRecv(t) /\ <<cur[t], "send">> \notin pending
  BY <1>1 DEF InRecv, InSend, IInv, SendInv
<1>4. Calm
  BY <1>1, <1>2 DEF Calm, Leave
<1>5. Onward(t, Rest(t), None, after[t]) /\ Rest(t) \in Aside
  BY <1>1, <1>4, LeaveOnward
<1>6. pc'[t] = Rest(t) /\ ~InSend(t)' /\ ~InRecv(t)'
  BY <1>5 DEF Onward, InRecv, InSend, Aside, IInv, TypeOK
<1>7. EndInv'
  BY <1>1, <1>5, OnwardAlive DEF Aside, Ending
<1>8. RecvInv'
  BY <1>1, <1>5, <1>6, RecvMoves DEF Aside
<1>9. SendInv'
  BY <1>1, <1>3, <1>5, <1>6, SendMoves DEF Aside
<1>10. /\ pending' \subseteq owner'
       /\ sessionLock' \in [Sessions -> Threads \cup {None}]
  BY <1>1, <1>3, LockTyped DEF IInv
<1> QED
  BY <1>1, <1>5, <1>7, <1>8, <1>9, <1>10, OnwardInv DEF IInv, TypeOK

LEMMA RecheckStep ==
  ASSUME IInv, NEW t \in Threads, NEW empty \in BOOLEAN, Recheck(t, empty)
  PROVE  IInv'
<1>1. /\ pc[t] = "sent"
      /\ UNCHANGED <<connected, registry, kernel>>
  BY DEF Recheck, At
<1>2. UNCHANGED <<role, fresh, accepting, acceptsPending, pending, owner, up,
                  services, game, gameLock, todo, callbacks>>
  BY <1>1 DEF kernel, registry
<1>3. pc[t] \notin Aside \cup Starting /\ ~InRecv(t) /\ InSend(t)
  BY <1>1 DEF Aside, Starting, InRecv, InSend
<1>4. cur[t] \in Sessions /\ <<cur[t], "send">> \notin pending
  BY <1>3, KnownSession DEF IInv, SendInv
<1>5. PICK p, s : /\ Onward(t, p, s, after[t]) /\ p \notin Ending
                  /\ \/ /\ p = "sendCheck" /\ s = cur[t]
                        /\ sendRegistered' = sendRegistered
                     \/ /\ p \in Aside
                        /\ sendRegistered' = sendRegistered \ {cur[t]}
                  /\ sessionLock' \in [Sessions -> Threads \cup {None}]
  <2>1. CASE /\ ~empty /\ Goto(t, "sendCheck") /\ UNCHANGED sendRegistered
             /\ sessionLock' = [sessionLock EXCEPT ![cur[t]] = t]
    <3>1. Calm
      BY <1>1, <1>2, <2>1 DEF Calm, Goto
    <3>2. Onward(t, "sendCheck", cur[t], after[t])
      BY <1>3, <2>1, <3>1, GotoOnward DEF Points, Aside, Starting
    <3> QED BY <2>1, <3>2 DEF Ending, IInv, TypeOK
  <2>2. CASE /\ empty /\ Leave(t) /\ UNCHANGED sessionLock
             /\ sendRegistered' = sendRegistered \ {cur[t]}
    <3>1. Calm
      BY <1>1, <1>2, <2>2 DEF Calm, Leave
    <3>2. Onward(t, Rest(t), None, after[t]) /\ Rest(t) \in Aside
      BY <2>2, <3>1, LeaveOnward
    <3> QED BY <2>2, <3>2 DEF Ending, Aside, IInv, TypeOK
  <2> QED BY <2>1, <2>2 DEF Recheck
<1>6. pc'[t] = p /\ ~InRecv(t)' /\ (InSend(t)' <=> p = "sendCheck")
  BY <1>5 DEF Onward, InRecv, InSend, Aside, IInv, TypeOK
<1>7. EndInv'
  BY <1>2, <1>5, OnwardAlive
<1>8. RecvInv'
  BY <1>2, <1>5, <1>6, RecvMoves DEF Aside
<1>9. SendInv'
  <2>1. CASE p = "sendCheck"
    BY <1>2, <1>3, <1>4, <1>5, <1>6, <2>1, SendMoves DEF IInv, SendInv, Aside
  <2>2. CASE p \in Aside
    BY <1>2, <1>3, <1>4, <1>5, <1>6, <2>2, SendMoves DEF Aside
  <2> QED BY <1>5, <2>1, <2>2
<1> QED BY <1>2, <1>4, <1>5, <1>7, <1>8, <1>9, OnwardInv DEF IInv, TypeOK

LEMMA SendStep ==
  ASSUME IInv, NEW s \in Sessions, Send(s)
  PROVE  IInv'
<1>. Main \in Threads
  BY DEF Threads
<1>1. /\ pc[Main] = "broadcast" /\ s \in todo /\ todo' = todo \ {s}
      /\ UNCHANGED <<event, after, crashed, services, game, gameLock,
                     callbacks, session, kernel>>
  BY DEF Send, At
<1>2. UNCHANGED <<role, fresh, accepting, acceptsPending, pending, owner, up,
                  connected, sendRegistered, sessionLock>>
  BY <1>1 DEF kernel, session
<1>3. ~InRecv(Main) /\ ~InSend(Main) /\ callbacks[s] # <<>>
  BY <1>1 DEF InRecv, InSend, IInv, LifeInv
<1>4. Calm
  BY <1>1, <1>2 DEF Calm
<1>5. PICK p, x : /\ Onward(Main, p, x, after[Main])
                  /\ p = "send" \/ p = "broadcast"
  <2>1. CASE /\ pc' = [pc EXCEPT ![Main] = "send"]
             /\ cur' = [cur EXCEPT ![Main] = s]
    BY <1>1, <1>3, <1>4, <2>1, Stays DEF Onward, Points, Aside, Starting
  <2>2. CASE UNCHANGED <<pc, cur>>
    <3>1. cur[Main] = None
      BY <1>1 DEF IInv, TypeOK
    <3> QED BY <1>1, <1>4, <2>2, <3>1, Stays DEF Onward, Aside
  <2> QED BY <2>1, <2>2 DEF Send
<1>6. ~InRecv(Main)' /\ ~InSend(Main)'
  BY <1>5 DEF Onward, InRecv, InSend, IInv, TypeOK
<1>7. EndInv'
  BY <1>2, <1>5, OnwardAlive DEF Ending
<1>8. RecvInv'
  BY <1>2, <1>5, <1>6, RecvMoves
<1>9. SendInv'
  BY <1>2, <1>5, <1>6, SendMoves
<1> QED BY <1>2, <1>5, <1>7, <1>8, <1>9, OnwardInv DEF IInv, TypeOK

LEMMA RegisterDisconnectStep ==
  ASSUME IInv, NEW t \in Threads, RegisterDisconnect(t)
  PROVE  IInv'
<1>1. /\ pc[t] = "disconnect"
      /\ pc' = [pc EXCEPT ![t] = after[t]]
      /\ cur' = [cur EXCEPT ![t] = IF after[t] = "idle" THEN None ELSE cur[t]]
      /\ after' = [after EXCEPT ![t] = "idle"]
      /\ UNCHANGED <<event, crashed, role, fresh, accepting, acceptsPending,
                     up, session, registry>>
  BY DEF RegisterDisconnect, At
<1>2. UNCHANGED <<connected, sendRegistered, sessionLock, services, game,
                  gameLock, todo, callbacks>>
  BY <1>1 DEF session, registry
<1>3. /\ cur[t] \in Sessions /\ callbacks[cur[t]] = Joined
      /\ cur[t] \notin connected
      /\ \A u \in Threads \ {t} : pc[u] \in Ending => cur[u] # cur[t]
  BY <1>1 DEF IInv, TypeOK, EndInv, Ending
<1>4. PICK op : op = <<cur[t], "disconnect">>
  OBVIOUS
<1>5. \/ pending' = pending \cup {op} /\ owner' = owner \cup {op}
      \/ UNCHANGED <<pending, owner>>
  BY <1>4 DEF RegisterDisconnect
<1>6. /\ pending' \subseteq owner' /\ owner' \subseteq Sessions \X Kinds
      /\ owner \subseteq owner'
      /\ \A x \in Sessions, kind \in Kinds :
           <<x, kind>> \in pending' \ pending =>
             x = cur[t] /\ kind = "disconnect"
  <2>1. op \in Sessions \X Kinds
    BY <1>3, <1>4 DEF Kinds
  <2> QED BY <1>4, <1>5, <2>1 DEF IInv, TypeOK
<1>7. Calm
  BY <1>1, <1>2, <1>3, <1>6, Lives DEF Calm
<1>8. PICK p, s : /\ Onward(t, p, s, "idle")
                  /\ p = after[t]
                  /\ p \in {"recvFailed", "sendFailed"} => s = cur[t]
  <2>1. CASE after[t] \in {"recvFailed", "sendFailed"}
    <3>1. /\ pc' = [pc EXCEPT ![t] = after[t]]
          /\ cur' = [cur EXCEPT ![t] = cur[t]]
          /\ after' = [after EXCEPT ![t] = "idle"] /\ "idle" \in Points
      BY <1>1, <2>1 DEF Points
    <3>2. /\ cur[t] \in Sessions /\ callbacks[cur[t]] # <<>>
          /\ after[t] \in Points \ (Aside \cup Starting)
          /\ after[t] # "disconnect"
      BY <1>3, <2>1, Lives DEF Points, Aside, Starting
    <3> QED BY <1>7, <3>1, <3>2 DEF Onward
  <2>2. CASE after[t] = "idle" /\ event[t] = None
    <3>1. /\ pc' = [pc EXCEPT ![t] = after[t]]
          /\ cur' = [cur EXCEPT ![t] = None]
          /\ after' = [after EXCEPT ![t] = "idle"] /\ "idle" \in Points
      BY <1>1, <2>2 DEF Points
    <3> QED BY <1>7, <2>2, <3>1 DEF Onward, Aside
  <2> QED BY <1>1, <2>1, <2>2 DEF IInv, ThreadInv
<1>9. /\ pc'[t] = p /\ after'[t] = "idle" /\ cur'[t] = s
      /\ \A u \in Threads \ {t} : pc'[u] = pc[u] /\ cur'[u] = cur[u]
  BY <1>8 DEF Onward, IInv, TypeOK
<1>10. p \in {"recvFailed", "sendFailed", "idle"}
  BY <1>1, <1>8 DEF IInv, ThreadInv
<1>11. /\ InRecv(t)' <=> p = "recvFailed"
       /\ InSend(t)' <=> p = "sendFailed"
       /\ InRecv(t)' => InRecv(t)
       /\ InSend(t)' => InSend(t)
  BY <1>1, <1>8, <1>9, <1>10 DEF InRecv, InSend
<1>12. EndInv'
  <2>1. \A u \in Threads :
          pc'[u] \in Ending \cup {"onConnected"} =>
            /\ u # t /\ pc'[u] = pc[u] /\ cur'[u] = cur[u]
            /\ cur[u] \in Sessions
    BY <1>9, <1>10 DEF Ending, IInv, TypeOK
  <2>2. \A x \in Sessions :
          <<x, "disconnect">> \in pending' =>
            x = cur[t] \/ <<x, "disconnect">> \in pending
    BY <1>6 DEF Kinds
  <2>3. \A x \in connected :
          x \in Sessions /\ <<x, "disconnect">> \notin pending'
    <3>1. \A x \in connected :
            x \in Sessions /\ <<x, "disconnect">> \notin pending
      BY DEF IInv, TypeOK, EndInv
    <3> QED BY <1>3, <2>2, <3>1
  <2>4. \A u \in Threads :
          pc'[u] \in Ending => <<cur[u], "disconnect">> \notin pending'
    BY <1>3, <1>9, <2>1, <2>2 DEF IInv, EndInv
  <2>5. \A x \in Sessions :
          <<x, "disconnect">> \in pending' => callbacks[x] = Joined
    BY <1>3, <2>2 DEF IInv, EndInv
  <2> QED BY <1>2, <2>1, <2>3, <2>4, <2>5 DEF IInv, EndInv, Ending
<1>13. RecvInv'
  <2>1. \A x \in Sessions : <<x, "recv">> \notin pending' \ pending
    BY <1>6 DEF Kinds
  <2>2. InRecv(t)' => /\ InRecv(t) /\ cur[t] = s
                      /\ <<s, "recv">> \notin pending'
    BY <1>3, <1>8, <1>11, <2>1 DEF IInv, RecvInv
  <2> QED BY <1>6, <1>8, <1>10, <2>1, <2>2, RecvMoves
<1>14. SendInv'
  <2>1. \A x \in Sessions : <<x, "send">> \notin pending' \ pending
    BY <1>6 DEF Kinds
  <2>2. InSend(t)' => /\ InSend(t) /\ cur[t] = s
                      /\ <<s, "send">> \notin pending' /\ s \in sendRegistered'
    BY <1>2, <1>3, <1>8, <1>11, <2>1 DEF IInv, SendInv
  <2> QED BY <1>2, <1>6, <1>8, <1>10, <2>1, <2>2, SendMoves
<1> QED
  BY <1>1, <1>2, <1>6, <1>8, <1>12, <1>13, <1>14, OnwardInv DEF IInv, TypeOK

(* What is taken from the completion queue. *)
LEMMA Taken ==
  ASSUME IInv, NEW t \in Threads, NEW s \in Sessions, NEW kind \in Kinds,
         NEW ok, Dispatch(t, s, kind, ok)
  PROVE  /\ t \in Workers /\ pc[t] = "idle" /\ event[t] = None
         /\ cur[t] = None /\ ~InRecv(t) /\ ~InSend(t)
         /\ <<s, kind>> \in pending
         /\ kind # "connect" => callbacks[s] # <<>>
         /\ pending' = pending \ {<<s, kind>>}
         /\ owner' = owner \ {<<s, kind>>}
         /\ UNCHANGED <<role, fresh, accepting, acceptsPending,
                        sendRegistered, sessionLock, services, game, gameLock,
                        todo, callbacks>>
BY DEF Dispatch, At, ReleaseRef, registry, InRecv, InSend, IInv, TypeOK,
       LifeInv

(* A completion that has failed disconnects, or does nothing. *)
LEMMA DoneDisconnects ==
  ASSUME IInv, NEW t \in Threads, NEW s \in Sessions,
         NEW kind \in {"recv", "send"}, NEW ok, Dispatch(t, s, kind, ok),
         Disconnect(t, s, "idle")
  PROVE  /\ EndInv'
         /\ \E p, x, a :
              /\ Onward(t, p, x, a)
              /\ (p = "disconnect" /\ a = "idle") \/ p = "idle"
<1>1. /\ pc[t] = "idle" /\ event[t] = None /\ callbacks[s] # <<>>
      /\ pending' = pending \ {<<s, kind>>}
      /\ UNCHANGED <<role, fresh, accepting, acceptsPending, services, game,
                     gameLock, todo, callbacks>>
  <2>1. kind \in Kinds /\ kind # "connect"
    BY DEF Kinds
  <2> QED BY <2>1, Taken
<1>2. Calm
  BY <1>1 DEF Calm, Disconnect
<1>3. \A x \in Sessions :
        <<x, "disconnect">> \in pending' => <<x, "disconnect">> \in pending
  BY <1>1
<1>4. CASE s \in connected
  <2>1. /\ pc' = [pc EXCEPT ![t] = "disconnect"]
        /\ after' = [after EXCEPT ![t] = "idle"]
        /\ cur' = [cur EXCEPT ![t] = s]
        /\ connected' = connected \ {s}
    BY <1>4 DEF Disconnect, FirstDisconnect
  <2>2. "disconnect" \in Points \ (Aside \cup Starting) /\ "idle" \in Points
    BY DEF Points, Aside, Starting
  <2>3. Onward(t, "disconnect", s, "idle")
    BY <1>1, <1>2, <2>1, <2>2 DEF Onward
  <2>4. EndInv'
    BY <1>3, <1>4, <2>1, <2>3, OnwardDisconnect
  <2> QED BY <2>3, <2>4
<1>5. CASE s \notin connected
  <2>1. /\ pc' = [pc EXCEPT ![t] = "idle"] /\ after' = after
        /\ cur' = [cur EXCEPT ![t] = None]
    BY <1>5 DEF Disconnect, FirstDisconnect
  <2>2. Onward(t, "idle", None, after[t])
    BY <1>1, <1>2, <2>1, Stays DEF Onward, Aside
  <2>3. EndInv'
    BY <1>3, <2>2, OnwardAlive DEF Ending
  <2> QED BY <2>2, <2>3
<1> QED BY <1>4, <1>5

(* One that has not goes on with the session. *)
LEMMA DoneGoesOn ==
  ASSUME IInv, NEW t \in Threads, NEW s \in Sessions,
         NEW kind \in Kinds \ {"connect"}, NEW ok, Dispatch(t, s, kind, ok),
         NEW p \in {"recvCheck", "sent", "onDisconnected"},
         pc' = [pc EXCEPT ![t] = p], cur' = [cur EXCEPT ![t] = s],
         UNCHANGED <<event, after, crashed, connected>>
  PROVE  Onward(t, p, s, after[t])
<1>1. /\ callbacks[s] # <<>> /\ pending' = pending \ {<<s, kind>>}
      /\ UNCHANGED <<role, fresh, accepting, acceptsPending, services, game,
                     gameLock, todo, callbacks>>
  BY Taken
<1>2. Calm
  BY <1>1 DEF Calm
<1>3. p \in Points \ (Aside \cup Starting) /\ p # "disconnect"
  BY DEF Points, Aside, Starting
<1> QED BY <1>1, <1>2, <1>3, Stays DEF Onward

LEMMA RecvDoneStep ==
  ASSUME IInv, NEW t \in Threads, NEW s \in Sessions, NEW ok \in BOOLEAN,
         Dispatch(t, s, "recv", ok)
  PROVE  IInv'
<1>. "recv" \in Kinds \ {"connect"}
  BY DEF Kinds
<1>1. /\ ~InRecv(t) /\ ~InSend(t)
      /\ <<s, "recv">> \in pending
      /\ pending' = pending \ {<<s, "recv">>}
      /\ owner' = owner \ {<<s, "recv">>}
      /\ UNCHANGED <<sendRegistered, sessionLock>>
  BY Taken
<1>2. RecvDone(t, s, ok) /\ UNCHANGED up
  BY DEF Dispatch, RecvDone
<1>3. /\ EndInv'
      /\ \E p, x, a :
           /\ Onward(t, p, x, a)
           /\ \/ p = "recvCheck" /\ x = s
              \/ p = "disconnect" /\ a = "idle"
              \/ p = "idle"
  <2>1. CASE ok
    <3>1. Onward(t, "recvCheck", s, after[t])
      BY <1>2, <2>1, DoneGoesOn DEF RecvDone
    <3>2. EndInv'
      BY <1>1, <3>1, OnwardAlive DEF Ending
    <3> QED BY <3>1, <3>2
  <2>2. CASE ~ok
    <3>1. Disconnect(t, s, "idle")
      BY <1>2, <2>2 DEF RecvDone
    <3> QED BY <3>1, DoneDisconnects
  <2> QED BY <2>1, <2>2
<1>4. PICK p, x, a :
        /\ Onward(t, p, x, a)
        /\ \/ p = "recvCheck" /\ x = s
           \/ p = "disconnect" /\ a = "idle"
           \/ p = "idle"
  BY <1>3
<1>5. pc'[t] = p /\ ~InSend(t)' /\ (InRecv(t)' <=> p = "recvCheck")
  BY <1>4 DEF Onward, InRecv, InSend, IInv, TypeOK
<1>6. RecvInv'
  BY <1>1, <1>4, <1>5, RecvMoves
<1>7. SendInv'
  BY <1>1, <1>4, <1>5, SendMoves
<1>8. pending' \subseteq owner' /\ owner' \subseteq Sessions \X Kinds
  BY <1>1 DEF IInv, TypeOK
<1> QED BY <1>1, <1>2, <1>3, <1>4, <1>6, <1>7, <1>8, OnwardInv
        DEF IInv, TypeOK

LEMMA SendDoneStep ==
  ASSUME IInv, NEW t \in Threads, NEW s \in Sessions, NEW ok \in BOOLEAN,
         Dispatch(t, s, "send", ok)
  PROVE  IInv'
<1>. "send" \in Kinds \ {"connect"}
  BY DEF Kinds
<1>1. /\ ~InRecv(t) /\ ~InSend(t)
      /\ <<s, "send">> \in pending
      /\ pending' = pending \ {<<s, "send">>}
      /\ owner' = owner \ {<<s, "send">>}
      /\ UNCHANGED <<sendRegistered, sessionLock>>
  BY Taken
<1>2. SendDone(t, s, ok) /\ UNCHANGED up
  BY DEF Dispatch, SendDone
<1>3. /\ EndInv'
      /\ \E p, x, a :
           /\ Onward(t, p, x, a)
           /\ \/ p = "sent" /\ x = s
              \/ p = "disconnect" /\ a = "idle"
              \/ p = "idle"
  <2>1. CASE ok
    <3>1. Onward(t, "sent", s, after[t])
      BY <1>2, <2>1, DoneGoesOn DEF SendDone
    <3>2. EndInv'
      BY <1>1, <3>1, OnwardAlive DEF Ending
    <3> QED BY <3>1, <3>2
  <2>2. CASE ~ok
    <3>1. Disconnect(t, s, "idle")
      BY <1>2, <2>2 DEF SendDone
    <3> QED BY <3>1, DoneDisconnects
  <2> QED BY <2>1, <2>2
<1>4. PICK p, x, a :
        /\ Onward(t, p, x, a)
        /\ \/ p = "sent" /\ x = s
           \/ p = "disconnect" /\ a = "idle"
           \/ p = "idle"
  BY <1>3
<1>5. pc'[t] = p /\ ~InRecv(t)' /\ (InSend(t)' <=> p = "sent")
  BY <1>4 DEF Onward, InRecv, InSend, IInv, TypeOK
<1>6. RecvInv'
  BY <1>1, <1>4, <1>5, RecvMoves
<1>7. SendInv'
  BY <1>1, <1>4, <1>5, SendMoves DEF IInv, SendInv
<1>8. pending' \subseteq owner' /\ owner' \subseteq Sessions \X Kinds
  BY <1>1 DEF IInv, TypeOK
<1> QED BY <1>1, <1>2, <1>3, <1>4, <1>6, <1>7, <1>8, OnwardInv
        DEF IInv, TypeOK

LEMMA DisconnectDoneStep ==
  ASSUME IInv, NEW t \in Threads, NEW s \in Sessions, NEW ok \in BOOLEAN,
         Dispatch(t, s, "disconnect", ok)
  PROVE  IInv'
<1>. "disconnect" \in Kinds \ {"connect"}
  BY DEF Kinds
<1>1. /\ ~InRecv(t) /\ ~InSend(t)
      /\ <<s, "disconnect">> \in pending
      /\ pending' = pending \ {<<s, "disconnect">>}
      /\ owner' = owner \ {<<s, "disconnect">>}
      /\ UNCHANGED <<sendRegistered, sessionLock, services, callbacks>>
  BY Taken
<1>2. /\ pc' = [pc EXCEPT ![t] = "onDisconnected"]
      /\ cur' = [cur EXCEPT ![t] = s]
      /\ UNCHANGED <<event, after, crashed, connected, up>>
  BY DEF Dispatch, DisconnectDone
<1>3. Onward(t, "onDisconnected", s, after[t])
  BY <1>2, DoneGoesOn
<1>4. /\ pc'[t] = "onDisconnected" /\ cur'[t] = s
      /\ ~InRecv(t)' /\ ~InSend(t)'
      /\ \A u \in Threads \ {t} : pc'[u] = pc[u] /\ cur'[u] = cur[u]
  BY <1>2 DEF InRecv, InSend, IInv, TypeOK
<1>5. EndInv'
  <2>1. /\ callbacks[s] = Joined /\ s \notin connected
        /\ \A u \in Threads : pc[u] \in Ending => cur[u] # s
    BY <1>1 DEF IInv, EndInv
  <2>2. \A u \in Threads :
          pc[u] \in Ending \cup {"onConnected"} => cur[u] \in Sessions
    BY DEF Ending, IInv, TypeOK
  <2>3. connected \subseteq Sessions
    BY DEF IInv, TypeOK
  <2> QED BY <1>1, <1>2, <1>4, <2>1, <2>2, <2>3 DEF IInv, EndInv, Ending
<1>6. RecvInv'
  BY <1>1, <1>3, <1>4, RecvMoves
<1>7. SendInv'
  BY <1>1, <1>3, <1>4, SendMoves
<1>8. pending' \subseteq owner' /\ owner' \subseteq Sessions \X Kinds
  BY <1>1 DEF IInv, TypeOK
<1> QED BY <1>1, <1>2, <1>3, <1>5, <1>6, <1>7, <1>8, OnwardInv
        DEF IInv, TypeOK

(* A step that leaves the events of send and recv alone; a thread may have *)
(* the recv event of a session that starts. *)
LEMMA IOStays ==
  ASSUME IInv, NEW t \in Threads,
         \A u \in Threads \ {t} :
           pc'[u] = pc[u] /\ cur'[u] = cur[u] /\ after'[u] = after[u],
         \A x \in Sessions, kind \in {"recv", "send"} :
           /\ <<x, kind>> \in pending' => <<x, kind>> \in pending
           /\ <<x, kind>> \in owner => <<x, kind>> \in owner',
         sendRegistered' = sendRegistered,
         ~InSend(t)', pc'[t] # "recvPost",
         InRecv(t)' => cur'[t] \in Sessions /\ callbacks[cur'[t]] = <<>>
  PROVE  RecvInv' /\ SendInv'
<1>1. \A u \in Threads \ {t} :
        /\ InRecv(u)' <=> InRecv(u)
        /\ InSend(u)' <=> InSend(u)
        /\ InRecv(u) \/ InSend(u) => cur[u] \in Sessions
  BY DEF InRecv, InSend, IInv, TypeOK
<1>2. \A u \in Threads :
        InRecv(u) /\ cur[u] \in Sessions => callbacks[cur[u]] # <<>>
  BY DEF InRecv, Starting, IInv, LifeInv
<1>3. InRecv(t)' => <<cur'[t], "recv">> \notin pending'
  BY DEF IInv, LifeInv, Kinds
<1>4. \A u \in Threads \ {t} :
        InRecv(t)' /\ InRecv(u)' => cur'[u] # cur'[t]
  BY <1>1, <1>2
<1>5. RecvInv'
  <2>1. \A u \in Threads \ {t} :
          /\ InRecv(u)' => <<cur'[u], "recv">> \notin pending'
          /\ pc'[u] = "recvPost" => <<cur'[u], "recv">> \in owner'
    BY <1>1 DEF IInv, RecvInv, InRecv
  <2>2. \A u, v \in Threads \ {t} :
          InRecv(u)' /\ InRecv(v)' /\ cur'[u] = cur'[v] => u = v
    BY <1>1 DEF IInv, RecvInv
  <2> QED BY <1>3, <1>4, <2>1, <2>2 DEF RecvInv
<1>6. SendInv'
  <2>1. \A u \in Threads \ {t} :
          /\ InSend(u)' => /\ <<cur'[u], "send">> \notin pending'
                           /\ cur'[u] \in sendRegistered'
          /\ pc'[u] = "sendPost" => <<cur'[u], "send">> \in owner'
    BY <1>1 DEF IInv, SendInv, InSend
  <2>2. \A u, v \in Threads \ {t} :
          InSend(u)' /\ InSend(v)' /\ cur'[u] = cur'[v] => u = v
    BY <1>1 DEF IInv, SendInv
  <2>3. \A x \in Sessions : <<x, "send">> \in pending' => x \in sendRegistered'
    BY DEF IInv, SendInv
  <2>4. pc'[t] # "sendPost"
    BY DEF InSend
  <2> QED BY <2>1, <2>2, <2>3, <2>4 DEF SendInv
<1> QED BY <1>5, <1>6

LEMMA SetConnectedStep ==
  ASSUME IInv, NEW t \in Threads, SetConnected(t)
  PROVE  IInv'
<1>1. /\ pc[t] = "connect" /\ pc' = [pc EXCEPT ![t] = "addSession"]
      /\ connected' = connected \cup {cur[t]}
      /\ UNCHANGED <<cur, event, after, crashed, sendRegistered, sessionLock,
                     registry, kernel>>
  BY DEF SetConnected, Goto, At
<1>2. UNCHANGED <<role, fresh, accepting, acceptsPending, pending, owner, up,
                  services, game, gameLock, todo, callbacks>>
  BY <1>1 DEF registry, kernel
<1>3. /\ pc'[t] = "addSession"
      /\ \A u \in Threads \ {t} : pc'[u] = pc[u]
      /\ cur[t] \in Sessions
  BY <1>1 DEF IInv, TypeOK
<1>4. callbacks[cur[t]] = <<>>
  BY <1>1, <1>3 DEF IInv, LifeInv, Starting
<1>5. TypeOK'
  BY <1>1, <1>2, <1>3 DEF IInv, TypeOK, Points
<1>6. ThreadInv'
  BY <1>1, <1>2, <1>3 DEF IInv, ThreadInv
<1>7. \A u \in Threads : pc'[u] \in Starting <=> pc[u] \in Starting
  BY <1>1, <1>3 DEF Starting
<1>8. StartInv' /\ LifeInv'
  BY <1>1, <1>2, <1>7 DEF IInv, StartInv, LifeInv, Waiting
<1>9. EndInv'
  <2>1. /\ \A u \in Threads : cur[u] = cur[t] => pc[u] \notin Ending
        /\ <<cur[t], "disconnect">> \notin pending
    BY <1>3, <1>4 DEF IInv, LifeInv, Starting, Ending, Kinds
  <2>2. \A u \in Threads :
          pc'[u] \in Ending \cup {"onConnected"} => pc[u] = pc'[u]
    BY <1>3 DEF Ending
  <2> QED
    BY <1>1, <1>2, <1>3, <1>4, <2>1, <2>2, Lives DEF IInv, EndInv, Ending
<1>10. RecvInv' /\ SendInv'
  BY <1>1, <1>2, <1>3, IOStays DEF InRecv, InSend
<1> QED
  BY <1>1, <1>2, <1>5, <1>6, <1>8, <1>9, <1>10 DEF IInv

LEMMA AddSessionStep ==
  ASSUME IInv, NEW t \in Threads, AddSession(t)
  PROVE  IInv'
<1>1. /\ pc[t] = "addSession" /\ pc' = [pc EXCEPT ![t] = "onConnected"]
      /\ services' = services \cup {cur[t]}
      /\ UNCHANGED <<cur, event, after, crashed, game, gameLock, todo,
                     callbacks, session, kernel>>
  BY DEF AddSession, MoreSessions, Goto, At
<1>2. UNCHANGED <<role, fresh, accepting, acceptsPending, pending, owner, up,
                  connected, sendRegistered, sessionLock>>
  BY <1>1 DEF session, kernel
<1>3. /\ pc'[t] = "onConnected"
      /\ \A u \in Threads \ {t} : pc'[u] = pc[u]
      /\ cur[t] \in Sessions
  BY <1>1 DEF IInv, TypeOK
<1>4. TypeOK'
  <2>1. /\ services' \subseteq Sessions /\ pc' \in [Threads -> Points]
        /\ \A u \in Threads :
             /\ cur[u] = None <=> pc'[u] \in {"idle", "accept", "broadcast"}
             /\ pc'[u] = "idle" => event[u] = None
             /\ pc'[u] = "accept" => event[u] # None
    BY <1>1, <1>3 DEF IInv, TypeOK, Points
  <2> QED BY <1>1, <1>2, <2>1 DEF IInv, TypeOK
<1>5. ThreadInv'
  BY <1>1, <1>2, <1>3 DEF IInv, ThreadInv
<1>6. \A u \in Threads : pc'[u] \in Starting <=> pc[u] \in Starting
  BY <1>1, <1>3 DEF Starting
<1>7. StartInv' /\ LifeInv'
  BY <1>1, <1>2, <1>6 DEF IInv, StartInv, LifeInv, Waiting
<1>8. EndInv'
  <2>1. \A u \in Threads \ {t} : pc'[u] = pc[u]
    BY <1>3
  <2> QED BY <1>1, <1>2, <1>3, <2>1 DEF IInv, EndInv, Ending
<1>9. RecvInv' /\ SendInv'
  BY <1>1, <1>2, <1>3, IOStays DEF InRecv, InSend
<1> QED BY <1>1, <1>2, <1>4, <1>5, <1>7, <1>8, <1>9 DEF IInv

(* The contents hear of a session that has started nowhere else. *)
LEMMA OnConnectedEffect ==
  ASSUME IInv, NEW t \in Threads, OnConnected(t)
  PROVE  /\ cur[t] \in Sessions /\ callbacks[cur[t]] = <<>>
         /\ callbacks' = [callbacks EXCEPT ![cur[t]] = Joined]
<1>1. pc[t] = "onConnected"
  BY DEF OnConnected, At
<1>2. cur[t] \in Sessions /\ callbacks[cur[t]] = <<>>
  BY <1>1 DEF IInv, TypeOK, LifeInv, Starting
<1>3. callbacks' =
        [callbacks EXCEPT ![cur[t]] = Append(callbacks[cur[t]], "OnConnected")]
  BY DEF OnConnected
<1> QED BY <1>2, <1>3, Lives

LEMMA OnConnectedStep ==
  ASSUME IInv, NEW t \in Threads, OnConnected(t)
  PROVE  IInv'
<1>1. /\ pc[t] = "onConnected" /\ pc' = [pc EXCEPT ![t] = "recvCheck"]
      /\ game' = game \/ game' = game \cup {cur[t]}
      /\ UNCHANGED <<cur, event, after, crashed, services, gameLock, todo,
                     session, kernel>>
  BY DEF OnConnected, Goto, At
<1>2. UNCHANGED <<role, fresh, accepting, acceptsPending, pending, owner, up,
                  connected, sendRegistered, sessionLock>>
  BY <1>1 DEF session, kernel
<1>3. PICK s \in Sessions : s = cur[t]
  BY OnConnectedEffect
<1>4. /\ callbacks[s] = <<>> /\ callbacks'[s] = Joined
      /\ \A x \in Sessions \ {s} : callbacks'[x] = callbacks[x]
      /\ callbacks' \in [Sessions -> Seq({"OnConnected", "OnDisconnected"})]
  <2>1. callbacks \in [Sessions -> Seq({"OnConnected", "OnDisconnected"})]
    BY DEF IInv, TypeOK
  <2> QED BY <1>3, <2>1, OnConnectedEffect, Lives
<1>5. /\ pc'[t] = "recvCheck"
      /\ \A u \in Threads \ {t} : pc'[u] = pc[u]
  BY <1>1 DEF IInv, TypeOK
<1>6. TypeOK'
  <2>1. /\ game' \subseteq Sessions /\ pc' \in [Threads -> Points]
        /\ \A u \in Threads :
             /\ cur[u] = None <=> pc'[u] \in {"idle", "accept", "broadcast"}
             /\ pc'[u] = "idle" => event[u] = None
             /\ pc'[u] = "accept" => event[u] # None
    BY <1>1, <1>3, <1>5 DEF IInv, TypeOK, Points
  <2> QED BY <1>1, <1>2, <1>4, <2>1 DEF IInv, TypeOK
<1>7. ThreadInv'
  BY <1>1, <1>2, <1>5 DEF IInv, ThreadInv
<1>8. /\ ~Waiting(s) /\ s \in services
      /\ \A u \in Threads \ {t} : cur[u] # s
      /\ \A kind \in Kinds : <<s, kind>> \notin pending
  <2>1. pc[t] \in Starting
    BY <1>1 DEF Starting
  <2>2. ~Waiting(s) /\ s \in services
    BY <1>1, <1>3, <2>1 DEF IInv, StartInv, EndInv
  <2>3. \A u \in Threads \ {t} : cur[u] # s
    BY <1>3, <1>4, <2>1 DEF IInv, StartInv, LifeInv
  <2>4. \A kind \in Kinds : <<s, kind>> \notin pending
    BY <1>4, <2>2 DEF IInv, LifeInv, Waiting
  <2> QED BY <2>2, <2>3, <2>4
<1>9. \A u \in Threads :
        pc'[u] \in Starting => u # t /\ pc[u] \in Starting
  BY <1>5 DEF Starting
<1>10. StartInv'
  BY <1>1, <1>2, <1>9 DEF IInv, StartInv, Waiting
<1>11. LifeInv'
  <2>1. \A x \in Sessions : Waiting(x)' <=> Waiting(x)
    BY <1>2 DEF Waiting
  <2>2. \A x \in Sessions \ {s} :
          /\ x \in game' <=> x \in game
          /\ \A u \in Threads : cur[u] = x => pc'[u] = pc[u]
    BY <1>1, <1>3, <1>5
  <2>3. \A u \in Threads : cur[u] = s => pc'[u] \notin Starting
    BY <1>5, <1>8 DEF Starting
  <2> QED BY <1>1, <1>2, <1>4, <1>8, <2>1, <2>2, <2>3, Lives
          DEF IInv, LifeInv
<1>12. EndInv'
  <2>1. \A u \in Threads :
          pc'[u] \in Ending \cup {"onConnected"} =>
            /\ pc[u] = pc'[u] /\ cur[u] \in Sessions \ {s}
    BY <1>5, <1>8 DEF Ending, IInv, TypeOK
  <2>2. connected \subseteq Sessions /\ <<s, "disconnect">> \notin pending
    BY <1>8 DEF IInv, TypeOK, Kinds
  <2>3. \A x \in connected' :
          /\ callbacks'[x] # Left /\ <<x, "disconnect">> \notin pending'
          /\ \A u \in Threads : cur'[u] = x => pc'[u] \notin Ending
    BY <1>1, <1>2, <1>4, <2>1, <2>2, Lives DEF IInv, EndInv
  <2>4. \A x \in Sessions :
          <<x, "disconnect">> \in pending' => callbacks'[x] = Joined
    BY <1>2, <1>4 DEF IInv, EndInv
  <2>5. /\ \A u \in Threads :
             pc'[u] \in Ending => <<cur'[u], "disconnect">> \notin pending'
        /\ \A u, v \in Threads :
             pc'[u] \in Ending /\ pc'[v] \in Ending /\ cur'[u] = cur'[v] =>
               u = v
    BY <1>1, <1>2, <2>1 DEF IInv, EndInv
  <2>6. \A u \in Threads :
          /\ pc'[u] = "onConnected" => cur'[u] \in services'
          /\ pc'[u] \in {"disconnect", "onDisconnected"} =>
               callbacks'[cur'[u]] = Joined
          /\ pc'[u] = "release" =>
               callbacks'[cur'[u]] = Left /\ cur'[u] \in services'
    BY <1>1, <1>4, <2>1 DEF IInv, EndInv, Ending
  <2> QED BY <2>3, <2>4, <2>5, <2>6 DEF EndInv
<1>13. RecvInv' /\ SendInv'
  BY <1>1, <1>2, <1>3, <1>4, <1>5, IOStays DEF InRecv, InSend
<1> QED
  BY <1>1, <1>2, <1>6, <1>7, <1>10, <1>11, <1>12, <1>13 DEF IInv

LEMMA OnDisconnectedEffect ==
  ASSUME IInv, NEW t \in Threads, OnDisconnected(t)
  PROVE  /\ cur[t] \in Sessions /\ callbacks[cur[t]] = Joined
         /\ callbacks' = [callbacks EXCEPT ![cur[t]] = Left]
<1>1. pc[t] = "onDisconnected"
  BY DEF OnDisconnected, At
<1>2. cur[t] \in Sessions /\ callbacks[cur[t]] = Joined
  BY <1>1 DEF IInv, TypeOK, EndInv
<1>3. callbacks' =
        [callbacks EXCEPT
           ![cur[t]] = Append(callbacks[cur[t]], "OnDisconnected")]
  BY DEF OnDisconnected
<1> QED BY <1>2, <1>3, Lives

LEMMA OnDisconnectedStep ==
  ASSUME IInv, NEW t \in Threads, OnDisconnected(t)
  PROVE  IInv'
<1>1. /\ pc[t] = "onDisconnected" /\ pc' = [pc EXCEPT ![t] = "release"]
      /\ game' = game \ {cur[t]}
      /\ UNCHANGED <<cur, event, after, crashed, services, gameLock, todo,
                     session, kernel>>
  BY DEF OnDisconnected, Goto, At
<1>2. UNCHANGED <<role, fresh, accepting, acceptsPending, pending, owner, up,
                  connected, sendRegistered, sessionLock>>
  BY <1>1 DEF session, kernel
<1>3. PICK s \in Sessions : s = cur[t]
  BY OnDisconnectedEffect
<1>4. /\ callbacks[s] = Joined /\ callbacks'[s] = Left
      /\ \A x \in Sessions \ {s} : callbacks'[x] = callbacks[x]
      /\ callbacks' \in [Sessions -> Seq({"OnConnected", "OnDisconnected"})]
  <2>1. callbacks \in [Sessions -> Seq({"OnConnected", "OnDisconnected"})]
    BY DEF IInv, TypeOK
  <2> QED BY <1>3, <2>1, OnDisconnectedEffect, Lives
<1>5. /\ pc'[t] = "release"
      /\ \A u \in Threads \ {t} : pc'[u] = pc[u]
  BY <1>1 DEF IInv, TypeOK
<1>6. TypeOK'
  <2>1. /\ game' \subseteq Sessions /\ pc' \in [Threads -> Points]
        /\ \A u \in Threads :
             /\ cur[u] = None <=> pc'[u] \in {"idle", "accept", "broadcast"}
             /\ pc'[u] = "idle" => event[u] = None
             /\ pc'[u] = "accept" => event[u] # None
    BY <1>1, <1>3, <1>5 DEF IInv, TypeOK, Points
  <2> QED BY <1>1, <1>2, <1>4, <2>1 DEF IInv, TypeOK
<1>7. ThreadInv'
  BY <1>1, <1>2, <1>5 DEF IInv, ThreadInv
<1>8. \A u \in Threads : pc'[u] \in Starting <=> pc[u] \in Starting
  BY <1>1, <1>5 DEF Starting
<1>9. StartInv'
  BY <1>1, <1>2, <1>8 DEF IInv, StartInv, Waiting
<1>10. LifeInv'
  <2>1. \A x \in Sessions : Waiting(x)' <=> Waiting(x)
    BY <1>2 DEF Waiting
  <2> QED BY <1>1, <1>2, <1>3, <1>4, <1>8, <2>1, Lives DEF IInv, LifeInv
<1>11. EndInv'
  <2>1. /\ s \notin connected /\ <<s, "disconnect">> \notin pending
        /\ \A u \in Threads \ {t} : pc[u] \in Ending => cur[u] # s
        /\ s \in services
    BY <1>1, <1>3, <1>4 DEF IInv, EndInv, Ending, LifeInv
  <2>2. \A u \in Threads :
          pc[u] \in Ending \cup {"onConnected"} => cur[u] \in Sessions
    BY DEF Ending, IInv, TypeOK
  <2>3. connected \subseteq Sessions
    BY DEF IInv, TypeOK
  <2>4. \A u \in Threads : pc'[u] \in Ending <=> pc[u] \in Ending
    BY <1>1, <1>5 DEF Ending
  <2>5. \A x \in connected' :
          /\ callbacks'[x] # Left /\ <<x, "disconnect">> \notin pending'
          /\ \A u \in Threads : cur'[u] = x => pc'[u] \notin Ending
    BY <1>1, <1>2, <1>4, <2>1, <2>3, <2>4 DEF IInv, EndInv
  <2>6. \A x \in Sessions :
          <<x, "disconnect">> \in pending' => callbacks'[x] = Joined
    BY <1>2, <1>4, <2>1 DEF IInv, EndInv
  <2>7. /\ \A u \in Threads :
             pc'[u] \in Ending => <<cur'[u], "disconnect">> \notin pending'
        /\ \A u, v \in Threads :
             pc'[u] \in Ending /\ pc'[v] \in Ending /\ cur'[u] = cur'[v] =>
               u = v
    BY <1>1, <1>2, <2>4 DEF IInv, EndInv
  <2>8. \A u \in Threads :
          /\ pc'[u] = "onConnected" => cur'[u] \in services'
          /\ pc'[u] \in {"disconnect", "onDisconnected"} =>
               callbacks'[cur'[u]] = Joined
          /\ pc'[u] = "release" =>
               callbacks'[cur'[u]] = Left /\ cur'[u] \in services'
    <3>1. ASSUME NEW u \in Threads \ {t}
          PROVE  /\ pc[u] = "onConnected" => cur[u] \in services
                 /\ pc[u] \in {"disconnect", "onDisconnected"} =>
                      callbacks'[cur[u]] = Joined
                 /\ pc[u] = "release" =>
                      callbacks'[cur[u]] = Left /\ cur[u] \in services
      BY <1>4, <2>1, <2>2 DEF IInv, EndInv, Ending
    <3> QED BY <1>1, <1>3, <1>4, <1>5, <2>1, <3>1
  <2> QED BY <2>5, <2>6, <2>7, <2>8 DEF EndInv
<1>12. RecvInv' /\ SendInv'
  BY <1>1, <1>2, <1>5, IOStays DEF InRecv, InSend
<1> QED
  BY <1>1, <1>2, <1>6, <1>7, <1>9, <1>10, <1>11, <1>12 DEF IInv

(* A thread releases a session that is there. *)
LEMMA ReleaseFindsSession ==
  ASSUME IInv, NEW t \in Threads, ReleaseSession(t)
  PROVE  /\ cur[t] \in services /\ callbacks[cur[t]] = Left
         /\ Leave(t)
BY DEF ReleaseSession, At, IInv, EndInv

LEMMA ReleaseSessionStep ==
  ASSUME IInv, NEW t \in Threads, ReleaseSession(t)
  PROVE  IInv'
<1>1. /\ pc[t] = "release" /\ services' = services \ {cur[t]}
      /\ pc' = [pc EXCEPT ![t] = Rest(t)]
      /\ cur' = [cur EXCEPT ![t] = None]
      /\ UNCHANGED <<event, after, crashed, game, gameLock, todo, callbacks,
                     session, kernel>>
  BY ReleaseFindsSession DEF ReleaseSession, At, Leave
<1>2. UNCHANGED <<role, fresh, accepting, acceptsPending, pending, owner, up,
                  connected, sendRegistered, sessionLock>>
  BY <1>1 DEF session, kernel
<1>3. PICK p \in Aside : p = Rest(t)
  BY RestFacts
<1>4. /\ pc'[t] = p /\ cur'[t] = None
      /\ \A u \in Threads \ {t} : pc'[u] = pc[u] /\ cur'[u] = cur[u]
  BY <1>1, <1>3 DEF IInv, TypeOK
<1>5. TypeOK'
  <2>1. /\ services' \subseteq Sessions /\ pc' \in [Threads -> Points]
        /\ cur' \in [Threads -> Sessions \cup {None}]
    BY <1>1, <1>3 DEF IInv, TypeOK, Points, Aside
  <2>2. \A u \in Threads :
          /\ cur'[u] = None <=> pc'[u] \in {"idle", "accept", "broadcast"}
          /\ pc'[u] = "idle" => event[u] = None
          /\ pc'[u] = "accept" => event[u] # None
    BY <1>3, <1>4, RestFacts DEF IInv, TypeOK, Aside
  <2> QED BY <1>1, <1>2, <2>1, <2>2 DEF IInv, TypeOK
<1>6. \A u \in Threads :
        pc'[u] \in Starting \cup Ending =>
          u # t /\ pc'[u] = pc[u] /\ cur'[u] = cur[u] /\ cur[u] \in Sessions
  BY <1>4 DEF Aside, Starting, Ending, IInv, TypeOK
<1>7. ThreadInv'
  BY <1>1, <1>2, <1>4, <1>6 DEF IInv, ThreadInv, Ending
<1>8. StartInv'
  BY <1>1, <1>2, <1>6 DEF IInv, StartInv, Waiting
<1>9. LifeInv'
  <2>1. \A x \in Sessions : Waiting(x)' <=> Waiting(x)
    BY <1>2 DEF Waiting
  <2>2. \A x \in Sessions, u \in Threads :
          cur'[u] = x => u # t /\ cur[u] = x /\ pc'[u] = pc[u]
    BY <1>4, NamesAssumption
  <2>3. \A x \in Sessions : callbacks[x] = Joined => x \in services'
    BY <1>1, ReleaseFindsSession, Lives DEF IInv, LifeInv
  <2> QED BY <1>1, <1>2, <2>1, <2>2, <2>3 DEF IInv, LifeInv
<1>10. EndInv'
  <2>1. \A u \in Threads :
          pc'[u] \in {"onConnected", "release"} => cur[u] \in services'
    <3>1. \A u \in Threads \ {t} : pc[u] \in Ending => cur[u] # cur[t]
      BY <1>1 DEF IInv, EndInv, Ending
    <3>2. \A u \in Threads : pc[u] \in Starting => cur[u] # cur[t]
      BY ReleaseFindsSession, Lives DEF IInv, LifeInv, TypeOK
    <3> QED BY <1>1, <1>6, <3>1, <3>2 DEF IInv, EndInv, Starting, Ending
  <2>2. \A u \in Threads :
          pc'[u] \in Ending \cup {"onConnected"} =>
            pc'[u] = pc[u] /\ cur'[u] = cur[u]
    BY <1>6 DEF Starting
  <2> QED BY <1>1, <1>2, <2>1, <2>2 DEF IInv, EndInv, Ending
<1>11. RecvInv' /\ SendInv'
  BY <1>1, <1>2, <1>4, IOStays DEF InRecv, InSend, Aside
<1> QED
  BY <1>1, <1>2, <1>5, <1>7, <1>8, <1>9, <1>10, <1>11 DEF IInv

(* A step of a thread in which no session comes to or leaves an end. *)
LEMMA EndStays ==
  ASSUME IInv, NEW t \in Threads,
         \A u \in Threads \ {t} : pc'[u] = pc[u] /\ cur'[u] = cur[u],
         pc'[t] \notin Ending \cup {"onConnected"},
         UNCHANGED <<connected, services, callbacks>>,
         \A x \in Sessions :
           <<x, "disconnect">> \in pending' => <<x, "disconnect">> \in pending
  PROVE  EndInv'
<1>1. \A u \in Threads :
        pc'[u] \in Ending \cup {"onConnected"} =>
          /\ u # t /\ pc'[u] = pc[u] /\ cur'[u] = cur[u]
          /\ cur[u] \in Sessions
  BY DEF Ending, IInv, TypeOK
<1>2. connected \subseteq Sessions
  BY DEF IInv, TypeOK
<1> QED BY <1>1, <1>2 DEF IInv, EndInv, Ending

LEMMA RegisterAcceptStep ==
  ASSUME IInv, NEW t \in Threads, RegisterAccept(t)
  PROVE  IInv'
<1>1. /\ pc[t] = "accept"
      /\ UNCHANGED <<cur, after, crashed, role, pending, owner, up, session,
                     registry>>
  BY DEF RegisterAccept, At
<1>2. UNCHANGED <<connected, sendRegistered, sessionLock, services, game,
                  gameLock, todo, callbacks>>
  BY <1>1 DEF session, registry
<1>3. PICK e \in Events : e = event[t] /\ e \notin acceptsPending /\ t # Main
  BY <1>1 DEF IInv, TypeOK, ThreadInv
<1>4. /\ accepting \in [Events -> Sessions \cup {None}]
      /\ fresh \subseteq Sessions /\ acceptsPending \subseteq Events
      /\ event \in [Threads -> Events \cup {None}]
      /\ pc \in [Threads -> Points] /\ "idle" \in Points
  BY DEF IInv, TypeOK, Points
<1>5. PICK s \in Sessions \cup {None} :
        /\ s \in fresh \cup {None}
        /\ accepting' = [accepting EXCEPT ![e] = s]
        /\ fresh' = fresh \ {s}
        /\ \/ /\ acceptsPending' = acceptsPending \cup {e} /\ s \in fresh
              /\ event' = [event EXCEPT ![t] = None]
              /\ pc' = [pc EXCEPT ![t] = "idle"]
           \/ UNCHANGED <<acceptsPending, event, pc>>
           \/ /\ acceptsPending' = acceptsPending
              /\ event' = [event EXCEPT ![t] = None]
              /\ pc' = [pc EXCEPT ![t] = "idle"]
  <2>1. CASE \E s \in fresh :
          /\ CreateSession(s, e)
          /\ \/ /\ acceptsPending' = acceptsPending \cup {e}
                /\ event' = [event EXCEPT ![t] = None]
                /\ pc' = [pc EXCEPT ![t] = "idle"]
             \/ UNCHANGED <<acceptsPending, event, pc>>
    <3>1. PICK s \in fresh :
          /\ CreateSession(s, e)
          /\ \/ /\ acceptsPending' = acceptsPending \cup {e}
                /\ event' = [event EXCEPT ![t] = None]
                /\ pc' = [pc EXCEPT ![t] = "idle"]
             \/ UNCHANGED <<acceptsPending, event, pc>>
      BY <2>1
    <3>2. s \in Sessions \cup {None} /\ s \in fresh \cup {None}
      BY <1>4
    <3> QED BY <3>1, <3>2 DEF CreateSession
  <2>2. CASE /\ fresh = {} /\ accepting' = [accepting EXCEPT ![e] = None]
             /\ event' = [event EXCEPT ![t] = None]
             /\ pc' = [pc EXCEPT ![t] = "idle"]
             /\ UNCHANGED <<fresh, acceptsPending>>
    <3>1. fresh' = fresh \ {None} /\ None \in Sessions \cup {None}
      BY <2>2
    <3> QED BY <2>2, <3>1
  <2> QED BY <1>3, <2>1, <2>2 DEF RegisterAccept
<1>6. /\ accepting'[e] = s
      /\ \A d \in Events \ {e} : accepting'[d] = accepting[d]
      /\ accepting' \in [Events -> Sessions \cup {None}]
      /\ fresh' \subseteq fresh
      /\ acceptsPending \subseteq acceptsPending'
      /\ acceptsPending' \subseteq acceptsPending \cup {e}
      /\ e \in acceptsPending' => s \in fresh /\ s \in Sessions
  BY <1>3, <1>4, <1>5
<1>7. /\ pc' \in [Threads -> Points]
      /\ event' \in [Threads -> Events \cup {None}]
      /\ \A u \in Threads \ {t} : pc'[u] = pc[u] /\ event'[u] = event[u]
      /\ \/ pc'[t] = "idle" /\ event'[t] = None
         \/ /\ pc'[t] = "accept" /\ event'[t] = e
            /\ acceptsPending' = acceptsPending
  BY <1>1, <1>3, <1>4, <1>5
<1>8. TypeOK'
  <2>1. \A u \in Threads :
          /\ cur[u] = None <=> pc'[u] \in {"idle", "accept", "broadcast"}
          /\ pc'[u] = "idle" => event'[u] = None
          /\ pc'[u] = "accept" => event'[u] # None
    BY <1>1, <1>3, <1>7, NamesAssumption DEF IInv, TypeOK
  <2>2. fresh' \subseteq Sessions /\ acceptsPending' \subseteq Events
    BY <1>3, <1>4, <1>6
  <2> QED BY <1>1, <1>2, <1>6, <1>7, <2>1, <2>2 DEF IInv, TypeOK
<1>9. ThreadInv'
  <2>1. \A u, v \in Threads :
          event'[u] = event'[v] /\ event'[u] # None => u = v
    BY <1>3, <1>7 DEF IInv, ThreadInv
  <2>2. \A u \in Threads : event'[u] \notin acceptsPending'
    <3>1. \A u \in Threads \ {t} : event[u] # e
      BY <1>3, NamesAssumption DEF IInv, ThreadInv
    <3>2. None \notin acceptsPending'
      BY <1>4, <1>6, NamesAssumption
    <3> QED BY <1>3, <1>6, <1>7, <3>1, <3>2 DEF IInv, ThreadInv
  <2>3. event'[Main] = None
    BY <1>3, <1>7 DEF IInv, ThreadInv, Threads
  <2>4. \A u \in Threads :
          pc'[u] = "disconnect" =>
            \/ after'[u] \in {"recvFailed", "sendFailed"}
            \/ after'[u] = "idle" /\ event'[u] = None
    BY <1>1, <1>7 DEF IInv, ThreadInv
  <2> QED BY <2>1, <2>2, <2>3, <2>4 DEF ThreadInv
<1>10. \A x \in Sessions : Waiting(x)' => Waiting(x)
  <2> SUFFICES ASSUME NEW x \in Sessions, NEW d \in acceptsPending',
                      accepting'[d] = x
               PROVE  x \in fresh \/ (d \in acceptsPending /\ accepting[d] = x)
    BY <1>1, <1>6 DEF Waiting
  <2> QED BY <1>4, <1>6
<1>11. \A u \in Threads : pc'[u] \in Starting => u # t /\ pc[u] \in Starting
  BY <1>7 DEF Starting
<1>12. StartInv'
  <2>1. \A d \in acceptsPending' : accepting'[d] \in Sessions \ fresh'
    BY <1>3, <1>4, <1>5, <1>6 DEF IInv, StartInv
  <2>2. \A d \in acceptsPending : accepting[d] \notin fresh /\ d # e
    BY <1>3 DEF IInv, StartInv
  <2>3. \A c, d \in acceptsPending' : accepting'[c] = accepting'[d] => c = d
    BY <1>4, <1>6, <2>2 DEF IInv, StartInv
  <2>4. \A x \in Sessions :
          <<x, "connect">> \in pending' =>
            x \notin fresh' /\ \A d \in acceptsPending' : accepting'[d] # x
    <3>1. \A x \in Sessions :
            <<x, "connect">> \in pending =>
              x \notin fresh /\ \A d \in acceptsPending : accepting[d] # x
      BY DEF IInv, StartInv
    <3> QED BY <1>1, <1>4, <1>6, <3>1
  <2>5. \A u \in Threads : pc'[u] \in Starting => ~Waiting(cur[u])'
    <3>1. \A u \in Threads :
            pc'[u] \in Starting => cur[u] \in Sessions /\ cur'[u] = cur[u]
      BY <1>1, <1>11 DEF Starting, IInv, TypeOK
    <3>2. \A u \in Threads : pc'[u] \in Starting => ~Waiting(cur[u])
      BY <1>11 DEF IInv, StartInv
    <3> QED BY <1>10, <3>1, <3>2
  <2>6. \A u, v \in Threads :
          pc'[u] \in Starting /\ pc'[v] \in Starting /\ cur'[u] = cur'[v] =>
            u = v
    BY <1>1, <1>11 DEF IInv, StartInv
  <2> QED BY <1>1, <2>1, <2>3, <2>4, <2>5, <2>6 DEF StartInv, Waiting
<1>13. LifeInv'
  <2>1. \A u \in Threads, x \in Sessions :
          cur[u] = x => (pc'[u] \in Starting <=> pc[u] \in Starting)
    BY <1>1, <1>7, NamesAssumption DEF IInv, TypeOK
  <2> QED BY <1>1, <1>2, <1>10, <2>1 DEF IInv, LifeInv
<1>14. EndInv'
  BY <1>1, <1>2, <1>7, EndStays DEF Ending
<1>15. RecvInv' /\ SendInv'
  BY <1>1, <1>2, <1>7, IOStays DEF InRecv, InSend
<1> QED
  BY <1>1, <1>8, <1>9, <1>12, <1>13, <1>14, <1>15 DEF IInv

(* A thread takes a session that waited for its peer: the accept event     *)
(* or the connect that held it is no longer with the kernel.               *)
LEMMA StartsSession ==
  ASSUME IInv, NEW t \in Workers, NEW s \in Sessions, Waiting(s),
         pc[t] = "idle", cur[t] = None,
         pc' = [pc EXCEPT ![t] = "connect"], cur' = [cur EXCEPT ![t] = s],
         UNCHANGED <<after, crashed, role, fresh, accepting, session,
                     registry>>,
         acceptsPending' \subseteq acceptsPending,
         \A x \in Sessions, kind \in Kinds :
           /\ <<x, kind>> \in pending' => <<x, kind>> \in pending
           /\ kind # "connect" =>
                (<<x, kind>> \in owner => <<x, kind>> \in owner'),
         ~Waiting(s)'
  PROVE  StartInv' /\ LifeInv' /\ EndInv' /\ RecvInv' /\ SendInv'
<1>1. t \in Threads
  BY DEF Threads
<1>2. UNCHANGED <<connected, sendRegistered, sessionLock, services, game,
                  gameLock, todo, callbacks>>
  BY DEF session, registry
<1>3. /\ pc'[t] = "connect" /\ cur'[t] = s
      /\ \A u \in Threads \ {t} :
           pc'[u] = pc[u] /\ cur'[u] = cur[u] /\ after'[u] = after[u]
  BY <1>1 DEF IInv, TypeOK
<1>4. \A x \in Sessions : Waiting(x)' => Waiting(x)
  BY DEF Waiting, Kinds
<1>5. /\ callbacks[s] = <<>>
      /\ \A u \in Threads : pc[u] \in Starting => cur[u] # s
  BY DEF IInv, LifeInv, StartInv
<1>6. \A u \in Threads \ {t} :
        pc'[u] \in Starting => pc[u] \in Starting /\ cur[u] \in Sessions
  BY <1>3 DEF Starting, IInv, TypeOK
<1>7. StartInv'
  <2>1. \A u \in Threads : pc'[u] \in Starting => ~Waiting(cur[u])'
    <3>1. \A u \in Threads \ {t} :
            pc'[u] \in Starting => ~Waiting(cur[u]) /\ cur'[u] = cur[u]
                                  /\ cur[u] \in Sessions
      BY <1>3, <1>6 DEF IInv, StartInv
    <3>2. \A u \in Threads \ {t} : pc'[u] \in Starting => ~Waiting(cur[u])'
      BY <1>4, <3>1
    <3>3. ~Waiting(cur[t])'
      BY <1>3
    <3> QED BY <3>2, <3>3
  <2>2. \A u, v \in Threads :
          pc'[u] \in Starting /\ pc'[v] \in Starting /\ cur'[u] = cur'[v] =>
            u = v
    BY <1>3, <1>5, <1>6 DEF IInv, StartInv
  <2>3. /\ \A e \in acceptsPending' : accepting'[e] \in Sessions \ fresh'
        /\ \A d, e \in acceptsPending' :
             accepting'[d] = accepting'[e] => d = e
        /\ \A x \in Sessions :
             <<x, "connect">> \in pending' =>
               x \notin fresh' /\ \A e \in acceptsPending' : accepting'[e] # x
    BY DEF IInv, StartInv, Kinds
  <2> QED BY <2>1, <2>2, <2>3 DEF StartInv, Waiting
<1>8. LifeInv'
  <2>1. \A x \in Sessions :
          callbacks[x] = <<>> => \A u \in Threads : cur'[u] = x =>
                                                    pc'[u] \in Starting
    BY <1>3 DEF IInv, LifeInv, Starting
  <2>2. \A x \in Sessions :
          callbacks[x] # <<>> =>
            /\ ~Waiting(x)'
            /\ \A u \in Threads : cur'[u] = x => pc'[u] \notin Starting
    BY <1>3, <1>4, <1>5 DEF IInv, LifeInv
  <2> QED BY <1>2, <2>1, <2>2 DEF IInv, LifeInv
<1>9. EndInv'
  BY <1>1, <1>2, <1>3, EndStays DEF Ending, Kinds
<1>10. RecvInv' /\ SendInv'
  BY <1>1, <1>2, <1>3, IOStays DEF InRecv, InSend, Kinds
<1> QED BY <1>7, <1>8, <1>9, <1>10

LEMMA ProcessAcceptStep ==
  ASSUME IInv, NEW t \in Workers, NEW e \in Events, NEW ok \in BOOLEAN,
         ProcessAccept(t, e, ok)
  PROVE  IInv'
<1>1. /\ pc[t] = "idle" /\ e \in acceptsPending
      /\ acceptsPending' = acceptsPending \ {e}
      /\ event' = [event EXCEPT ![t] = e]
      /\ UNCHANGED <<after, crashed, role, fresh, accepting, pending, owner,
                     session, registry>>
  BY DEF ProcessAccept, At
<1>2. UNCHANGED <<connected, sendRegistered, sessionLock, services, game,
                  gameLock, todo, callbacks>>
  BY <1>1 DEF session, registry
<1>3. /\ t \in Threads /\ t # Main /\ cur[t] = None /\ e # None
  BY <1>1, NamesAssumption DEF Threads, IInv, TypeOK
<1>4. PICK s \in Sessions : s = accepting[e]
  BY <1>1 DEF IInv, StartInv
<1>5. /\ event'[t] = e /\ event' \in [Threads -> Events \cup {None}]
      /\ \A u \in Threads \ {t} : event'[u] = event[u] /\ event[u] # e
  BY <1>1, <1>3 DEF IInv, TypeOK, ThreadInv
<1>6. PICK p \in {"connect", "accept"}, c \in Sessions \cup {None} :
        /\ pc' = [pc EXCEPT ![t] = p] /\ cur' = [cur EXCEPT ![t] = c]
        /\ p = "connect" => c = s
        /\ p = "accept" => c = None
        /\ up' = up \cup {s} \/ up' = up
  <2>1. CASE ok
    <3>1. /\ pc' = [pc EXCEPT ![t] = "connect"]
          /\ cur' = [cur EXCEPT ![t] = s] /\ up' = up \cup {s}
      BY <1>4, <2>1 DEF ProcessAccept
    <3> QED BY <3>1
  <2>2. CASE ~ok
    <3>1. /\ pc' = [pc EXCEPT ![t] = "accept"]
          /\ cur' = [cur EXCEPT ![t] = None] /\ up' = up
      BY <1>3, <2>2, Stays DEF ProcessAccept
    <3> QED BY <3>1
  <2> QED BY <2>1, <2>2
<1>7. /\ pc'[t] = p /\ cur'[t] = c /\ pc' \in [Threads -> Points]
      /\ cur' \in [Threads -> Sessions \cup {None}]
      /\ \A u \in Threads \ {t} : pc'[u] = pc[u] /\ cur'[u] = cur[u]
  BY <1>3, <1>6 DEF IInv, TypeOK, Points
<1>8. TypeOK'
  <2>1. \A u \in Threads :
          /\ cur'[u] = None <=> pc'[u] \in {"idle", "accept", "broadcast"}
          /\ pc'[u] = "idle" => event'[u] = None
          /\ pc'[u] = "accept" => event'[u] # None
    BY <1>3, <1>5, <1>6, <1>7, NamesAssumption DEF IInv, TypeOK
  <2>2. up' \subseteq Sessions /\ acceptsPending' \subseteq Events
    BY <1>1, <1>6 DEF IInv, TypeOK
  <2> QED BY <1>1, <1>2, <1>5, <1>7, <2>1, <2>2 DEF IInv, TypeOK
<1>9. ThreadInv'
  <2>1. event'[Main] = None
    BY <1>3, <1>5 DEF IInv, ThreadInv, Threads
  <2>2. \A u \in Threads : event'[u] \notin acceptsPending'
    BY <1>1, <1>5 DEF IInv, ThreadInv
  <2>3. \A u \in Threads :
          pc'[u] = "disconnect" =>
            \/ after'[u] \in {"recvFailed", "sendFailed"}
            \/ after'[u] = "idle" /\ event'[u] = None
    BY <1>1, <1>5, <1>6, <1>7 DEF IInv, ThreadInv
  <2> QED BY <1>5, <2>1, <2>2, <2>3 DEF IInv, ThreadInv
<1>10. StartInv' /\ LifeInv' /\ EndInv' /\ RecvInv' /\ SendInv'
  <2>1. CASE p = "connect"
    <3>1. Waiting(s)
      BY <1>1, <1>4 DEF Waiting
    <3>2. ~Waiting(s)'
      BY <1>1, <1>4 DEF Waiting, IInv, StartInv
    <3> QED BY <1>1, <1>3, <1>6, <2>1, <3>1, <3>2, StartsSession
  <2>2. CASE p = "accept"
    <3>1. cur' = cur /\ pc'[t] = "accept"
      BY <1>3, <1>6, <1>7, <2>2, Stays
    <3>2. \A u \in Threads : pc'[u] \in Starting <=> pc[u] \in Starting
      BY <1>1, <1>7, <2>2 DEF Starting
    <3>3. \A x \in Sessions \cup {None} : Waiting(x)' => Waiting(x)
      BY <1>1 DEF Waiting
    <3>4. StartInv'
      <4>1. \A u \in Threads : pc'[u] \in Starting => ~Waiting(cur[u])'
        BY <1>1, <3>1, <3>2 DEF IInv, StartInv, Waiting
      <4> QED BY <1>1, <3>1, <3>2, <4>1 DEF IInv, StartInv, Waiting
    <3>5. LifeInv'
      BY <1>1, <1>2, <3>1, <3>2, <3>3 DEF IInv, LifeInv
    <3>6. EndInv'
      BY <1>1, <1>2, <1>3, <1>7, <3>1, EndStays DEF Ending
    <3>7. RecvInv' /\ SendInv'
      BY <1>1, <1>2, <1>3, <1>7, <3>1, IOStays DEF InRecv, InSend
    <3> QED BY <3>4, <3>5, <3>6, <3>7
  <2> QED BY <2>1, <2>2
<1> QED BY <1>1, <1>8, <1>9, <1>10 DEF IInv

LEMMA ConnectDoneStep ==
  ASSUME IInv, NEW t \in Workers, NEW s \in Sessions, NEW ok \in BOOLEAN,
         Dispatch(t, s, "connect", ok)
  PROVE  IInv'
<1>. t \in Threads /\ "connect" \in Kinds
  BY DEF Threads, Kinds
<1>1. /\ pc[t] = "idle" /\ event[t] = None /\ cur[t] = None
      /\ <<s, "connect">> \in pending
      /\ pending' = pending \ {<<s, "connect">>}
      /\ owner' = owner \ {<<s, "connect">>}
      /\ UNCHANGED <<role, fresh, accepting, acceptsPending, sendRegistered,
                     sessionLock, services, game, gameLock, todo, callbacks>>
  BY Taken
<1>2. /\ pc' = [pc EXCEPT ![t] = "connect"] /\ cur' = [cur EXCEPT ![t] = s]
      /\ UNCHANGED <<event, after, crashed, connected>>
      /\ up' = up \cup {s} \/ up' = up
  BY DEF Dispatch, ConnectDone
<1>3. /\ pc'[t] = "connect" /\ cur'[t] = s /\ pc' \in [Threads -> Points]
      /\ cur' \in [Threads -> Sessions \cup {None}]
      /\ \A u \in Threads \ {t} : pc'[u] = pc[u] /\ cur'[u] = cur[u]
  BY <1>2 DEF IInv, TypeOK, Points
<1>4. TypeOK'
  <2>1. \A u \in Threads :
          /\ cur'[u] = None <=> pc'[u] \in {"idle", "accept", "broadcast"}
          /\ pc'[u] = "idle" => event'[u] = None
          /\ pc'[u] = "accept" => event'[u] # None
    BY <1>2, <1>3, NamesAssumption DEF IInv, TypeOK
  <2>2. /\ up' \subseteq Sessions /\ pending' \subseteq Sessions \X Kinds
        /\ owner' \subseteq Sessions \X Kinds
    BY <1>1, <1>2 DEF IInv, TypeOK
  <2> QED BY <1>1, <1>2, <1>3, <2>1, <2>2 DEF IInv, TypeOK
<1>5. ThreadInv'
  BY <1>1, <1>2, <1>3 DEF IInv, ThreadInv
<1>6. StartInv' /\ LifeInv' /\ EndInv' /\ RecvInv' /\ SendInv'
  <2>1. Waiting(s)
    BY <1>1 DEF Waiting
  <2>2. ~Waiting(s)'
    BY <1>1 DEF Waiting, IInv, StartInv
  <2>3. UNCHANGED <<session, registry>>
    BY <1>1, <1>2 DEF session, registry
  <2>4. \A x \in Sessions, kind \in Kinds :
          /\ <<x, kind>> \in pending' => <<x, kind>> \in pending
          /\ kind # "connect" =>
               (<<x, kind>> \in owner => <<x, kind>> \in owner')
    BY <1>1
  <2> QED BY <1>1, <1>2, <2>1, <2>2, <2>3, <2>4, StartsSession
<1>7. pending' \subseteq owner' /\ ~crashed'
  BY <1>1, <1>2 DEF IInv
<1> QED BY <1>4, <1>5, <1>6, <1>7 DEF IInv

(* The steps of Broadcast and its end move the main thread only. *)
LEMMA MainMoves ==
  ASSUME IInv, NEW p \in {"idle", "broadcast"}, pc[Main] \in Aside,
         Goto(Main, p), gameLock' \in Threads \cup {None},
         todo' = game \/ todo' = todo,
         UNCHANGED <<services, game, callbacks, session, kernel>>
  PROVE  IInv'
<1>1. /\ Main \in Threads /\ pc' = [pc EXCEPT ![Main] = p]
      /\ UNCHANGED <<cur, event, after, crashed, role, fresh, accepting,
                     acceptsPending, pending, owner, up, connected,
                     sendRegistered, sessionLock>>
  BY DEF Threads, Goto, session, kernel
<1>2. /\ pc' \in [Threads -> Points] /\ pc'[Main] = p
      /\ \A u \in Threads \ {Main} : pc'[u] = pc[u]
  BY <1>1 DEF IInv, TypeOK, Points
<1>3. cur[Main] = None /\ event[Main] = None
  BY <1>1 DEF IInv, TypeOK, ThreadInv, Aside
<1>4. TypeOK'
  <2>1. \A u \in Threads :
          /\ cur[u] = None <=> pc'[u] \in {"idle", "accept", "broadcast"}
          /\ pc'[u] = "idle" => event[u] = None
          /\ pc'[u] = "accept" => event[u] # None
    BY <1>2, <1>3 DEF IInv, TypeOK
  <2>2. todo' \subseteq Sessions
    BY DEF IInv, TypeOK
  <2> QED BY <1>1, <1>2, <2>1, <2>2 DEF IInv, TypeOK
<1>5. ThreadInv'
  BY <1>1, <1>2 DEF IInv, ThreadInv
<1>6. \A u \in Threads : pc'[u] \in Starting <=> pc[u] \in Starting
  BY <1>2 DEF Starting, Aside
<1>7. StartInv'
  BY <1>1, <1>6 DEF IInv, StartInv, Waiting
<1>8. LifeInv'
  <2>1. \A x \in Sessions : callbacks[x] = <<>> => x \notin todo'
    BY Lives DEF IInv, LifeInv
  <2>2. \A x \in Sessions : Waiting(x)' <=> Waiting(x)
    BY <1>1 DEF Waiting
  <2> QED BY <1>1, <1>6, <2>1, <2>2 DEF IInv, LifeInv
<1>9. EndInv'
  BY <1>1, <1>2, EndStays DEF Ending
<1>10. RecvInv' /\ SendInv'
  BY <1>1, <1>2, IOStays DEF InRecv, InSend
<1> QED BY <1>1, <1>4, <1>5, <1>7, <1>8, <1>9, <1>10 DEF IInv

LEMMA BroadcastStep == IInv /\ Broadcast => IInv'
<1> SUFFICES ASSUME IInv, Broadcast PROVE IInv'
  OBVIOUS
<1>1. /\ pc[Main] \in Aside /\ gameLock' \in Threads \cup {None}
      /\ todo' = game /\ Goto(Main, "broadcast")
      /\ UNCHANGED <<services, game, callbacks, session, kernel>>
  BY DEF Broadcast, At, Aside, Threads
<1> QED BY <1>1, MainMoves

LEMMA BroadcastDoneStep == IInv /\ BroadcastDone => IInv'
<1> SUFFICES ASSUME IInv, BroadcastDone PROVE IInv'
  OBVIOUS
<1>1. /\ pc[Main] \in Aside /\ gameLock' \in Threads \cup {None}
      /\ todo' = todo /\ Goto(Main, "idle")
      /\ UNCHANGED <<services, game, callbacks, session, kernel>>
  BY DEF BroadcastDone, At, Aside
<1> QED BY <1>1, MainMoves

LEMMA NextStep == IInv /\ [Next]_vars => IInv'
<1> SUFFICES ASSUME IInv, [Next]_vars PROVE IInv'
  OBVIOUS
<1>1. CASE UNCHANGED vars
  BY <1>1 DEF vars, session, registry, kernel, control, IInv, TypeOK,
              ThreadInv, StartInv, Waiting, LifeInv, EndInv, RecvInv, InRecv,
              SendInv, InSend
<1>2. CASE \E t \in Threads : Step(t)
  BY <1>2, RegisterDisconnectStep, RegisterAcceptStep, SetConnectedStep,
     AddSessionStep, RecvCheckStep, RecvPostedStep, RecvRefusedStep,
     RecvFailedStep, SendCheckStep, SendPostedStep, SendRefusedStep,
     SendFailedStep, ReleaseSessionStep DEF Step
<1>3. CASE \E t \in Threads : LockStep(t)
  BY <1>3, OnConnectedStep, OnDisconnectedStep, PushAndExchangeStep,
     RecheckStep DEF LockStep
<1>4. CASE \E t \in Workers, e \in Events, ok \in BOOLEAN :
             ProcessAccept(t, e, ok)
  BY <1>4, ProcessAcceptStep
<1>5. CASE \E s \in Sessions, kind \in Kinds : Complete(s, kind)
  <2>1. PICK s \in Sessions, kind \in Kinds, t \in Workers, ok \in BOOLEAN :
          Dispatch(t, s, kind, ok)
    BY <1>5 DEF Complete
  <2>2. t \in Threads
    BY DEF Threads
  <2> QED
    BY <2>1, <2>2, ConnectDoneStep, RecvDoneStep, SendDoneStep,
       DisconnectDoneStep DEF Kinds
<1>6. CASE Broadcast \/ BroadcastDone \/ \E s \in Sessions : Send(s)
  BY <1>6, BroadcastStep, BroadcastDoneStep, SendStep
<1>7. CASE Stopped
  BY <1>1, <1>7 DEF Stopped
<1> QED BY <1>1, <1>2, <1>3, <1>4, <1>5, <1>6, <1>7 DEF Next

LEMMA Inductive == Spec => []IInv
BY InitIInv, NextStep, PTL DEF Spec

-----------------------------------------------------------------------------
(* What the invariant is for.                                              *)

(* The state is typed, and while the kernel has an operation on a session  *)
(* its event's owner is set: neither RELEASE_REF of an operation that      *)
(* failed at once nor the one of a completion drops the reference of       *)
(* another operation.                                                      *)
THEOREM OwnersAreHeld == Spec => []OwnersHeld
<1>1. IInv => OwnersHeld
  BY DEF IInv, OwnersHeld
<1> QED BY <1>1, Inductive, PTL

(* The assertion of ReleaseSession never fails: the session that a thread  *)
(* is to release is in _sessions, and no other thread is to release it.    *)
THEOREM NoCrash == Spec => []NeverCrashes
<1>1. IInv => NeverCrashes
  BY DEF IInv, NeverCrashes
<1> QED BY <1>1, Inductive, PTL

(* A session that GameSessionManager broadcasts to is in the service: it   *)
(* joins after AddSession and leaves before ReleaseSession.                *)
THEOREM GameSessionsKnown == Spec => []GameWithinService
<1>1. IInv => GameWithinService
  BY DEF IInv, TypeOK, LifeInv, GameWithinService
<1> QED BY <1>1, Inductive, PTL

(* Every step but two leaves the callbacks alone. *)
LEMMA Silent ==
  ASSUME IInv, [Next]_vars,
         \A t \in Threads : ~OnConnected(t) /\ ~OnDisconnected(t)
  PROVE  UNCHANGED callbacks
<1>1. CASE UNCHANGED vars
  BY <1>1 DEF vars, registry
<1>2. CASE \E t \in Threads : Step(t)
  <2>1. PICK t \in Threads : Step(t)
    BY <1>2
  <2>2. CASE HandleError(t, "recvFailed") \/ HandleError(t, "sendFailed")
    BY <2>2 DEF HandleError, registry
  <2> QED
    BY <2>1, <2>2 DEF Step, RegisterDisconnect, RegisterAccept, SetConnected,
       AddSession, RecvCheck, RecvPosted, RecvRefused, RecvFailed, SendCheck,
       SendPosted, SendRefused, SendFailed, ReleaseSession, registry
<1>3. CASE \E t \in Threads : LockStep(t)
  BY <1>3 DEF LockStep, PushAndExchange, Recheck, registry
<1>4. CASE \E t \in Workers, e \in Events, ok \in BOOLEAN :
             ProcessAccept(t, e, ok)
  BY <1>4 DEF ProcessAccept, registry
<1>5. CASE \E s \in Sessions, kind \in Kinds : Complete(s, kind)
  BY <1>5 DEF Complete, Dispatch, registry
<1>6. CASE Broadcast \/ BroadcastDone \/ \E s \in Sessions : Send(s)
  BY <1>6 DEF Broadcast, BroadcastDone, Send
<1>7. CASE Stopped
  BY <1>1, <1>7 DEF Stopped
<1> QED BY <1>1, <1>2, <1>3, <1>4, <1>5, <1>6, <1>7 DEF Next

(* Every session is told OnConnected once and, after it, OnDisconnected    *)
(* at most once, whatever the interleaving of ProcessConnect,              *)
(* ProcessDisconnect and the errors of sends and receives.                 *)
THEOREM Implements == Spec => ImplementsSessionLife
<1>1. Init => Promise!Init
  BY DEF Init, Promise!Init
<1>2. IInv /\ [Next]_vars => [Promise!Next]_callbacks
  <2> SUFFICES ASSUME IInv, [Next]_vars PROVE [Promise!Next]_callbacks
    OBVIOUS
  <2>1. ASSUME NEW t \in Threads, OnConnected(t)
        PROVE  Promise!Next
    <3>1. PICK s \in Sessions : s = cur[t]
      BY <2>1, OnConnectedEffect
    <3>2. Promise!OnConnected(s)
      BY <2>1, <3>1, OnConnectedEffect DEF Promise!OnConnected, Joined
    <3> QED BY <3>2 DEF Promise!Next
  <2>2. ASSUME NEW t \in Threads, OnDisconnected(t)
        PROVE  Promise!Next
    <3>1. PICK s \in Sessions : s = cur[t]
      BY <2>2, OnDisconnectedEffect
    <3>2. /\ callbacks[s] = Joined
          /\ callbacks' = [callbacks EXCEPT ![s] = Left]
      BY <2>2, <3>1, OnDisconnectedEffect
    <3>3. Left = Append(callbacks[s], "OnDisconnected")
      BY <3>2, Lives
    <3>4. Promise!OnDisconnected(s)
      BY <3>2, <3>3 DEF Promise!OnDisconnected, Joined
    <3> QED BY <3>4 DEF Promise!Next
  <2> QED BY <2>1, <2>2, Silent
<1> QED
  BY <1>1, <1>2, Inductive, PTL DEF Spec, ImplementsSessionLife, Promise!Spec

-----------------------------------------------------------------------------
(* A server, whose sockets have a peer before ProcessConnect.  A client's  *)
(* may have none: ProcessConnect does not look at the result of ConnectEx. *)
PeerInv ==
  /\ role = "server"
  /\ \A s \in Sessions : <<s, "connect">> \notin pending
  /\ \A t \in Threads : pc[t] \in Starting => cur[t] \in up
  /\ \A s \in Sessions : callbacks[s] # <<>> => s \in up

Listening == {"connect", "addSession", "onConnected", "recvCheck", "recvPost"}

(* Thread t hears of x: it is on its way to post a receive. *)
Hears(t, x) == pc[t] \in Listening /\ cur[t] = x

(* A step of thread t that starts sessions with a peer only, and does not  *)
(* turn from a connected one unless an error is only logged.               *)
Attends(t) ==
  /\ \A u \in Threads \ {t} : pc'[u] = pc[u] /\ cur'[u] = cur[u]
  /\ role' = role /\ up \subseteq up'
  /\ \A x \in Sessions :
       /\ <<x, "connect">> \in pending' => <<x, "connect">> \in pending
       /\ callbacks'[x] # <<>> => callbacks[x] # <<>> \/ x \in up'
  /\ pc'[t] \in Starting =>
       (pc[t] \in Starting /\ cur'[t] = cur[t]) \/ cur'[t] \in up'
  /\ \A x \in connected' :
       /\ x \in connected \/ Hears(t, x)'
       /\ <<x, "recv">> \in pending \ pending' => Hears(t, x)'
       /\ Hears(t, x) /\ "other" \notin Errors =>
            <<x, "recv">> \in pending' \/ Hears(t, x)'

LEMMA AttendsKeeps ==
  ASSUME IInv, PeerInv, NEW t \in Threads, Attends(t)
  PROVE  /\ PeerInv'
         /\ "other" \notin Errors /\ ConnectedListens => ConnectedListens'
<1>1. PeerInv'
  BY DEF Attends, PeerInv, Starting
<1>2. ASSUME "other" \notin Errors, ConnectedListens
      PROVE  ConnectedListens'
  <2> SUFFICES ASSUME NEW x \in connected'
               PROVE  \/ <<x, "recv">> \in pending'
                      \/ \E u \in Threads :
                           cur'[u] = x /\ pc'[u] \in Listening
    BY DEF ConnectedListens, Listening
  <2>1. CASE Hears(t, x)'
    BY <2>1 DEF Hears
  <2>2. CASE ~Hears(t, x)'
    <3>1. /\ x \in connected /\ ~Hears(t, x)
          /\ <<x, "recv">> \in pending => <<x, "recv">> \in pending'
          \/ <<x, "recv">> \in pending'
      BY <1>2, <2>2 DEF Attends
    <3>2. CASE <<x, "recv">> \in pending
      BY <3>1, <3>2
    <3>3. CASE \E u \in Threads : cur[u] = x /\ pc[u] \in Listening
      BY <3>1, <3>3 DEF Attends, Hears
    <3>4. \/ <<x, "recv">> \in pending'
          \/ <<x, "recv">> \in pending
          \/ \E u \in Threads : cur[u] = x /\ pc[u] \in Listening
      BY <1>2, <3>1 DEF ConnectedListens, Listening
    <3> QED BY <3>2, <3>3, <3>4
  <2> QED BY <2>1, <2>2
<1> QED BY <1>1, <1>2

(* The steps with a session that starts. *)
LEMMA StartAttends ==
  ASSUME IInv, PeerInv, NEW t \in Threads,
         SetConnected(t) \/ AddSession(t) \/ OnConnected(t)
  PROVE  Attends(t)
<1>1. PICK p \in {"addSession", "onConnected", "recvCheck"} :
        pc' = [pc EXCEPT ![t] = p] /\ cur' = cur
  BY DEF SetConnected, AddSession, OnConnected, Goto
<1>2. /\ pc'[t] = p /\ \A u \in Threads \ {t} : pc'[u] = pc[u]
      /\ pc[t] \in Starting /\ cur[t] \in up
  BY <1>1 DEF SetConnected, AddSession, OnConnected, At, Starting, IInv,
              TypeOK, PeerInv
<1>3. /\ UNCHANGED <<role, up, pending>>
      /\ connected' \subseteq connected \cup {cur[t]}
  BY DEF SetConnected, AddSession, OnConnected, session, kernel
<1>4. \A x \in Sessions :
        callbacks'[x] # <<>> => callbacks[x] # <<>> \/ x \in up
  <2>1. CASE OnConnected(t)
    BY <1>2, <2>1, OnConnectedEffect DEF IInv, TypeOK
  <2> QED BY <2>1 DEF SetConnected, AddSession, registry
<1>5. \A x \in connected' : /\ x \in connected \/ Hears(t, x)'
                            /\ Hears(t, x) => Hears(t, x)'
  BY <1>1, <1>2, <1>3 DEF Hears, Listening
<1> QED BY <1>1, <1>2, <1>3, <1>4, <1>5 DEF Attends

(* The steps that are none of a session's start or of its receives. *)
LEMMA OtherAttends ==
  ASSUME IInv, PeerInv, NEW t \in Threads,
         pc[t] \notin Listening, pc'[t] \notin Listening,
         \A u \in Threads \ {t} : pc'[u] = pc[u] /\ cur'[u] = cur[u],
         role' = role, up' = up, connected' \subseteq connected,
         \A x \in Sessions : callbacks'[x] # <<>> => callbacks[x] # <<>>,
         \A x \in Sessions :
           /\ <<x, "connect">> \in pending' => <<x, "connect">> \in pending
           /\ <<x, "recv">> \in pending => <<x, "recv">> \in pending'
  PROVE  Attends(t)
<1>1. connected' \subseteq Sessions
  BY DEF IInv, TypeOK
<1> QED BY <1>1 DEF Attends, Hears, Starting, Listening

LEMMA RecvAttends ==
  ASSUME IInv, PeerInv, NEW t \in Threads,
         RecvCheck(t) \/ RecvPosted(t) \/ RecvRefused(t)
  PROVE  Attends(t)
<1>1. /\ pc[t] \in {"recvCheck", "recvPost"}
      /\ cur[t] \in Sessions /\ cur[t] \in up
  <2>1. pc[t] \in {"recvCheck", "recvPost"}
    BY DEF RecvCheck, RecvPosted, RecvRefused, At
  <2>2. pc[t] \notin Aside \cup Starting
    BY <2>1 DEF Aside, Starting
  <2> QED BY <2>1, <2>2, KnownSession DEF PeerInv
<1>2. /\ UNCHANGED <<role, up, callbacks>> /\ pending \subseteq pending'
      /\ \A x \in Sessions :
           <<x, "connect">> \in pending' => <<x, "connect">> \in pending
      /\ connected' \subseteq connected
  BY DEF RecvCheck, RecvPosted, RecvRefused, HandleError, Disconnect, session,
         registry, kernel
<1>3. PICK p \in Aside \cup {"recvPost", "recvFailed", "disconnect"},
           c \in Sessions \cup {None} :
        pc' = [pc EXCEPT ![t] = p] /\ cur' = [cur EXCEPT ![t] = c]
  <2>1. CASE Leave(t)
    BY <2>1, RestFacts DEF Leave
  <2>2. CASE RecvCheck(t) /\ Goto(t, "recvPost")
    BY <1>1, <2>2, Stays DEF Goto
  <2>3. CASE RecvRefused(t)
    <3>1. \/ Disconnect(t, cur[t], "recvFailed")
          \/ Goto(t, "recvFailed")
      BY <2>3 DEF RecvRefused, HandleError
    <3> QED BY <1>1, <3>1, Stays DEF Goto, Disconnect
  <2> QED BY <2>1, <2>2, <2>3 DEF RecvCheck, RecvPosted
<1>4. /\ pc'[t] = p /\ cur'[t] = c /\ p \notin Starting
      /\ \A u \in Threads \ {t} : pc'[u] = pc[u] /\ cur'[u] = cur[u]
  BY <1>3 DEF IInv, TypeOK, Aside, Starting
<1>5. "other" \notin Errors =>
        \A x \in connected' :
          Hears(t, x) => <<x, "recv">> \in pending' \/ Hears(t, x)'
  <2> SUFFICES ASSUME NEW x \in connected', x = cur[t],
                      "other" \notin Errors
               PROVE  <<x, "recv">> \in pending' \/ Hears(t, x)'
    BY DEF Hears
  <2>1. CASE RecvCheck(t)
    <3>1. cur[t] \in connected
      BY <1>2
    <3>2. pc' = [pc EXCEPT ![t] = "recvPost"] /\ cur' = cur
      BY <2>1, <3>1 DEF RecvCheck, Goto
    <3>3. pc'[t] = "recvPost"
      BY <3>2 DEF IInv, TypeOK
    <3> QED BY <3>2, <3>3 DEF Hears, Listening
  <2>2. CASE RecvPosted(t)
    BY <2>2 DEF RecvPosted
  <2>3. CASE RecvRefused(t)
    <3>1. Failures(cur[t]) \subseteq {"reset"}
      BY <1>1, ErrorsAssumption DEF Failures
    <3>2. Disconnect(t, cur[t], "recvFailed")
      BY <2>3, <3>1 DEF RecvRefused, HandleError, Disconnects
    <3> QED BY <3>2 DEF Disconnect
  <2> QED BY <2>1, <2>2, <2>3
<1>6. \A x \in connected' :
        x \in connected /\ <<x, "recv">> \notin pending \ pending'
  BY <1>2
<1> QED BY <1>2, <1>4, <1>5, <1>6 DEF Attends

LEMMA DoneAttends ==
  ASSUME IInv, PeerInv, NEW t \in Threads, NEW s \in Sessions,
         NEW kind \in Kinds, NEW ok \in BOOLEAN, Dispatch(t, s, kind, ok)
  PROVE  Attends(t)
<1>1. /\ pc[t] = "idle" /\ pending' = pending \ {<<s, kind>>}
      /\ UNCHANGED <<role, callbacks>> /\ kind # "connect"
  BY Taken DEF PeerInv
<1>2. CASE kind = "recv" /\ ok
  <2>1. /\ pc' = [pc EXCEPT ![t] = "recvCheck"]
        /\ cur' = [cur EXCEPT ![t] = s]
        /\ UNCHANGED <<connected, up>>
    BY <1>2 DEF Dispatch, RecvDone
  <2>2. /\ pc'[t] = "recvCheck" /\ cur'[t] = s
        /\ \A u \in Threads \ {t} : pc'[u] = pc[u] /\ cur'[u] = cur[u]
    BY <2>1 DEF IInv, TypeOK
  <2>3. \A x \in connected' :
          /\ x \in connected /\ ~Hears(t, x)
          /\ <<x, "recv">> \in pending \ pending' => Hears(t, x)'
    BY <1>1, <1>2, <2>1, <2>2 DEF Hears, Listening
  <2> QED BY <1>1, <2>1, <2>2, <2>3 DEF Attends, Starting
<1>3. CASE kind \in {"recv", "send"} /\ ~ok
  <2>1. Disconnect(t, s, "idle") /\ up' = up
    BY <1>3 DEF Dispatch, RecvDone, SendDone
  <2>2. PICK p \in {"disconnect", "idle"}, c \in Sessions \cup {None} :
          pc' = [pc EXCEPT ![t] = p] /\ cur' = [cur EXCEPT ![t] = c]
    BY <2>1 DEF Disconnect
  <2>3. /\ pc'[t] = p /\ cur'[t] = c /\ p \notin Starting
        /\ \A u \in Threads \ {t} : pc'[u] = pc[u] /\ cur'[u] = cur[u]
    BY <2>2 DEF IInv, TypeOK, Starting
  <2>4. \A x \in connected' :
          /\ x \in connected /\ ~Hears(t, x)
          /\ <<x, "recv">> \notin pending \ pending'
    BY <1>1, <2>1 DEF Disconnect, Hears, Listening
  <2> QED BY <1>1, <2>1, <2>3, <2>4 DEF Attends
<1>4. CASE (kind = "send" /\ ok) \/ kind = "disconnect"
  <2>1. PICK p \in {"sent", "onDisconnected"} :
          /\ pc' = [pc EXCEPT ![t] = p] /\ cur' = [cur EXCEPT ![t] = s]
          /\ UNCHANGED <<connected, up>>
    BY <1>4 DEF Dispatch, SendDone, DisconnectDone
  <2>2. /\ pc'[t] = p /\ pc[t] \notin Listening /\ p \notin Listening
        /\ \A u \in Threads \ {t} : pc'[u] = pc[u] /\ cur'[u] = cur[u]
    BY <1>1, <2>1 DEF IInv, TypeOK, Listening
  <2> QED BY <1>1, <1>4, <2>1, <2>2, OtherAttends
<1> QED BY <1>1, <1>2, <1>3, <1>4 DEF Kinds

LEMMA AcceptAttends ==
  ASSUME IInv, PeerInv, NEW t \in Workers, NEW e \in Events,
         NEW ok \in BOOLEAN, ProcessAccept(t, e, ok)
  PROVE  t \in Threads /\ Attends(t)
<1>1. t \in Threads /\ pc[t] = "idle"
  BY DEF Threads, ProcessAccept, At
<1>2. UNCHANGED <<role, pending, connected, callbacks>>
  BY DEF ProcessAccept, session, registry
<1>3. \/ /\ ok /\ pc' = [pc EXCEPT ![t] = "connect"]
         /\ cur' = [cur EXCEPT ![t] = accepting[e]]
         /\ up' = up \cup {accepting[e]}
      \/ /\ ~ok /\ pc' = [pc EXCEPT ![t] = "accept"]
         /\ cur' = cur /\ up' = up
  BY DEF ProcessAccept
<1>4. /\ \/ pc'[t] = "connect" /\ cur'[t] \in up'
         \/ pc'[t] = "accept"
      /\ up \subseteq up'
      /\ \A u \in Threads \ {t} : pc'[u] = pc[u] /\ cur'[u] = cur[u]
  BY <1>1, <1>3 DEF IInv, TypeOK
<1>5. \A x : ~Hears(t, x)
  BY <1>1 DEF Hears, Listening
<1> QED BY <1>1, <1>2, <1>4, <1>5 DEF Attends, Starting

(* What a thread does on its own with no session that starts or receives.  *)
LEMMA QuietAttends ==
  ASSUME IInv, PeerInv, NEW t \in Threads,
         NEW p \in Points \ Listening, NEW c \in Sessions \cup {None},
         pc[t] \notin Listening,
         pc' = [pc EXCEPT ![t] = p], cur' = [cur EXCEPT ![t] = c],
         role' = role, up' = up, connected' \subseteq connected,
         \A x \in Sessions : callbacks'[x] # <<>> => callbacks[x] # <<>>,
         \A x \in Sessions, kind \in Kinds :
           /\ <<x, kind>> \in pending => <<x, kind>> \in pending'
           /\ <<x, kind>> \in pending' =>
                <<x, kind>> \in pending \/ kind \in {"send", "disconnect"}
  PROVE  Attends(t)
<1>1. /\ pc'[t] = p
      /\ \A u \in Threads \ {t} : pc'[u] = pc[u] /\ cur'[u] = cur[u]
  BY DEF IInv, TypeOK
<1>2. \A x \in Sessions :
        /\ <<x, "connect">> \in pending' => <<x, "connect">> \in pending
        /\ <<x, "recv">> \in pending => <<x, "recv">> \in pending'
  BY DEF Kinds
<1> QED BY <1>1, <1>2, OtherAttends

LEMMA StepAttends ==
  ASSUME IInv, PeerInv, NEW t \in Threads,
         Step(t) \/ LockStep(t)
  PROVE  Attends(t)
<1>. USE DEF Points, Listening
<1>1. CASE RegisterDisconnect(t)
  <2>1. /\ pc[t] = "disconnect" /\ pc' = [pc EXCEPT ![t] = after[t]]
        /\ cur' =
             [cur EXCEPT ![t] = IF after[t] = "idle" THEN None ELSE cur[t]]
        /\ UNCHANGED <<role, up, session, registry>>
        /\ \/ pending' = pending \cup {<<cur[t], "disconnect">>}
           \/ pending' = pending
    BY <1>1 DEF RegisterDisconnect, At
  <2>2. UNCHANGED <<connected, callbacks>>
    BY <2>1 DEF session, registry
  <2>3. after[t] \in Points \ Listening
    BY <2>1 DEF IInv, ThreadInv
  <2>4. PICK c \in Sessions \cup {None} : cur' = [cur EXCEPT ![t] = c]
    BY <2>1 DEF IInv, TypeOK
  <2>5. \A x \in Sessions, kind \in Kinds :
          /\ <<x, kind>> \in pending => <<x, kind>> \in pending'
          /\ <<x, kind>> \in pending' =>
               <<x, kind>> \in pending \/ kind \in {"send", "disconnect"}
    BY <2>1
  <2> HIDE DEF Points, Listening
  <2>6. pc[t] \notin Listening
    BY <2>1 DEF Listening
  <2> QED BY <2>1, <2>2, <2>3, <2>4, <2>5, <2>6, QuietAttends
<1>2. CASE RegisterAccept(t)
  <2>1. /\ pc[t] = "accept" /\ cur' = [cur EXCEPT ![t] = cur[t]]
        /\ cur[t] \in Sessions \cup {None}
        /\ UNCHANGED <<role, pending, up, connected, callbacks>>
    BY <1>2, Stays DEF RegisterAccept, At, session, registry, IInv, TypeOK
  <2>2. PICK p \in {"idle", "accept"} : pc' = [pc EXCEPT ![t] = p]
    BY <1>2, <2>1, Stays DEF RegisterAccept
  <2> QED BY <2>1, <2>2, QuietAttends
<1>3. CASE SetConnected(t) \/ AddSession(t) \/ OnConnected(t)
  BY <1>3, StartAttends
<1>4. CASE RecvCheck(t) \/ RecvPosted(t) \/ RecvRefused(t)
  BY <1>4, RecvAttends
<1>5. CASE \/ RecvFailed(t) \/ SendFailed(t) \/ SendCheck(t)
           \/ PushAndExchange(t)
           \/ \E empty \in BOOLEAN : Recheck(t, empty)
  <2>1. /\ pc[t] \in {"recvFailed", "sendFailed", "sendCheck", "send", "sent"}
        /\ UNCHANGED <<role, pending, up, connected, callbacks>>
    BY <1>5 DEF RecvFailed, SendFailed, SendCheck, PushAndExchange, Recheck,
                At, session, registry, kernel
  <2>2. PICK p \in Aside \cup {"sendPost", "sendCheck"},
             c \in Sessions \cup {None} :
          pc' = [pc EXCEPT ![t] = p] /\ cur' = [cur EXCEPT ![t] = c]
    <3>1. \/ Leave(t) \/ Goto(t, "sendPost") \/ Goto(t, "sendCheck")
      BY <1>5 DEF RecvFailed, SendFailed, SendCheck, PushAndExchange, Recheck
    <3>2. cur[t] \in Sessions \cup {None}
      BY DEF IInv, TypeOK
    <3> QED BY <3>1, <3>2, Stays, RestFacts DEF Leave, Goto
  <2>3. p \in Points \ Listening
    BY <2>2 DEF Aside
  <2> QED BY <2>1, <2>2, <2>3, QuietAttends
<1>6. CASE SendPosted(t)
  <2>1. /\ pc[t] = "sendPost" /\ UNCHANGED <<role, up, connected, callbacks>>
        /\ pending' = pending \cup {<<cur[t], "send">>}
        /\ pc' = [pc EXCEPT ![t] = Rest(t)]
        /\ cur' = [cur EXCEPT ![t] = None]
    BY <1>6 DEF SendPosted, At, Leave, registry
  <2>2. Rest(t) \in Points \ Listening
    BY RestFacts DEF Aside
  <2> QED BY <2>1, <2>2, QuietAttends
<1>7. CASE SendRefused(t)
  <2>1. /\ pc[t] = "sendPost"
        /\ \/ Disconnect(t, cur[t], "sendFailed")
           \/ Goto(t, "sendFailed") /\ UNCHANGED connected
        /\ UNCHANGED <<role, up, pending, callbacks>>
    BY <1>7 DEF SendRefused, HandleError, At, registry, kernel
  <2>2. cur[t] \in Sessions /\ connected' \subseteq connected
    BY <2>1 DEF Disconnect, IInv, TypeOK
  <2>3. PICK p \in {"disconnect", "sendFailed"},
             c \in Sessions \cup {None} :
          pc' = [pc EXCEPT ![t] = p] /\ cur' = [cur EXCEPT ![t] = c]
    BY <2>1, <2>2, Stays DEF Disconnect, Goto
  <2> QED BY <2>1, <2>2, <2>3, QuietAttends
<1>8. CASE OnDisconnected(t)
  <2>1. /\ pc[t] = "onDisconnected" /\ pc' = [pc EXCEPT ![t] = "release"]
        /\ cur' = [cur EXCEPT ![t] = cur[t]]
        /\ cur[t] \in Sessions \cup {None}
        /\ UNCHANGED <<role, up, pending, connected>>
    BY <1>8, Stays DEF OnDisconnected, At, Goto, session, kernel, IInv, TypeOK
  <2>2. \A x \in Sessions : callbacks'[x] # <<>> => callbacks[x] # <<>>
    BY <1>8, OnDisconnectedEffect, Lives DEF IInv, TypeOK
  <2> QED BY <2>1, <2>2, QuietAttends
<1>9. CASE ReleaseSession(t)
  <2>1. /\ pc[t] = "release" /\ pc' = [pc EXCEPT ![t] = Rest(t)]
        /\ cur' = [cur EXCEPT ![t] = None]
        /\ UNCHANGED <<role, up, pending, connected, callbacks>>
    BY <1>9, ReleaseFindsSession DEF ReleaseSession, At, Leave, session, kernel
  <2>2. Rest(t) \in Points \ Listening
    BY RestFacts DEF Aside
  <2> QED BY <2>1, <2>2, QuietAttends
<1> QED BY <1>1, <1>2, <1>3, <1>4, <1>5, <1>6, <1>7, <1>8, <1>9
        DEF Step, LockStep

LEMMA MainAttends ==
  ASSUME IInv, PeerInv,
         Broadcast \/ BroadcastDone \/ \E s \in Sessions : Send(s)
  PROVE  Main \in Threads /\ Attends(Main)
<1>1. /\ Main \in Threads /\ pc[Main] \in {"idle", "broadcast"}
      /\ UNCHANGED <<role, up, pending, connected, callbacks>>
  BY DEF Threads, Broadcast, BroadcastDone, Send, At, session, kernel
<1>2. PICK p \in {"idle", "broadcast", "send"}, c \in Sessions \cup {None} :
        pc' = [pc EXCEPT ![Main] = p] /\ cur' = [cur EXCEPT ![Main] = c]
  <2>1. cur[Main] \in Sessions \cup {None}
    BY <1>1 DEF IInv, TypeOK
  <2>2. CASE Broadcast \/ BroadcastDone
    BY <1>1, <2>1, <2>2, Stays DEF Broadcast, BroadcastDone, Goto
  <2>3. CASE \E s \in Sessions : Send(s)
    <3>1. PICK s \in Sessions : Send(s)
      BY <2>3
    <3> QED BY <1>1, <2>1, <3>1, Stays DEF Send
  <2> QED BY <2>2, <2>3
<1>3. p \in Points \ Listening /\ pc[Main] \notin Listening
  BY <1>1, <1>2 DEF Points, Listening
<1> QED BY <1>1, <1>2, <1>3, QuietAttends

LEMMA NextAttends ==
  ASSUME IInv, PeerInv, [Next]_vars
  PROVE  UNCHANGED vars \/ \E t \in Threads : Attends(t)
<1>1. CASE \E t \in Threads : Step(t) \/ LockStep(t)
  BY <1>1, StepAttends
<1>2. CASE \E t \in Workers, e \in Events, ok \in BOOLEAN :
             ProcessAccept(t, e, ok)
  BY <1>2, AcceptAttends
<1>3. CASE \E s \in Sessions, kind \in Kinds : Complete(s, kind)
  BY <1>3, DoneAttends DEF Complete, Threads
<1>4. CASE Broadcast \/ BroadcastDone \/ \E s \in Sessions : Send(s)
  BY <1>4, MainAttends
<1>5. CASE UNCHANGED vars \/ Stopped
  BY <1>5 DEF Stopped
<1> QED BY <1>1, <1>2, <1>3, <1>4, <1>5 DEF Next

LEMMA PeerInductive ==
  ASSUME Roles \subseteq {"server"}
  PROVE  Spec => []PeerInv
<1>1. Init => PeerInv
  <2> SUFFICES ASSUME Init PROVE PeerInv
    OBVIOUS
  <2>1. role = "server" /\ pending = {}
    BY DEF Init, StartAccept
  <2> QED BY <2>1 DEF Init, PeerInv, Starting
<1>2. IInv /\ PeerInv /\ [Next]_vars => PeerInv'
  BY NextAttends, AttendsKeeps
     DEF vars, session, registry, kernel, control, PeerInv
<1> QED BY <1>1, <1>2, Inductive, PTL DEF Spec

(* In a server OnConnected comes after the connection is made: the listener *)
(* starts a session only when the socket has a peer. *)
THEOREM ServerConnectsUp ==
  ASSUME Roles \subseteq {"server"}
  PROVE  Spec => []OnConnectedWhenUp
<1>1. PeerInv => OnConnectedWhenUp
  BY DEF PeerInv, OnConnectedWhenUp
<1> QED BY <1>1, PeerInductive, PTL

(* In a server whose requests fail at once only with WSAECONNRESET, a      *)
(* connected session always hears of its peer: a receive is with the       *)
(* kernel, or a thread goes to post one.  Any other error ends the         *)
(* receiving and leaves the session connected: HandleError only logs it.   *)
THEOREM ServerListens ==
  ASSUME Roles \subseteq {"server"}, "other" \notin Errors
  PROVE  Spec => []ConnectedListens
<1>1. Init => ConnectedListens
  BY DEF Init, ConnectedListens
<1>2. IInv /\ PeerInv /\ ConnectedListens /\ [Next]_vars => ConnectedListens'
  <2> SUFFICES ASSUME IInv, PeerInv, ConnectedListens, [Next]_vars
               PROVE  ConnectedListens'
    OBVIOUS
  <2>1. CASE UNCHANGED vars
    BY <2>1 DEF vars, session, kernel, control, ConnectedListens
  <2>2. CASE \E t \in Threads : Attends(t)
    BY <2>2, AttendsKeeps
  <2> QED BY <2>1, <2>2, NextAttends
<1> QED BY <1>1, <1>2, Inductive, PeerInductive, PTL DEF Spec
-----------------------------------------------------------------------------
(* Thread t is to clear the owner of the event of x: it has set it and not *)
(* posted the request yet, or the request has failed at once.              *)
OwesRecv(t) ==
  \/ pc[t] \in {"recvPost", "recvFailed"}
  \/ pc[t] = "disconnect" /\ after[t] = "recvFailed"
OwesSend(t) ==
  \/ pc[t] \in {"sendPost", "sendFailed"}
  \/ pc[t] = "disconnect" /\ after[t] = "sendFailed"
Owes(t, x, kind) ==
  /\ cur[t] = x
  /\ (kind = "recv" /\ OwesRecv(t)) \/ (kind = "send" /\ OwesSend(t))

(* An owner that is set will be cleared, by the completion of a request or *)
(* by the thread whose request failed at once.                             *)
OwnersOwed ==
  \A x \in Sessions, kind \in Kinds :
    <<x, kind>> \in owner =>
      <<x, kind>> \in pending \/ \E t \in Threads : Owes(t, x, kind)

(* A step of thread t after which nobody is missed who was to clear one.   *)
Settles(t) ==
  /\ \A u \in Threads \ {t} :
       pc'[u] = pc[u] /\ cur'[u] = cur[u] /\ after'[u] = after[u]
  /\ \A x \in Sessions, kind \in Kinds :
       <<x, kind>> \in owner' =>
         \/ <<x, kind>> \in pending' \/ Owes(t, x, kind)'
         \/ /\ <<x, kind>> \in owner \ pending
            /\ ~Owes(t, x, kind)

LEMMA SettlesKeeps ==
  ASSUME OwnersOwed, NEW t \in Threads, Settles(t)
  PROVE  OwnersOwed'
<1> SUFFICES ASSUME NEW x \in Sessions, NEW kind \in Kinds,
                    <<x, kind>> \in owner', <<x, kind>> \notin pending',
                    ~Owes(t, x, kind)'
             PROVE  \E u \in Threads : Owes(u, x, kind)'
  BY DEF OwnersOwed
<1>1. <<x, kind>> \in owner \ pending /\ ~Owes(t, x, kind)
  BY DEF Settles
<1>2. PICK u \in Threads : Owes(u, x, kind)
  BY <1>1 DEF OwnersOwed
<1>3. u # t /\ pc'[u] = pc[u] /\ cur'[u] = cur[u] /\ after'[u] = after[u]
  BY <1>1, <1>2 DEF Settles
<1> QED BY <1>2, <1>3 DEF Owes, OwesRecv, OwesSend

(* The steps of a thread that owes nothing before, and sets no owner.      *)
LEMMA FreeSettles ==
  ASSUME IInv, NEW t \in Threads, ~OwesRecv(t), ~OwesSend(t), NEW p, NEW c,
         NEW a, pc' = [pc EXCEPT ![t] = p], cur' = [cur EXCEPT ![t] = c],
         after' = [after EXCEPT ![t] = a],
         \A x \in Sessions, kind \in Kinds :
           <<x, kind>> \in owner' =>
             <<x, kind>> \in pending' \/ <<x, kind>> \in owner \ pending
  PROVE  Settles(t)
BY DEF Settles, Owes, IInv, TypeOK

(* The steps of a thread that changes neither owners nor requests.         *)
LEMMA QuietSettles ==
  ASSUME IInv, NEW t \in Threads, ~OwesRecv(t), ~OwesSend(t), NEW p, NEW c,
         pc' = [pc EXCEPT ![t] = p], cur' = [cur EXCEPT ![t] = c],
         after' = after, owner' = owner, pending' = pending
  PROVE  Settles(t)
<1>1. after' = [after EXCEPT ![t] = after[t]]
  BY Stays
<1> QED BY <1>1, FreeSettles

(* A thread that goes on owing what it owed, or has just set the owner.    *)
LEMMA OwingSettles ==
  ASSUME IInv, NEW t \in Threads, cur'[t] = cur[t],
         \A u \in Threads \ {t} :
           pc'[u] = pc[u] /\ cur'[u] = cur[u] /\ after'[u] = after[u],
         NEW op \in {"recv", "send"},
         op = "recv" => OwesRecv(t)' /\ ~OwesSend(t),
         op = "send" => OwesSend(t)' /\ ~OwesRecv(t),
         owner' \subseteq owner \cup pending' \cup {<<cur[t], op>>},
         pending \subseteq pending'
  PROVE  Settles(t)
<1> SUFFICES ASSUME NEW x \in Sessions, NEW kind \in Kinds,
                    <<x, kind>> \in owner', <<x, kind>> \notin pending',
                    ~Owes(t, x, kind)'
             PROVE  <<x, kind>> \in owner \ pending /\ ~Owes(t, x, kind)
  BY DEF Settles
<1>1. ~(x = cur[t] /\ kind = op)
  BY DEF Owes
<1>2. <<x, kind>> \in owner \ pending
  BY <1>1
<1>3. ~Owes(t, x, kind)
  BY <1>1 DEF Owes
<1> QED BY <1>2, <1>3

(* A thread that owed the clearing of one owner has posted the request or  *)
(* cleared it.                                                             *)
LEMMA PaidSettles ==
  ASSUME IInv, NEW t \in Threads, Leave(t),
         NEW op \in {"recv", "send"},
         op = "recv" => ~OwesSend(t), op = "send" => ~OwesRecv(t),
         owner' \subseteq owner, pending \subseteq pending',
         <<cur[t], op>> \in pending' \/ <<cur[t], op>> \notin owner'
  PROVE  Settles(t)
<1>1. \A u \in Threads \ {t} :
        pc'[u] = pc[u] /\ cur'[u] = cur[u] /\ after'[u] = after[u]
  BY DEF Leave, IInv, TypeOK
<1> SUFFICES ASSUME NEW x \in Sessions, NEW kind \in Kinds,
                    <<x, kind>> \in owner', <<x, kind>> \notin pending'
             PROVE  <<x, kind>> \in owner \ pending /\ ~Owes(t, x, kind)
  BY <1>1 DEF Settles
<1>2. ~(x = cur[t] /\ kind = op)
  OBVIOUS
<1> QED BY <1>2 DEF Owes

LEMMA RefusedSettles ==
  ASSUME IInv, NEW t \in Threads, RecvRefused(t) \/ SendRefused(t)
  PROVE  Settles(t)
<1>1. PICK op \in {"recv", "send"}, point \in {"recvFailed", "sendFailed"} :
        /\ HandleError(t, point)
        /\ \/ op = "recv" /\ pc[t] = "recvPost" /\ point = "recvFailed"
           \/ op = "send" /\ pc[t] = "sendPost" /\ point = "sendFailed"
  BY DEF RecvRefused, SendRefused, At
<1>2. /\ pending' = pending /\ owner' = owner
      /\ \/ Onward(t, "disconnect", cur[t], point)
         \/ Onward(t, point, cur[t], after[t])
  BY <1>1, HandleErrorEffect
<1>3. PICK p \in {"disconnect", point}, a \in Points :
        /\ pc' = [pc EXCEPT ![t] = p] /\ cur' = [cur EXCEPT ![t] = cur[t]]
        /\ after' = [after EXCEPT ![t] = a]
        /\ p = "disconnect" => a = point
  BY <1>1, <1>2 DEF Onward
<1>4. /\ pc'[t] = p /\ cur'[t] = cur[t] /\ after'[t] = a
      /\ \A u \in Threads \ {t} :
           pc'[u] = pc[u] /\ cur'[u] = cur[u] /\ after'[u] = after[u]
  BY <1>3 DEF IInv, TypeOK
<1>5. /\ op = "recv" => OwesRecv(t)' /\ ~OwesSend(t)
      /\ op = "send" => OwesSend(t)' /\ ~OwesRecv(t)
  BY <1>1, <1>3, <1>4 DEF OwesRecv, OwesSend
<1> QED BY <1>2, <1>4, <1>5, OwingSettles

LEMMA RegisterDisconnectSettles ==
  ASSUME IInv, NEW t \in Threads, RegisterDisconnect(t)
  PROVE  Settles(t)
<1>1. /\ pc[t] = "disconnect" /\ pc' = [pc EXCEPT ![t] = after[t]]
      /\ cur' = [cur EXCEPT ![t] = IF after[t] = "idle" THEN None ELSE cur[t]]
      /\ after' = [after EXCEPT ![t] = "idle"]
      /\ pending \subseteq pending' /\ owner' \subseteq owner \cup pending'
  BY DEF RegisterDisconnect, At
<1>2. after[t] \in {"recvFailed", "sendFailed", "idle"}
  BY <1>1 DEF IInv, ThreadInv
<1>3. CASE after[t] = "idle"
  <2>1. ~OwesRecv(t) /\ ~OwesSend(t)
    BY <1>1, <1>3 DEF OwesRecv, OwesSend
  <2>2. PICK c : cur' = [cur EXCEPT ![t] = c]
    BY <1>1
  <2>3. \A x \in Sessions, kind \in Kinds :
          <<x, kind>> \in owner' =>
            <<x, kind>> \in pending' \/ <<x, kind>> \in owner \ pending
    BY <1>1
  <2> QED BY <1>1, <2>1, <2>2, <2>3, FreeSettles
<1>4. CASE after[t] # "idle"
  <2>1. /\ pc'[t] = after[t] /\ cur'[t] = cur[t]
        /\ \A u \in Threads \ {t} :
             pc'[u] = pc[u] /\ cur'[u] = cur[u] /\ after'[u] = after[u]
    BY <1>1, <1>4 DEF IInv, TypeOK
  <2>2. PICK op \in {"recv", "send"} :
          /\ op = "recv" => OwesRecv(t)' /\ ~OwesSend(t)
          /\ op = "send" => OwesSend(t)' /\ ~OwesRecv(t)
    BY <1>1, <1>2, <1>4, <2>1 DEF OwesRecv, OwesSend
  <2> QED BY <1>1, <2>1, <2>2, OwingSettles
<1> QED BY <1>3, <1>4

(* The steps of RegisterRecv and RegisterSend. *)
LEMMA CheckSettles ==
  ASSUME IInv, NEW t \in Threads, RecvCheck(t) \/ SendCheck(t)
  PROVE  Settles(t)
<1>1. /\ pc[t] \in {"recvCheck", "sendCheck"} /\ pending' = pending
      /\ ~OwesRecv(t) /\ ~OwesSend(t)
  BY DEF RecvCheck, SendCheck, At, OwesRecv, OwesSend
<1>2. CASE Leave(t) /\ owner' = owner
  BY <1>1, <1>2, QuietSettles DEF Leave
<1>3. ASSUME NEW op \in {"recv", "send"}, NEW p \in {"recvPost", "sendPost"},
             Goto(t, p), p = IF op = "recv" THEN "recvPost" ELSE "sendPost",
             owner' = owner \cup {<<cur[t], op>>}
      PROVE  Settles(t)
  <2>1. /\ pc'[t] = p /\ cur'[t] = cur[t]
        /\ \A u \in Threads \ {t} :
             pc'[u] = pc[u] /\ cur'[u] = cur[u] /\ after'[u] = after[u]
    BY <1>3 DEF Goto, IInv, TypeOK
  <2>2. /\ op = "recv" => OwesRecv(t)' /\ ~OwesSend(t)
        /\ op = "send" => OwesSend(t)' /\ ~OwesRecv(t)
    BY <1>1, <1>3, <2>1 DEF OwesRecv, OwesSend
  <2> QED BY <1>1, <1>3, <2>1, <2>2, OwingSettles
<1> QED BY <1>2, <1>3 DEF RecvCheck, SendCheck, AddRef

LEMMA PostSettles ==
  ASSUME IInv, NEW t \in Threads,
         RecvPosted(t) \/ RecvFailed(t) \/ SendPosted(t) \/ SendFailed(t)
  PROVE  Settles(t)
<1>1. Leave(t) /\ owner' \subseteq owner /\ pending \subseteq pending'
  BY DEF RecvPosted, RecvFailed, SendPosted, SendFailed, ReleaseRef
<1>2. PICK op \in {"recv", "send"} :
        /\ <<cur[t], op>> \in pending' \/ <<cur[t], op>> \notin owner'
        /\ op = "recv" => pc[t] \in {"recvPost", "recvFailed"}
        /\ op = "send" => pc[t] \in {"sendPost", "sendFailed"}
  BY DEF RecvPosted, RecvFailed, SendPosted, SendFailed, ReleaseRef, At
<1>3. (op = "recv" => ~OwesSend(t)) /\ (op = "send" => ~OwesRecv(t))
  BY <1>2 DEF OwesRecv, OwesSend
<1> QED BY <1>1, <1>2, <1>3, PaidSettles

LEMMA DispatchSettles ==
  ASSUME IInv, NEW t \in Threads, NEW s \in Sessions, NEW kind \in Kinds,
         NEW ok \in BOOLEAN, Dispatch(t, s, kind, ok)
  PROVE  Settles(t)
<1>1. /\ pc[t] = "idle" /\ pending' = pending \ {<<s, kind>>}
      /\ owner' = owner \ {<<s, kind>>}
  BY Taken
<1>2. ~OwesRecv(t) /\ ~OwesSend(t)
  BY <1>1 DEF OwesRecv, OwesSend
<1>3. \E p, c, a :
        /\ pc' = [pc EXCEPT ![t] = p] /\ cur' = [cur EXCEPT ![t] = c]
        /\ after' = [after EXCEPT ![t] = a]
  <2>1. after = [after EXCEPT ![t] = after[t]]
    BY Stays
  <2>2. CASE Disconnect(t, s, "idle")
    BY <2>1, <2>2 DEF Disconnect
  <2>3. ASSUME NEW p, pc' = [pc EXCEPT ![t] = p],
               cur' = [cur EXCEPT ![t] = s], after' = after
        PROVE  \E q, c, a :
                 /\ pc' = [pc EXCEPT ![t] = q] /\ cur' = [cur EXCEPT ![t] = c]
                 /\ after' = [after EXCEPT ![t] = a]
    BY <2>1, <2>3
  <2> QED BY <2>2, <2>3 DEF Dispatch, ConnectDone, RecvDone, SendDone,
                            DisconnectDone, Kinds
<1> QED BY <1>1, <1>2, <1>3, FreeSettles

LEMMA StepSettles ==
  ASSUME IInv, NEW t \in Threads, Step(t) \/ LockStep(t)
  PROVE  Settles(t)
<1>1. CASE RegisterDisconnect(t)
  BY <1>1, RegisterDisconnectSettles
<1>2. CASE RecvCheck(t) \/ SendCheck(t)
  BY <1>2, CheckSettles
<1>3. CASE RecvRefused(t) \/ SendRefused(t)
  BY <1>3, RefusedSettles
<1>4. CASE RecvPosted(t) \/ RecvFailed(t) \/ SendPosted(t) \/ SendFailed(t)
  BY <1>4, PostSettles
<1>5. CASE RegisterAccept(t)
  <2>1. /\ pc[t] = "accept" /\ cur' = [cur EXCEPT ![t] = cur[t]]
        /\ after' = after /\ owner' = owner /\ pending' = pending
    BY <1>5, Stays DEF RegisterAccept, At
  <2>2. PICK p : pc' = [pc EXCEPT ![t] = p]
    BY <1>5, <2>1, Stays DEF RegisterAccept
  <2> QED BY <2>1, <2>2, QuietSettles DEF OwesRecv, OwesSend
<1>6. CASE \/ SetConnected(t) \/ AddSession(t) \/ OnConnected(t)
           \/ OnDisconnected(t) \/ PushAndExchange(t) \/ ReleaseSession(t)
           \/ \E empty \in BOOLEAN : Recheck(t, empty)
  <2>1. /\ pc[t] \in {"connect", "addSession", "onConnected", "send", "sent",
                      "onDisconnected", "release"}
        /\ owner' = owner /\ pending' = pending
    BY <1>6 DEF SetConnected, AddSession, OnConnected, OnDisconnected,
       PushAndExchange, ReleaseSession, Recheck, At, kernel
  <2>2. Leave(t) \/ \E p : Goto(t, p)
    BY <1>6, ReleaseFindsSession DEF SetConnected, AddSession, OnConnected,
       OnDisconnected, PushAndExchange, ReleaseSession, Recheck
  <2>3. PICK p, c : /\ pc' = [pc EXCEPT ![t] = p] /\ after' = after
                    /\ cur' = [cur EXCEPT ![t] = c]
    BY <2>2, Stays DEF Leave, Goto
  <2> QED BY <2>1, <2>3, QuietSettles DEF OwesRecv, OwesSend
<1> QED BY <1>1, <1>2, <1>3, <1>4, <1>5, <1>6 DEF Step, LockStep

LEMMA MainSettles ==
  ASSUME IInv, Broadcast \/ BroadcastDone \/ \E s \in Sessions : Send(s)
  PROVE  Main \in Threads /\ Settles(Main)
<1>1. /\ Main \in Threads /\ pc[Main] \in {"idle", "broadcast"}
      /\ owner' = owner /\ pending' = pending /\ after' = after
  BY DEF Threads, Broadcast, BroadcastDone, Send, Goto, At, kernel
<1>2. PICK p, c :
        pc' = [pc EXCEPT ![Main] = p] /\ cur' = [cur EXCEPT ![Main] = c]
  BY <1>1, Stays DEF Broadcast, BroadcastDone, Send, Goto
<1> QED BY <1>1, <1>2, QuietSettles DEF OwesRecv, OwesSend

LEMMA AcceptSettles ==
  ASSUME IInv, NEW t \in Workers, NEW e \in Events, NEW ok \in BOOLEAN,
         ProcessAccept(t, e, ok)
  PROVE  t \in Threads /\ Settles(t)
<1>1. /\ t \in Threads /\ pc[t] = "idle"
      /\ owner' = owner /\ pending' = pending /\ after' = after
  BY DEF Threads, ProcessAccept, At
<1>2. PICK p, c :
        pc' = [pc EXCEPT ![t] = p] /\ cur' = [cur EXCEPT ![t] = c]
  BY <1>1, Stays DEF ProcessAccept
<1> QED BY <1>1, <1>2, QuietSettles DEF OwesRecv, OwesSend

LEMMA NextSettles ==
  ASSUME IInv, [Next]_vars
  PROVE  UNCHANGED vars \/ \E t \in Threads : Settles(t)
<1>1. CASE \E t \in Threads : Step(t) \/ LockStep(t)
  BY <1>1, StepSettles
<1>2. CASE \E t \in Workers, e \in Events, ok \in BOOLEAN :
             ProcessAccept(t, e, ok)
  BY <1>2, AcceptSettles
<1>3. CASE \E s \in Sessions, kind \in Kinds : Complete(s, kind)
  BY <1>3, DispatchSettles DEF Complete, Threads
<1>4. CASE Broadcast \/ BroadcastDone \/ \E s \in Sessions : Send(s)
  BY <1>4, MainSettles
<1>5. CASE UNCHANGED vars \/ Stopped
  BY <1>5 DEF Stopped
<1> QED BY <1>1, <1>2, <1>3, <1>4, <1>5 DEF Next

(* Session.cpp, RELEASE_REF: no path leaves an owner set that nothing will *)
(* clear, which would make a session that owns its own event live for      *)
(* ever.  This is what DisconnectedIsFreed needs of every state.           *)
THEOREM NoOwnerForgotten == Spec => []OwnersOwed
<1>1. Init => OwnersOwed
  BY DEF Init, OwnersOwed
<1>2. IInv /\ OwnersOwed /\ [Next]_vars => OwnersOwed'
  <2> SUFFICES ASSUME IInv, OwnersOwed, [Next]_vars
               PROVE  OwnersOwed'
    OBVIOUS
  <2>1. CASE UNCHANGED vars
    BY <2>1 DEF vars, kernel, control, OwnersOwed, Owes, OwesRecv, OwesSend
  <2>2. CASE \E t \in Threads : Settles(t)
    BY <2>2, SettlesKeeps
  <2> QED BY <2>1, <2>2, NextSettles
<1> QED BY <1>1, <1>2, Inductive, PTL DEF Spec
=============================================================================
