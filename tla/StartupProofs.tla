---------------------------- MODULE StartupProofs ----------------------------
(***************************************************************************)
(* Theorems about Startup, for any number of threads and sessions and any  *)
(* depth of RegisterAccept.  IInv is inductive: OrderInv says how far the  *)
(* calls have come, IdInv what the ids given out so far are, RefInv which  *)
(* references each session has.                                            *)
(***************************************************************************)
EXTENDS Startup, SequenceTheorems, FiniteSetTheorems, TLAPS

(* The calls that were made have succeeded, unless their failure goes      *)
(* unnoticed or Start has given up; workers exist after Start only.        *)
OrderInv ==
  /\ at[Main] \notin {"failed", "dead"} =>
       \A i \in DOMAIN Script :
         i < step /\ Script[i] \in Asserted \cup Checked => Script[i] \in done
  /\ at[Main] \in {"create", "post", "connect", "launch", "run"} =>
       step > Len(Script)
  /\ at[Main] \in {"launch", "run"} => posted = MaxSessionCount
  /\ \A w \in Workers :
       at[w] \in {"tls", "run"} => at[Main] \in {"launch", "run"}

Numbered == {t \in Threads : id[t] # 0}

(* Ids are given out in turn. *)
IdInv ==
  /\ nextId = Cardinality(Numbered) + 1
  /\ \A t \in Threads : id[t] < nextId
  /\ \A t, u \in Numbered : id[t] = id[u] => t = u
  /\ \A t \in Threads : at[t] \in {"off", "tls"} => id[t] = 0
  /\ \A t \in Threads : at[t] \notin {"off", "tls", "dead"} => id[t] # 0

Holds(s) == IF \E i \in Slots : held[i] = s THEN 1 ELSE 0
Local(s) == IF s \in frames THEN 1 ELSE 0

(* A session is referred to by at most one event and at most one call.     *)
RefInv ==
  /\ \A i, j \in Slots : held[i] = held[j] /\ held[i] # None => i = j
  /\ \A s \in Sessions : refs[s] = Holds(s) + Local(s)
  /\ \A i \in Slots : i <= posted => held[i] # None
  /\ \A i \in Slots : i > posted + 1 => held[i] = None
  /\ frames = {} => \A i \in Slots : i > posted => held[i] = None
  /\ at[Main] \in {"post", "connect"} => posted < MaxSessionCount
  /\ at[Main] = "connect" \/ (at[Main] = "post" /\ role = "server") =>
       \A i \in Slots : i = posted + 1 => held[i] # None
  /\ at[Main] = "post" /\ role = "client" =>
       /\ \A i \in Slots : held[i] \notin frames
       /\ \A i \in Slots : i = posted + 1 => held[i] = None
  /\ (\/ at[Main] \in {"tls", "setup"}
      \/ at[Main] = "create" /\ role = "client") => frames = {}

IInv == StartTypeOK /\ OrderInv /\ IdInv /\ RefInv

-----------------------------------------------------------------------------
LEMMA Concatenation ==
  ASSUME NEW S, NEW p \in Seq(S), NEW q \in Seq(S), Len(p) = 6, Len(q) = 6
  PROVE  /\ p \o q \in Seq(S) /\ Len(p \o q) = 12
         /\ \A i \in 1 .. 6 : (p \o q)[i] = p[i]
         /\ \A i \in 1 .. 6 : (p \o q)[i + 6] = q[i]
<1>1. p \o q \in Seq(S) /\ Len(p \o q) = Len(p) + Len(q)
  BY ConcatProperties, Zenon
<1>2. \A i \in 1 .. Len(p) + Len(q) :
         (p \o q)[i] = IF i <= Len(p) THEN p[i] ELSE q[i - Len(p)]
  BY ConcatProperties, Zenon
<1>3. ASSUME NEW i \in 1 .. 6
      PROVE  (p \o q)[i] = p[i]
  <2>1. i \in 1 .. Len(p) + Len(q) /\ i <= Len(p)
    OBVIOUS
  <2> QED BY <2>1, <1>2, Zenon
<1>4. ASSUME NEW i \in 1 .. 6
      PROVE  (p \o q)[i + 6] = q[i]
  <2>1. i + 6 \in 1 .. Len(p) + Len(q) /\ ~(i + 6 <= Len(p))
        /\ (i + 6) - Len(p) = i
    OBVIOUS
  <2> QED BY <2>1, <1>2, Zenon
<1> QED BY <1>1, <1>3, <1>4

(* Script is what it looks like: Globals, and for a server StartAccept.    *)
LEMMA ScriptShape ==
  /\ Len(Script) \in Nat /\ DOMAIN Script = 1 .. Len(Script)
  /\ \A i \in DOMAIN Script :
       Script[i] \in Asserted \cup Checked \cup {"DummySocket", "CreatePort"}
  /\ \A c \in Asserted : \E i \in DOMAIN Script : Script[i] = c
  /\ role = "server" =>
       \A i \in DOMAIN StartAccept :
         i + 6 \in DOMAIN Script /\ Script[i + 6] = StartAccept[i]
<1> DEFINE Calls == Asserted \cup Checked \cup {"DummySocket", "CreatePort"}
<1> DEFINE Names == {Globals[i] : i \in 1 .. 6}
                      \cup {StartAccept[i] : i \in 1 .. 6}
<1>1. Globals \in Seq({Globals[i] : i \in 1 .. 6})
  BY DEF Globals
<1>2. StartAccept \in Seq({StartAccept[i] : i \in 1 .. 6})
  BY DEF StartAccept
<1> HIDE DEF Calls, Names
<1>3. Globals \in Seq(Names) /\ StartAccept \in Seq(Names)
  <2>1. /\ {Globals[i] : i \in 1 .. 6} \subseteq Names
        /\ {StartAccept[i] : i \in 1 .. 6} \subseteq Names
    BY DEF Names
  <2> QED BY <2>1, <1>1, <1>2
<1>4. Len(Globals) = 6 /\ Len(StartAccept) = 6
  BY DEF Globals, StartAccept
<1>5. /\ Globals[1] = "WSAStartup" /\ Globals[2] = "DummySocket"
      /\ Globals[3] = "ConnectEx" /\ Globals[4] = "DisconnectEx"
      /\ Globals[5] = "AcceptEx" /\ Globals[6] = "CreatePort"
  BY DEF Globals
<1>6. CASE role = "server"
  <2>1. Script = Globals \o StartAccept
    BY <1>6 DEF Script
  <2>2. /\ Script \in Seq(Names) /\ Len(Script) = 12
        /\ \A i \in 1 .. 6 : Script[i] = Globals[i]
        /\ \A i \in 1 .. 6 : Script[i + 6] = StartAccept[i]
    BY <2>1, <1>3, <1>4, Concatenation
  <2>3. DOMAIN Script = 1 .. 12 /\ DOMAIN StartAccept = 1 .. 6
    BY <2>2, <1>3, <1>4
  <2>4. \A i \in 1 .. 6 : Script[i] \in Calls
    BY <2>2, <1>5 DEF Asserted, Calls
  <2>5. \A i \in 1 .. 6 : StartAccept[i] \in Calls
    BY <2>3 DEF Checked, Calls
  <2>6. ASSUME NEW i \in 1 .. 12
        PROVE  Script[i] \in Calls
    <3>1. CASE i <= 6
      BY <3>1, <2>4
    <3>2. CASE i > 6
      <4>1. i - 6 \in 1 .. 6 /\ i = (i - 6) + 6
        BY <3>2
      <4> QED BY <4>1, <2>2, <2>5
    <3> QED BY <3>1, <3>2
  <2>7. \A c \in Asserted : \E i \in 1 .. 6 : Script[i] = c
    BY <2>2, <1>5 DEF Asserted
  <2> QED BY <2>2, <2>3, <2>6, <2>7 DEF Calls
<1>7. CASE role # "server"
  <2>1. Script = Globals
    BY <1>7 DEF Script
  <2>2. DOMAIN Script = 1 .. 6 /\ Len(Script) = 6
    BY <2>1, <1>3, <1>4
  <2>3. \A i \in 1 .. 6 : Script[i] \in Calls
    BY <2>1, <1>5 DEF Asserted, Calls
  <2>4. \A c \in Asserted : \E i \in 1 .. 6 : Script[i] = c
    BY <2>1, <1>5 DEF Asserted
  <2> QED BY <1>7, <2>2, <2>3, <2>4 DEF Calls
<1> QED BY <1>6, <1>7
-----------------------------------------------------------------------------
LEMMA InitInv == StartInit => IInv
<1> SUFFICES ASSUME StartInit
             PROVE  IInv
  OBVIOUS
<1> USE DEF StartInit
<1>1. StartTypeOK
  BY CountAssumption DEF StartTypeOK, PcStates
<1>2. OrderInv
  BY MainAssumption, ScriptShape DEF OrderInv, Threads
<1>3. IdInv
  <2>1. Numbered = {}
    BY DEF Numbered
  <2> QED BY <2>1, FS_EmptySet DEF IdInv
<1>4. RefInv
  BY NoneAssumption, CountAssumption
  DEF RefInv, Holds, Local, Threads, Slots
<1> QED BY <1>1, <1>2, <1>3, <1>4 DEF IInv

(* How far the calls have come. *)
LEMMA OrderStep ==
  ASSUME IInv, StartNext PROVE OrderInv'
<1> USE DEF IInv, StartTypeOK, Threads
<1>0. role' = role /\ Script' = Script
  BY DEF StartNext, InitTLS, CallSucceeds, CallFails, EnterLoop, CreateSession,
         AcceptPosted, AcceptAgain, ConnectRefused, OwnConnect, ConnectPosted,
         ConnectFails, StartReturns, Launch, DispatchWithoutPort, AllLaunched,
         Quiescent, startVars, Script
<1> HIDE DEF IInv
<1> USE <1>0, ScriptShape, MainAssumption, CountAssumption
        DEF OrderInv, Goto, Die
<1>1. ASSUME NEW t \in Threads, InitTLS(t)
      PROVE  OrderInv'
  BY <1>1, IInv DEF IInv, InitTLS
<1>2. ASSUME CallSucceeds
      PROVE  OrderInv'
  BY <1>2, IInv DEF IInv, CallSucceeds
<1>3. ASSUME CallFails
      PROVE  OrderInv'
  BY <1>3, IInv DEF IInv, CallFails
<1>4. ASSUME EnterLoop
      PROVE  OrderInv'
  BY <1>4, IInv DEF IInv, EnterLoop
<1>5. ASSUME CreateSession
      PROVE  OrderInv'
  BY <1>5, IInv DEF IInv, CreateSession
<1>6. ASSUME AcceptPosted
      PROVE  OrderInv'
  BY <1>6, IInv DEF IInv, AcceptPosted
<1>7. ASSUME AcceptAgain
      PROVE  OrderInv'
  BY <1>7, IInv DEF IInv, AcceptAgain
<1>8. ASSUME ConnectRefused
      PROVE  OrderInv'
  BY <1>8, IInv DEF IInv, ConnectRefused
<1>9. ASSUME OwnConnect
      PROVE  OrderInv'
  BY <1>9, IInv DEF IInv, OwnConnect
<1>10. ASSUME ConnectPosted
      PROVE  OrderInv'
  BY <1>10, IInv DEF IInv, ConnectPosted
<1>11. ASSUME ConnectFails
      PROVE  OrderInv'
  BY <1>11, IInv DEF IInv, ConnectFails
<1>12. ASSUME StartReturns
      PROVE  OrderInv'
  BY <1>12, IInv DEF IInv, StartReturns
<1>13. ASSUME NEW w \in Workers, Launch(w)
      PROVE  OrderInv'
  BY <1>13, IInv DEF IInv, Launch
<1>14. ASSUME NEW w \in Workers, DispatchWithoutPort(w)
      PROVE  OrderInv'
  BY <1>14, IInv DEF IInv, DispatchWithoutPort
<1>15. ASSUME AllLaunched
      PROVE  OrderInv'
  BY <1>15, IInv DEF IInv, AllLaunched
<1>16. ASSUME Quiescent
      PROVE  OrderInv'
  BY <1>16, IInv DEF IInv, Quiescent, startVars
<1> QED
  BY <1>1, <1>2, <1>3, <1>4, <1>5, <1>6, <1>7, <1>8, <1>9, <1>10, <1>11,
     <1>12, <1>13, <1>14, <1>15, <1>16 DEF StartNext
(* Which ids have been given out. *)
LEMMA IdStep ==
  ASSUME IInv, StartNext PROVE IdInv'
<1>1. IsFiniteSet(Threads)
  BY IdsAssumption, FS_AddElement DEF Threads
<1>2. IsFiniteSet(Numbered) /\ Cardinality(Numbered) \in Nat
  BY <1>1, FS_Subset, FS_CardinalityType DEF Numbered
<1>3. ASSUME UNCHANGED <<nextId, id>>,
             \A t \in Threads :
               /\ at'[t] \in {"off", "tls"} => at[t] \in {"off", "tls"}
               /\ at'[t] \notin {"off", "tls", "dead"} =>
                    at[t] \notin {"off", "tls", "dead"}
      PROVE  IdInv'
  <2>1. Numbered' = Numbered
    BY <1>3 DEF Numbered
  <2>2. IdInv
    BY DEF IInv
  <2> QED BY <1>3, <2>1, <2>2 DEF IdInv
<1>20. StartTypeOK
  BY DEF IInv
<1> USE <1>20, <1>3, MainAssumption DEF StartTypeOK, Goto, Die, Threads
<1>4. ASSUME NEW t \in Threads, InitTLS(t)
      PROVE  IdInv'
  <2>1. IdInv
    BY DEF IInv
  <2>2. /\ id[t] = 0 /\ nextId \in Nat \ {0} /\ nextId' = nextId + 1
        /\ id' = [id EXCEPT ![t] = nextId]
    BY <1>4, <2>1 DEF InitTLS, IdInv, IdAfter
  <2>3. Numbered' = Numbered \cup {t} /\ t \notin Numbered
    BY <2>2, <1>4 DEF Numbered
  <2>4. nextId' = Cardinality(Numbered') + 1
    BY <1>2, <2>1, <2>2, <2>3, FS_AddElement DEF IdInv
  <2>5. \A u \in Threads : id'[u] < nextId'
    BY <2>1, <2>2 DEF IdInv
  <2>6. \A u, v \in Numbered' : id'[u] = id'[v] => u = v
    BY <2>1, <2>2, <2>3 DEF IdInv, Numbered
  <2>7. /\ \A u \in Threads : at'[u] \in {"off", "tls"} => id'[u] = 0
        /\ \A u \in Threads :
             at'[u] \notin {"off", "tls", "dead"} => id'[u] # 0
    BY <1>4, <2>1, <2>2 DEF IdInv, InitTLS
  <2> QED BY <2>4, <2>5, <2>6, <2>7 DEF IdInv
<1>5. ASSUME CallSucceeds
      PROVE  IdInv'
  BY <1>5 DEF CallSucceeds
<1>6. ASSUME CallFails
      PROVE  IdInv'
  BY <1>6 DEF CallFails
<1>7. ASSUME EnterLoop
      PROVE  IdInv'
  BY <1>7 DEF EnterLoop
<1>8. ASSUME CreateSession
      PROVE  IdInv'
  BY <1>8 DEF CreateSession
<1>9. ASSUME AcceptPosted
      PROVE  IdInv'
  BY <1>9 DEF AcceptPosted
<1>10. ASSUME AcceptAgain
      PROVE  IdInv'
  BY <1>10 DEF AcceptAgain
<1>11. ASSUME ConnectRefused
      PROVE  IdInv'
  BY <1>11 DEF ConnectRefused
<1>12. ASSUME OwnConnect
      PROVE  IdInv'
  BY <1>12 DEF OwnConnect
<1>13. ASSUME ConnectPosted
      PROVE  IdInv'
  BY <1>13 DEF ConnectPosted
<1>14. ASSUME ConnectFails
      PROVE  IdInv'
  BY <1>14 DEF ConnectFails
<1>15. ASSUME StartReturns
      PROVE  IdInv'
  BY <1>15 DEF StartReturns
<1>16. ASSUME NEW w \in Workers, Launch(w)
      PROVE  IdInv'
  BY <1>16 DEF Launch
<1>17. ASSUME NEW w \in Workers, DispatchWithoutPort(w)
      PROVE  IdInv'
  BY <1>17 DEF DispatchWithoutPort
<1>18. ASSUME AllLaunched
      PROVE  IdInv'
  BY <1>18 DEF AllLaunched
<1>19. ASSUME Quiescent
      PROVE  IdInv'
  BY <1>19 DEF Quiescent, startVars
<1> QED
  BY <1>4, <1>5, <1>6, <1>7, <1>8, <1>9, <1>10, <1>11, <1>12, <1>13, <1>14,
     <1>15, <1>16, <1>17, <1>18, <1>19 DEF StartNext
(* Which references the sessions have. *)
LEMMA Unreferenced ==
  ASSUME IInv, NEW s \in Sessions, refs[s] = 0
  PROVE  s \notin frames /\ \A i \in Slots : held[i] # s
<1>1. refs[s] = Holds(s) + Local(s)
  BY DEF IInv, RefInv
<1> QED BY <1>1 DEF Holds, Local

LEMMA RefStep ==
  ASSUME IInv, StartNext PROVE RefInv'
<1>1. StartTypeOK /\ RefInv /\ posted \in Nat
  BY CountAssumption DEF IInv, StartTypeOK
<1>2. ASSUME UNCHANGED <<role, posted, held, frames, refs>>,
             \/ at'[Main] = at[Main]
             \/ at[Main] = "tls" /\ at'[Main] = "setup"
             \/ at[Main] = "setup" /\ at'[Main] = "create"
             \/ at[Main] = "post" /\ role = "server" /\ at'[Main] = "create"
             \/ at'[Main] \in {"failed", "dead", "launch", "run"}
      PROVE  RefInv'
  BY <1>1, <1>2 DEF RefInv, Holds, Local
<1> USE <1>1, <1>2, MainAssumption, NoneAssumption, CountAssumption
        DEF StartTypeOK, Goto, Die, Threads
<1>3. ASSUME NEW t \in Threads, InitTLS(t)
      PROVE  RefInv'
  BY <1>3 DEF InitTLS
<1>4. ASSUME CallSucceeds
      PROVE  RefInv'
  BY <1>4 DEF CallSucceeds
<1>5. ASSUME CallFails
      PROVE  RefInv'
  BY <1>5 DEF CallFails
<1>6. ASSUME EnterLoop
      PROVE  RefInv'
  BY <1>6 DEF EnterLoop
<1>7. ASSUME CreateSession
      PROVE  RefInv'
  <2>1. CASE at'[Main] = "dead"
    BY <2>1, <1>7 DEF CreateSession
  <2>2. CASE at'[Main] # "dead"
    <3>1. PICK s \in Sessions \ Alive :
            /\ frames' = frames \cup {s} /\ at'[Main] = "post"
            /\ at[Main] = "create" /\ posted < MaxSessionCount
            /\ posted' = posted /\ role' = role
            /\ role = "server" =>
                 /\ held' = [held EXCEPT ![posted + 1] = s]
                 /\ refs' = [q \in Sessions |->
                               Assigned(q, held[posted + 1], s)
                                 + (IF q = s THEN 1 ELSE 0)]
            /\ role # "server" =>
                 refs' = [refs EXCEPT ![s] = 1] /\ held' = held
      BY <2>2, <1>7 DEF CreateSession
    <3>2. s \notin frames /\ \A i \in Slots : held[i] # s
      BY <3>1, Unreferenced DEF Alive
    <3>3. posted + 1 \in Slots
      BY <3>1 DEF Slots
    <3>4. CASE role = "server"
      <4>1. \A i, j \in Slots : held'[i] = held'[j] /\ held'[i] # None => i = j
        BY <3>1, <3>2, <3>3, <3>4 DEF RefInv
      <4>2. ASSUME NEW q \in Sessions PROVE refs'[q] = (Holds(q) + Local(q))'
        BY <3>1, <3>2, <3>3, <3>4 DEF RefInv, Holds, Local, Assigned
      <4> QED BY <3>1, <3>2, <3>3, <3>4, <4>1, <4>2 DEF RefInv, Slots
    <3>5. CASE role = "client"
      <4>1. frames = {}
        BY <3>1, <3>5 DEF RefInv
      <4>2. ASSUME NEW q \in Sessions PROVE refs'[q] = (Holds(q) + Local(q))'
        BY <3>1, <3>2, <3>5, <4>1 DEF RefInv, Holds, Local
      <4> QED BY <3>1, <3>2, <3>5, <4>1, <4>2 DEF RefInv, Slots
    <3> QED BY <3>4, <3>5, RolesAssumption
  <2> QED BY <2>1, <2>2
<1>8. ASSUME AcceptPosted
      PROVE  RefInv'
  <2>1. ASSUME NEW q \in Sessions PROVE refs'[q] = (Holds(q) + Local(q))'
    BY <1>8 DEF AcceptPosted, RefInv, Holds, Local, WithoutLocals
  <2> QED BY <1>8, <2>1 DEF AcceptPosted, RefInv, Slots
<1>9. ASSUME AcceptAgain
      PROVE  RefInv'
  BY <1>9 DEF AcceptAgain
<1>10. ASSUME ConnectRefused
      PROVE  RefInv'
  <2>1. ASSUME NEW q \in Sessions PROVE refs'[q] = (Holds(q) + Local(q))'
    BY <1>10 DEF ConnectRefused, RefInv, Holds, Local, WithoutLocals
  <2> QED BY <1>10, <2>1 DEF ConnectRefused, RefInv, Slots
<1>11. ASSUME OwnConnect
      PROVE  RefInv'
  <2>1. PICK s \in frames : /\ held' = [held EXCEPT ![posted + 1] = s]
                            /\ refs' = [refs EXCEPT ![s] = @ + 1]
    BY <1>11 DEF OwnConnect
  <2>2. s \in Sessions /\ posted + 1 \in Slots
    BY <1>11 DEF OwnConnect, RefInv, Slots
  <2>3. held[posted + 1] = None /\ \A i \in Slots : held[i] # s
    BY <1>11, <2>2 DEF OwnConnect, RefInv
  <2>4. ASSUME NEW q \in Sessions PROVE refs'[q] = (Holds(q) + Local(q))'
    BY <1>11, <2>1, <2>2, <2>3 DEF OwnConnect, RefInv, Holds, Local
  <2>5. \A i, j \in Slots : held'[i] = held'[j] /\ held'[i] # None => i = j
    BY <2>1, <2>2, <2>3 DEF RefInv
  <2>6. /\ at'[Main] = "connect" /\ posted' = posted
        /\ frames' = frames /\ frames # {} /\ posted < MaxSessionCount
    BY <1>11 DEF OwnConnect, RefInv
  <2>7. held'[posted + 1] = s /\ s # None
    BY <2>1, <2>2
  <2>8. \A i \in Slots : i # posted + 1 => held'[i] = held[i]
    BY <2>1, <2>2
  <2> QED BY <2>4, <2>5, <2>6, <2>7, <2>8 DEF RefInv, Slots
<1>12. ASSUME ConnectPosted
      PROVE  RefInv'
  <2>1. ASSUME NEW q \in Sessions PROVE refs'[q] = (Holds(q) + Local(q))'
    BY <1>12 DEF ConnectPosted, RefInv, Holds, Local, WithoutLocals
  <2> QED BY <1>12, <2>1 DEF ConnectPosted, RefInv, Slots
<1>13. ASSUME ConnectFails
      PROVE  RefInv'
  <2>1. posted + 1 \in Slots /\ held[posted + 1] # None
    BY <1>13 DEF ConnectFails, RefInv, Slots
  <2>2. ASSUME NEW q \in Sessions PROVE refs'[q] = (Holds(q) + Local(q))'
    BY <1>13, <2>1
    DEF ConnectFails, RefInv, Holds, Local, WithoutLocals, Assigned
  <2> QED BY <1>13, <2>1, <2>2 DEF ConnectFails, RefInv, Slots
<1>14. ASSUME StartReturns
      PROVE  RefInv'
  BY <1>14 DEF StartReturns
<1>15. ASSUME NEW w \in Workers, Launch(w)
      PROVE  RefInv'
  BY <1>15 DEF Launch
<1>16. ASSUME NEW w \in Workers, DispatchWithoutPort(w)
      PROVE  RefInv'
  BY <1>16 DEF DispatchWithoutPort
<1>17. ASSUME AllLaunched
      PROVE  RefInv'
  BY <1>17 DEF AllLaunched
<1>18. ASSUME Quiescent
      PROVE  RefInv'
  BY <1>18 DEF Quiescent, startVars
<1> QED
  BY <1>3, <1>4, <1>5, <1>6, <1>7, <1>8, <1>9, <1>10, <1>11, <1>12,
     <1>13, <1>14, <1>15, <1>16, <1>17, <1>18 DEF StartNext
(* Types, those of the references by way of RefStep. *)
LEMMA TypeStep ==
  ASSUME IInv, StartNext PROVE StartTypeOK'
<1>1. StartTypeOK /\ RefInv
  BY DEF IInv
<1>2. \A q \in Sessions : refs'[q] \in Nat
  BY RefStep DEF RefInv, Holds, Local
<1> USE <1>1, <1>2, MainAssumption, CountAssumption
        DEF StartTypeOK, PcStates, Goto, Die, Threads
<1>3. ASSUME NEW t \in Threads, InitTLS(t)
      PROVE  StartTypeOK'
  BY <1>3 DEF InitTLS, IdAfter
<1>4. ASSUME CallSucceeds
      PROVE  StartTypeOK'
  <2>1. Script[step] \in
          Asserted \cup Checked \cup {"DummySocket", "CreatePort"}
    BY <1>4, ScriptShape DEF CallSucceeds
  <2> QED BY <1>4, <2>1 DEF CallSucceeds
<1>5. ASSUME CallFails
      PROVE  StartTypeOK'
  BY <1>5 DEF CallFails
<1>6. ASSUME EnterLoop
      PROVE  StartTypeOK'
  BY <1>6 DEF EnterLoop
<1>7. ASSUME CreateSession
      PROVE  StartTypeOK'
  <2>1. held' \in [Slots -> Sessions \cup {None}] /\ frames' \subseteq Sessions
    BY <1>7 DEF CreateSession
  <2>2. refs' \in [Sessions -> Nat]
    BY <1>7 DEF CreateSession
  <2> QED BY <1>7, <2>1, <2>2 DEF CreateSession
<1>8. ASSUME AcceptPosted
      PROVE  StartTypeOK'
  <2>1. posted' \in 0 .. MaxSessionCount
    BY <1>8 DEF AcceptPosted, RefInv
  <2> QED BY <1>8, <2>1 DEF AcceptPosted
<1>9. ASSUME AcceptAgain
      PROVE  StartTypeOK'
  BY <1>9 DEF AcceptAgain
<1>10. ASSUME ConnectRefused
      PROVE  StartTypeOK'
  BY <1>10 DEF ConnectRefused
<1>11. ASSUME OwnConnect
      PROVE  StartTypeOK'
  <2>1. PICK s \in Sessions : /\ held' = [held EXCEPT ![posted + 1] = s]
                              /\ refs' = [refs EXCEPT ![s] = @ + 1]
    BY <1>11 DEF OwnConnect
  <2>2. held' \in [Slots -> Sessions \cup {None}]
    BY <2>1
  <2>3. refs' \in [Sessions -> Nat]
    BY <2>1
  <2> QED BY <1>11, <2>2, <2>3 DEF OwnConnect
<1>12. ASSUME ConnectPosted
      PROVE  StartTypeOK'
  <2>1. posted' \in 0 .. MaxSessionCount
    BY <1>12 DEF ConnectPosted, RefInv
  <2> QED BY <1>12, <2>1 DEF ConnectPosted
<1>13. ASSUME ConnectFails
      PROVE  StartTypeOK'
  BY <1>13 DEF ConnectFails
<1>14. ASSUME StartReturns
      PROVE  StartTypeOK'
  BY <1>14 DEF StartReturns
<1>15. ASSUME NEW w \in Workers, Launch(w)
      PROVE  StartTypeOK'
  BY <1>15 DEF Launch
<1>16. ASSUME NEW w \in Workers, DispatchWithoutPort(w)
      PROVE  StartTypeOK'
  BY <1>16 DEF DispatchWithoutPort
<1>17. ASSUME AllLaunched
      PROVE  StartTypeOK'
  BY <1>17 DEF AllLaunched
<1>18. ASSUME Quiescent
      PROVE  StartTypeOK'
  BY <1>18 DEF Quiescent, startVars
<1> QED
  BY <1>3, <1>4, <1>5, <1>6, <1>7, <1>8, <1>9, <1>10, <1>11, <1>12,
     <1>13, <1>14, <1>15, <1>16, <1>17, <1>18 DEF StartNext

LEMMA Inductive == StartSpec => []IInv
<1>1. ASSUME IInv, UNCHANGED startVars
      PROVE  IInv'
  <2>1. /\ StartTypeOK' = StartTypeOK /\ OrderInv' = OrderInv
        /\ IdInv' = IdInv /\ RefInv' = RefInv
    BY <1>1 DEF startVars, StartTypeOK, OrderInv, IdInv, RefInv, Script,
                Numbered, Holds, Local
  <2> QED BY <1>1, <2>1 DEF IInv
<1>2. ASSUME IInv, StartNext
      PROVE  IInv'
  BY <1>2, TypeStep, OrderStep, IdStep, RefStep DEF IInv
<1>3. IInv /\ [StartNext]_startVars => IInv'
  BY <1>1, <1>2
<1> QED BY InitInv, <1>3, PTL DEF StartSpec

-----------------------------------------------------------------------------
(* Types of the start-up: the ids are numbers above 0, the events hold     *)
(* sessions, and no count of references falls below 0.                     *)
THEOREM Typing == StartSpec => []StartTypeOK
<1>1. IInv => StartTypeOK
  BY DEF IInv
<1> QED BY <1>1, Inductive, PTL

(* For any number of threads that fits: each has an id of its own, which   *)
(* is not 0 and fits the half of _lockFlag.                                *)
THEOREM IdsFit == StartSpec => []LockIdsFit
<1>1. ASSUME IInv
      PROVE  LockIdsFit
  <2>1. IsFiniteSet(Threads) /\ Cardinality(Threads) = Cardinality(Workers) + 1
    BY IdsAssumption, MainAssumption, FS_AddElement DEF Threads
  <2>2. Cardinality(Numbered) <= Cardinality(Workers) + 1
    BY <2>1, FS_Subset DEF Numbered
  <2>3. Cardinality(Numbered) \in Nat /\ Cardinality(Workers) \in Nat
    BY <2>1, IdsAssumption, FS_Subset, FS_CardinalityType DEF Numbered
  <2>4. \A t \in Threads : id[t] \in Nat /\ id[t] < Cardinality(Numbered) + 1
    BY <1>1 DEF IInv, StartTypeOK, IdInv
  <2>5. \A t \in Threads : id[t] < IdLimit
    BY <2>2, <2>3, <2>4, IdsAssumption, CountAssumption
  <2> QED BY <1>1, <2>5 DEF IInv, IdInv, LockIdsFit, Numbered
<1> QED BY <1>1, Inductive, PTL

(* Whichever calls fail, a worker that runs finds the functions loaded,    *)
(* the listener listening and all requests posted.                         *)
THEOREM ServiceStarted == StartSpec => []WorkersFindService
<1>1. ASSUME IInv, NEW w \in Workers, at[w] = "run"
      PROVE  /\ Asserted \subseteq done
             /\ role = "server" =>
                  \A i \in DOMAIN StartAccept : StartAccept[i] \in done
             /\ posted = MaxSessionCount
  <2>1. /\ at[Main] \in {"launch", "run"} /\ step > Len(Script)
        /\ posted = MaxSessionCount /\ step \in Nat
    BY <1>1 DEF IInv, OrderInv, StartTypeOK
  <2>2. \A i \in DOMAIN Script : Script[i] \in Asserted \cup Checked =>
                                  Script[i] \in done
    BY <1>1, <2>1, ScriptShape DEF IInv, OrderInv
  <2>3. \A i \in DOMAIN StartAccept : StartAccept[i] \in Checked
    BY DEF Checked
  <2> QED BY <2>1, <2>2, <2>3, ScriptShape
<1>2. IInv => WorkersFindService
  BY <1>1 DEF WorkersFindService
<1> QED BY <1>2, Inductive, PTL

(* Between the calls exactly the sessions of the outstanding events live,  *)
(* with one reference each, however often RegisterAccept was retried.      *)
THEOREM NoSessionLeaks == StartSpec => []SessionsAccounted
<1>1. ASSUME IInv
      PROVE  SessionsAccounted
  <2>1. StartTypeOK /\ RefInv /\ 1 .. posted \subseteq Slots
    BY <1>1, CountAssumption DEF IInv, StartTypeOK, Slots
  <2>2. \A i \in 1 .. posted : held[i] \in Sessions
    BY <2>1 DEF StartTypeOK, RefInv
  <2>3. \A i, j \in 1 .. posted : i # j => held[i] # held[j]
    BY <2>1, <2>2, NoneAssumption DEF RefInv
  <2>4. \A i \in 1 .. posted : held[i] \in Alive
    BY <2>1, <2>2 DEF RefInv, Alive, Holds, Local
  <2>5. ASSUME frames = {}, NEW s \in Alive
        PROVE  refs[s] = 1 /\ \E i \in 1 .. posted : held[i] = s
    <3>1. refs[s] = 1 /\ \E i \in Slots : held[i] = s
      BY <2>1, <2>5 DEF RefInv, Alive, Holds, Local
    <3>2. PICK i \in Slots : held[i] = s
      BY <3>1
    <3>3. i <= posted
      BY <2>1, <2>5, <3>2, NoneAssumption
      DEF RefInv, StartTypeOK, Alive, Slots
    <3> QED BY <3>1, <3>2, <3>3 DEF Slots
  <2> QED BY <2>3, <2>4, <2>5 DEF SessionsAccounted
<1> QED BY <1>1, Inductive, PTL
=============================================================================
