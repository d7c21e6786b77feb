------------------------- MODULE SessionSendProofs -------------------------
(***************************************************************************)
(* Proofs about SessionSend, for any number of threads and of calls of     *)
(* Send.  The invariants the runs check are not inductive: that one send   *)
(* is outstanding at a time rests on _sendRegistered, on who may hold the  *)
(* lock, and on what _sendEvent contains at each point of the protocol.    *)
(* IInv is their conjunction, in three parts.                              *)
(***************************************************************************)
EXTENDS SessionSend, SequenceTheorems, TLAPS

(* Who holds WRITE_LOCK, and where the holder can be. *)
LockInv ==
  /\ \A t \in Threads : pc[t] \in {"exchange", "quiesce"} => lock = t
  /\ \A t \in Threads :
       lock = t => pc[t] \in {"exchange", "register", "drain", "post",
                              "failed", "quiesce"}

(* _sendRegistered stands for one agent: a thread with the token, or the   *)
(* kernel with the event.                                                  *)
TokenInv ==
  /\ \A t, u \in Threads : Token(t) /\ Token(u) => t = u
  /\ \A t \in Threads : Token(t) => inFlight = {} /\ sendRegistered
  /\ inFlight # {} => sendRegistered
  /\ \A x, y \in inFlight : x = y

(* What _sendEvent and _sendQueue hold along the protocol. *)
EventInv ==
  /\ inFlight # {} => sendEvent.owner
  /\ inFlight \subseteq {sendEvent.bufs}
  /\ <<>> \notin inFlight
  /\ ~sendRegistered => sendEvent.bufs = <<>>
  /\ \A t \in Threads :
       /\ pc[t] \in {"drain", "post", "failed", "sent", "zero"}
            => sendEvent.owner
       /\ pc[t] \in {"register", "drain", "recheck", "quiesce"}
            => sendEvent.bufs = <<>>
       /\ pc[t] \in {"post", "failed"} => sendEvent.bufs # <<>>
       /\ pc[t] \in {"exchange", "register", "drain"} => sendQueue # <<>>

IInv == TypeOK /\ LockInv /\ TokenInv /\ EventInv

(* With no failure of WSASend but a reset: as long as the session is       *)
(* connected, _sendRegistered never outlives its agent, and it is set, or  *)
(* about to be, whenever something is queued.                              *)
AgentInv ==
  /\ connected /\ sendRegistered =>
       inFlight # {} \/ \E t \in Threads : Token(t)
  /\ connected /\ sendQueue # <<>> =>
       sendRegistered \/ \E t \in Threads : pc[t] = "exchange"
  /\ \A t \in Threads : pc[t] = "failed" => ~connected
  /\ \A t \in Threads : pc[t] = "quiesce" => sendQueue = <<>>

-----------------------------------------------------------------------------
(* The event with nothing in it, as Init and the error branches leave it.  *)
LEMMA EmptyEvent ==
  [owner |-> FALSE, bufs |-> <<>>] \in [owner : BOOLEAN, bufs : Seq(Buffers)]
<1>1. <<>> \in Seq(Buffers)
  OBVIOUS
<1>. QED
  BY <1>1

LEMMA OwnedEvent ==
  ASSUME NEW e \in [owner : BOOLEAN, bufs : Seq(Buffers)]
  PROVE  [e EXCEPT !.owner = TRUE] \in [owner : BOOLEAN, bufs : Seq(Buffers)]
OBVIOUS

LEMMA AppendNonempty ==
  ASSUME NEW S, NEW s \in Seq(S), NEW e \in S
  PROVE  Append(s, e) # <<>>
<1>1. Len(Append(s, e)) = Len(s) + 1
  OBVIOUS
<1>2. Len(s) \in Nat /\ Len(<<>>) = 0
  OBVIOUS
<1>. QED
  BY <1>1, <1>2

(* The variables keep their types: in particular what is pushed into       *)
(* _sendQueue is the argument of a call of Send, never a null reference.   *)
THEOREM Typing == Spec => []TypeOK
<1>1. Init => TypeOK
  BY EmptyEvent DEF Init, TypeOK, Labels
<1>2. ASSUME TypeOK, [Next]_vars
      PROVE  TypeOK'
  <2> USE <1>2 DEF TypeOK, Labels, Goto, Return
  <2>1. ASSUME NEW t \in Threads, NEW b \in Buffers, Send(t, b)
        PROVE  TypeOK'
    BY <2>1, NoBufferAssumption DEF Send
  <2>2. ASSUME NEW t \in Threads, Push(t)
        PROVE  TypeOK'
    BY <2>2 DEF Push, LongerQueue
  <2>3. ASSUME NEW t \in Threads, Exchange(t)
        PROVE  TypeOK'
    BY <2>3 DEF Exchange, FirstToRegister
  <2>4. ASSUME NEW t \in Threads, RegisterCheck(t)
        PROVE  TypeOK'
    <3>1. sendEvent' \in [owner : BOOLEAN, bufs : Seq(Buffers)]
      <4>1. sendEvent' \in {sendEvent, [sendEvent EXCEPT !.owner = TRUE]}
        BY <2>4 DEF RegisterCheck, EventWithOwner
      <4>2. sendEvent \in [owner : BOOLEAN, bufs : Seq(Buffers)]
        OBVIOUS
      <4>. QED
        BY ONLY <4>1, <4>2, OwnedEvent
    <3>2. lock' \in Threads \cup {NoThread}
      BY <2>4 DEF RegisterCheck
    <3>3. /\ pc' \in [Threads -> Labels]
          /\ \A u \in Threads : pc'[u] = "enter" => pc[u] = "enter"
      BY <2>4 DEF RegisterCheck
    <3>. QED
      BY <2>4, <3>1, <3>2, <3>3 DEF RegisterCheck
  <2>5. ASSUME NEW t \in Threads, Drain(t)
        PROVE  TypeOK'
    <3>1. sendEvent.bufs \o sendQueue \in Seq(Buffers)
      OBVIOUS
    <3>2. sendEvent' \in [owner : BOOLEAN, bufs : Seq(Buffers)]
      BY <2>5, <3>1 DEF Drain
    <3>3. sendQueue' \in Seq(Buffers)
      BY <2>5 DEF Drain
    <3>. QED
      BY <2>5, <3>2, <3>3 DEF Drain
  <2>6. ASSUME NEW t \in Threads, PostAccepted(t)
        PROVE  TypeOK'
    BY <2>6 DEF PostAccepted
  <2>7. ASSUME NEW t \in Threads, NEW error \in Errors, PostRejected(t, error)
        PROVE  TypeOK'
    BY <2>7 DEF PostRejected
  <2>8. ASSUME NEW t \in Threads, AbandonSend(t)
        PROVE  TypeOK'
    BY <2>8, EmptyEvent DEF AbandonSend
  <2>9. ASSUME NEW t \in Threads, NEW batch \in inFlight,
               NEW moved \in BOOLEAN, Complete(t, batch, moved)
        PROVE  TypeOK'
    BY <2>9 DEF Complete
  <2>10. ASSUME NEW t \in Threads, ProcessSend(t)
         PROVE  TypeOK'
    BY <2>10, EmptyEvent DEF ProcessSend
  <2>11. ASSUME NEW t \in Threads, Recheck(t)
         PROVE  TypeOK'
    BY <2>11 DEF Recheck, WriteGuard, QuiesceOrRegister
  <2>12. ASSUME NEW t \in Threads, Quiesce(t)
         PROVE  TypeOK'
    BY <2>12 DEF Quiesce
  <2>13. CASE Disconnect
    BY <2>13 DEF Disconnect
  <2>14. CASE UNCHANGED vars
    BY <2>14 DEF vars
  <2>. QED
    BY <1>2, <2>1, <2>2, <2>3, <2>4, <2>5, <2>6, <2>7, <2>8, <2>9, <2>10,
       <2>11, <2>12, <2>13, <2>14
       DEF Next, Step, DispatchSome, Quiescent
<1>. QED
  BY <1>1, <1>2, PTL DEF Spec

(* WRITE_LOCK is taken only when it is free, and given back on return.     *)
LEMMA LockStep ==
  ASSUME TypeOK, LockInv, [Next]_vars
  PROVE  LockInv'
<1> USE NoThreadAssumption DEF TypeOK, Labels, LockInv, Goto, Return
<1>1. ASSUME NEW t \in Threads, NEW b \in Buffers, Send(t, b)
     PROVE  LockInv'
  BY <1>1 DEF Send
<1>2. ASSUME NEW t \in Threads, Push(t)
     PROVE  LockInv'
  BY <1>2 DEF Push, LongerQueue
<1>3. ASSUME NEW t \in Threads, Exchange(t)
     PROVE  LockInv'
  BY <1>3 DEF Exchange, FirstToRegister
<1>4. ASSUME NEW t \in Threads, RegisterCheck(t)
     PROVE  LockInv'
  BY <1>4 DEF RegisterCheck, EventWithOwner
<1>5. ASSUME NEW t \in Threads, Drain(t)
     PROVE  LockInv'
  BY <1>5 DEF Drain
<1>6. ASSUME NEW t \in Threads, PostAccepted(t)
     PROVE  LockInv'
  BY <1>6 DEF PostAccepted
<1>7. ASSUME NEW t \in Threads, NEW error \in Errors, PostRejected(t, error)
     PROVE  LockInv'
  BY <1>7 DEF PostRejected
<1>8. ASSUME NEW t \in Threads, AbandonSend(t)
     PROVE  LockInv'
  BY <1>8 DEF AbandonSend
<1>9. ASSUME NEW t \in Threads, NEW batch \in inFlight, NEW moved \in BOOLEAN,
            Complete(t, batch, moved)
     PROVE  LockInv'
  BY <1>9 DEF Complete
<1>10. ASSUME NEW t \in Threads, ProcessSend(t)
      PROVE  LockInv'
  BY <1>10 DEF ProcessSend
<1>11. ASSUME NEW t \in Threads, Recheck(t)
      PROVE  LockInv'
  BY <1>11 DEF Recheck, WriteGuard, QuiesceOrRegister
<1>12. ASSUME NEW t \in Threads, Quiesce(t)
      PROVE  LockInv'
  BY <1>12 DEF Quiesce
<1>13. CASE Disconnect
  BY <1>13 DEF Disconnect
<1>14. CASE UNCHANGED vars
  BY <1>14 DEF vars
<1>. QED
  BY <1>1, <1>2, <1>3, <1>4, <1>5, <1>6, <1>7, <1>8, <1>9, <1>10, <1>11,
     <1>12, <1>13, <1>14 DEF Next, Step, DispatchSome, Quiescent

(* The token changes hands, from a thread to the kernel and back, and is   *)
(* given up before _sendRegistered falls.                                  *)
LEMMA TokenStep ==
  ASSUME TypeOK, LockInv, TokenInv, [Next]_vars
  PROVE  TokenInv'
<1> USE NoThreadAssumption
    DEF TypeOK, Labels, LockInv, TokenInv, Token, Goto, Return
<1>1. ASSUME NEW t \in Threads, NEW b \in Buffers, Send(t, b)
     PROVE  TokenInv'
  BY <1>1 DEF Send
<1>2. ASSUME NEW t \in Threads, Push(t)
     PROVE  TokenInv'
  BY <1>2 DEF Push, LongerQueue
<1>3. ASSUME NEW t \in Threads, Exchange(t)
     PROVE  TokenInv'
  BY <1>3 DEF Exchange, FirstToRegister
<1>4. ASSUME NEW t \in Threads, RegisterCheck(t)
     PROVE  TokenInv'
  BY <1>4 DEF RegisterCheck, EventWithOwner
<1>5. ASSUME NEW t \in Threads, Drain(t)
     PROVE  TokenInv'
  BY <1>5 DEF Drain
<1>6. ASSUME NEW t \in Threads, PostAccepted(t)
     PROVE  TokenInv'
  BY <1>6 DEF PostAccepted
<1>7. ASSUME NEW t \in Threads, NEW error \in Errors, PostRejected(t, error)
     PROVE  TokenInv'
  BY <1>7 DEF PostRejected
<1>8. ASSUME NEW t \in Threads, AbandonSend(t)
     PROVE  TokenInv'
  BY <1>8 DEF AbandonSend
<1>9. ASSUME NEW t \in Threads, NEW batch \in inFlight, NEW moved \in BOOLEAN,
            Complete(t, batch, moved)
     PROVE  TokenInv'
  BY <1>9 DEF Complete
<1>10. ASSUME NEW t \in Threads, ProcessSend(t)
      PROVE  TokenInv'
  BY <1>10 DEF ProcessSend
<1>11. ASSUME NEW t \in Threads, Recheck(t)
      PROVE  TokenInv'
  BY <1>11 DEF Recheck, WriteGuard, QuiesceOrRegister
<1>12. ASSUME NEW t \in Threads, Quiesce(t)
      PROVE  TokenInv'
  BY <1>12 DEF Quiesce
<1>13. CASE Disconnect
  BY <1>13 DEF Disconnect
<1>14. CASE UNCHANGED vars
  BY <1>14 DEF vars
<1>. QED
  BY <1>1, <1>2, <1>3, <1>4, <1>5, <1>6, <1>7, <1>8, <1>9, <1>10, <1>11,
     <1>12, <1>13, <1>14 DEF Next, Step, DispatchSome, Quiescent

(* Only the holder of the token touches _sendEvent and drains _sendQueue.  *)
LEMMA EventStep ==
  ASSUME IInv, [Next]_vars
  PROVE  EventInv'
<1> USE NoThreadAssumption
    DEF IInv, TypeOK, Labels, LockInv, TokenInv, EventInv, Token, Goto, Return
<1>1. ASSUME NEW t \in Threads, NEW b \in Buffers, Send(t, b)
     PROVE  EventInv'
  BY <1>1 DEF Send
<1>2. ASSUME NEW t \in Threads, Push(t)
     PROVE  EventInv'
  <2>1. arg[t] \in Buffers
    BY <1>2, NoBufferAssumption DEF Push
  <2>2. sendQueue \in Seq(Buffers)
    OBVIOUS
  <2>3. sendQueue' = Append(sendQueue, arg[t])
    BY <1>2 DEF Push, LongerQueue
  <2>4. sendQueue' # <<>>
    BY ONLY <2>1, <2>2, <2>3, AppendNonempty
  <2>. QED
    BY <1>2, <2>4 DEF Push
<1>3. ASSUME NEW t \in Threads, Exchange(t)
     PROVE  EventInv'
  BY <1>3 DEF Exchange, FirstToRegister
<1>4. ASSUME NEW t \in Threads, RegisterCheck(t)
     PROVE  EventInv'
  BY <1>4 DEF RegisterCheck, EventWithOwner
<1>5. ASSUME NEW t \in Threads, Drain(t)
     PROVE  EventInv'
  BY <1>5 DEF Drain
<1>6. ASSUME NEW t \in Threads, PostAccepted(t)
     PROVE  EventInv'
  BY <1>6 DEF PostAccepted
<1>7. ASSUME NEW t \in Threads, NEW error \in Errors, PostRejected(t, error)
     PROVE  EventInv'
  BY <1>7 DEF PostRejected
<1>8. ASSUME NEW t \in Threads, AbandonSend(t)
     PROVE  EventInv'
  BY <1>8 DEF AbandonSend
<1>9. ASSUME NEW t \in Threads, NEW batch \in inFlight, NEW moved \in BOOLEAN,
            Complete(t, batch, moved)
     PROVE  EventInv'
  BY <1>9 DEF Complete
<1>10. ASSUME NEW t \in Threads, ProcessSend(t)
      PROVE  EventInv'
  BY <1>10 DEF ProcessSend
<1>11. ASSUME NEW t \in Threads, Recheck(t)
      PROVE  EventInv'
  BY <1>11 DEF Recheck, WriteGuard, QuiesceOrRegister
<1>12. ASSUME NEW t \in Threads, Quiesce(t)
      PROVE  EventInv'
  BY <1>12 DEF Quiesce
<1>13. CASE Disconnect
  BY <1>13 DEF Disconnect
<1>14. CASE UNCHANGED vars
  BY <1>14 DEF vars
<1>. QED
  BY <1>1, <1>2, <1>3, <1>4, <1>5, <1>6, <1>7, <1>8, <1>9, <1>10, <1>11,
     <1>12, <1>13, <1>14 DEF Next, Step, DispatchSome, Quiescent

(* While WSASend fails only with a reset, _sendRegistered is not cleared   *)
(* behind the back of a queued buffer.                                     *)
LEMMA AgentStep ==
  ASSUME IInv, AgentInv, "other" \notin Errors, [Next]_vars
  PROVE  AgentInv'
<1> USE NoThreadAssumption
    DEF IInv, TypeOK, Labels, LockInv, TokenInv, EventInv, AgentInv, Token,
        Goto, Return
<1>1. ASSUME NEW t \in Threads, NEW b \in Buffers, Send(t, b)
     PROVE  AgentInv'
  BY <1>1 DEF Send
<1>2. ASSUME NEW t \in Threads, Push(t)
     PROVE  AgentInv'
  BY <1>2 DEF Push
<1>3. ASSUME NEW t \in Threads, Exchange(t)
     PROVE  AgentInv'
  BY <1>3 DEF Exchange, FirstToRegister
<1>4. ASSUME NEW t \in Threads, RegisterCheck(t)
     PROVE  AgentInv'
  <2>1. CASE connected
    <3>1. Token(t)' /\ sendRegistered
      BY <1>4, <2>1 DEF RegisterCheck
    <3>. QED
      BY <1>4, <2>1, <3>1 DEF RegisterCheck
  <2>2. CASE ~connected
    BY <1>4, <2>2 DEF RegisterCheck
  <2>. QED
    BY <2>1, <2>2
<1>5. ASSUME NEW t \in Threads, Drain(t)
     PROVE  AgentInv'
  BY <1>5 DEF Drain
<1>6. ASSUME NEW t \in Threads, PostAccepted(t)
     PROVE  AgentInv'
  BY <1>6 DEF PostAccepted
<1>7. ASSUME NEW t \in Threads, NEW error \in Errors, PostRejected(t, error)
     PROVE  AgentInv'
  <2>1. error = "reset"
    BY ErrorsAssumption
  <2>2. ~connected'
    BY <1>7, <2>1 DEF PostRejected
  <2>3. \A u \in Threads : pc'[u] = "quiesce" => pc[u] = "quiesce"
    BY <1>7 DEF PostRejected
  <2>4. sendQueue' = sendQueue
    BY <1>7 DEF PostRejected
  <2>. QED
    BY <2>2, <2>3, <2>4
<1>8. ASSUME NEW t \in Threads, AbandonSend(t)
     PROVE  AgentInv'
  <2>1. ~connected /\ ~connected'
    BY <1>8 DEF AbandonSend
  <2>2. \A u \in Threads : pc'[u] \in {"failed", "quiesce"} => pc'[u] = pc[u]
    BY <1>8 DEF AbandonSend
  <2>3. sendQueue' = sendQueue
    BY <1>8 DEF AbandonSend
  <2>. QED
    BY <2>1, <2>2, <2>3
<1>9. ASSUME NEW t \in Threads, NEW batch \in inFlight, NEW moved \in BOOLEAN,
            Complete(t, batch, moved)
     PROVE  AgentInv'
  BY <1>9 DEF Complete
<1>10. ASSUME NEW t \in Threads, ProcessSend(t)
      PROVE  AgentInv'
  <2>1. /\ connected' => Token(t)'
        /\ sendRegistered' = sendRegistered
        /\ sendQueue' = sendQueue
    <3>1. pc[t] = "sent" => pc'[t] = "recheck"
      BY <1>10 DEF ProcessSend
    <3>2. connected' => pc[t] = "sent"
      BY <1>10 DEF ProcessSend
    <3>. QED
      BY <1>10, <3>1, <3>2 DEF ProcessSend
  <2>2. /\ connected' => connected
        /\ \A u \in Threads : pc[u] = "exchange" => pc'[u] = "exchange"
        /\ \A u \in Threads :
             pc'[u] \in {"failed", "quiesce"} => pc'[u] = pc[u]
    BY <1>10 DEF ProcessSend
  <2>. QED
    BY <2>1, <2>2
<1>11. ASSUME NEW t \in Threads, Recheck(t)
      PROVE  AgentInv'
  BY <1>11 DEF Recheck, WriteGuard, QuiesceOrRegister
<1>12. ASSUME NEW t \in Threads, Quiesce(t)
      PROVE  AgentInv'
  BY <1>12 DEF Quiesce
<1>13. CASE Disconnect
  BY <1>13 DEF Disconnect
<1>14. CASE UNCHANGED vars
  BY <1>14 DEF vars
<1>. QED
  BY <1>1, <1>2, <1>3, <1>4, <1>5, <1>6, <1>7, <1>8, <1>9, <1>10, <1>11,
     <1>12, <1>13, <1>14 DEF Next, Step, DispatchSome, Quiescent

-----------------------------------------------------------------------------
LEMMA Inductive == Spec => []IInv
<1>1. Init => LockInv /\ TokenInv /\ EventInv
  BY NoThreadAssumption DEF Init, LockInv, TokenInv, EventInv, Token
<1>2. ASSUME IInv, [Next]_vars, TypeOK'
      PROVE  IInv'
  BY <1>2, LockStep, TokenStep, EventStep DEF IInv
<1>. QED
  BY <1>1, <1>2, Typing, PTL DEF Spec, IInv

(* The overlapped send event has one owner at a time: no interleaving of   *)
(* Send, RegisterSend and ProcessSend has two WSASend calls outstanding or *)
(* lets a thread touch _sendEvent while the kernel uses it.                *)
THEOREM OneSend == Spec => []OneSendInFlight
<1>1. IInv => OneSendInFlight
  BY DEF IInv, TokenInv, OneSendInFlight
<1>. QED
  BY <1>1, Inductive, PTL

(* The event keeps the session and the buffers of an outstanding send      *)
(* alive until ProcessSend has run for it.                                 *)
THEOREM EventHeld == Spec => []SendEventHeld
<1>1. IInv => SendEventHeld
  BY DEF IInv, EventInv, SendEventHeld
<1>. QED
  BY <1>1, Inductive, PTL

(* RegisterSend finds at least one buffer to send, whoever calls it.       *)
THEOREM GatherNonempty == Spec => []NeverEmptyGather
<1>1. IInv => NeverEmptyGather
  BY DEF IInv, EventInv, NeverEmptyGather
<1>. QED
  BY <1>1, Inductive, PTL

(* When WSASend fails at once only with a reset, no buffer is stranded in  *)
(* _sendQueue of a connected session.  The hypothesis is needed: the run   *)
(* SessionSendStranded shows what any other failure does.                  *)
THEOREM Served == "other" \notin Errors /\ Spec => []QueueServed
<1> SUFFICES ASSUME "other" \notin Errors
             PROVE  Spec => []QueueServed
  OBVIOUS
<1>1. Init => AgentInv
  BY DEF Init, AgentInv
<1>2. IInv /\ AgentInv /\ [Next]_vars => AgentInv'
  BY AgentStep
<1>3. IInv /\ AgentInv => QueueServed
  BY DEF AgentInv, QueueServed
<1>. QED
  BY <1>1, <1>2, <1>3, Inductive, PTL DEF Spec

-----------------------------------------------------------------------------
(* What Outbox does to its queue when the oldest buffers leave it.         *)
LEMMA Batches ==
  ASSUME NEW S, NEW batch \in Seq(S), NEW rest \in Seq(S), batch # <<>>
  PROVE  /\ Len(batch) \in 1 .. Len(batch \o rest)
         /\ SubSeq(batch \o rest, 1, Len(batch)) = batch
         /\ SubSeq(batch \o rest, Len(batch) + 1, Len(batch \o rest)) = rest
<1>. DEFINE n == Len(batch)
            all == batch \o rest
<1>1. /\ n \in Nat /\ n >= 1 /\ Len(rest) \in Nat
      /\ all \in Seq(S) /\ Len(all) = n + Len(rest)
      /\ \A i \in 1 .. n : all[i] = batch[i]
      /\ \A i \in 1 .. Len(rest) : all[n + i] = rest[i]
  BY EmptySeq, ConcatProperties
<1>2. \A i \in 1 .. Len(all) : all[i] \in S
  BY <1>1
<1>. HIDE DEF n, all
<1>3. SubSeq(all, 1, n) = batch
  <2>1. \A i \in 1 .. n : all[i] \in S
    BY <1>1, <1>2
  <2>2. /\ SubSeq(all, 1, n) \in Seq(S)
        /\ Len(SubSeq(all, 1, n)) = n
        /\ \A i \in 1 .. n : SubSeq(all, 1, n)[i] = all[i]
    BY <1>1, <2>1, SubSeqProperties
  <2>. QED
    BY <1>1, <2>2, SeqEqual DEF n
<1>4. SubSeq(all, n + 1, Len(all)) = rest
  <2>. DEFINE tail == SubSeq(all, n + 1, Len(all))
  <2>1. \A i \in n + 1 .. Len(all) : all[i] \in S
    BY <1>1, <1>2
  <2>2. /\ tail \in Seq(S)
        /\ Len(tail) = Len(rest)
        /\ \A i \in 1 .. Len(rest) : tail[i] = all[n + i]
    <3>1. /\ tail \in Seq(S)
          /\ Len(tail) = IF n + 1 <= Len(all)
                         THEN Len(all) - (n + 1) + 1 ELSE 0
          /\ \A i \in 1 .. Len(all) - (n + 1) + 1 :
               tail[i] = all[n + 1 + i - 1]
      BY <1>1, <2>1, SubSeqProperties
    <3>. HIDE DEF tail
    <3>. QED
      BY <1>1, <3>1
  <2>. HIDE DEF tail
  <2>3. tail = rest
    BY <1>1, <2>2, SeqEqual
  <2>. QED
    BY <2>3 DEF tail
<1>. QED
  BY <1>1, <1>3, <1>4 DEF n, all

LEMMA AppendBehind ==
  ASSUME NEW S, NEW batch \in Seq(S), NEW rest \in Seq(S), NEW e \in S
  PROVE  batch \o Append(rest, e) = Append(batch \o rest, e)
<1>1. <<e>> \in Seq(S)
  OBVIOUS
<1>2. /\ Append(rest, e) = rest \o <<e>>
      /\ batch \o rest \in Seq(S)
      /\ Append(batch \o rest, e) = (batch \o rest) \o <<e>>
  BY AppendIsConcat, ConcatProperties
<1>. QED
  BY <1>1, <1>2, ConcatAssociative

(* The batch on its way is in _sendEvent exactly while a thread is between *)
(* Drain and the outcome of WSASend, and then no other thread is.          *)
LEMMA BatchFacts ==
  ASSUME IInv
  PROVE  /\ UnsentBatch \in Seq(Buffers)
         /\ \A t \in Threads :
              /\ pc[t] \in {"post", "failed"} =>
                   UnsentBatch = sendEvent.bufs /\ UnsentBatch # <<>>
              /\ Token(t) /\ pc[t] \notin {"post", "failed"} =>
                   UnsentBatch = <<>>
<1>. USE DEF IInv
<1>1. sendEvent.bufs \in Seq(Buffers) /\ <<>> \in Seq(Buffers)
  BY DEF TypeOK
<1>2. UnsentBatch \in Seq(Buffers)
  BY <1>1 DEF UnsentBatch
<1>3. ASSUME NEW t \in Threads, pc[t] \in {"post", "failed"}
      PROVE  UnsentBatch = sendEvent.bufs /\ UnsentBatch # <<>>
  BY <1>3 DEF UnsentBatch, EventInv
<1>4. ASSUME NEW t \in Threads, Token(t), pc[t] \notin {"post", "failed"}
      PROVE  UnsentBatch = <<>>
  <2>1. \A u \in Threads : pc[u] \notin {"post", "failed"}
    BY <1>4 DEF TokenInv, Token
  <2>. QED
    BY <2>1 DEF UnsentBatch
<1>. QED
  BY <1>2, <1>3, <1>4

(* A step that neither begins nor ends the way of a batch.                 *)
LEMMA SameBatch ==
  ASSUME IInv, NEW t \in Threads, NEW label \in Labels, Goto(t, label),
         UNCHANGED sendEvent,
         pc[t] \in {"post", "failed"} <=> label \in {"post", "failed"}
  PROVE  UnsentBatch' = UnsentBatch
<1>1. /\ pc'[t] = label
      /\ \A u \in Threads \ {t} : pc'[u] = pc[u]
  BY DEF IInv, TypeOK, Goto
<1>2. (\E u \in Threads : pc'[u] \in {"post", "failed"})
        <=> \E u \in Threads : pc[u] \in {"post", "failed"}
  BY <1>1
<1>. QED
  BY <1>2 DEF UnsentBatch

(* Each step puts a buffer at the end of the abstract queue, takes a batch *)
(* from its front, or changes neither it nor what was submitted.           *)
LEMMA OutboxStep ==
  ASSUME IInv, IInv', [Next]_vars
  PROVE  [Promise!Next]_(Promise!vars)
<1>. DEFINE Hidden == /\ UnsentBatch' \o sendQueue' = UnsentBatch \o sendQueue
                      /\ submitted' = submitted
<1>1. Hidden => UNCHANGED Promise!vars
  BY DEF Promise!vars
<1>. HIDE DEF Hidden
<1>2. ASSUME UNCHANGED <<sendEvent, pc, sendQueue, submitted>> PROVE Hidden
  BY <1>2 DEF Hidden, UnsentBatch
<1>3. ASSUME NEW t \in Threads, NEW b \in Buffers, Send(t, b) PROVE Hidden
  <2>1. UnsentBatch' = UnsentBatch
    BY <1>3, SameBatch DEF Send, Labels
  <2>. QED
    BY <1>3, <2>1 DEF Send, Hidden
<1>4. ASSUME NEW t \in Threads, Push(t) PROVE Promise!Next
  <2>1. UnsentBatch' = UnsentBatch
    BY <1>4, SameBatch DEF Push, Labels
  <2>2. arg[t] \in Buffers /\ sendQueue \in Seq(Buffers)
    BY <1>4 DEF Push, IInv, TypeOK
  <2>3. sendQueue' = Append(sendQueue, arg[t]) /\ submitted' = submitted
    BY <1>4 DEF Push, LongerQueue
  <2>4. UnsentBatch' \o sendQueue' = Append(UnsentBatch \o sendQueue, arg[t])
    BY <2>1, <2>2, <2>3, BatchFacts, AppendBehind
  <2>5. Promise!Enqueue(arg[t])
    BY <2>3, <2>4 DEF Promise!Enqueue
  <2>. QED
    BY <2>2, <2>5 DEF Promise!Next
<1>5. ASSUME NEW t \in Threads, Exchange(t) PROVE Hidden
  <2>1. UnsentBatch' = UnsentBatch
    <3>1. PICK label \in {"register", "idle"} : Goto(t, label)
      BY <1>5 DEF Exchange
    <3>. QED
      BY <1>5, <3>1, SameBatch DEF Exchange, Labels
  <2>. QED
    BY <1>5, <2>1 DEF Exchange, Hidden
<1>6. ASSUME NEW t \in Threads, RegisterCheck(t) \/ ProcessSend(t)
      PROVE  Hidden
  <2>1. /\ Token(t) /\ pc[t] \notin {"post", "failed"}
        /\ UNCHANGED <<sendQueue, submitted>>
    BY <1>6 DEF RegisterCheck, ProcessSend, Token
  <2>2. UnsentBatch = <<>>
    BY <2>1, BatchFacts
  <2>3. \E label \in {"idle", "drain", "recheck"} : Goto(t, label)
    BY <1>6 DEF RegisterCheck, ProcessSend, Return
  <2>4. /\ pc'[t] \notin {"post", "failed"}
        /\ \A u \in Threads \ {t} : pc'[u] = pc[u]
    BY <2>3 DEF Goto, IInv, TypeOK
  <2>5. \A u \in Threads : pc'[u] \notin {"post", "failed"}
    BY <2>1, <2>4 DEF IInv, TokenInv, Token
  <2>6. UnsentBatch' = <<>>
    BY <2>5 DEF UnsentBatch
  <2>. QED
    BY <2>1, <2>2, <2>6 DEF Hidden
<1>7. ASSUME NEW t \in Threads, Drain(t) PROVE Hidden
  <2>1. /\ pc[t] = "drain" /\ Token(t) /\ sendQueue' = <<>>
        /\ sendEvent' = [sendEvent EXCEPT !.bufs = @ \o sendQueue]
        /\ Goto(t, "post") /\ UNCHANGED submitted
    BY <1>7 DEF Drain, Token
  <2>2. UnsentBatch = <<>> /\ sendEvent.bufs = <<>>
    BY <2>1, BatchFacts DEF IInv, EventInv
  <2>3. sendQueue \in Seq(Buffers)
    BY DEF IInv, TypeOK
  <2>4. sendEvent'.bufs = <<>> \o sendQueue
    BY <2>1, <2>2 DEF IInv, TypeOK
  <2>5. pc'[t] = "post"
    BY <2>1 DEF Goto, IInv, TypeOK
  <2>6. UnsentBatch' = sendEvent'.bufs
    BY <2>5 DEF UnsentBatch
  <2>7. UnsentBatch' = sendQueue
    BY <2>3, <2>4, <2>6, ConcatEmptySeq
  <2>8. sendQueue \o <<>> = <<>> \o sendQueue
    BY <2>3, ConcatEmptySeq
  <2>. QED
    BY <2>1, <2>2, <2>7, <2>8 DEF Hidden
<1>8. ASSUME NEW t \in Threads, PostAccepted(t) \/ AbandonSend(t)
      PROVE  Promise!Next
  <2>1. /\ pc[t] \in {"post", "failed"} /\ Token(t)
        /\ Goto(t, "idle") /\ UNCHANGED sendQueue
        /\ \/ submitted' = submitted \o sendEvent.bufs
           \/ submitted' = submitted
    BY <1>8 DEF PostAccepted, AbandonSend, Token, Return
  <2>2. UnsentBatch = sendEvent.bufs /\ UnsentBatch # <<>>
    BY <2>1, BatchFacts
  <2>3. UnsentBatch \in Seq(Buffers) /\ sendQueue \in Seq(Buffers)
    BY BatchFacts DEF IInv, TypeOK
  <2>4. /\ pc'[t] = "idle"
        /\ \A u \in Threads \ {t} : pc'[u] = pc[u]
    BY <2>1 DEF Goto, IInv, TypeOK
  <2>5. \A u \in Threads : pc'[u] \notin {"post", "failed"}
    BY <2>1, <2>4 DEF IInv, TokenInv, Token
  <2>6. UnsentBatch' \o sendQueue' = sendQueue
    BY <2>1, <2>3, <2>5, ConcatEmptySeq DEF UnsentBatch
  <2>. DEFINE n == Len(UnsentBatch)
  <2>7. /\ n \in 1 .. Len(UnsentBatch \o sendQueue)
        /\ SubSeq(UnsentBatch \o sendQueue, 1, n) = UnsentBatch
        /\ SubSeq(UnsentBatch \o sendQueue, n + 1,
                  Len(UnsentBatch \o sendQueue)) = sendQueue
    <3>1. ASSUME NEW b \in Seq(Buffers), NEW q \in Seq(Buffers), b # <<>>
          PROVE  /\ Len(b) \in 1 .. Len(b \o q)
                 /\ SubSeq(b \o q, 1, Len(b)) = b
                 /\ SubSeq(b \o q, Len(b) + 1, Len(b \o q)) = q
      BY <3>1, Batches
    <3>. QED
      BY <2>2, <2>3, <3>1
  <2>. HIDE DEF n
  <2>8. Promise!Submit(n) \/ Promise!Discard(n)
    BY <2>1, <2>2, <2>6, <2>7 DEF Promise!Submit, Promise!Discard
  <2>. QED
    BY <2>7, <2>8 DEF Promise!Next
<1>9. ASSUME NEW t \in Threads, NEW error \in Errors, PostRejected(t, error)
      PROVE  Hidden
  <2>1. UnsentBatch' = UnsentBatch
    BY <1>9, SameBatch DEF PostRejected, Labels
  <2>. QED
    BY <1>9, <2>1 DEF PostRejected, Hidden
<1>10. ASSUME NEW t \in Threads, Recheck(t) \/ Quiesce(t) PROVE Hidden
  <2>1. UnsentBatch' = UnsentBatch
    <3>1. PICK label \in {"register", "quiesce", "idle"} : Goto(t, label)
      BY <1>10 DEF Recheck, Quiesce, QuiesceOrRegister, Return
    <3>. QED
      BY <1>10, <3>1, SameBatch DEF Recheck, Quiesce, Labels
  <2>. QED
    BY <1>10, <2>1 DEF Recheck, Quiesce, Hidden
<1>11. ASSUME NEW t \in Threads, NEW batch \in inFlight, NEW moved \in BOOLEAN,
              Complete(t, batch, moved)
       PROVE  Hidden
  <2>1. UnsentBatch' = UnsentBatch
    <3>1. PICK label \in {"sent", "zero"} : Goto(t, label)
      BY <1>11 DEF Complete
    <3>. QED
      BY <1>11, <3>1, SameBatch DEF Complete, Labels
  <2>. QED
    BY <1>11, <2>1 DEF Complete, Hidden
<1>12. ASSUME Disconnect \/ Quiescent \/ UNCHANGED vars PROVE Hidden
  BY <1>2, <1>12 DEF Disconnect, Quiescent, vars
<1>13. ASSUME NEW t \in Threads, Step(t) PROVE Hidden \/ Promise!Next
  BY <1>4, <1>5, <1>6, <1>7, <1>8, <1>9, <1>10, <1>13 DEF Step
<1>. QED
  BY <1>1, <1>3, <1>11, <1>12, <1>13 DEF Next, DispatchSome

(* Whatever the interleaving of callers and completions, the sending half  *)
(* is a FIFO whose buffers leave in batches, each batch once and in order, *)
(* or lost as a whole because WSASend refused it.                          *)
THEOREM Implements == Spec => ImplementsOutbox
<1>1. Init => Promise!Init
  <2>1. SUFFICES ASSUME Init PROVE Promise!Init
    OBVIOUS
  <2>2. UnsentBatch = <<>> /\ sendQueue = <<>> /\ submitted = <<>>
    BY <2>1 DEF Init, UnsentBatch
  <2>3. <<>> \o <<>> = <<>>
    BY EmptySeq, ConcatEmptySeq
  <2>. QED
    BY <2>2, <2>3 DEF Promise!Init
<1>. QED
  BY <1>1, OutboxStep, Inductive, PTL DEF Spec, ImplementsOutbox, Promise!Spec
=============================================================================
