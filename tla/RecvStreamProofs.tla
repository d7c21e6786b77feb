-------------------------- MODULE RecvStreamProofs --------------------------
(***************************************************************************)
(* Proofs about RecvStream, for every buffer, every set of packet sizes,   *)
(* any number of packets and every segmentation of the stream.  What they  *)
(* rest on is that less than BUFFER_SIZE is left unread when OnRecv        *)
(* returns, that the buffer is at least three times as long, and that the  *)
(* bytes not parsed yet can be cut into the packets not delivered yet.     *)
(***************************************************************************)
EXTENDS RecvStream, SequenceTheorems, WellFoundedInduction, TLAPS

(* The window of the outstanding receive is what is free, and enough.      *)
WindowInv ==
  /\ pc = "posted" => window = [pos |-> writePos, len |-> FreeSize]
  /\ pc \in {"register", "posted"} => FreeSize >= BufferSize

(* Unread cells hold bytes of packets that were sent. *)
DataInv ==
  /\ \A i \in readPos .. writePos - 1 : buffer[i] # Stale
  /\ \A i \in Cells : buffer[i] # Stale => buffer[i][1] \in DOMAIN sent
  /\ \A i \in 1 .. Len(wire) : wire[i][1] \in DOMAIN sent

(* How far OnRecv gets, and what it leaves. *)
ParseInv ==
  /\ pc = "parse" => processed <= DataSize
  /\ pc # "parse" => processed = 0
  /\ pc = "clean" => DataSize < BufferSize

IInv == TypeOK /\ WindowInv /\ DataInv /\ ParseInv

(* The stream that OnRecv has still to parse: the unread bytes of the      *)
(* buffer, then those under way.                                           *)
Unread == Remaining + Len(wire)
Byte(i) == IF i <= Remaining THEN buffer[HeaderPos + i - 1]
                             ELSE wire[i - Remaining]

(* The stream is cut into the packets that are not delivered yet; packet k *)
(* is what follows the first cut[k] bytes.                                 *)
Undelivered == Len(delivered) + 1 .. Len(sent)
CutAt(cut) ==
  /\ cut[Len(delivered) + 1] = 0 /\ cut[Len(sent) + 1] = Unread
  /\ \A p, q \in DOMAIN cut : p <= q => cut[p] <= cut[q]
  /\ \A k \in Undelivered :
       /\ cut[k + 1] = cut[k] + sent[k]
       /\ \A j \in 1 .. sent[k] : Byte(cut[k] + j) = <<k, j>>
StreamInv ==
  /\ Len(delivered) <= Len(sent)
  /\ \E cut \in [Len(delivered) + 1 .. Len(sent) + 1 -> 0 .. Unread] :
       CutAt(cut)

-----------------------------------------------------------------------------
(* The buffer has room for three packets of the largest size. *)
LEMMA CapacityFacts ==
  /\ BufferSize \in Nat /\ BufferSize > 0
  /\ Capacity \in Nat
  /\ Capacity >= 3 * BufferSize
<1>1. BufferSize \in Nat /\ BufferSize > 0
  BY SizesAssumption
<1>2. PICK k \in Nat : BufferCount = 3 + k
  <2>1. BufferCount - 3 \in Nat /\ BufferCount = 3 + (BufferCount - 3)
    BY BufferCountAssumption
  <2>. QED
    BY <2>1
<1>3. BufferSize * k \in Nat
  BY <1>1, <1>2
<1>4. Capacity = 3 * BufferSize + BufferSize * k
  BY <1>1, <1>2 DEF Capacity
<1>. QED
  BY <1>1, <1>3, <1>4

(* header.size is that of a packet, and no packet outgrows BUFFER_SIZE. *)
LEMMA HeaderFieldFacts ==
  ASSUME TypeOK, DataInv, ParseInv, pc = "parse", Remaining >= HeaderSize
  PROVE  HeaderField \in 0 .. BufferSize
<1>1. HeaderPos \in Cells /\ HeaderPos \in readPos .. writePos - 1
  BY CapacityFacts, SizesAssumption
  DEF TypeOK, ParseInv, HeaderPos, Remaining, DataSize, Cells
<1>2. buffer[HeaderPos][1] \in DOMAIN sent
  BY <1>1 DEF DataInv
<1>3. sent[buffer[HeaderPos][1]] \in Sizes
  BY <1>2 DEF TypeOK
<1>4. HeaderField = sent[buffer[HeaderPos][1]] \/ HeaderField = 0
  BY DEF HeaderField
<1>5. sent[buffer[HeaderPos][1]] \in 0 .. BufferSize
  <2>1. Sizes \subseteq 0 .. BufferSize
    BY SizesAssumption
  <2>. QED
    BY <1>3, <2>1
<1>6. 0 \in 0 .. BufferSize
  BY CapacityFacts
<1>. QED
  BY <1>4, <1>5, <1>6

(* What OnRecv leaves unread is a part of one packet. *)
LEMMA RestIsShort ==
  ASSUME TypeOK, DataInv, ParseInv, pc = "parse", ~WholePacket
  PROVE  Remaining \in 0 .. BufferSize - 1
<1>1. Remaining \in Nat
  BY DEF TypeOK, ParseInv, Remaining, DataSize
<1>2. CASE Remaining < HeaderSize
  BY <1>1, <1>2, SizesAssumption
<1>3. CASE Remaining >= HeaderSize
  <2>1. HeaderField \in 0 .. BufferSize
    BY <1>3, HeaderFieldFacts
  <2>. QED
    BY <1>1, <1>3, <2>1, CapacityFacts DEF WholePacket
<1>. QED
  BY <1>1, <1>2, <1>3, SizesAssumption

-----------------------------------------------------------------------------
LEMMA InitIInv == Init => IInv
<1>. SUFFICES ASSUME Init PROVE IInv
  OBVIOUS
<1>1. TypeOK
  <2>1. <<>> \in Seq(Sizes) /\ <<>> \in Seq(Bytes) /\ <<>> \in Seq(Seq(Bytes))
    OBVIOUS
  <2>2. buffer \in [Cells -> Bytes \cup {Stale}]
    BY DEF Init
  <2>. QED
    BY <2>1, <2>2, CapacityFacts DEF Init, TypeOK, NoWindow
<1>2. WindowInv /\ DataInv /\ ParseInv
  BY CapacityFacts
  DEF Init, WindowInv, DataInv, ParseInv, FreeSize, DataSize, Cells
<1>. QED
  BY <1>1, <1>2 DEF IInv

LEMMA PeerSendStep ==
  ASSUME IInv, NEW size \in Sizes, PeerSend(size)
  PROVE  IInv'
<1>. DEFINE packet == [j \in 1 .. size |-> <<Len(sent) + 1, j>>]
<1>. USE DEF IInv, PeerSend
<1>1. size \in Nat
  BY SizesAssumption
<1>2. packet \in Seq(Bytes) /\ Len(packet) = size
  <2>. HIDE DEF IInv, PeerSend
  <2>1. Len(sent) + 1 \in Nat
    BY DEF IInv, TypeOK
  <2>2. \A j \in 1 .. size : <<Len(sent) + 1, j>> \in Bytes
    BY <1>1, <2>1 DEF Bytes
  <2>. QED
    BY <1>1, <2>2
<1>3. wire \in Seq(Bytes) /\ Len(sent) \in Nat
  BY DEF TypeOK
<1>4. /\ wire' \in Seq(Bytes)
      /\ Len(wire') = Len(wire) + size
      /\ \A i \in 1 .. Len(wire) + size :
           wire'[i] = IF i <= Len(wire) THEN wire[i] ELSE packet[i - Len(wire)]
  <2>1. wire' = wire \o packet
    OBVIOUS
  <2>. HIDE DEF packet, PeerSend, IInv
  <2>2. /\ wire \o packet \in Seq(Bytes)
        /\ Len(wire \o packet) = Len(wire) + Len(packet)
        /\ \A i \in 1 .. Len(wire) + Len(packet) :
             (wire \o packet)[i] =
               IF i <= Len(wire) THEN wire[i] ELSE packet[i - Len(wire)]
    BY <1>2, <1>3, ConcatProperties
  <2>. QED
    BY <1>2, <2>1, <2>2
<1>5. sent' \in Seq(Sizes) /\ DOMAIN sent' = 1 .. Len(sent) + 1
  BY DEF TypeOK
<1>6. TypeOK'
  BY <1>4, <1>5 DEF TypeOK
<1>7. DataInv'
  <2>1. DOMAIN sent \subseteq DOMAIN sent'
    BY <1>5 DEF TypeOK
  <2>2. ASSUME NEW i \in 1 .. Len(wire') PROVE wire'[i][1] \in DOMAIN sent'
    <3>1. CASE i <= Len(wire)
      BY <1>3, <1>4, <2>1, <3>1 DEF DataInv
    <3>2. CASE ~(i <= Len(wire))
      <4>1. wire'[i] = packet[i - Len(wire)] /\ i - Len(wire) \in 1 .. size
        BY <1>1, <1>3, <1>4, <3>2
      <4>2. wire'[i][1] = Len(sent) + 1
        <5>1. wire'[i] = <<Len(sent) + 1, i - Len(wire)>>
          BY <4>1
        <5>2. \A a, b : <<a, b>>[1] = a
          OBVIOUS
        <5>. QED
          BY <5>1, <5>2
      <4>3. Len(sent) + 1 \in DOMAIN sent'
        BY <1>5 DEF TypeOK
      <4>. QED
        BY <4>2, <4>3
    <3>. QED
      BY <3>1, <3>2
  <2>. QED
    BY <2>1, <2>2 DEF DataInv, Cells
<1>8. WindowInv' /\ ParseInv'
  BY DEF WindowInv, ParseInv, FreeSize, DataSize
<1>. QED
  BY <1>6, <1>7, <1>8

LEMMA RegisterRecvStep ==
  ASSUME IInv, RegisterRecv
  PROVE  IInv'
<1>. USE DEF IInv, RegisterRecv
<1>1. TypeOK'
  <2>1. [pos |-> writePos, len |-> FreeSize]
          \in [pos : 0 .. Capacity, len : 0 .. Capacity]
    BY CapacityFacts DEF TypeOK, FreeSize
  <2>2. window' \in [pos : 0 .. Capacity, len : 0 .. Capacity]
    BY <2>1 DEF TypeOK, WindowLen
  <2>3. connected' \in BOOLEAN
    BY DEF TypeOK
  <2>. QED
    BY <2>2, <2>3 DEF TypeOK
<1>2. WindowInv'
  BY DEF WindowInv, WindowLen, FreeSize
<1>3. DataInv' /\ ParseInv'
  BY DEF DataInv, ParseInv, DataSize, Cells
<1>. QED
  BY <1>1, <1>2, <1>3

LEMMA ReceiveEffect ==
  ASSUME IInv, NEW n \in 1 .. Len(wire), Receive(n)
  PROVE  /\ wire \in Seq(Bytes) /\ Len(wire) \in Nat /\ n \in Nat
         /\ n <= FreeSize
         /\ writePos' = writePos + n /\ pc' = "parse" /\ UNCHANGED connected
         /\ wire' \in Seq(Bytes) /\ Len(wire') = Len(wire) - n
         /\ \A i \in 1 .. Len(wire) - n : wire'[i] = wire[n + i]
         /\ \A i \in Cells :
              buffer'[i] = IF i \in writePos .. writePos + n - 1
                           THEN wire[i - writePos + 1]
                           ELSE buffer[i]
<1>. USE DEF IInv, Receive
<1>1. /\ wire \in Seq(Bytes) /\ Len(wire) \in Nat /\ n \in Nat
      /\ window = [pos |-> writePos, len |-> FreeSize]
      /\ n <= FreeSize
  BY DEF TypeOK, WindowInv
<1>2. /\ writePos' = writePos + n
      /\ pc' = "parse"
      /\ UNCHANGED connected
  BY <1>1, CapacityFacts DEF OnWrite, FreeSize, TypeOK
<1>3. /\ wire' \in Seq(Bytes)
      /\ Len(wire') = Len(wire) - n
      /\ \A i \in 1 .. Len(wire) - n : wire'[i] = wire[n + i]
  <2>1. \A i \in n + 1 .. Len(wire) : wire[i] \in Bytes
    BY <1>1
  <2>2. wire' = SubSeq(wire, n + 1, Len(wire))
    OBVIOUS
  <2>. QED
    BY <1>1, <2>1, <2>2, SubSeqProperties
<1>4. \A i \in Cells :
        buffer'[i] = IF i \in writePos .. writePos + n - 1
                     THEN wire[i - writePos + 1]
                     ELSE buffer[i]
  BY <1>1
<1>. QED
  BY <1>1, <1>2, <1>3, <1>4

LEMMA ReceiveStep ==
  ASSUME IInv, NEW n \in 1 .. Len(wire), Receive(n)
  PROVE  IInv' /\ pc' = "parse"
<1>. USE DEF IInv, Receive
<1>1. /\ wire \in Seq(Bytes) /\ Len(wire) \in Nat /\ n \in Nat
      /\ n <= FreeSize
  BY ReceiveEffect
<1>2. /\ writePos' = writePos + n
      /\ pc' = "parse"
      /\ UNCHANGED connected
  BY ReceiveEffect
<1>3. /\ wire' \in Seq(Bytes)
      /\ Len(wire') = Len(wire) - n
      /\ \A i \in 1 .. Len(wire) - n : wire'[i] = wire[n + i]
  BY ReceiveEffect
<1>4. \A i \in Cells :
        buffer'[i] = IF i \in writePos .. writePos + n - 1
                     THEN wire[i - writePos + 1]
                     ELSE buffer[i]
  BY ReceiveEffect
<1>5. \A i \in writePos .. writePos + n - 1 :
        i - writePos + 1 \in 1 .. Len(wire)
  <2>1. n \in Nat /\ n <= Len(wire) /\ Len(wire) \in Nat /\ writePos \in Nat
    BY <1>1 DEF TypeOK
  <2> QED BY <2>1
<1>6. TypeOK'
  <2>1. buffer' \in [Cells -> Bytes \cup {Stale}]
    <3>1. ASSUME NEW i \in Cells
          PROVE  buffer'[i] \in Bytes \cup {Stale}
      <4>1. CASE i \in writePos .. writePos + n - 1
        BY <1>1, <1>4, <1>5, <4>1
      <4>2. CASE i \notin writePos .. writePos + n - 1
        BY <1>4, <4>2 DEF TypeOK
      <4>. QED
        BY <4>1, <4>2
    <3>. QED
      BY <3>1
  <2>2. readPos' \in Nat /\ writePos' \in Nat /\ readPos' <= writePos'
        /\ writePos' <= Capacity
    BY <1>1, <1>2, CapacityFacts DEF TypeOK, FreeSize
  <2>3. window' \in [pos : 0 .. Capacity, len : 0 .. Capacity]
    BY CapacityFacts DEF NoWindow
  <2>. QED
    BY <1>2, <1>3, <2>1, <2>2, <2>3 DEF TypeOK
<1>7. DataInv'
  <2>1. ASSUME NEW i \in readPos' .. writePos' - 1 PROVE buffer'[i] # Stale
    <3>1. i \in Cells
      BY <1>1, <1>2, CapacityFacts DEF TypeOK, FreeSize, Cells
    <3>2. CASE i < writePos
      BY <1>1, <1>4, <3>1, <3>2 DEF DataInv, TypeOK
    <3>3. CASE i >= writePos
      <4>1. buffer'[i] = wire[i - writePos + 1]
        BY <1>1, <1>2, <1>4, <3>1, <3>3 DEF TypeOK
      <4>2. wire[i - writePos + 1] \in Bytes
        BY <1>1, <1>2, <1>5, <3>3 DEF TypeOK
      <4>. QED
        BY <4>1, <4>2, StaleAssumption DEF Bytes
    <3>. QED
      BY <1>2, <3>2, <3>3 DEF TypeOK
  <2>2. ASSUME NEW i \in Cells, buffer'[i] # Stale
        PROVE  buffer'[i][1] \in DOMAIN sent'
    BY <1>4, <1>5, <2>2 DEF DataInv
  <2>3. ASSUME NEW i \in 1 .. Len(wire') PROVE wire'[i][1] \in DOMAIN sent'
    <3>1. wire'[i] = wire[n + i] /\ n + i \in 1 .. Len(wire)
      <4>. HIDE DEF IInv, Receive
      <4>. QED
        BY <1>1, <1>3
    <3>2. wire[n + i][1] \in DOMAIN sent
      BY <3>1 DEF DataInv
    <3>. QED
      BY <3>1, <3>2
  <2>. QED
    BY <2>1, <2>2, <2>3 DEF DataInv, Cells
<1>8. WindowInv' /\ ParseInv'
  BY <1>1, <1>2 DEF WindowInv, ParseInv, DataSize, TypeOK
<1>. QED
  BY <1>2, <1>6, <1>7, <1>8

LEMMA ReceiveNothingStep ==
  ASSUME IInv, ReceiveNothing
  PROVE  IInv'
<1>. USE DEF IInv, ReceiveNothing
<1>1. TypeOK'
  <2>1. NoWindow \in [pos : 0 .. Capacity, len : 0 .. Capacity]
    BY CapacityFacts DEF NoWindow
  <2>. QED
    BY <2>1 DEF TypeOK
<1>2. WindowInv' /\ DataInv' /\ ParseInv'
  BY DEF WindowInv, DataInv, ParseInv, DataSize, Cells
<1>. QED
  BY <1>1, <1>2

LEMMA ParsePacketStep ==
  ASSUME IInv, ParsePacket
  PROVE  IInv'
<1>. USE DEF IInv, ParsePacket
<1>1. /\ HeaderField \in Nat
      /\ Remaining >= HeaderField
      /\ Remaining = writePos - readPos - processed
      /\ HeaderPos = readPos + processed
  <2>1. HeaderField \in 0 .. BufferSize
    BY HeaderFieldFacts DEF WholePacket
  <2>. QED
    BY <2>1, CapacityFacts DEF WholePacket, Remaining, HeaderPos, DataSize
<1>2. Slice(HeaderPos, HeaderField) \in Seq(Bytes)
  <2>1. ASSUME NEW i \in 1 .. HeaderField
        PROVE  buffer[HeaderPos + i - 1] \in Bytes
    <3>1. /\ HeaderPos + i - 1 \in Cells
          /\ HeaderPos + i - 1 \in readPos .. writePos - 1
      BY <1>1, CapacityFacts DEF TypeOK, ParseInv, DataSize, Cells
    <3>. QED
      BY <3>1 DEF TypeOK, DataInv
  <2>. QED
    BY <1>1, <2>1 DEF Slice
<1>3. processed' = processed + HeaderField /\ processed' \in 0 .. Capacity
  BY <1>1, CapacityFacts DEF TypeOK, ParseInv, DataSize
<1>4. TypeOK'
  <2>1. delivered' \in Seq(Seq(Bytes))
    BY <1>2 DEF TypeOK
  <2>. QED
    BY <1>3, <2>1 DEF TypeOK
<1>5. ParseInv'
  BY <1>1, <1>3 DEF TypeOK, ParseInv, DataSize
<1>6. WindowInv' /\ DataInv'
  BY DEF WindowInv, DataInv, FreeSize, Cells
<1>. QED
  BY <1>4, <1>5, <1>6

LEMMA EndOfParseStep ==
  ASSUME IInv, EndOfParse
  PROVE  IInv' /\ pc' = "clean"
<1>. USE DEF IInv, EndOfParse
<1>1. /\ processed \in Nat
      /\ processed <= DataSize
      /\ DataSize = writePos - readPos
      /\ DataSize - processed < BufferSize
  <2>1. Remaining \in 0 .. BufferSize - 1
    BY RestIsShort
  <2>. QED
    BY <2>1, CapacityFacts DEF TypeOK, ParseInv, Remaining, DataSize
<1>2. /\ readPos' = readPos + processed
      /\ pc' = "clean"
      /\ UNCHANGED connected
  BY <1>1 DEF OnRead, TypeOK
<1>3. TypeOK'
  BY <1>1, <1>2, CapacityFacts DEF TypeOK
<1>4. DataInv'
  BY <1>1, <1>2 DEF TypeOK, DataInv, Cells
<1>5. WindowInv' /\ ParseInv'
  BY <1>1, <1>2 DEF TypeOK, WindowInv, ParseInv, DataSize
<1>. QED
  BY <1>2, <1>3, <1>4, <1>5

(* The unread data is at the end of a long buffer when it is moved, so it  *)
(* is moved by more than its length.                                       *)
LEMMA MovedClear ==
  ASSUME IInv, pc = "clean", LowOnSpace
  PROVE  DataSize <= readPos
BY CapacityFacts
DEF IInv, TypeOK, ParseInv, LowOnSpace, FreeSize, DataSize

LEMMA CleanStep ==
  ASSUME IInv, Clean
  PROVE  IInv'
<1>. USE DEF IInv
<1>1. /\ DataSize = writePos - readPos /\ DataSize \in Nat
      /\ DataSize < BufferSize
      /\ FreeSize = Capacity - writePos
      /\ pc' = "register"
      /\ UNCHANGED <<sent, wire, window, processed, delivered, connected>>
  BY DEF Clean, TypeOK, ParseInv, DataSize, FreeSize
<1>2. CASE DataSize = 0 /\ readPos' = 0 /\ writePos' = 0 /\ UNCHANGED buffer
  <2>1. TypeOK'
    BY <1>1, <1>2, CapacityFacts DEF TypeOK
  <2>2. WindowInv' /\ DataInv' /\ ParseInv'
    BY <1>1, <1>2, CapacityFacts
    DEF WindowInv, DataInv, ParseInv, FreeSize, DataSize, Cells, Clean
  <2>. QED
    BY <2>1, <2>2
<1>3. CASE LowOnSpace /\ Compact
  <2>1. DataSize <= readPos
    BY <1>3, MovedClear DEF Clean
  <2>2. readPos' = 0 /\ writePos' = DataSize
    BY <1>3 DEF Compact, CompactedPos
  <2>3. /\ buffer' \in [Cells -> Bytes \cup {Stale}]
        /\ \A i \in Cells :
             buffer'[i] = IF i >= DataSize THEN buffer[i]
                                           ELSE buffer[readPos + i]
    <3>1. buffer' = [i \in Cells |-> IF i >= DataSize THEN buffer[i]
                                                    ELSE buffer[readPos + i]]
      BY <1>1, <1>3, <2>1, CapacityFacts DEF Compact, Cells, TypeOK
    <3>2. \A i \in Cells : i < DataSize => readPos + i \in Cells
      BY <1>1, CapacityFacts DEF TypeOK, Cells
    <3>. QED
      BY <1>1, <3>1, <3>2, CapacityFacts DEF TypeOK, Cells
  <2>4. \A i \in 0 .. DataSize - 1 :
          /\ i \in Cells
          /\ readPos + i \in readPos .. writePos - 1
          /\ readPos + i \in Cells
    BY <1>1, CapacityFacts DEF TypeOK, Cells
  <2>5. TypeOK'
    BY <1>1, <2>2, <2>3, CapacityFacts DEF TypeOK
  <2>6. DataInv'
    <3>1. ASSUME NEW i \in readPos' .. writePos' - 1 PROVE buffer'[i] # Stale
      <4>1. buffer'[i] = buffer[readPos + i]
        BY <1>1, <2>2, <2>3, <2>4
      <4>. QED
        BY <2>2, <2>4, <4>1 DEF DataInv
    <3>2. ASSUME NEW i \in Cells, buffer'[i] # Stale
          PROVE  buffer'[i][1] \in DOMAIN sent
      <4>1. CASE i >= DataSize
        BY <2>3, <3>2, <4>1 DEF DataInv
      <4>2. CASE ~(i >= DataSize)
        <5>1. buffer'[i] = buffer[readPos + i] /\ readPos + i \in Cells
          BY <1>1, <2>3, <2>4, <4>2, CapacityFacts DEF Cells
        <5>. QED
          BY <3>2, <5>1 DEF DataInv
      <4>. QED
        BY <4>1, <4>2
    <3>. QED
      BY <1>1, <3>1, <3>2 DEF DataInv, Cells
  <2>7. WindowInv' /\ ParseInv'
    BY <1>1, <2>2, CapacityFacts
    DEF WindowInv, ParseInv, FreeSize, DataSize, Clean
  <2>. QED
    BY <2>5, <2>6, <2>7
<1>4. CASE ~LowOnSpace /\ UNCHANGED <<buffer, readPos, writePos>>
  <2>1. TypeOK'
    BY <1>1, <1>4 DEF TypeOK
  <2>2. WindowInv' /\ DataInv' /\ ParseInv'
    BY <1>1, <1>4, CapacityFacts
    DEF WindowInv, DataInv, ParseInv, FreeSize, DataSize, Cells, LowOnSpace,
        Clean, TypeOK
  <2>. QED
    BY <2>1, <2>2
<1>. QED
  BY <1>2, <1>3, <1>4 DEF Clean

LEMMA Stutter ==
  ASSUME IInv, UNCHANGED vars
  PROVE  IInv'
BY DEF IInv, vars, TypeOK, WindowInv, DataInv, ParseInv, FreeSize, DataSize,
       Cells

LEMMA DisconnectStep ==
  ASSUME IInv, Disconnect
  PROVE  IInv'
BY DEF Disconnect, IInv, TypeOK, WindowInv, DataInv, ParseInv, FreeSize,
       DataSize, Cells

LEMMA NextStep == IInv /\ [Next]_vars => IInv'
<1>. SUFFICES ASSUME IInv, [Next]_vars PROVE IInv'
  OBVIOUS
<1>1. ASSUME NEW size \in Sizes, PeerSend(size) PROVE IInv'
  BY <1>1, PeerSendStep
<1>2. CASE ReceiveSome
  BY <1>2, ReceiveStep DEF ReceiveSome
<1>3. CASE ReceiveNothing
  BY <1>3, ReceiveNothingStep
<1>4. CASE Process
  BY <1>4, RegisterRecvStep, ParsePacketStep, EndOfParseStep, CleanStep
  DEF Process
<1>5. CASE Disconnect
  BY <1>5, DisconnectStep
<1>6. CASE Quiescent
  BY <1>6, Stutter DEF Quiescent
<1>7. CASE UNCHANGED vars
  BY <1>7, Stutter
<1>. QED
  BY <1>1, <1>2, <1>3, <1>4, <1>5, <1>6, <1>7 DEF Next

LEMMA Inductive == Spec => []IInv
BY InitIInv, NextStep, PTL DEF Spec

-----------------------------------------------------------------------------
(* The cursors stay in order and within the buffer, every receive window  *)
(* too, and OnRecvPacket is given only bytes that were received.           *)
THEOREM Typing == Spec => []TypeOK
<1>1. IInv => TypeOK
  BY DEF IInv
<1>. QED
  BY <1>1, Inductive, PTL

(* Every WSARecv has room for a full BUFFER_SIZE, all of it free, so a     *)
(* receive of no bytes always means the end of the connection.             *)
THEOREM WindowIsFree == Spec => []WindowFits
<1>1. IInv => WindowFits
  BY CapacityFacts DEF IInv, TypeOK, WindowInv, WindowFits, FreeSize
<1>. QED
  BY <1>1, Inductive, PTL

(* The memcpy of RecvBuffer::Clean never copies onto its own source.       *)
THEOREM CopyIsDefined == Spec => []CopyDisjoint
<1>1. IInv => CopyDisjoint
  BY MovedClear DEF CopyDisjoint
<1>. QED
  BY <1>1, Inductive, PTL

(* No session is ever disconnected for an overflow of its RecvBuffer.      *)
THEOREM OverflowFree == Spec => NoOverflow
<1>1. IInv /\ [Next]_vars =>
        [ /\ ReceiveSome => pc' = "parse"
          /\ EndOfParse => pc' = "clean" ]_vars
  BY ReceiveStep, EndOfParseStep DEF ReceiveSome
<1>. QED
  BY <1>1, Inductive, PTL DEF Spec, NoOverflow

-----------------------------------------------------------------------------
(* OnRecvPacket sees the packets one by one, as PacketChannel says: no     *)
(* step but PeerSend and ParsePacket changes the stream that is left.      *)
LEMMA UnreadFacts ==
  ASSUME IInv
  PROVE  /\ Remaining \in Nat /\ Len(wire) \in Nat /\ Unread \in Nat
         /\ HeaderPos \in Nat /\ wire \in Seq(Bytes)
         /\ Remaining = writePos - readPos - processed
         /\ HeaderPos = readPos + processed
         /\ HeaderPos + Remaining = writePos /\ writePos <= Capacity
         /\ Len(sent) \in Nat /\ Len(delivered) \in Nat
<1>1. Remaining \in Nat /\ HeaderPos \in Nat
  BY CapacityFacts
  DEF IInv, TypeOK, ParseInv, Remaining, HeaderPos, DataSize
<1>2. Len(wire) \in Nat /\ Len(sent) \in Nat /\ Len(delivered) \in Nat
  BY DEF IInv, TypeOK
<1> QED BY <1>1, <1>2 DEF IInv, TypeOK, Unread, Remaining, HeaderPos, DataSize

LEMMA SizeFacts ==
  ASSUME IInv, NEW k \in 1 .. Len(sent)
  PROVE  sent[k] \in Nat /\ sent[k] > 0
<1>1. sent[k] \in Sizes
  BY DEF IInv, TypeOK
<1>2. Sizes \subseteq Nat \ {0}
  BY SizesAssumption
<1>3. \A x \in Nat \ {0} : x \in Nat /\ x > 0
  OBVIOUS
<1> QED BY <1>1, <1>2, <1>3

(* The j-th byte of what ends at to.                                       *)
LEMMA Within ==
  ASSUME NEW from \in Nat, NEW to \in Nat, NEW end \in Nat, NEW size \in Nat,
         NEW j \in 1 .. size, to = from + size, to <= end
  PROVE  from + j \in 1 .. end
OBVIOUS

(* A position of what is left once the first size of to have gone.         *)
LEMMA Shifted ==
  ASSUME NEW pos \in Int, NEW left \in Nat, NEW size \in Nat, NEW i \in Nat
  PROVE  /\ i <= left - size <=> i + size <= left
         /\ (pos + size) + i - 1 = pos + (i + size) - 1
         /\ i - (left - size) = (i + size) - left
OBVIOUS

LEMMA CutShifted ==
  ASSUME NEW total \in Nat, NEW size \in Nat, NEW c \in size .. total
  PROVE  c - size \in Nat /\ c - size <= total - size
OBVIOUS

LEMMA StreamKept ==
  ASSUME IInv, StreamInv, UNCHANGED <<sent, delivered>>, Unread' = Unread,
         \A i \in 1 .. Unread : Byte(i)' = Byte(i)
  PROVE  StreamInv'
<1>1. PICK cut \in [Len(delivered) + 1 .. Len(sent) + 1 -> 0 .. Unread] :
        CutAt(cut)
  BY DEF StreamInv
<1>2. Undelivered' = Undelivered
  BY DEF Undelivered
<1>3. ASSUME NEW k \in Undelivered, NEW j \in 1 .. sent[k]
      PROVE  Byte(cut[k] + j)' = <<k, j>>
  <2>1. Byte(cut[k] + j) = <<k, j>> /\ cut[k + 1] = cut[k] + sent[k]
    BY <1>1 DEF CutAt
  <2>2. k \in DOMAIN cut /\ k + 1 \in DOMAIN cut
    BY UnreadFacts DEF Undelivered
  <2>3. cut[k] \in 0 .. Unread /\ cut[k + 1] \in 0 .. Unread
    BY <2>2
  <2>4. cut[k] + j \in 1 .. Unread
    <3>1. sent[k] \in Nat
      BY UnreadFacts, SizeFacts DEF Undelivered
    <3>2. Unread \in Nat
      BY UnreadFacts
    <3>3. /\ cut[k] \in Nat /\ cut[k + 1] \in Nat /\ cut[k + 1] <= Unread
          /\ cut[k + 1] = cut[k] + sent[k]
      BY <2>1, <2>3, <3>2
    <3> QED BY <3>1, <3>2, <3>3, Within
  <2> QED BY <2>1, <2>4
<1>4. CutAt(cut)'
  BY <1>1, <1>2, <1>3 DEF CutAt
<1> QED BY <1>1, <1>4 DEF StreamInv

(* Bytes that stay where they are. *)
LEMMA StreamStays ==
  ASSUME IInv, StreamInv,
         UNCHANGED <<sent, delivered, wire, buffer, HeaderPos, Remaining>>
  PROVE  StreamInv'
<1>1. Unread' = Unread
  BY DEF Unread
<1>2. \A i \in 1 .. Unread : Byte(i)' = Byte(i)
  BY DEF Byte
<1> QED BY <1>1, <1>2, StreamKept

LEMMA PeerSendStream ==
  ASSUME IInv, StreamInv, NEW size \in Sizes, PeerSend(size)
  PROVE  StreamInv'
<1> DEFINE packet == [j \in 1 .. size |-> <<Len(sent) + 1, j>>]
           last == Len(sent) + 1
<1>1. PICK cut \in [Len(delivered) + 1 .. Len(sent) + 1 -> 0 .. Unread] :
        CutAt(cut)
  BY DEF StreamInv
<1>2. size \in Nat /\ Len(delivered) <= Len(sent)
  BY SizesAssumption DEF StreamInv
<1>3. packet \in Seq(Bytes) /\ Len(packet) = size
  <2>1. last \in Nat
    BY UnreadFacts
  <2>2. \A j \in 1 .. size : <<last, j>> \in Bytes
    BY <1>2, <2>1 DEF Bytes
  <2> QED BY <1>2, <2>2
<1>4. sent' = Append(sent, size) /\ wire' = wire \o packet
  BY DEF PeerSend
<1>5. /\ delivered' = delivered /\ Remaining' = Remaining
      /\ HeaderPos' = HeaderPos /\ buffer' = buffer
  BY DEF PeerSend, Remaining, HeaderPos, DataSize
<1>6. /\ Len(sent') = Len(sent) + 1 /\ sent'[last] = size
      /\ \A k \in 1 .. Len(sent) : sent'[k] = sent[k]
  <2>1. sent \in Seq(Sizes)
    BY DEF IInv, TypeOK
  <2> QED BY <1>4, <2>1
<1> HIDE DEF packet
<1>7. /\ Len(wire') = Len(wire) + size
      /\ \A i \in 1 .. Len(wire) : wire'[i] = wire[i]
      /\ \A j \in 1 .. size : wire'[Len(wire) + j] = packet[j]
  <2>1. /\ Len(wire \o packet) = Len(wire) + Len(packet)
        /\ \A i \in 1 .. Len(wire) + Len(packet) :
             (wire \o packet)[i] =
               IF i <= Len(wire) THEN wire[i] ELSE packet[i - Len(wire)]
    BY <1>3, UnreadFacts, ConcatProperties
  <2>2. ASSUME NEW j \in 1 .. size
        PROVE  /\ Len(wire) + j \in 1 .. Len(wire) + size
               /\ ~(Len(wire) + j <= Len(wire))
               /\ Len(wire) + j - Len(wire) = j
    BY <1>2, UnreadFacts
  <2>3. \A i \in 1 .. Len(wire) : i \in 1 .. Len(wire) + size /\ i <= Len(wire)
    BY <1>2, UnreadFacts
  <2> QED BY <1>3, <1>4, <2>1, <2>2, <2>3
<1>8. Unread' = Unread + size
  BY <1>2, <1>5, <1>7, UnreadFacts DEF Unread
<1>9. \A i \in 1 .. Unread : Byte(i)' = Byte(i)
  <2> SUFFICES ASSUME NEW i \in 1 .. Unread
               PROVE  Byte(i)' = Byte(i)
    OBVIOUS
  <2>1. CASE i <= Remaining
    BY <1>5, <2>1 DEF Byte
  <2>2. CASE ~(i <= Remaining)
    <3>1. i - Remaining \in 1 .. Len(wire)
      BY <2>2, UnreadFacts DEF Unread
    <3>2. wire'[i - Remaining] = wire[i - Remaining]
      BY <1>7, <3>1
    <3> QED BY <1>5, <2>2, <3>2 DEF Byte
  <2> QED BY <2>1, <2>2
<1> PICK total \in Nat : total = Unread
  BY UnreadFacts
<1>10. \A j \in 1 .. size : Byte(total + j)' = <<last, j>>
  <2> SUFFICES ASSUME NEW j \in 1 .. size
               PROVE  Byte(total + j)' = <<last, j>>
    OBVIOUS
  <2>1. /\ ~(total + j <= Remaining)
        /\ total + j - Remaining = Len(wire) + j
    BY <1>2, UnreadFacts DEF Unread
  <2>2. Byte(total + j)' = wire'[Len(wire) + j]
    <3>1. \A i \in Nat : ~(i <= Remaining) => Byte(i)' = wire'[i - Remaining]
      BY <1>5 DEF Byte
    <3>2. total + j \in Nat /\ Remaining \in Nat
      BY <1>2, UnreadFacts
    <3> QED BY <2>1, <3>1, <3>2
  <2>3. packet[j] = <<last, j>>
    BY DEF packet
  <2> QED BY <1>7, <2>2, <2>3
<1> HIDE DEF last
<1> PICK new : new = [k \in Len(delivered) + 1 .. Len(sent) + 2 |->
                        IF k = Len(sent) + 2 THEN Unread + size ELSE cut[k]]
  OBVIOUS
<1>11. /\ Undelivered' = Undelivered \cup {last}
       /\ \A k \in Undelivered : k \in 1 .. Len(sent)
  BY <1>2, <1>5, <1>6, UnreadFacts DEF Undelivered, last
<1>12. /\ new[Len(sent) + 2] = Unread + size
       /\ \A k \in Len(delivered) + 1 .. Len(sent) + 1 :
            new[k] = cut[k] /\ cut[k] \in 0 .. Unread
  BY <1>2, UnreadFacts
<1>13. new \in [Len(delivered)' + 1 .. Len(sent)' + 1 -> 0 .. Unread']
  <2>1. ASSUME NEW k \in Len(delivered) + 1 .. Len(sent) + 2
        PROVE  new[k] \in 0 .. Unread + size
    BY <1>2, <1>12, UnreadFacts
  <2> QED BY <1>5, <1>6, <1>8, <2>1, UnreadFacts
<1>14. /\ new[Len(delivered)' + 1] = 0 /\ new[Len(sent)' + 1] = Unread'
       /\ DOMAIN new = Len(delivered) + 1 .. Len(sent) + 2
  BY <1>1, <1>2, <1>5, <1>6, <1>8, <1>12, UnreadFacts DEF CutAt
<1>15. \A p, q \in DOMAIN new : p <= q => new[p] <= new[q]
  <2> SUFFICES ASSUME NEW p \in DOMAIN new, NEW q \in DOMAIN new, p <= q
               PROVE  new[p] <= new[q]
    OBVIOUS
  <2>1. CASE q = Len(sent) + 2
    <3>1. \A k \in Len(delivered) + 1 .. Len(sent) + 1 :
            new[k] <= Unread + size
      <4>1. Unread \in Nat
        BY UnreadFacts
      <4> QED BY <1>2, <1>12, <4>1
    <3>2. p = Len(sent) + 2 \/ p \in Len(delivered) + 1 .. Len(sent) + 1
      BY <1>14, <2>1, UnreadFacts
    <3>3. new[q] = Unread + size /\ Unread + size \in Nat
      BY <1>2, <1>12, <2>1, UnreadFacts
    <3>4. CASE p = Len(sent) + 2
      BY <2>1, <3>3, <3>4
    <3>5. CASE p \in Len(delivered) + 1 .. Len(sent) + 1
      BY <3>1, <3>3, <3>5
    <3> QED BY <3>2, <3>4, <3>5
  <2>2. CASE q # Len(sent) + 2
    <3>1. /\ p \in Len(delivered) + 1 .. Len(sent) + 1
          /\ q \in Len(delivered) + 1 .. Len(sent) + 1
      BY <1>14, <2>2, UnreadFacts
    <3>2. cut[p] <= cut[q]
      BY <1>1, <3>1 DEF CutAt
    <3> QED BY <1>12, <3>1, <3>2
  <2> QED BY <2>1, <2>2
<1>16. ASSUME NEW k \in Undelivered'
       PROVE  /\ new[k + 1] = new[k] + sent'[k]
              /\ \A j \in 1 .. sent'[k] : Byte(new[k] + j)' = <<k, j>>
  <2>1. CASE k = last
    <3>1. last = Len(sent) + 1 /\ last + 1 = Len(sent) + 2
      BY UnreadFacts DEF last
    <3>2. new[last] = Unread
      BY <1>1, <1>2, <1>12, <3>1, UnreadFacts DEF CutAt
    <3>3. new[last + 1] = Unread + size
      BY <1>12, <3>1
    <3>4. /\ new[k] = total /\ new[k + 1] = total + size /\ sent'[k] = size
      BY <1>6, <2>1, <3>2, <3>3
    <3>5. \A j \in 1 .. size : Byte(new[k] + j)' = <<k, j>>
      BY <1>10, <2>1, <3>4
    <3> QED BY <3>4, <3>5
  <2>2. CASE k \in Undelivered
    <3>1. /\ k \in Len(delivered) + 1 .. Len(sent) + 1
          /\ k + 1 \in Len(delivered) + 1 .. Len(sent) + 1
      BY <2>2, UnreadFacts DEF Undelivered
    <3>2. /\ new[k] = cut[k] /\ new[k + 1] = cut[k + 1]
          /\ cut[k] \in 0 .. Unread /\ cut[k + 1] \in 0 .. Unread
          /\ sent'[k] = sent[k] /\ cut[k + 1] = cut[k] + sent[k]
      BY <1>1, <1>6, <1>11, <1>12, <2>2, <3>1 DEF CutAt
    <3>3. ASSUME NEW j \in 1 .. sent[k]
          PROVE  Byte(cut[k] + j)' = <<k, j>>
      <4>1. cut[k] + j \in 1 .. Unread
        <5>1. sent[k] \in Nat
          BY <1>11, <2>2, SizeFacts
        <5>2. Unread \in Nat
          BY UnreadFacts
        <5>3. /\ cut[k] \in Nat /\ cut[k + 1] \in Nat /\ cut[k + 1] <= Unread
              /\ cut[k + 1] = cut[k] + sent[k]
          BY <3>2, <5>2
        <5> QED BY <5>1, <5>2, <5>3, Within
      <4>2. Byte(cut[k] + j) = <<k, j>>
        BY <1>1, <2>2 DEF CutAt
      <4> QED BY <1>9, <4>1, <4>2
    <3> QED BY <3>2, <3>3
  <2> QED BY <1>11, <2>1, <2>2
<1>17. CutAt(new)'
  BY <1>14, <1>15, <1>16 DEF CutAt
<1> QED BY <1>2, <1>5, <1>6, <1>13, <1>17, UnreadFacts DEF StreamInv

LEMMA ReceiveStream ==
  ASSUME IInv, StreamInv, NEW n \in 1 .. Len(wire), Receive(n)
  PROVE  StreamInv'
<1>1. /\ n \in Nat /\ Len(wire) \in Nat /\ n <= Len(wire)
      /\ writePos' = writePos + n /\ Len(wire') = Len(wire) - n
      /\ \A i \in 1 .. Len(wire) - n : wire'[i] = wire[n + i]
      /\ \A i \in Cells :
           buffer'[i] = IF i \in writePos .. writePos + n - 1
                        THEN wire[i - writePos + 1]
                        ELSE buffer[i]
  <2>1. Len(wire) \in Nat
    BY ReceiveEffect
  <2>2. n \in Nat /\ n <= Len(wire)
    BY <2>1
  <2> QED BY <2>1, <2>2, ReceiveEffect
<1>2. UNCHANGED <<sent, readPos, processed, delivered>>
  BY DEF Receive
<1>3. /\ Remaining \in Nat /\ HeaderPos \in Nat
      /\ Unread = Remaining + Len(wire)
      /\ HeaderPos + Remaining = writePos /\ writePos + n <= Capacity
      /\ Capacity \in Nat
  <2>1. writePos + n <= Capacity
    <3>1. n <= Capacity - writePos
      BY ReceiveEffect DEF FreeSize
    <3>2. Capacity \in Nat /\ writePos \in Nat
      BY CapacityFacts DEF IInv, TypeOK
    <3> QED BY <1>1, <3>1, <3>2
  <2> QED BY <2>1, UnreadFacts, CapacityFacts DEF Unread
<1>4. Remaining' = Remaining + n /\ HeaderPos' = HeaderPos
  BY <1>1, <1>2, UnreadFacts DEF Remaining, HeaderPos, DataSize, IInv, TypeOK
<1>5. Unread' = Unread
  BY <1>1, <1>3, <1>4 DEF Unread
<1>6. ASSUME NEW i \in 1 .. Unread
      PROVE  Byte(i)' = Byte(i)
  <2>1. CASE i <= Remaining
    <3>1. /\ HeaderPos + i - 1 \in Cells
          /\ HeaderPos + i - 1 \notin writePos .. writePos + n - 1
      BY <1>1, <1>3, <2>1 DEF Cells
    <3>2. buffer'[HeaderPos + i - 1] = buffer[HeaderPos + i - 1]
      BY <1>1, <3>1
    <3>3. i <= Remaining + n
      BY <1>1, <1>3, <2>1
    <3> QED BY <1>4, <2>1, <3>2, <3>3 DEF Byte
  <2>2. CASE ~(i <= Remaining) /\ i <= Remaining + n
    <3>1. /\ HeaderPos + i - 1 \in Cells
          /\ HeaderPos + i - 1 \in writePos .. writePos + n - 1
          /\ (HeaderPos + i - 1) - writePos + 1 = i - Remaining
      BY <1>1, <1>3, <2>2 DEF Cells
    <3>2. buffer'[HeaderPos + i - 1] = wire[i - Remaining]
      BY <1>1, <3>1
    <3> QED BY <1>4, <2>2, <3>2 DEF Byte
  <2>3. CASE ~(i <= Remaining + n)
    <3>1. /\ i - (Remaining + n) \in 1 .. Len(wire) - n
          /\ n + (i - (Remaining + n)) = i - Remaining
          /\ ~(i <= Remaining)
      BY <1>1, <1>3, <2>3
    <3>2. wire'[i - (Remaining + n)] = wire[i - Remaining]
      BY <1>1, <3>1
    <3> QED BY <1>4, <2>3, <3>1, <3>2 DEF Byte
  <2> QED BY <2>1, <2>2, <2>3
<1> QED BY <1>2, <1>5, <1>6, StreamKept

LEMMA EndOfParseStream ==
  ASSUME IInv, StreamInv, EndOfParse
  PROVE  StreamInv'
<1>1. /\ readPos' = readPos + processed /\ processed' = 0
      /\ UNCHANGED <<sent, wire, buffer, writePos, delivered>>
  <2>1. pc' = "clean"
    BY EndOfParseStep
  <2> QED BY <2>1 DEF EndOfParse, OnRead
<1>2. HeaderPos' = HeaderPos /\ Remaining' = Remaining
  BY <1>1 DEF HeaderPos, Remaining, DataSize, IInv, TypeOK
<1> QED BY <1>1, <1>2, StreamStays

LEMMA CleanStream ==
  ASSUME IInv, StreamInv, Clean
  PROVE  StreamInv'
<1>1. /\ processed = 0 /\ UNCHANGED <<sent, wire, processed, delivered>>
  BY DEF Clean, IInv, ParseInv
<1>2. Remaining = DataSize /\ HeaderPos = readPos
  BY <1>1 DEF Remaining, HeaderPos, DataSize, IInv, TypeOK
<1>3. CASE DataSize = 0 /\ readPos' = 0 /\ writePos' = 0
  <2>1. Remaining' = 0 /\ Remaining = 0
    BY <1>1, <1>2, <1>3 DEF Remaining, DataSize
  <2>2. Unread' = Unread
    BY <1>1, <2>1 DEF Unread
  <2>3. ASSUME NEW i \in 1 .. Unread
        PROVE  Byte(i)' = Byte(i)
    <3>1. ~(i <= 0)
      BY UnreadFacts
    <3> QED BY <1>1, <2>1, <3>1 DEF Byte
  <2> QED BY <1>1, <2>2, <2>3, StreamKept
<1>4. CASE LowOnSpace /\ Compact
  <2>1. DataSize <= readPos
    BY <1>4, MovedClear DEF Clean
  <2>2. readPos' = 0 /\ writePos' = DataSize
    BY <1>4 DEF Compact, CompactedPos
  <2>3. Remaining' = Remaining /\ HeaderPos' = 0
    BY <1>1, <1>2, <2>2, UnreadFacts DEF Remaining, HeaderPos, DataSize
  <2>4. Unread' = Unread
    BY <1>1, <2>3 DEF Unread
  <2>5. ASSUME NEW i \in 1 .. Unread
        PROVE  Byte(i)' = Byte(i)
    <3>1. CASE i <= Remaining
      <4>1. i - 1 \in Cells /\ ~(i - 1 >= DataSize)
        BY <1>2, <3>1, UnreadFacts, CapacityFacts DEF Cells
      <4>2. buffer'[i - 1] = buffer[readPos + (i - 1)]
        BY <1>4, <2>1, <4>1 DEF Compact
      <4>3. 0 + i - 1 = i - 1 /\ HeaderPos + i - 1 = readPos + (i - 1)
        BY <1>2, UnreadFacts
      <4> QED BY <2>3, <3>1, <4>2, <4>3 DEF Byte
    <3>2. CASE ~(i <= Remaining)
      BY <1>1, <2>3, <3>2 DEF Byte
    <3> QED BY <3>1, <3>2
  <2> QED BY <1>1, <2>4, <2>5, StreamKept
<1>5. CASE UNCHANGED <<buffer, readPos, writePos>>
  <2>1. HeaderPos' = HeaderPos /\ Remaining' = Remaining
    BY <1>1, <1>5 DEF HeaderPos, Remaining, DataSize
  <2> QED BY <1>1, <1>5, <2>1, StreamStays
<1> QED BY <1>3, <1>4, <1>5 DEF Clean

(* What OnRecv takes for a packet is the next one. *)
LEMMA NextPacket ==
  ASSUME IInv, StreamInv, ParsePacket,
         NEW cut \in [Len(delivered) + 1 .. Len(sent) + 1 -> 0 .. Unread],
         CutAt(cut), NEW k, k = Len(delivered) + 1
  PROVE  /\ k \in Undelivered /\ k \in 1 .. Len(sent)
         /\ HeaderField = sent[k] /\ sent[k] <= Remaining
         /\ delivered' = Append(delivered, Packet(k))
<1>1. Remaining >= HeaderSize /\ Remaining >= HeaderField
  BY DEF ParsePacket, WholePacket
<1>2. 1 <= Remaining /\ Unread > 0
  BY <1>1, SizesAssumption, UnreadFacts DEF Unread
<1>3. Len(delivered) # Len(sent)
  BY <1>2 DEF CutAt
<1>4. k \in Undelivered /\ k \in 1 .. Len(sent) /\ k \in Nat
  BY <1>3, UnreadFacts DEF StreamInv, Undelivered
<1>5. sent[k] \in Nat /\ sent[k] > 0
  BY <1>4, SizeFacts
<1>6. \A j \in 1 .. sent[k] : Byte(j) = <<k, j>>
  <2>1. cut[k] = 0
    BY DEF CutAt
  <2>2. \A j \in 1 .. sent[k] : Byte(cut[k] + j) = <<k, j>> /\ 0 + j = j
    BY <1>4, <1>5 DEF CutAt
  <2> QED BY <2>1, <2>2
<1>7. HeaderField = sent[k]
  <2>1. Byte(1) = <<k, 1>>
    BY <1>5, <1>6
  <2>2. HeaderPos + 1 - 1 = HeaderPos
    BY UnreadFacts
  <2>3. buffer[HeaderPos] = <<k, 1>>
    BY <1>2, <2>1, <2>2 DEF Byte
  <2>4. <<k, 1>> # Stale /\ <<k, 1>>[1] = k /\ <<k, 1>>[2] = 1
    BY <1>4, StaleAssumption
  <2> QED BY <2>3, <2>4 DEF HeaderField
<1>8. Slice(HeaderPos, HeaderField) = Packet(k)
  <2>1. ASSUME NEW j \in 1 .. sent[k]
        PROVE  buffer[HeaderPos + j - 1] = <<k, j>>
    <3>1. j <= Remaining
      BY <1>1, <1>5, <1>7, UnreadFacts
    <3> QED BY <1>6, <3>1 DEF Byte
  <2> QED BY <1>7, <2>1 DEF Slice, Packet
<1> QED BY <1>1, <1>4, <1>7, <1>8 DEF ParsePacket

LEMMA ParsePacketStream ==
  ASSUME IInv, StreamInv, ParsePacket
  PROVE  StreamInv'
<1>1. PICK cut \in [Len(delivered) + 1 .. Len(sent) + 1 -> 0 .. Unread] :
        CutAt(cut)
  BY DEF StreamInv
<1>2. PICK k \in Nat : k = Len(delivered) + 1
  BY UnreadFacts
<1>3. PICK size \in Nat : size = sent[k]
  BY <1>1, <1>2, NextPacket, SizeFacts
<1>4. /\ k \in Undelivered /\ k <= Len(sent)
      /\ HeaderField = size /\ size <= Remaining
      /\ delivered' = Append(delivered, Packet(k))
  BY <1>1, <1>2, <1>3, NextPacket
<1>5. /\ processed' = processed + size
      /\ UNCHANGED <<sent, wire, buffer, readPos, writePos>>
  BY <1>4 DEF ParsePacket
<1>6. Len(delivered') = k
  BY <1>2, <1>4 DEF IInv, TypeOK
<1>7. /\ Remaining' = Remaining - size /\ HeaderPos' = HeaderPos + size
      /\ Unread' = Unread - size /\ Unread - size \in Nat
  <2>1. Remaining' = Remaining - size /\ HeaderPos' = HeaderPos + size
    BY <1>5 DEF Remaining, HeaderPos, DataSize, IInv, TypeOK
  <2>2. /\ Remaining \in Nat /\ Len(wire) \in Nat /\ Len(wire') = Len(wire)
        /\ Unread = Remaining + Len(wire)
    BY <1>5, UnreadFacts DEF Unread
  <2>3. Unread' = (Remaining - size) + Len(wire)
    BY <2>1, <2>2 DEF Unread
  <2> QED BY <1>4, <2>1, <2>2, <2>3
<1>8. \A i \in 1 .. Unread - size : Byte(i)' = Byte(i + size)
  <2> SUFFICES ASSUME NEW i \in 1 .. Unread - size
               PROVE  Byte(i)' = Byte(i + size)
    OBVIOUS
  <2>1. Remaining \in Nat /\ HeaderPos \in Int /\ i \in Nat
    BY <1>7, UnreadFacts
  <2>2. /\ i <= Remaining - size <=> i + size <= Remaining
        /\ (HeaderPos + size) + i - 1 = HeaderPos + (i + size) - 1
        /\ i - (Remaining - size) = (i + size) - Remaining
    BY <2>1, Shifted
  <2> QED BY <1>5, <1>7, <2>2 DEF Byte
<1>9. /\ cut[k + 1] = size
      /\ \A q \in k + 1 .. Len(sent) + 1 :
           q \in DOMAIN cut /\ cut[q] \in size .. Unread
  <2>1. cut[k] = 0 /\ cut[k + 1] = size
    BY <1>1, <1>2, <1>3, <1>4 DEF CutAt
  <2>2. ASSUME NEW q \in k + 1 .. Len(sent) + 1
        PROVE  q \in DOMAIN cut /\ cut[q] \in size .. Unread
    <3>1. q \in DOMAIN cut /\ k + 1 \in DOMAIN cut /\ k + 1 <= q
      BY <1>2, <1>4, UnreadFacts
    <3>2. cut[k + 1] <= cut[q]
      BY <1>1, <3>1 DEF CutAt
    <3>3. cut[q] \in 0 .. Unread
      BY <3>1
    <3> QED BY <2>1, <3>1, <3>2, <3>3, UnreadFacts
  <2> QED BY <2>1, <2>2
<1>10. PICK new : new = [q \in k + 1 .. Len(sent) + 1 |-> cut[q] - size]
  OBVIOUS
<1>11. new \in [k + 1 .. Len(sent) + 1 -> 0 .. Unread - size]
  <2>1. Unread \in Nat
    BY UnreadFacts
  <2>2. ASSUME NEW q \in k + 1 .. Len(sent) + 1
        PROVE  cut[q] - size \in 0 .. Unread - size
    <3>1. cut[q] - size \in Nat /\ cut[q] - size <= Unread - size
      BY <1>9, <2>1, CutShifted
    <3> QED BY <1>7, <3>1
  <2> QED BY <1>10, <2>2
<1>12. new[k + 1] = 0 /\ new[Len(sent) + 1] = Unread - size
  <2>1. k + 1 \in k + 1 .. Len(sent) + 1
        /\ Len(sent) + 1 \in k + 1 .. Len(sent) + 1
    BY <1>4, UnreadFacts
  <2> QED BY <1>1, <1>9, <1>10, <2>1 DEF CutAt
<1>13. \A q, r \in DOMAIN new : q <= r => new[q] <= new[r]
  <2> SUFFICES ASSUME NEW q \in k + 1 .. Len(sent) + 1,
                      NEW r \in k + 1 .. Len(sent) + 1, q <= r
               PROVE  new[q] <= new[r]
    BY <1>10
  <2>1. /\ cut[q] <= cut[r]
        /\ cut[q] \in size .. Unread /\ cut[r] \in size .. Unread
    BY <1>1, <1>9 DEF CutAt
  <2>2. new[q] = cut[q] - size /\ new[r] = cut[r] - size
    BY <1>10
  <2>3. Unread \in Nat
    BY UnreadFacts
  <2>4. cut[q] \in Nat /\ cut[r] \in Nat
    BY <2>1, <2>3
  <2> QED BY <2>1, <2>2, <2>4
<1>14. ASSUME NEW q \in k + 1 .. Len(sent)
       PROVE  /\ new[q + 1] = new[q] + sent[q]
              /\ \A j \in 1 .. sent[q] : Byte(new[q] + j)' = <<q, j>>
  <2>1. /\ q \in Undelivered /\ q \in 1 .. Len(sent)
        /\ q \in k + 1 .. Len(sent) + 1 /\ q + 1 \in k + 1 .. Len(sent) + 1
    BY <1>2, UnreadFacts DEF Undelivered
  <2>2. sent[q] \in Nat
    BY <2>1, SizeFacts
  <2>3. /\ new[q] = cut[q] - size /\ new[q + 1] = cut[q + 1] - size
        /\ cut[q] \in size .. Unread /\ cut[q + 1] \in size .. Unread
        /\ cut[q + 1] = cut[q] + sent[q]
    BY <1>1, <1>9, <1>10, <2>1 DEF CutAt
  <2>4. Unread \in Nat
    BY UnreadFacts
  <2>5. /\ new[q] \in Nat /\ new[q + 1] \in Nat /\ new[q + 1] <= Unread - size
        /\ new[q + 1] = new[q] + sent[q]
    <3>1. /\ cut[q] - size \in Nat /\ cut[q + 1] - size \in Nat
          /\ cut[q + 1] - size <= Unread - size
      BY <2>3, <2>4, CutShifted
    <3>2. (cut[q] + sent[q]) - size = (cut[q] - size) + sent[q]
      <4>1. cut[q] \in Nat
        BY <2>3, <2>4
      <4> QED BY <2>2, <4>1
    <3> QED BY <2>3, <3>1, <3>2
  <2>6. ASSUME NEW j \in 1 .. sent[q]
        PROVE  Byte(new[q] + j)' = <<q, j>>
    <3>1. new[q] + j \in 1 .. Unread - size
      BY <1>7, <2>2, <2>5, Within
    <3>2. (new[q] + j) + size = cut[q] + j
      <4>1. cut[q] \in Nat /\ j \in Nat
        BY <2>2, <2>3, <2>4
      <4> QED BY <2>3, <4>1
    <3>3. Byte(cut[q] + j) = <<q, j>>
      BY <1>1, <2>1 DEF CutAt
    <3> QED BY <1>8, <3>1, <3>2, <3>3
  <2> QED BY <2>5, <2>6
<1>15. Undelivered' = k + 1 .. Len(sent)
  BY <1>5, <1>6 DEF Undelivered
<1>16. CutAt(new)'
  BY <1>5, <1>6, <1>7, <1>12, <1>13, <1>14, <1>15 DEF CutAt
<1>17. new \in [Len(delivered') + 1 .. Len(sent') + 1 -> 0 .. Unread']
  BY <1>5, <1>6, <1>7, <1>11
<1> QED BY <1>4, <1>5, <1>6, <1>16, <1>17 DEF StreamInv

LEMMA InitStream == Init => StreamInv
<1> SUFFICES ASSUME Init PROVE StreamInv
  OBVIOUS
<1>1. IInv
  BY InitIInv
<1>2. /\ Len(sent) = 0 /\ Len(delivered) = 0 /\ Len(wire) = 0
      /\ Remaining = 0
  BY DEF Init, Remaining, DataSize
<1>3. Unread = 0 /\ Undelivered = {}
  BY <1>2 DEF Unread, Undelivered
<1>4. PICK cut : cut = [k \in 1 .. 1 |-> 0]
  OBVIOUS
<1>5. cut \in [1 .. 1 -> 0 .. 0] /\ cut[1] = 0 /\ DOMAIN cut = 1 .. 1
  BY <1>4
<1>6. \A k \in 1 .. 1 : k = 1
  OBVIOUS
<1>7. CutAt(cut)
  BY <1>2, <1>3, <1>5, <1>6 DEF CutAt
<1> QED BY <1>2, <1>3, <1>5, <1>7 DEF StreamInv

LEMMA NextStream == IInv /\ StreamInv /\ [Next]_vars => StreamInv'
<1> SUFFICES ASSUME IInv, StreamInv, [Next]_vars
             PROVE  StreamInv'
  OBVIOUS
<1>1. ASSUME UNCHANGED <<sent, wire, buffer, readPos, writePos, processed,
                         delivered>>
      PROVE  StreamInv'
  <2>1. HeaderPos' = HeaderPos /\ Remaining' = Remaining
    BY <1>1 DEF HeaderPos, Remaining, DataSize
  <2> QED BY <1>1, <2>1, StreamStays
<1>2. ASSUME NEW size \in Sizes, PeerSend(size)
      PROVE  StreamInv'
  BY <1>2, PeerSendStream
<1>3. CASE ReceiveSome
  BY <1>3, ReceiveStream DEF ReceiveSome
<1>4. CASE ReceiveNothing
  BY <1>1, <1>4 DEF ReceiveNothing
<1>5. CASE Process
  <2>1. CASE RegisterRecv
    BY <1>1, <2>1 DEF RegisterRecv
  <2>2. CASE ParsePacket
    BY <2>2, ParsePacketStream
  <2>3. CASE EndOfParse
    BY <2>3, EndOfParseStream
  <2>4. CASE Clean
    BY <2>4, CleanStream
  <2> QED BY <1>5, <2>1, <2>2, <2>3, <2>4 DEF Process
<1>6. CASE Disconnect
  BY <1>1, <1>6 DEF Disconnect
<1>7. CASE Quiescent
  BY <1>1, <1>7 DEF Quiescent, vars
<1>8. CASE UNCHANGED vars
  BY <1>1, <1>8 DEF vars
<1> QED BY <1>2, <1>3, <1>4, <1>5, <1>6, <1>7, <1>8 DEF Next

(* A step of the session is a step of the channel or none.                 *)
LEMMA StepsOfTheChannel ==
  IInv /\ StreamInv /\ [Next]_vars => [Promise!Next]_(Promise!vars)
<1> SUFFICES ASSUME IInv, StreamInv, [Next]_vars
             PROVE  [Promise!Next]_(Promise!vars)
  OBVIOUS
<1>1. ASSUME UNCHANGED <<sent, delivered>>
      PROVE  [Promise!Next]_(Promise!vars)
  BY <1>1 DEF Promise!vars
<1>2. ASSUME NEW size \in Sizes, PeerSend(size)
      PROVE  [Promise!Next]_(Promise!vars)
  BY <1>2 DEF PeerSend, Promise!Next, Promise!SendPacket
<1>3. CASE ParsePacket
  <2>1. PICK cut \in [Len(delivered) + 1 .. Len(sent) + 1 -> 0 .. Unread] :
          CutAt(cut)
    BY DEF StreamInv
  <2>2. PICK k : k = Len(delivered) + 1
    OBVIOUS
  <2>3. k \in 1 .. Len(sent) /\ delivered' = Append(delivered, Packet(k))
    BY <1>3, <2>1, <2>2, NextPacket
  <2>4. Packet(k) = Promise!Packet(k)
    BY DEF Packet, Promise!Packet
  <2>5. Len(delivered) < Len(sent)
    BY <2>2, <2>3, UnreadFacts
  <2>6. sent' = sent
    BY <1>3 DEF ParsePacket
  <2>7. Promise!DeliverPacket
    BY <2>2, <2>3, <2>4, <2>5, <2>6 DEF Promise!DeliverPacket
  <2> QED BY <2>7 DEF Promise!Next
<1>4. CASE ReceiveSome
  BY <1>1, <1>4 DEF ReceiveSome, Receive
<1>5. CASE ReceiveNothing
  BY <1>1, <1>5 DEF ReceiveNothing
<1>6. CASE RegisterRecv \/ EndOfParse \/ Clean
  BY <1>1, <1>6 DEF RegisterRecv, EndOfParse, Clean
<1>7. CASE Disconnect
  BY <1>1, <1>7 DEF Disconnect
<1>8. CASE Quiescent \/ UNCHANGED vars
  BY <1>1, <1>8 DEF Quiescent, vars
<1> QED
  BY <1>2, <1>3, <1>4, <1>5, <1>6, <1>7, <1>8 DEF Next, Process

(* OnRecvPacket is called with the packets the peer sent, whole, once each *)
(* and in order, however the network cuts the stream and wherever the      *)
(* buffer moves its data.                                                  *)
THEOREM Implements == Spec => ImplementsPacketChannel
<1>1. Init => Promise!Init
  BY DEF Init, Promise!Init
<1>2. Spec => []IInv /\ []StreamInv
  BY Inductive, InitStream, NextStream, PTL DEF Spec
<1> QED
  BY <1>1, <1>2, StepsOfTheChannel, PTL
  DEF Spec, ImplementsPacketChannel, Promise!Spec

-----------------------------------------------------------------------------
(* A set of natural numbers has a least one: what the proofs by induction  *)
(* below use.                                                              *)
LEMMA LeastNatural ==
  ASSUME NEW T \in SUBSET Nat, T # {}
  PROVE  \E n \in T : \A m \in T : n <= m
<1> DEFINE R == {p \in Nat \X Nat : p[1] < p[2]}
<1>1. IsWellFoundedOn(R, Nat)
  BY NatLessThanWellFounded DEF OpToRel
<1> HIDE DEF R
<1>2. PICK n \in T : \A m \in T : <<m, n>> \notin R
  BY <1>1, WFMin
<1>3. \A m \in T : ~(m < n)
  BY <1>2 DEF R
<1> QED BY <1>3

(* A function that concatenates more and more of the sequences ends with   *)
(* what FlattenSeq returns.                                                *)
LEMMA Flattened ==
  ASSUME NEW seqs, Len(seqs) \in Nat \ {0}, NEW f,
         f = [i \in 1 .. Len(seqs) |->
                IF i = 1 THEN seqs[i] ELSE f[i - 1] \o seqs[i]]
  PROVE  FlattenSeq(seqs) = f[Len(seqs)]
<1> DEFINE Flattens(h) == h = [i \in 1 .. Len(seqs) |->
                                 IF i = 1 THEN seqs[i]
                                 ELSE h[i - 1] \o seqs[i]]
           g == CHOOSE h : Flattens(h)
<1>1. FlattenSeq(seqs) = g[Len(seqs)]
  BY DEF FlattenSeq
<1>2. Flattens(f)
  OBVIOUS
<1> HIDE DEF Flattens
<1>3. Flattens(g)
  BY <1>2
<1> HIDE DEF g
<1>4. \A i \in 1 .. Len(seqs) : f[i] = g[i]
  <2> SUFFICES ASSUME {i \in 1 .. Len(seqs) : f[i] # g[i]} # {}
               PROVE  FALSE
    OBVIOUS
  <2>1. PICK i \in 1 .. Len(seqs) :
          /\ f[i] # g[i]
          /\ \A j \in 1 .. Len(seqs) : f[j] # g[j] => i <= j
    <3>1. {i \in 1 .. Len(seqs) : f[i] # g[i]} \in SUBSET Nat
      OBVIOUS
    <3> QED BY <3>1, LeastNatural
  <2>2. CASE i = 1
    BY <1>2, <1>3, <2>1, <2>2 DEF Flattens
  <2>3. CASE i # 1
    <3>1. i - 1 \in 1 .. Len(seqs) /\ ~(i <= i - 1)
      BY <2>3
    <3>2. f[i - 1] = g[i - 1]
      BY <2>1, <3>1
    <3>3. f[i] = f[i - 1] \o seqs[i]
      BY <1>2, <2>3 DEF Flattens
    <3>4. g[i] = g[i - 1] \o seqs[i]
      BY <1>3, <2>3 DEF Flattens
    <3> QED BY <2>1, <3>2, <3>3, <3>4
  <2> QED BY <2>2, <2>3
<1>5. Len(seqs) \in 1 .. Len(seqs)
  OBVIOUS
<1> QED BY <1>1, <1>4, <1>5

(* The stream, as one sequence. *)
LEMMA StreamAsSequence ==
  ASSUME IInv
  PROVE  Slice(HeaderPos, Remaining) \o wire = [i \in 1 .. Unread |-> Byte(i)]
<1>1. /\ Remaining \in Nat /\ wire \in Seq(Bytes) /\ Len(wire) \in Nat
      /\ HeaderPos \in Nat /\ HeaderPos + Remaining <= Capacity
  BY UnreadFacts
<1> PICK all : all = Bytes \cup {Stale}
  OBVIOUS
<1> PICK unparsed : unparsed = Slice(HeaderPos, Remaining)
  OBVIOUS
<1>2. unparsed \in Seq(all) /\ Len(unparsed) = Remaining
  <2>1. ASSUME NEW i \in 1 .. Remaining
        PROVE  buffer[HeaderPos + i - 1] \in all
    <3>1. HeaderPos + i - 1 \in Cells
      BY <1>1, CapacityFacts DEF Cells
    <3> QED BY <3>1 DEF IInv, TypeOK
  <2> QED BY <1>1, <2>1 DEF Slice
<1>3. wire \in Seq(all)
  BY <1>1
<1>4. PICK whole : whole = unparsed \o wire
  OBVIOUS
<1>5. /\ whole \in Seq(all) /\ Len(whole) = Unread
      /\ \A i \in 1 .. Unread :
           whole[i] = IF i <= Remaining THEN unparsed[i]
                                        ELSE wire[i - Remaining]
  <2>1. /\ whole \in Seq(all) /\ Len(whole) = Len(unparsed) + Len(wire)
        /\ \A i \in 1 .. Len(unparsed) + Len(wire) :
             whole[i] = IF i <= Len(unparsed) THEN unparsed[i]
                                              ELSE wire[i - Len(unparsed)]
    BY <1>2, <1>3, <1>4, ConcatProperties
  <2> QED BY <1>2, <2>1 DEF Unread
<1>6. ASSUME NEW i \in 1 .. Unread
      PROVE  whole[i] = Byte(i)
  <2>1. i <= Remaining => unparsed[i] = buffer[HeaderPos + i - 1]
    BY <1>1 DEF Slice
  <2> QED BY <1>5, <2>1 DEF Byte
<1>7. whole = [i \in 1 .. Unread |-> whole[i]]
  BY <1>5
<1> QED BY <1>4, <1>6, <1>7

(* As long as some packets are not delivered, they make up the stream.     *)
LEMMA CutFlattened ==
  ASSUME IInv, StreamInv, Len(delivered) # Len(sent)
  PROVE  FlattenSeq([i \in 1 .. Len(sent) - Len(delivered) |->
                       Packet(Len(delivered) + i)])
           = [i \in 1 .. Unread |-> Byte(i)]
<1>1. PICK cut \in [Len(delivered) + 1 .. Len(sent) + 1 -> 0 .. Unread] :
        CutAt(cut)
  BY DEF StreamInv
<1>2. PICK d \in Nat : d = Len(delivered)
  BY UnreadFacts
<1>3. PICK n \in Nat \ {0} : n = Len(sent) - Len(delivered)
  BY UnreadFacts DEF StreamInv
<1>4. Len(sent) = d + n
  BY <1>2, <1>3, UnreadFacts
<1>5. PICK seqs : seqs = [i \in 1 .. n |-> Packet(d + i)]
  OBVIOUS
<1>6. Len(seqs) = n
  BY <1>5
<1> DEFINE Prefix(k) == [i \in 1 .. k |-> Byte(i)]
<1>7. PICK f : f = [m \in 1 .. n |-> Prefix(cut[d + m + 1])]
  OBVIOUS
<1>8. ASSUME NEW m \in 1 .. n
      PROVE  /\ cut[d + m] \in Nat /\ sent[d + m] \in Nat
             /\ cut[d + m + 1] = cut[d + m] + sent[d + m]
             /\ cut[d + m + 1] \in Nat
             /\ \A j \in 1 .. sent[d + m] :
                  Byte(cut[d + m] + j) = <<d + m, j>>
  <2>1. /\ d + m \in Undelivered /\ d + m \in 1 .. Len(sent)
        /\ d + m \in Len(delivered) + 1 .. Len(sent) + 1
    BY <1>2, <1>4 DEF Undelivered
  <2>2. sent[d + m] \in Nat
    BY <2>1, SizeFacts
  <2>3. cut[d + m] \in Nat
    BY <2>1, UnreadFacts
  <2>4. /\ cut[d + m + 1] = cut[d + m] + sent[d + m]
        /\ \A j \in 1 .. sent[d + m] :
             Byte(cut[d + m] + j) = <<d + m, j>>
    BY <1>1, <2>1 DEF CutAt
  <2> QED BY <2>2, <2>3, <2>4
<1>9. ASSUME NEW m \in 1 .. n, m = 1
      PROVE  f[m] = seqs[m]
  <2>1. cut[d + 1] = 0
    BY <1>1, <1>2 DEF CutAt
  <2>2. cut[d + m + 1] = sent[d + m]
    BY <1>8, <1>9, <2>1
  <2>3. \A j \in 1 .. sent[d + m] : Byte(j) = <<d + m, j>>
    <3>1. \A j \in 1 .. sent[d + m] :
            Byte(cut[d + m] + j) = <<d + m, j>> /\ 0 + j = j
      BY <1>8
    <3> QED BY <1>9, <2>1, <3>1
  <2> QED BY <1>5, <1>7, <2>2, <2>3 DEF Packet
<1>10. ASSUME NEW m \in 1 .. n, m # 1
       PROVE  f[m] = f[m - 1] \o seqs[m]
  <2>1. PICK c \in Nat : c = cut[d + m]
    BY <1>8
  <2>2. PICK size \in Nat : size = sent[d + m]
    BY <1>8
  <2>3. f[m] = Prefix(c + size)
    BY <1>7, <1>8, <2>1, <2>2
  <2>4. f[m - 1] = Prefix(c)
    <3>1. m - 1 \in 1 .. n /\ d + (m - 1) + 1 = d + m
      BY <1>10
    <3> QED BY <1>7, <2>1, <3>1
  <2>5. seqs[m] = [j \in 1 .. size |-> Byte(c + j)]
    <3>1. seqs[m] = [j \in 1 .. size |-> <<d + m, j>>]
      BY <1>5, <2>2 DEF Packet
    <3>2. \A j \in 1 .. size : Byte(c + j) = <<d + m, j>>
      BY <1>8, <2>1, <2>2
    <3> QED BY <3>1, <3>2
  <2> DEFINE all == {Byte(i) : i \in 1 .. c + size}
  <2>6. Prefix(c) \in Seq(all) /\ Len(Prefix(c)) = c
    <3>1. \A i \in 1 .. c : Byte(i) \in all
      OBVIOUS
    <3> HIDE DEF all
    <3> QED BY <3>1
  <2>7. /\ [j \in 1 .. size |-> Byte(c + j)] \in Seq(all)
        /\ Len([j \in 1 .. size |-> Byte(c + j)]) = size
    <3>1. \A j \in 1 .. size : Byte(c + j) \in all
      OBVIOUS
    <3> HIDE DEF all
    <3> QED BY <3>1
  <2> HIDE DEF all
  <2>8. PICK whole : whole = f[m - 1] \o seqs[m]
    OBVIOUS
  <2>9. /\ whole \in Seq(all) /\ Len(whole) = c + size
        /\ \A i \in 1 .. c + size :
             whole[i] = IF i <= c THEN Prefix(c)[i]
                        ELSE [j \in 1 .. size |-> Byte(c + j)][i - c]
    BY <2>4, <2>5, <2>6, <2>7, <2>8, ConcatProperties
  <2>10. ASSUME NEW i \in 1 .. c + size
         PROVE  whole[i] = Byte(i)
    <3>1. CASE i <= c
      <4>1. i \in 1 .. c
        BY <3>1
      <4>2. Prefix(c)[i] = Byte(i)
        BY <4>1
      <4> QED BY <2>9, <3>1, <4>2
    <3>2. CASE ~(i <= c)
      <4>1. i - c \in 1 .. size /\ c + (i - c) = i
        BY <3>2
      <4> QED BY <2>9, <3>2, <4>1
    <3> QED BY <3>1, <3>2
  <2>11. whole = [i \in 1 .. c + size |-> whole[i]]
    BY <2>9
  <2> QED BY <2>3, <2>8, <2>10, <2>11
<1> HIDE DEF Prefix
<1>11. f = [m \in 1 .. n |-> IF m = 1 THEN seqs[m] ELSE f[m - 1] \o seqs[m]]
  BY <1>7, <1>9, <1>10
<1>12. FlattenSeq(seqs) = f[n]
  BY <1>6, <1>11, Flattened
<1>13. f[n] = Prefix(Unread)
  <2>1. d + n + 1 = Len(sent) + 1
    BY <1>4
  <2>2. cut[d + n + 1] = Unread
    BY <1>1, <2>1 DEF CutAt
  <2> QED BY <1>7, <2>2
<1> QED BY <1>2, <1>3, <1>5, <1>12, <1>13 DEF Prefix

(* What is unread in the buffer and what is under way is the packets not   *)
(* delivered yet, for any segmentation and any moves of the data: no byte  *)
(* is lost, repeated or overwritten before it is parsed.                   *)
THEOREM StreamIsWhole == Spec => []BufferHoldsStream
<1>1. ASSUME IInv, StreamInv
      PROVE  BufferHoldsStream
  <2>1. CASE Len(delivered) # Len(sent)
    BY <1>1, <2>1, CutFlattened, StreamAsSequence DEF BufferHoldsStream
  <2>2. CASE Len(delivered) = Len(sent)
    <3>1. Unread = 0
      BY <1>1, <2>2 DEF StreamInv, CutAt
    <3>2. PICK none : none = [i \in 1 .. Len(sent) - Len(delivered) |->
                                Packet(Len(delivered) + i)]
      OBVIOUS
    <3>3. none = <<>> /\ Len(none) = 0
      BY <1>1, <2>2, <3>2, UnreadFacts
    <3>4. FlattenSeq(none) = <<>>
      BY <3>3 DEF FlattenSeq
    <3>5. [i \in 1 .. Unread |-> Byte(i)] = <<>>
      BY <3>1
    <3> QED BY <1>1, <3>2, <3>4, <3>5, StreamAsSequence DEF BufferHoldsStream
  <2> QED BY <2>1, <2>2
<1>2. Spec => []IInv /\ []StreamInv
  BY Inductive, InitStream, NextStream, PTL DEF Spec
<1> QED BY <1>1, <1>2, PTL
=============================================================================
