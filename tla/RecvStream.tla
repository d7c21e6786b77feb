----------------------------- MODULE RecvStream -----------------------------
(***************************************************************************)
(* The receiving half of one connected PacketSession: RegisterRecv and     *)
(* ProcessRecv (ServerCore/Session.cpp), the loop of PacketSession::OnRecv *)
(* and RecvBuffer.  One WSARecv is outstanding at a time and only its      *)
(* completion goes on, so this half is sequential; what interleaves with   *)
(* it is the peer, the network and a Disconnect from another thread.       *)
(*                                                                         *)
(*   register   about to call RegisterRecv                                 *)
(*   posted     WSARecv is outstanding                                     *)
(*   parse      in the loop of OnRecv, processed bytes done                *)
(*   clean      OnRead done, before RecvBuffer::Clean                      *)
(*   stopped    no WSARecv outstanding, and none will be                   *)
(*                                                                         *)
(* Positions count from 0 as in the code.  A byte is <<k, j>>, the j-th of *)
(* the k-th packet; Stale stands for whatever a cell held before.          *)
(***************************************************************************)
EXTENDS Integers, Sequences, SequencesExt

CONSTANTS
  BufferSize,    \* Session::BUFFER_SIZE (0x10000)
  BufferCount,   \* RecvBuffer::BUFFER_COUNT (10)
  HeaderSize,    \* sizeof(PacketHeader) (4)
  Sizes,         \* header.size of the packets a peer sends
  MaxPackets,    \* bound on the packets sent
  Errors,        \* how WSARecv may fail at once: "reset" or "other"
  Stale

(* header.size is a uint16 and counts the header, so no packet is larger   *)
(* than BUFFER_SIZE.                                                       *)
ASSUME SizesAssumption ==
  /\ BufferSize \in Nat \ {0}
  /\ HeaderSize \in 1 .. BufferSize
  /\ Sizes \subseteq HeaderSize .. BufferSize
ASSUME BufferCountAssumption == BufferCount \in Nat /\ BufferCount >= 3
ASSUME MaxPacketsAssumption == MaxPackets \in Nat
ASSUME ErrorsAssumption == Errors \subseteq {"reset", "other"}
ASSUME StaleAssumption == Stale \notin (Nat \X Nat)

VARIABLES
  sent,          \* history: sizes of the packets the peer has sent
  wire,          \* bytes sent and not yet received
  buffer,        \* _recvBuffer._buffer
  readPos,       \* _recvBuffer._readPos
  writePos,      \* _recvBuffer._writePos
  window,        \* the WSABUF of the outstanding WSARecv
  processed,     \* processLen in OnRecv
  delivered,     \* history: what OnRecvPacket was called with
  connected,     \* _connected
  pc

vars == <<sent, wire, buffer, readPos, writePos, window, processed,
          delivered, connected, pc>>

Capacity == BufferSize * BufferCount
Cells == 0 .. Capacity - 1
Bytes == Nat \X Nat
NoWindow == [pos |-> 0, len |-> 0]

DataSize == writePos - readPos
FreeSize == Capacity - writePos

TypeOK ==
  /\ sent \in Seq(Sizes)
  /\ wire \in Seq(Bytes)
  /\ buffer \in [Cells -> Bytes \cup {Stale}]
  /\ readPos \in Nat /\ writePos \in Nat
  /\ readPos <= writePos /\ writePos <= Capacity
  /\ window \in [pos : 0 .. Capacity, len : 0 .. Capacity]
  /\ processed \in 0 .. Capacity
  /\ delivered \in Seq(Seq(Bytes))
  /\ connected \in BOOLEAN
  /\ pc \in {"register", "posted", "parse", "clean", "stopped"}

Init ==
  /\ sent = <<>>
  /\ wire = <<>>
  /\ buffer = [i \in Cells |-> Stale]
  /\ readPos = 0 /\ writePos = 0
  /\ window = NoWindow
  /\ processed = 0
  /\ delivered = <<>>
  /\ connected = TRUE
  /\ pc = "register"

(* n cells from pos on, as a sequence of bytes. *)
Slice(pos, n) == [i \in 1 .. n |-> buffer[pos + i - 1]]

Packet(k) == [j \in 1 .. sent[k] |-> <<k, j>>]

-----------------------------------------------------------------------------
(* The peer sends a packet, as Make_S_TEST builds them. *)
PeerSend(size) ==
  /\ Len(sent) < MaxPackets
  /\ sent' = Append(sent, size)
  /\ wire' = wire \o [j \in 1 .. size |-> <<Len(sent) + 1, j>>]
  /\ UNCHANGED <<buffer, readPos, writePos, window, processed, delivered,
                 connected, pc>>

(* Mutant: the window is as long as the buffer, wherever it starts. *)
WholeBuffer == Capacity

WindowLen == FreeSize

(* Session::RegisterRecv. *)
RegisterRecv ==
  /\ pc = "register"
  /\ \/ /\ connected
        /\ window' = [pos |-> writePos, len |-> WindowLen]
        /\ pc' = "posted"
        /\ UNCHANGED connected
     \/ /\ connected
        /\ \E error \in Errors : connected' = (error # "reset")
        /\ pc' = "stopped"
        /\ UNCHANGED window
     \/ /\ ~connected
        /\ pc' = "stopped"
        /\ UNCHANGED <<connected, window>>
  /\ UNCHANGED <<sent, wire, buffer, readPos, writePos, processed, delivered>>

(* RecvBuffer::OnWrite, with the disconnect of its caller when it fails.   *)
OnWrite(n) ==
  IF n > FreeSize
  THEN /\ connected' = FALSE
       /\ pc' = "stopped"
       /\ UNCHANGED writePos
  ELSE /\ writePos' = writePos + n
       /\ pc' = "parse"
       /\ UNCHANGED connected

(* WSARecv completes with n bytes: the kernel has filled the window, and   *)
(* ProcessRecv runs up to the call of OnRecv.                              *)
Receive(n) ==
  /\ pc = "posted"
  /\ n <= window.len /\ n <= Len(wire)
  /\ buffer' = [i \in Cells |->
                  IF i \in window.pos .. window.pos + n - 1
                  THEN wire[i - window.pos + 1]
                  ELSE buffer[i]]
  /\ wire' = SubSeq(wire, n + 1, Len(wire))
  /\ window' = NoWindow
  /\ OnWrite(n)
  /\ UNCHANGED <<sent, readPos, processed, delivered>>

(* WSARecv completes with no bytes: the peer has closed, the session was   *)
(* disconnected, or the window was empty.                                  *)
ReceiveNothing ==
  /\ pc = "posted"
  /\ connected' = FALSE
  /\ window' = NoWindow
  /\ pc' = "stopped"
  /\ UNCHANGED <<sent, wire, buffer, readPos, writePos, processed, delivered>>

-----------------------------------------------------------------------------
(* PacketSession::OnRecv. *)
Remaining == DataSize - processed
HeaderPos == readPos + processed

(* header.size, read from the buffer. *)
HeaderField ==
  LET byte == buffer[HeaderPos]
  IN  IF byte # Stale /\ byte[2] = 1 THEN sent[byte[1]] ELSE 0

(* Mutant: a packet is taken when its header has arrived. *)
HeaderArrived == Remaining >= HeaderSize

(* Mutant: a packet that ends with the data is left for later. *)
MoreThanPacket == Remaining >= HeaderSize /\ Remaining > HeaderField

WholePacket == Remaining >= HeaderSize /\ Remaining >= HeaderField

ParsePacket ==
  /\ pc = "parse"
  /\ WholePacket
  /\ delivered' = Append(delivered, Slice(HeaderPos, HeaderField))
  /\ processed' = processed + HeaderField
  /\ UNCHANGED <<sent, wire, buffer, readPos, writePos, window, connected, pc>>

(* RecvBuffer::OnRead, with the disconnect of its caller when it fails.    *)
OnRead(n) ==
  IF n > DataSize
  THEN /\ connected' = FALSE
       /\ pc' = "stopped"
       /\ UNCHANGED readPos
  ELSE /\ readPos' = readPos + n
       /\ pc' = "clean"
       /\ UNCHANGED connected

(* OnRecv returns, and ProcessRecv moves _readPos. *)
EndOfParse ==
  /\ pc = "parse"
  /\ ~WholePacket
  /\ OnRead(processed)
  /\ processed' = 0
  /\ UNCHANGED <<sent, wire, buffer, writePos, window, delivered>>

-----------------------------------------------------------------------------
(* Mutant: the data is moved to the front after every receive. *)
Always == TRUE

(* Mutant: the data is moved only when there is no room at all. *)
OutOfSpace == FreeSize = 0

LowOnSpace == FreeSize < BufferSize

(* Mutant: the write cursor is reset with the read cursor. *)
FrontPos == 0

CompactedPos == DataSize

(* memcpy of the unread data to the front; where source and destination    *)
(* overlap it leaves no telling what.                                      *)
Compact ==
  /\ buffer' = [i \in Cells |->
                  IF i >= DataSize THEN buffer[i]
                  ELSE IF DataSize <= readPos THEN buffer[readPos + i]
                  ELSE Stale]
  /\ readPos' = 0
  /\ writePos' = CompactedPos

(* RecvBuffer::Clean. *)
Clean ==
  /\ pc = "clean"
  /\ \/ /\ DataSize = 0
        /\ readPos' = 0 /\ writePos' = 0
        /\ UNCHANGED buffer
     \/ /\ DataSize # 0 /\ LowOnSpace
        /\ Compact
     \/ /\ DataSize # 0 /\ ~LowOnSpace
        /\ UNCHANGED <<buffer, readPos, writePos>>
  /\ pc' = "register"
  /\ UNCHANGED <<sent, wire, window, processed, delivered, connected>>

(* Session::Disconnect from another thread. *)
Disconnect ==
  /\ connected
  /\ connected' = FALSE
  /\ UNCHANGED <<sent, wire, buffer, readPos, writePos, window, processed,
                 delivered, pc>>

(* The peer has no more to say and nothing is under way. *)
Quiescent ==
  /\ pc = "stopped"
  /\ ~connected \/ Len(sent) = MaxPackets
  /\ UNCHANGED vars

-----------------------------------------------------------------------------
ReceiveSome == \E n \in 1 .. Len(wire) : Receive(n)

Process == RegisterRecv \/ ParsePacket \/ EndOfParse \/ Clean

Next ==
  \/ \E size \in Sizes : PeerSend(size)
  \/ ReceiveSome
  \/ ReceiveNothing
  \/ Process
  \/ Disconnect
  \/ Quiescent

Spec == Init /\ [][Next]_vars

(* Workers go on, and bytes that were sent arrive.  Nothing is assumed of  *)
(* the peer or of Disconnect.                                              *)
FairSpec == Spec /\ WF_vars(Process) /\ WF_vars(ReceiveSome)

-----------------------------------------------------------------------------
(* No byte is lost, repeated or overwritten before it is parsed, across    *)
(* partial receives and moves of the data: what is unread in the buffer,   *)
(* followed by what is under way, is the packets not yet delivered.        *)
BufferHoldsStream ==
  Slice(HeaderPos, Remaining) \o wire
    = FlattenSeq([i \in 1 .. Len(sent) - Len(delivered) |->
                    Packet(Len(delivered) + i)])

(* The kernel gets room for a full BUFFER_SIZE, all of it free: with less, *)
(* a receive could complete with no bytes on a live connection, which      *)
(* ProcessRecv takes for the end of it.                                    *)
WindowFits ==
  pc = "posted" =>
    /\ window.len >= BufferSize
    /\ window.pos >= writePos
    /\ window.pos + window.len <= Capacity

(* The regions of the memcpy in RecvBuffer::Clean never overlap.           *)
CopyDisjoint ==
  pc = "clean" /\ DataSize # 0 /\ LowOnSpace => DataSize <= readPos

(* The session never disconnects for "OnWrite Overflow" or for "OnRead     *)
(* Overflow".                                                              *)
NoOverflow ==
  [][ /\ ReceiveSome => pc' = "parse"
      /\ EndOfParse => pc' = "clean" ]_vars

(* A packet that was sent is delivered, unless the session ends or WSARecv *)
(* has been refused: no packet waits in the buffer for bytes that are      *)
(* there already.                                                          *)
SentIsDelivered ==
  \A k \in 1 .. MaxPackets :
    Len(sent) >= k ~> Len(delivered) >= k \/ ~connected \/ pc = "stopped"

(* Whatever the network does to the stream, OnRecvPacket sees the packets. *)
Promise == INSTANCE PacketChannel
ImplementsPacketChannel == Promise!Spec
=============================================================================
