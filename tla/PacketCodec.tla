---------------------------- MODULE PacketCodec ----------------------------
(***************************************************************************)
(* One S_TEST packet from Make_S_TEST (GameServer/ServerPacketHandler.cpp) *)
(* through BufferWriter, SendBuffer and BufferReader to Handle_S_TEST      *)
(* (DummyClient/ClientPacketHandler.cpp).  The two ends share no           *)
(* declaration of the layout: each spells it out, field by field, and      *)
(* operator<< and operator>> check no bound.  The way in between is what   *)
(* RecvStream describes.  The pc names the next statement.                 *)
(*                                                                         *)
(* A byte is <<width, j, value>>, the j-th of a field of that width.  A    *)
(* read gives the value if it meets all bytes of one field, in place, and  *)
(* Garbage otherwise.                                                      *)
(***************************************************************************)
EXTENDS Naturals, Sequences

CONSTANTS
  AllocSize,     \* the argument of SendBuffer's constructor (4096)
  MaxBuffs,      \* bound on buffs.size() (the program sends 3)
  Values,        \* of id, hp, attack, buffId and remainTime
  Garbage

VARIABLES
  packet,        \* the arguments of Make_S_TEST
  buffer,        \* SendBuffer::_buffer
  writePos,      \* BufferWriter::_pos
  next,          \* buffs written so far
  writeSize,     \* SendBuffer::_writeSize
  readPos,       \* BufferReader::_pos
  buffSize,      \* local of Handle_S_TEST
  got,           \* the other locals of Handle_S_TEST
  pc

vars == <<packet, buffer, writePos, next, writeSize, readPos, buffSize, got,
          pc>>

(* sizeof of PacketHeader, uint64, uint32 and uint16. *)
Header == 4
U64 == 8
U32 == 4
U16 == 2

(* Mutant: the time of a buff is a double on the server's side. *)
DoubleOut == 8

(* sizeof of the float remainTime, in the two declarations of BuffData. *)
FloatOut == 4
FloatIn == 4

FixedSize == Header + U64 + U32 + U16 + U16
BuffSize == U64 + 4

ASSUME SizeAssumption ==
  /\ AllocSize \in Nat /\ AllocSize < 2^16
  /\ MaxBuffs \in Nat
  /\ FixedSize + BuffSize * MaxBuffs <= AllocSize
ASSUME GarbageAssumption == Garbage \notin Values

S_TEST == 1
Buffs == [buffId : Values, remainTime : Values]
Packets ==
  [id : Values, hp : Values, attack : Values,
   buffs : UNION {[1 .. n -> Buffs] : n \in 0 .. MaxBuffs}]

TypeOK ==
  /\ packet \in Packets
  /\ DOMAIN buffer = 0 .. AllocSize - 1
  /\ writePos \in Nat
  /\ next \in 0 .. MaxBuffs
  /\ writeSize \in 0 .. AllocSize
  /\ readPos \in Nat
  /\ buffSize \in 0 .. MaxBuffs
  /\ got.id \in Values \cup {Garbage}
  /\ Len(got.buffs) <= buffSize
  /\ pc \in {"reserve", "fields", "buffs", "sent", "getBuffs", "done"}

Blank == [i \in 0 .. AllocSize - 1 |-> <<1, 1, 0>>]
Nothing == [id |-> Garbage, hp |-> Garbage, attack |-> Garbage, buffs |-> <<>>]

Init ==
  /\ packet \in Packets
  /\ buffer = Blank
  /\ writePos = 0 /\ next = 0 /\ writeSize = 0
  /\ readPos = 0 /\ buffSize = 0
  /\ got = Nothing
  /\ pc = "reserve"

(* A field <<value, width>> at pos; what lies beyond the buffer is not     *)
(* ours to describe.                                                       *)
Put(bytes, pos, field) ==
  [i \in DOMAIN bytes |->
     IF i \in pos .. pos + field[2] - 1
     THEN <<field[2], i - pos + 1, field[1]>>
     ELSE bytes[i]]

Get(pos, width) ==
  LET value == buffer[pos][3]
  IN  IF \A j \in 1 .. width : buffer[pos + j - 1] = <<width, j, value>>
      THEN value
      ELSE Garbage

-----------------------------------------------------------------------------
(* BufferWriter::Reserve<PacketHeader>. *)
Reserve ==
  /\ pc = "reserve"
  /\ AllocSize - writePos >= Header
  /\ writePos' = writePos + Header
  /\ pc' = "fields"
  /\ UNCHANGED <<packet, buffer, next, writeSize, readPos, buffSize, got>>

(* bw << id << hp << attack << static_cast<uint16>(buffs.size()). *)
PutFields ==
  /\ pc = "fields"
  /\ LET hpPos == writePos + U64
         attackPos == hpPos + U32
         countPos == attackPos + U16
         withId == Put(buffer, writePos, <<packet.id, U64>>)
         withHp == Put(withId, hpPos, <<packet.hp, U32>>)
         withAttack == Put(withHp, attackPos, <<packet.attack, U16>>)
     IN  /\ buffer' = Put(withAttack, countPos,
                          <<Len(packet.buffs) % 2^16, U16>>)
         /\ writePos' = countPos + U16
  /\ pc' = "buffs"
  /\ UNCHANGED <<packet, next, writeSize, readPos, buffSize, got>>

(* bw << buff.buffId << buff.remainTime. *)
PutBuff ==
  /\ pc = "buffs"
  /\ next < Len(packet.buffs)
  /\ LET buff == packet.buffs[next + 1]
         withId == Put(buffer, writePos, <<buff.buffId, U64>>)
     IN  buffer' = Put(withId, writePos + U64, <<buff.remainTime, FloatOut>>)
  /\ writePos' = writePos + U64 + FloatOut
  /\ next' = next + 1
  /\ UNCHANGED <<packet, writeSize, readPos, buffSize, got, pc>>

(* Mutant: the header counts the packet without itself. *)
BodySize == (writePos - Header) % 2^16

PacketSize == writePos % 2^16

(* SetWriteSize, and the header through the pointer from Reserve. *)
Close ==
  /\ pc = "buffs"
  /\ next = Len(packet.buffs)
  /\ writeSize' = writePos
  /\ buffer' = Put(buffer, 0, <<[size |-> PacketSize, id |-> S_TEST], Header>>)
  /\ pc' = "sent"
  /\ UNCHANGED <<packet, writePos, next, readPos, buffSize, got>>

-----------------------------------------------------------------------------
(* The packet has arrived: ClientPacketHandler::HandlePacket, and the      *)
(* fields of fixed size in Handle_S_TEST.                                  *)
Handle ==
  /\ pc = "sent"
  /\ Get(0, Header).id = S_TEST
  /\ LET hpPos == Header + U64
         attackPos == hpPos + U32
         countPos == attackPos + U16
     IN  /\ got' = [got EXCEPT !.id = Get(Header, U64),
                               !.hp = Get(hpPos, U32),
                               !.attack = Get(attackPos, U16)]
         /\ buffSize' = Get(countPos, U16)
         /\ readPos' = countPos + U16
  /\ pc' = "getBuffs"
  /\ UNCHANGED <<packet, buffer, writePos, next, writeSize>>

(* br >> buffs[i].buffId >> buffs[i].remainTime. *)
GetBuff ==
  /\ pc = "getBuffs"
  /\ Len(got.buffs) < buffSize
  /\ got' = [got EXCEPT !.buffs =
               Append(@, [buffId |-> Get(readPos, U64),
                          remainTime |-> Get(readPos + U64, FloatIn)])]
  /\ readPos' = readPos + U64 + FloatIn
  /\ UNCHANGED <<packet, buffer, writePos, next, writeSize, buffSize, pc>>

Handled ==
  /\ pc = "getBuffs"
  /\ Len(got.buffs) = buffSize
  /\ pc' = "done"
  /\ UNCHANGED <<packet, buffer, writePos, next, writeSize, readPos, buffSize,
                 got>>

(* The packet has been shown. *)
Done == pc = "done" /\ UNCHANGED vars

Next ==
  \/ Reserve \/ PutFields \/ PutBuff \/ Close
  \/ Handle \/ GetBuff \/ Handled
  \/ Done

Spec == Init /\ [][Next]_vars

-----------------------------------------------------------------------------
(* The two layouts agree: what the client has decoded is what the server   *)
(* was given.                                                              *)
RoundTrip == pc = "done" => got = packet

(* operator<< writes past the end of the SendBuffer for no packet that     *)
(* fits it by the sizes of its fields, and operator>> reads nothing beyond *)
(* the len of the packet, which the size in its header gave to             *)
(* OnRecvPacket.                                                           *)
StaysWithin ==
  /\ TypeOK
  /\ writePos <= AllocSize
  /\ pc \in {"getBuffs", "done"} => readPos <= Get(0, Header).size
=============================================================================
