-------------------------- MODULE PacketCodecProofs --------------------------
(***************************************************************************)
(* Theorems about PacketCodec, for any number of buffs, any values and any *)
(* size of the buffer.  CodecInv says where in the buffer each field is,   *)
(* from the statement that writes it on, and what has been read so far.    *)
(***************************************************************************)
EXTENDS PacketCodec, SequenceTheorems, TLAPS

(* The bytes at pos are those of a field. *)
Holds(bytes, pos, width, value) ==
  \A j \in 1 .. width : bytes[pos + j - 1] = <<width, j, value>>

(* Where the i-th buff is in the packet. *)
BuffPos(i) == FixedSize + BuffSize * (i - 1)

FieldsHeld(bytes) ==
  /\ Holds(bytes, Header, U64, packet.id)
  /\ Holds(bytes, Header + U64, U32, packet.hp)
  /\ Holds(bytes, Header + U64 + U32, U16, packet.attack)
  /\ Holds(bytes, Header + U64 + U32 + U16, U16, Len(packet.buffs))

BuffHeld(bytes, i) ==
  /\ Holds(bytes, BuffPos(i), U64, packet.buffs[i].buffId)
  /\ Holds(bytes, BuffPos(i) + U64, FloatOut, packet.buffs[i].remainTime)

(* The writer's side: the header is reserved, the fields follow, then the  *)
(* buffs, and the header is filled in at last.                             *)
WriteInv ==
  /\ pc = "reserve" => writePos = 0
  /\ pc = "fields" => writePos = Header
  /\ pc \in {"reserve", "fields"} => next = 0
  /\ pc \in {"buffs", "sent", "getBuffs", "done"} =>
       /\ writePos = BuffPos(next + 1)
       /\ next <= Len(packet.buffs)
       /\ FieldsHeld(buffer)
       /\ \A i \in 1 .. next : BuffHeld(buffer, i)
  /\ pc \in {"sent", "getBuffs", "done"} =>
       /\ next = Len(packet.buffs)
       /\ Holds(buffer, 0, Header, [size |-> writePos, id |-> S_TEST])

(* The reader's: it is as far into the packet as it has decoded it. *)
ReadInv ==
  /\ pc \in {"reserve", "fields", "buffs", "sent"} => got.buffs = <<>>
  /\ pc \in {"getBuffs", "done"} =>
       /\ buffSize = Len(packet.buffs)
       /\ readPos = BuffPos(Len(got.buffs) + 1)
       /\ got.id = packet.id /\ got.hp = packet.hp
       /\ got.attack = packet.attack
       /\ \A i \in 1 .. Len(got.buffs) : got.buffs[i] = packet.buffs[i]
  /\ pc = "done" => Len(got.buffs) = buffSize

(* TypeOK, and what got is a record of. *)
TypeInv ==
  /\ TypeOK
  /\ got \in [id : Values \cup {Garbage}, hp : Values \cup {Garbage},
              attack : Values \cup {Garbage}, buffs : Seq(Buffs)]

CodecInv == TypeInv /\ WriteInv /\ ReadInv

-----------------------------------------------------------------------------
(* Reading and writing one field.                                          *)
LEMMA Widths ==
  /\ Header = 4 /\ U64 = 8 /\ U32 = 4 /\ U16 = 2
  /\ FloatOut = 4 /\ FloatIn = 4
  /\ FixedSize = 20 /\ BuffSize = 12
BY DEF Header, U64, U32, U16, FloatOut, FloatIn, FixedSize, BuffSize

(* A read that meets the bytes of one field, in place, gives its value. *)
LEMMA GetHeld ==
  ASSUME NEW pos \in Nat, NEW width \in Nat \ {0}, NEW value,
         Holds(buffer, pos, width, value)
  PROVE  Get(pos, width) = value
<1>1. buffer[pos] = <<width, 1, value>>
  <2>1. 1 \in 1 .. width /\ pos + 1 - 1 = pos
    OBVIOUS
  <2> QED BY <2>1 DEF Holds
<1>2. buffer[pos][3] = value
  BY <1>1
<1> QED BY <1>2 DEF Get, Holds

(* A write puts the field where it is to be and leaves the others alone.   *)
LEMMA PutHolds ==
  ASSUME NEW bytes, DOMAIN bytes = 0 .. AllocSize - 1, NEW value,
         NEW pos \in Nat, NEW width \in Nat, pos + width <= AllocSize
  PROVE  /\ DOMAIN Put(bytes, pos, <<value, width>>) = 0 .. AllocSize - 1
         /\ Holds(Put(bytes, pos, <<value, width>>), pos, width, value)
<1>. AllocSize \in Nat
  BY SizeAssumption
<1>1. DOMAIN Put(bytes, pos, <<value, width>>) = 0 .. AllocSize - 1
  BY DEF Put
<1>2. ASSUME NEW j \in 1 .. width
      PROVE  Put(bytes, pos, <<value, width>>)[pos + j - 1]
               = <<width, j, value>>
  <2>1. /\ pos + j - 1 \in DOMAIN bytes
        /\ pos + j - 1 \in pos .. pos + width - 1
        /\ pos + j - 1 - pos + 1 = j
    OBVIOUS
  <2> QED BY <2>1 DEF Put
<1> QED BY <1>1, <1>2 DEF Holds

LEMMA PutKeeps ==
  ASSUME NEW bytes, DOMAIN bytes = 0 .. AllocSize - 1, NEW value,
         NEW pos \in Nat, NEW width \in Nat,
         NEW at \in Nat, NEW size \in Nat, NEW held,
         at + size <= AllocSize,
         at + size <= pos \/ pos + width <= at,
         Holds(bytes, at, size, held)
  PROVE  Holds(Put(bytes, pos, <<value, width>>), at, size, held)
<1>. AllocSize \in Nat
  BY SizeAssumption
<1> SUFFICES ASSUME NEW j \in 1 .. size
             PROVE  Put(bytes, pos, <<value, width>>)[at + j - 1]
                      = <<size, j, held>>
  BY DEF Holds
<1>1. /\ at + j - 1 \in DOMAIN bytes
      /\ at + j - 1 \notin pos .. pos + width - 1
  OBVIOUS
<1> QED BY <1>1 DEF Put, Holds

(* The packet fits: the count of its buffs its field, and all of it the    *)
(* buffer.                                                                 *)
LEMMA PacketFits ==
  ASSUME packet \in Packets
  PROVE  /\ packet.buffs \in Seq(Buffs)
         /\ Len(packet.buffs) \in 0 .. MaxBuffs
         /\ Len(packet.buffs) % 2^16 = Len(packet.buffs)
         /\ \A i \in 0 .. Len(packet.buffs) :
              /\ BuffPos(i + 1) = 20 + 12 * i
              /\ BuffPos(i + 1) \in Nat /\ BuffPos(i + 1) <= AllocSize
         /\ \A i \in 1 .. Len(packet.buffs) :
              /\ packet.buffs[i] \in Buffs
              /\ BuffPos(i) \in Nat /\ BuffPos(i + 1) = BuffPos(i) + 12
<1>1. PICK n \in 0 .. MaxBuffs : packet.buffs \in [1 .. n -> Buffs]
  BY DEF Packets
<1>2. n \in Nat /\ MaxBuffs \in Nat
  BY <1>1, SizeAssumption
<1>3. packet.buffs \in Seq(Buffs)
  BY <1>1, <1>2
<1>4. Len(packet.buffs) = n
  BY <1>1, <1>2
<1>5. 20 + 12 * MaxBuffs <= AllocSize /\ AllocSize \in Nat /\ AllocSize < 2^16
  BY Widths, SizeAssumption
<1>6. n % 2^16 = n
  BY <1>2, <1>5
<1>7. \A i \in 0 .. n :
        /\ BuffPos(i + 1) = 20 + 12 * i
        /\ BuffPos(i + 1) \in Nat /\ BuffPos(i + 1) <= AllocSize
  BY <1>2, <1>5, Widths DEF BuffPos
<1>8. \A i \in 1 .. n :
        BuffPos(i) \in Nat /\ BuffPos(i + 1) = BuffPos(i) + 12
  BY <1>2, Widths DEF BuffPos
<1> QED BY <1>1, <1>3, <1>4, <1>6, <1>7, <1>8

(* What was written before a field of the packet stays when it is.         *)
LEMMA BuffKept ==
  ASSUME packet \in Packets, NEW bytes, DOMAIN bytes = 0 .. AllocSize - 1,
         NEW value, NEW pos \in Nat, NEW width \in Nat,
         NEW i \in 1 .. Len(packet.buffs), BuffHeld(bytes, i),
         BuffPos(i + 1) <= pos \/ pos + width <= Header
  PROVE  BuffHeld(Put(bytes, pos, <<value, width>>), i)
<1>1. /\ BuffPos(i) \in Nat /\ BuffPos(i) + 12 <= AllocSize
      /\ BuffPos(i) + 12 <= pos \/ pos + width <= BuffPos(i)
  <2>1. i \in 0 .. Len(packet.buffs) /\ i - 1 \in 0 .. Len(packet.buffs)
    BY PacketFits
  <2>2. i - 1 + 1 = i
    BY <2>1
  <2>3. /\ BuffPos(i) = 20 + 12 * (i - 1)
        /\ BuffPos(i + 1) = BuffPos(i) + 12 /\ BuffPos(i + 1) <= AllocSize
    BY <2>1, <2>2, PacketFits
  <2> QED BY <2>1, <2>3, PacketFits, Widths
<1>2. AllocSize \in Nat
  BY SizeAssumption
<1>3. Holds(Put(bytes, pos, <<value, width>>), BuffPos(i), U64,
            packet.buffs[i].buffId)
  <2>1. BuffPos(i) + 8 <= AllocSize /\ 8 \in Nat
    BY <1>1, <1>2
  <2>2. BuffPos(i) + 8 <= pos \/ pos + width <= BuffPos(i)
    BY <1>1
  <2> QED BY <1>1, <2>1, <2>2, PutKeeps, Widths DEF BuffHeld
<1>4. Holds(Put(bytes, pos, <<value, width>>), BuffPos(i) + U64, FloatOut,
            packet.buffs[i].remainTime)
  <2>1. BuffPos(i) + 8 \in Nat /\ BuffPos(i) + 8 + 4 <= AllocSize /\ 4 \in Nat
    BY <1>1, <1>2
  <2>2. BuffPos(i) + 8 + 4 <= pos \/ pos + width <= BuffPos(i) + 8
    BY <1>1
  <2> QED BY <1>1, <2>1, <2>2, PutKeeps, Widths DEF BuffHeld
<1> QED BY <1>3, <1>4 DEF BuffHeld

LEMMA FieldsKept ==
  ASSUME NEW bytes, DOMAIN bytes = 0 .. AllocSize - 1, FieldsHeld(bytes),
         NEW value, NEW pos \in Nat, NEW width \in Nat,
         FixedSize <= pos \/ pos + width <= Header
  PROVE  FieldsHeld(Put(bytes, pos, <<value, width>>))
<1>1. 20 <= AllocSize /\ AllocSize \in Nat
  BY SizeAssumption, Widths
<1>2. 20 <= pos \/ pos + width <= 4
  BY Widths
<1> USE DEF FieldsHeld
<1>3. Holds(bytes, 4, 8, packet.id) /\ Holds(bytes, 12, 4, packet.hp)
  BY Widths
<1>4. /\ Holds(bytes, 16, 2, packet.attack)
      /\ Holds(bytes, 18, 2, Len(packet.buffs))
  BY Widths
<1>5. ASSUME NEW at \in Nat, NEW size \in Nat, NEW held,
             4 <= at, at + size <= 20, Holds(bytes, at, size, held)
      PROVE  Holds(Put(bytes, pos, <<value, width>>), at, size, held)
  <2>1. at + size <= AllocSize /\ (at + size <= pos \/ pos + width <= at)
    BY <1>1, <1>2, <1>5
  <2> QED BY <1>5, <2>1, PutKeeps
<1>6. /\ Holds(Put(bytes, pos, <<value, width>>), 4, 8, packet.id)
      /\ Holds(Put(bytes, pos, <<value, width>>), 12, 4, packet.hp)
  BY <1>3, <1>5
<1>7. /\ Holds(Put(bytes, pos, <<value, width>>), 16, 2, packet.attack)
      /\ Holds(Put(bytes, pos, <<value, width>>), 18, 2, Len(packet.buffs))
  BY <1>4, <1>5
<1> QED BY <1>6, <1>7, Widths

-----------------------------------------------------------------------------
LEMMA InitCodec == Init => CodecInv
<1> SUFFICES ASSUME Init PROVE CodecInv
  OBVIOUS
<1>1. Len(<<>>) = 0 /\ <<>> \in Seq(Buffs)
  OBVIOUS
<1>2. TypeInv
  BY <1>1, SizeAssumption DEF Init, TypeInv, TypeOK, Blank, Nothing
<1>3. WriteInv /\ ReadInv
  BY DEF Init, WriteInv, ReadInv, Nothing
<1> QED BY <1>2, <1>3 DEF CodecInv

LEMMA ReserveStep == CodecInv /\ Reserve => CodecInv'
<1> SUFFICES ASSUME CodecInv, Reserve PROVE CodecInv'
  OBVIOUS
<1>1. pc = "reserve" /\ pc' = "fields" /\ writePos = 0 /\ writePos' = Header
  BY Widths DEF CodecInv, WriteInv, Reserve
<1>2. UNCHANGED <<packet, buffer, next, writeSize, readPos, buffSize, got>>
  BY DEF Reserve
<1>3. TypeInv'
  BY <1>1, <1>2, Widths DEF CodecInv, TypeInv, TypeOK
<1>4. WriteInv' /\ ReadInv'
  BY <1>1, <1>2 DEF CodecInv, WriteInv, ReadInv
<1> QED BY <1>3, <1>4 DEF CodecInv

LEMMA PutFieldsStep == CodecInv /\ PutFields => CodecInv'
<1> SUFFICES ASSUME CodecInv, PutFields PROVE CodecInv'
  OBVIOUS
<1>1. /\ pc = "fields" /\ pc' = "buffs" /\ writePos = 4 /\ next = 0
      /\ got.buffs = <<>>
      /\ UNCHANGED <<packet, next, writeSize, readPos, buffSize, got>>
  BY Widths DEF CodecInv, WriteInv, ReadInv, PutFields
<1>2. packet \in Packets /\ DOMAIN buffer = 0 .. AllocSize - 1
  BY DEF CodecInv, TypeInv, TypeOK
<1>3. PICK withId : withId = Put(buffer, 4, <<packet.id, 8>>)
  OBVIOUS
<1>4. PICK withHp : withHp = Put(withId, 12, <<packet.hp, 4>>)
  OBVIOUS
<1>5. PICK withAttack : withAttack = Put(withHp, 16, <<packet.attack, 2>>)
  OBVIOUS
<1>6. /\ buffer' = Put(withAttack, 18, <<Len(packet.buffs), 2>>)
      /\ writePos' = 20
  <2>1. /\ writePos + U64 = 12 /\ writePos + U64 + U32 = 16
        /\ writePos + U64 + U32 + U16 = 18
        /\ writePos + U64 + U32 + U16 + U16 = 20
    BY <1>1, Widths
  <2>2. /\ buffer' = Put(Put(Put(Put(buffer, writePos, <<packet.id, U64>>),
                                writePos + U64, <<packet.hp, U32>>),
                            writePos + U64 + U32, <<packet.attack, U16>>),
                        writePos + U64 + U32 + U16,
                        <<Len(packet.buffs) % 2^16, U16>>)
        /\ writePos' = writePos + U64 + U32 + U16 + U16
    BY DEF PutFields
  <2>3. Len(packet.buffs) % 2^16 = Len(packet.buffs)
    BY <1>2, PacketFits
  <2> QED BY <1>1, <1>3, <1>4, <1>5, <2>1, <2>2, <2>3, Widths
<1>7. 20 <= AllocSize /\ AllocSize \in Nat
  BY SizeAssumption, Widths
<1>8. /\ DOMAIN withId = 0 .. AllocSize - 1
      /\ Holds(withId, 4, 8, packet.id)
  BY <1>2, <1>3, <1>7, PutHolds
<1>9. /\ DOMAIN withHp = 0 .. AllocSize - 1
      /\ Holds(withHp, 12, 4, packet.hp)
      /\ Holds(withHp, 4, 8, packet.id)
  <2>1. 12 + 4 <= AllocSize /\ 4 + 8 <= AllocSize /\ 4 + 8 <= 12
    BY <1>7
  <2>2. /\ DOMAIN withHp = 0 .. AllocSize - 1
        /\ Holds(withHp, 12, 4, packet.hp)
    BY <1>4, <1>7, <1>8, <2>1, PutHolds
  <2>3. Holds(Put(withId, 12, <<packet.hp, 4>>), 4, 8, packet.id)
    BY <1>7, <1>8, <2>1, PutKeeps
  <2> QED BY <1>4, <2>2, <2>3
<1>10. /\ DOMAIN withAttack = 0 .. AllocSize - 1
       /\ Holds(withAttack, 16, 2, packet.attack)
       /\ Holds(withAttack, 12, 4, packet.hp)
       /\ Holds(withAttack, 4, 8, packet.id)
  <2>1. /\ 16 + 2 <= AllocSize /\ 12 + 4 <= AllocSize /\ 4 + 8 <= AllocSize
        /\ 12 + 4 <= 16 /\ 4 + 8 <= 16
    BY <1>7
  <2>2. /\ DOMAIN withAttack = 0 .. AllocSize - 1
        /\ Holds(withAttack, 16, 2, packet.attack)
    BY <1>5, <1>7, <1>9, <2>1, PutHolds
  <2>3. Holds(Put(withHp, 16, <<packet.attack, 2>>), 12, 4, packet.hp)
    BY <1>7, <1>9, <2>1, PutKeeps
  <2>4. Holds(Put(withHp, 16, <<packet.attack, 2>>), 4, 8, packet.id)
    BY <1>7, <1>9, <2>1, PutKeeps
  <2> QED BY <1>5, <2>2, <2>3, <2>4
<1>11. PICK count : count = Len(packet.buffs)
  OBVIOUS
<1>12. /\ DOMAIN buffer' = 0 .. AllocSize - 1
       /\ Holds(buffer', 18, 2, Len(packet.buffs))
       /\ Holds(buffer', 16, 2, packet.attack)
       /\ Holds(buffer', 12, 4, packet.hp)
       /\ Holds(buffer', 4, 8, packet.id)
  <2>1. /\ 18 + 2 <= AllocSize /\ 16 + 2 <= AllocSize
        /\ 12 + 4 <= AllocSize /\ 4 + 8 <= AllocSize
        /\ 16 + 2 <= 18 /\ 12 + 4 <= 18 /\ 4 + 8 <= 18
    BY <1>7
  <2>2. buffer' = Put(withAttack, 18, <<count, 2>>)
    BY <1>6, <1>11
  <2>3. /\ DOMAIN buffer' = 0 .. AllocSize - 1
        /\ Holds(buffer', 18, 2, count)
    BY <1>7, <1>10, <2>1, <2>2, PutHolds
  <2>4. Holds(Put(withAttack, 18, <<count, 2>>), 16, 2, packet.attack)
    BY <1>7, <1>10, <2>1, PutKeeps
  <2>5. Holds(Put(withAttack, 18, <<count, 2>>), 12, 4, packet.hp)
    BY <1>7, <1>10, <2>1, PutKeeps
  <2>6. Holds(Put(withAttack, 18, <<count, 2>>), 4, 8, packet.id)
    BY <1>7, <1>10, <2>1, PutKeeps
  <2> QED BY <1>11, <2>2, <2>3, <2>4, <2>5, <2>6
<1>13. FieldsHeld(buffer)'
  BY <1>1, <1>12, Widths DEF FieldsHeld
<1>14. TypeInv'
  BY <1>1, <1>2, <1>6, <1>12 DEF CodecInv, TypeInv, TypeOK
<1>15. WriteInv'
  <2>1. writePos' = BuffPos(next' + 1) /\ next' <= Len(packet'.buffs)
    BY <1>1, <1>2, <1>6, PacketFits
  <2> QED BY <1>1, <1>13, <2>1 DEF WriteInv
<1>16. ReadInv'
  BY <1>1 DEF ReadInv
<1> QED BY <1>14, <1>15, <1>16 DEF CodecInv

LEMMA PutBuffStep == CodecInv /\ PutBuff => CodecInv'
<1> SUFFICES ASSUME CodecInv, PutBuff PROVE CodecInv'
  OBVIOUS
<1>1. /\ pc = "buffs" /\ next < Len(packet.buffs) /\ got.buffs = <<>>
      /\ next' = next + 1
      /\ UNCHANGED <<packet, writeSize, readPos, buffSize, got, pc>>
  BY DEF CodecInv, ReadInv, PutBuff
<1>2. /\ packet \in Packets /\ DOMAIN buffer = 0 .. AllocSize - 1
      /\ next \in Nat /\ AllocSize \in Nat
  BY SizeAssumption DEF CodecInv, TypeInv, TypeOK
<1>3. PICK n \in 1 .. Len(packet.buffs) : n = next + 1
  BY <1>1, <1>2, PacketFits
<1>4. PICK pos \in Nat : pos = writePos
  BY DEF CodecInv, TypeInv, TypeOK
<1>5. /\ pos = BuffPos(n) /\ pos + 12 = BuffPos(n + 1)
      /\ BuffPos(n + 1) <= AllocSize /\ FixedSize <= pos
  <2>1. pos = BuffPos(n)
    BY <1>1, <1>3, <1>4 DEF CodecInv, WriteInv
  <2>2. n \in 0 .. Len(packet.buffs) /\ next \in 0 .. Len(packet.buffs)
    BY <1>1, <1>2, <1>3, PacketFits
  <2> QED BY <1>2, <1>3, <2>1, <2>2, PacketFits, Widths
<1>6. PICK withId : withId = Put(buffer, pos, <<packet.buffs[n].buffId, 8>>)
  OBVIOUS
<1>7. /\ buffer' = Put(withId, pos + 8, <<packet.buffs[n].remainTime, 4>>)
      /\ writePos' = pos + 12
  BY <1>3, <1>4, <1>6, Widths DEF PutBuff
<1>8. pos + 8 \in Nat /\ pos + 8 <= AllocSize /\ pos + 8 + 4 <= AllocSize
  BY <1>2, <1>5
<1>9. /\ DOMAIN withId = 0 .. AllocSize - 1
      /\ Holds(withId, pos, 8, packet.buffs[n].buffId)
  <2>1. /\ pos \in Nat /\ 8 \in Nat /\ pos + 8 <= AllocSize
        /\ DOMAIN buffer = 0 .. AllocSize - 1
    BY <1>2, <1>8
  <2> QED BY <1>6, <2>1, PutHolds
<1>10. /\ DOMAIN buffer' = 0 .. AllocSize - 1
       /\ Holds(buffer', pos + 8, 4, packet.buffs[n].remainTime)
  BY <1>7, <1>8, <1>9, PutHolds
<1>11. Holds(buffer', pos, 8, packet.buffs[n].buffId)
  <2>1. 8 \in Nat /\ 4 \in Nat /\ pos + 8 <= pos + 8
    BY <1>8
  <2>2. Holds(Put(withId, pos + 8, <<packet.buffs[n].remainTime, 4>>), pos, 8,
              packet.buffs[n].buffId)
    BY <1>8, <1>9, <2>1, PutKeeps
  <2> QED BY <1>7, <2>2
<1>12. BuffHeld(buffer', n)
  BY <1>5, <1>10, <1>11, Widths DEF BuffHeld
<1>13. FieldsHeld(buffer') /\ \A i \in 1 .. next : BuffHeld(buffer', i)
  <2>1. FieldsHeld(buffer) /\ \A i \in 1 .. next : BuffHeld(buffer, i)
    BY <1>1 DEF CodecInv, WriteInv
  <2>2. FieldsHeld(withId)
    BY <1>2, <1>5, <1>6, <2>1, FieldsKept
  <2>3. FieldsHeld(buffer')
    <3>1. FixedSize <= pos + 8
      BY <1>5, Widths
    <3> QED BY <1>7, <1>8, <1>9, <2>2, <3>1, FieldsKept
  <2>4. ASSUME NEW i \in 1 .. next PROVE BuffHeld(buffer', i)
    <3>1. /\ i \in 1 .. Len(packet.buffs)
          /\ BuffPos(i + 1) <= pos /\ BuffPos(i + 1) <= pos + 8
      <4>1. /\ i \in 1 .. Len(packet.buffs) /\ i \in 0 .. Len(packet.buffs)
            /\ next \in 0 .. Len(packet.buffs) /\ i <= next
        BY <1>1, <1>2, PacketFits
      <4>2. BuffPos(i + 1) = 20 + 12 * i /\ pos = 20 + 12 * next
        BY <1>2, <1>3, <1>5, <4>1, PacketFits
      <4> QED BY <1>2, <4>1, <4>2
    <3>2. BuffHeld(withId, i)
      BY <1>2, <1>6, <2>1, <3>1, BuffKept
    <3> QED BY <1>2, <1>7, <1>8, <1>9, <3>1, <3>2, BuffKept
  <2> QED BY <2>3, <2>4
<1>14. TypeInv'
  <2>1. next' \in 0 .. MaxBuffs /\ writePos' \in Nat
    BY <1>1, <1>2, <1>7, PacketFits, SizeAssumption
  <2> QED BY <1>1, <1>10, <2>1 DEF CodecInv, TypeInv, TypeOK
<1>15. WriteInv'
  <2>1. /\ writePos' = BuffPos(next' + 1) /\ next' <= Len(packet'.buffs)
        /\ packet' = packet /\ pc' = "buffs"
    BY <1>1, <1>2, <1>3, <1>5, <1>7
  <2>2. FieldsHeld(buffer)' /\ \A i \in 1 .. next' : BuffHeld(buffer, i)'
    BY <1>1, <1>2, <1>3, <1>12, <1>13 DEF FieldsHeld, BuffHeld
  <2> QED BY <2>1, <2>2 DEF WriteInv
<1>16. ReadInv'
  BY <1>1 DEF ReadInv
<1> QED BY <1>14, <1>15, <1>16 DEF CodecInv

LEMMA CloseStep == CodecInv /\ Close => CodecInv'
<1> SUFFICES ASSUME CodecInv, Close PROVE CodecInv'
  OBVIOUS
<1>1. /\ pc = "buffs" /\ pc' = "sent" /\ next = Len(packet.buffs)
      /\ writeSize' = writePos /\ got.buffs = <<>>
      /\ UNCHANGED <<packet, writePos, next, readPos, buffSize, got>>
  BY DEF CodecInv, ReadInv, Close
<1>2. /\ packet \in Packets /\ DOMAIN buffer = 0 .. AllocSize - 1
      /\ AllocSize \in Nat /\ AllocSize < 2^16
  BY SizeAssumption DEF CodecInv, TypeInv, TypeOK
<1>3. /\ writePos = BuffPos(next + 1) /\ writePos \in Nat
      /\ 20 <= writePos /\ writePos <= AllocSize
  <2>1. next \in 0 .. Len(packet.buffs) /\ next \in Nat
    BY <1>1, <1>2, PacketFits
  <2>2. writePos = BuffPos(next + 1)
    BY <1>1 DEF CodecInv, WriteInv
  <2>3. BuffPos(next + 1) = 20 + 12 * next
    BY <1>2, <2>1, PacketFits
  <2> QED BY <1>2, <2>1, <2>2, <2>3, PacketFits
<1>4. PacketSize = writePos
  BY <1>2, <1>3 DEF PacketSize
<1>5. PICK h : h = [size |-> writePos, id |-> S_TEST]
  OBVIOUS
<1>6. buffer' = Put(buffer, 0, <<h, 4>>)
  BY <1>4, <1>5, Widths DEF Close
<1>7. 0 \in Nat /\ 4 \in Nat /\ 0 + 4 <= AllocSize
  BY <1>2, <1>3
<1>8. DOMAIN buffer' = 0 .. AllocSize - 1 /\ Holds(buffer', 0, 4, h)
  BY <1>2, <1>6, <1>7, PutHolds
<1>9. FieldsHeld(buffer)'
  <2>1. FieldsHeld(buffer) /\ 0 + 4 <= Header
    BY <1>1, Widths DEF CodecInv, WriteInv
  <2>2. FieldsHeld(Put(buffer, 0, <<h, 4>>))
    BY <1>2, <1>7, <2>1, FieldsKept
  <2> QED BY <1>1, <1>6, <2>2 DEF FieldsHeld
<1>10. \A i \in 1 .. next : BuffHeld(buffer, i)'
  <2> SUFFICES ASSUME NEW i \in 1 .. Len(packet.buffs)
               PROVE  BuffHeld(Put(buffer, 0, <<h, 4>>), i)
    BY <1>1, <1>6 DEF BuffHeld
  <2>1. BuffHeld(buffer, i) /\ 0 + 4 <= Header
    BY <1>1, Widths DEF CodecInv, WriteInv
  <2> QED BY <1>2, <1>7, <2>1, BuffKept
<1>11. TypeInv'
  BY <1>1, <1>2, <1>3, <1>8 DEF CodecInv, TypeInv, TypeOK
<1>12. WriteInv'
  <2>1. Holds(buffer', 0, Header, [size |-> writePos', id |-> S_TEST])
    BY <1>1, <1>5, <1>8, Widths
  <2>2. next' <= Len(packet'.buffs)
    BY <1>1, <1>2, PacketFits
  <2> QED BY <1>1, <1>3, <1>9, <1>10, <2>1, <2>2 DEF WriteInv
<1>13. ReadInv'
  BY <1>1 DEF ReadInv
<1> QED BY <1>11, <1>12, <1>13 DEF CodecInv

-----------------------------------------------------------------------------
(* The header tells the reader how long the packet is. *)
LEMMA HeaderRead ==
  ASSUME CodecInv, pc \in {"sent", "getBuffs", "done"}
  PROVE  Get(0, Header).size = writePos
<1>1. Holds(buffer, 0, Header, [size |-> writePos, id |-> S_TEST])
  BY DEF CodecInv, WriteInv
<1>2. Get(0, Header) = [size |-> writePos, id |-> S_TEST]
  <2>1. Header \in Nat \ {0} /\ 0 \in Nat
    BY Widths
  <2> QED BY <1>1, <2>1, GetHeld
<1> QED BY <1>2

LEMMA HandleStep == CodecInv /\ Handle => CodecInv'
<1> SUFFICES ASSUME CodecInv, Handle PROVE CodecInv'
  OBVIOUS
<1>1. /\ pc = "sent" /\ pc' = "getBuffs" /\ got.buffs = <<>>
      /\ UNCHANGED <<packet, buffer, writePos, next, writeSize>>
  BY DEF CodecInv, ReadInv, Handle
<1>2. packet \in Packets /\ FieldsHeld(buffer)
  BY <1>1 DEF CodecInv, TypeInv, TypeOK, WriteInv
<1>3. /\ Get(4, 8) = packet.id /\ Get(12, 4) = packet.hp
      /\ Get(16, 2) = packet.attack /\ Get(18, 2) = Len(packet.buffs)
  <2>1. /\ Holds(buffer, 4, 8, packet.id) /\ Holds(buffer, 12, 4, packet.hp)
        /\ Holds(buffer, 16, 2, packet.attack)
        /\ Holds(buffer, 18, 2, Len(packet.buffs))
    BY <1>2, Widths DEF FieldsHeld
  <2> QED BY <2>1, GetHeld
<1>4. /\ got' = [got EXCEPT !.id = packet.id, !.hp = packet.hp,
                            !.attack = packet.attack]
      /\ buffSize' = Len(packet.buffs) /\ readPos' = 20
  <2>1. /\ Header + U64 = 12 /\ Header + U64 + U32 = 16
        /\ Header + U64 + U32 + U16 = 18
        /\ Header + U64 + U32 + U16 + U16 = 20
    BY Widths
  <2>2. /\ got' = [got EXCEPT !.id = Get(Header, U64),
                              !.hp = Get(Header + U64, U32),
                              !.attack = Get(Header + U64 + U32, U16)]
        /\ buffSize' = Get(Header + U64 + U32 + U16, U16)
        /\ readPos' = Header + U64 + U32 + U16 + U16
    BY DEF Handle
  <2>3. /\ Get(Header, U64) = packet.id /\ Get(Header + U64, U32) = packet.hp
        /\ Get(Header + U64 + U32, U16) = packet.attack
        /\ Get(Header + U64 + U32 + U16, U16) = Len(packet.buffs)
    BY <1>3, <2>1, Widths
  <2> QED BY <2>1, <2>2, <2>3
<1>5. /\ got' \in [id : Values \cup {Garbage}, hp : Values \cup {Garbage},
                   attack : Values \cup {Garbage}, buffs : Seq(Buffs)]
      /\ got'.id = packet.id /\ got'.hp = packet.hp
      /\ got'.attack = packet.attack /\ got'.buffs = <<>>
  BY <1>1, <1>2, <1>4 DEF CodecInv, TypeInv, Packets
<1>6. Len(<<>>) = 0 /\ 0 \in 0 .. Len(packet.buffs)
  BY <1>2, PacketFits
<1>7. TypeInv'
  <2>1. /\ got'.id \in Values \cup {Garbage} /\ Len(got'.buffs) <= buffSize'
        /\ buffSize' \in 0 .. MaxBuffs /\ readPos' \in Nat
    <3>1. buffSize' \in 0 .. MaxBuffs /\ readPos' \in Nat
      BY <1>2, <1>4, PacketFits
    <3>2. Len(got'.buffs) <= buffSize'
      BY <1>4, <1>5, <1>6
    <3> QED BY <1>5, <3>1, <3>2
  <2> QED BY <1>1, <1>5, <2>1 DEF CodecInv, TypeInv, TypeOK
<1>8. WriteInv'
  BY <1>1 DEF CodecInv, WriteInv, FieldsHeld, BuffHeld
<1>9. ReadInv'
  <2>1. readPos' = BuffPos(Len(got'.buffs) + 1)
    BY <1>2, <1>4, <1>5, <1>6, PacketFits
  <2> QED BY <1>1, <1>4, <1>5, <1>6, <2>1 DEF ReadInv
<1> QED BY <1>7, <1>8, <1>9 DEF CodecInv

LEMMA GetBuffStep == CodecInv /\ GetBuff => CodecInv'
<1> SUFFICES ASSUME CodecInv, GetBuff PROVE CodecInv'
  OBVIOUS
<1>1. /\ pc = "getBuffs" /\ Len(got.buffs) < buffSize
      /\ UNCHANGED <<packet, buffer, writePos, next, writeSize, buffSize, pc>>
  BY DEF GetBuff
<1>2. packet \in Packets /\ got.buffs \in Seq(Buffs)
  BY DEF CodecInv, TypeInv, TypeOK
<1>3. /\ buffSize = Len(packet.buffs) /\ next = Len(packet.buffs)
      /\ readPos = BuffPos(Len(got.buffs) + 1)
      /\ \A i \in 1 .. next : BuffHeld(buffer, i)
  BY <1>1 DEF CodecInv, WriteInv, ReadInv
<1>4. PICK n \in 1 .. Len(packet.buffs) : n = Len(got.buffs) + 1
  BY <1>1, <1>2, <1>3, PacketFits, LenProperties
<1>5. /\ readPos = BuffPos(n) /\ BuffPos(n) \in Nat
      /\ BuffPos(n + 1) = BuffPos(n) + 12 /\ BuffHeld(buffer, n)
      /\ packet.buffs[n] \in Buffs
  BY <1>2, <1>3, <1>4, PacketFits
<1>6. [buffId |-> Get(readPos, U64),
       remainTime |-> Get(readPos + U64, FloatIn)] = packet.buffs[n]
  <2>1. /\ Holds(buffer, readPos, 8, packet.buffs[n].buffId)
        /\ Holds(buffer, readPos + 8, 4, packet.buffs[n].remainTime)
    BY <1>5, Widths DEF BuffHeld
  <2>2. readPos \in Nat /\ readPos + 8 \in Nat
    BY <1>5
  <2>3. /\ Get(readPos, 8) = packet.buffs[n].buffId
        /\ Get(readPos + 8, 4) = packet.buffs[n].remainTime
    BY <2>1, <2>2, GetHeld
  <2> QED BY <1>5, <2>3, Widths DEF Buffs
<1>7. PICK longer : longer = Append(got.buffs, packet.buffs[n])
  OBVIOUS
<1>8. /\ longer \in Seq(Buffs) /\ Len(longer) = n
      /\ \A i \in 1 .. n - 1 : longer[i] = got.buffs[i]
      /\ longer[n] = packet.buffs[n]
  <2>1. /\ longer \in Seq(Buffs) /\ Len(longer) = Len(got.buffs) + 1
        /\ \A i \in 1 .. Len(got.buffs) : longer[i] = got.buffs[i]
        /\ longer[Len(got.buffs) + 1] = packet.buffs[n]
    BY <1>2, <1>5, <1>7, AppendProperties
  <2>2. Len(got.buffs) \in Nat
    BY <1>2, LenProperties
  <2>3. n - 1 = Len(got.buffs)
    BY <1>4, <2>2
  <2> QED BY <1>4, <2>1, <2>3
<1>9. got' = [got EXCEPT !.buffs = longer] /\ readPos' = BuffPos(n) + 12
  <2>1. /\ got' = [got EXCEPT !.buffs = Append(got.buffs,
                     [buffId |-> Get(readPos, U64),
                      remainTime |-> Get(readPos + U64, FloatIn)])]
        /\ readPos' = readPos + U64 + FloatIn
    BY DEF GetBuff
  <2>2. readPos + U64 + FloatIn = BuffPos(n) + 12
    BY <1>5, Widths
  <2> QED BY <1>6, <1>7, <2>1, <2>2
<1>10. /\ got' \in [id : Values \cup {Garbage}, hp : Values \cup {Garbage},
                    attack : Values \cup {Garbage}, buffs : Seq(Buffs)]
       /\ got'.id = got.id /\ got'.hp = got.hp /\ got'.attack = got.attack
       /\ got'.buffs = longer
  BY <1>8, <1>9 DEF CodecInv, TypeInv
<1>11. TypeInv'
  <2>1. got'.id \in Values \cup {Garbage} /\ Len(got'.buffs) <= buffSize'
    BY <1>1, <1>2, <1>3, <1>8, <1>10, PacketFits
  <2>2. readPos' \in Nat
    BY <1>5, <1>9
  <2> QED BY <1>1, <1>10, <2>1, <2>2 DEF CodecInv, TypeInv, TypeOK
<1>12. WriteInv'
  BY <1>1 DEF CodecInv, WriteInv, FieldsHeld, BuffHeld
<1>13. ReadInv'
  <2>1. \A i \in 1 .. n : longer[i] = packet.buffs[i]
    <3>1. \A i \in 1 .. n - 1 : got.buffs[i] = packet.buffs[i]
      <4>1. Len(got.buffs) \in Nat /\ n - 1 = Len(got.buffs)
        BY <1>2, <1>4, LenProperties
      <4> QED BY <1>1, <4>1 DEF CodecInv, ReadInv
    <3>2. \A i \in 1 .. n : i \in 1 .. n - 1 \/ i = n
      BY PacketFits
    <3> QED BY <1>8, <3>1, <3>2
  <2>2. /\ got.id = packet.id /\ got.hp = packet.hp
        /\ got.attack = packet.attack
    BY <1>1 DEF CodecInv, ReadInv
  <2> QED BY <1>1, <1>3, <1>5, <1>8, <1>9, <1>10, <2>1, <2>2 DEF ReadInv
<1> QED BY <1>11, <1>12, <1>13 DEF CodecInv

LEMMA HandledStep == CodecInv /\ Handled => CodecInv'
<1> SUFFICES ASSUME CodecInv, Handled PROVE CodecInv'
  OBVIOUS
<1>1. /\ pc = "getBuffs" /\ pc' = "done" /\ Len(got.buffs) = buffSize
      /\ UNCHANGED <<packet, buffer, writePos, next, writeSize, readPos,
                     buffSize, got>>
  BY DEF Handled
<1>2. TypeInv'
  BY <1>1 DEF CodecInv, TypeInv, TypeOK
<1>3. WriteInv' /\ ReadInv'
  BY <1>1 DEF CodecInv, WriteInv, ReadInv, FieldsHeld, BuffHeld
<1> QED BY <1>2, <1>3 DEF CodecInv

LEMMA Inductive == Spec => []CodecInv
<1>1. CodecInv /\ [Next]_vars => CodecInv'
  <2>1. CodecInv /\ UNCHANGED vars => CodecInv'
    BY DEF vars, CodecInv, TypeInv, TypeOK, WriteInv, ReadInv, FieldsHeld,
           BuffHeld
  <2> QED
    BY <2>1, ReserveStep, PutFieldsStep, PutBuffStep, CloseStep, HandleStep,
       GetBuffStep, HandledStep DEF Next, Done
<1> QED BY <1>1, InitCodec, PTL DEF Spec

(* For no packet that fits the buffer by the sizes of its fields is a byte *)
(* written past the end of it, or read past the len that the header tells. *)
THEOREM NothingBeyond == Spec => []StaysWithin
<1>1. CodecInv => StaysWithin
  <2> SUFFICES ASSUME CodecInv PROVE StaysWithin
    OBVIOUS
  <2>1. TypeOK /\ packet \in Packets
    BY DEF CodecInv, TypeInv, TypeOK
  <2>2. writePos <= AllocSize
    <3>1. CASE pc \in {"reserve", "fields"}
      BY <3>1, SizeAssumption, Widths DEF CodecInv, WriteInv
    <3>2. CASE pc \in {"buffs", "sent", "getBuffs", "done"}
      <4>1. /\ writePos = BuffPos(next + 1)
            /\ next \in 0 .. Len(packet.buffs)
        BY <2>1, <3>2, PacketFits DEF CodecInv, WriteInv, TypeOK
      <4> QED BY <2>1, <4>1, PacketFits
    <3> QED BY <2>1, <3>1, <3>2 DEF TypeOK
  <2>3. ASSUME pc \in {"getBuffs", "done"}
        PROVE  readPos <= Get(0, Header).size
    <3>1. /\ writePos = BuffPos(Len(packet.buffs) + 1)
          /\ readPos = BuffPos(Len(got.buffs) + 1)
          /\ Len(got.buffs) <= Len(packet.buffs)
      BY <2>1, <2>3 DEF CodecInv, WriteInv, ReadInv, TypeOK
    <3>2. Len(got.buffs) \in Nat
      BY LenProperties DEF CodecInv, TypeInv
    <3>3. Len(got.buffs) \in 0 .. Len(packet.buffs)
      BY <2>1, <3>1, <3>2, PacketFits
    <3>4. readPos = 20 + 12 * Len(got.buffs)
      BY <2>1, <3>1, <3>3, PacketFits
    <3>5. writePos = 20 + 12 * Len(packet.buffs)
      BY <2>1, <3>1, PacketFits
    <3>6. readPos <= writePos
      BY <2>1, <3>1, <3>2, <3>4, <3>5, PacketFits
    <3> QED BY <2>3, <3>6, HeaderRead
  <2> QED BY <2>1, <2>2, <2>3 DEF StaysWithin
<1> QED BY <1>1, Inductive, PTL

(* The two spellings of the layout agree for every packet that fits: what  *)
(* Handle_S_TEST has decoded is what Make_S_TEST was given.                *)
THEOREM LayoutsAgree == Spec => []RoundTrip
<1>1. CodecInv => RoundTrip
  <2> SUFFICES ASSUME CodecInv, pc = "done" PROVE got = packet
    BY DEF RoundTrip
  <2>1. /\ packet \in Packets /\ packet.buffs \in Seq(Buffs)
        /\ got.buffs \in Seq(Buffs)
    BY PacketFits DEF CodecInv, TypeInv, TypeOK
  <2>2. /\ got.id = packet.id /\ got.hp = packet.hp
        /\ got.attack = packet.attack
        /\ Len(got.buffs) = Len(packet.buffs)
        /\ \A i \in 1 .. Len(got.buffs) : got.buffs[i] = packet.buffs[i]
    BY DEF CodecInv, ReadInv
  <2>3. got.buffs = packet.buffs
    BY <2>1, <2>2, SeqEqual
  <2>4. /\ got = [id |-> got.id, hp |-> got.hp, attack |-> got.attack,
                  buffs |-> got.buffs]
        /\ packet = [id |-> packet.id, hp |-> packet.hp,
                     attack |-> packet.attack, buffs |-> packet.buffs]
    BY <2>1 DEF CodecInv, TypeInv, Packets
  <2> QED BY <2>2, <2>3, <2>4
<1> QED BY <1>1, Inductive, PTL
=============================================================================
