--------------------------- MODULE PacketChannel ---------------------------
(***************************************************************************)
(* What the receiving half of a PacketSession promises to OnRecvPacket:    *)
(* although TCP cuts and joins packets as it likes, the contents see them  *)
(* one at a time, whole, in the order in which the peer sent them.         *)
(***************************************************************************)
EXTENDS Naturals, Sequences

CONSTANT Sizes       \* header.size of the packets a peer sends

VARIABLES
  sent,              \* sizes of the packets sent so far
  delivered          \* bytes given to OnRecvPacket, packet by packet

vars == <<sent, delivered>>

(* The bytes of the k-th packet: what stands at an offset of a packet is   *)
(* told apart by packet and offset only.                                   *)
Packet(k) == [j \in 1 .. sent[k] |-> <<k, j>>]

Init == sent = <<>> /\ delivered = <<>>

SendPacket(size) ==
  /\ sent' = Append(sent, size)
  /\ UNCHANGED delivered

DeliverPacket ==
  /\ Len(delivered) < Len(sent)
  /\ delivered' = Append(delivered, Packet(Len(delivered) + 1))
  /\ UNCHANGED sent

Next == (\E size \in Sizes : SendPacket(size)) \/ DeliverPacket

Spec == Init /\ [][Next]_vars
=============================================================================
