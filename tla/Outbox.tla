------------------------------- MODULE Outbox -------------------------------
(***************************************************************************)
(* What the sending half of a session promises its callers, with no        *)
(* threads, no lock and no overlapped event: a FIFO from which buffers     *)
(* leave oldest first.  A buffer is handed to the operating system at most *)
(* once and in the order of the calls to Send, a batch at a time; when     *)
(* WSASend refuses a batch, that batch is lost as a whole and nothing      *)
(* behind it is.  SessionSend is shown to implement this module.           *)
(***************************************************************************)
EXTENDS Naturals, Sequences

CONSTANT Buffers       \* one SendBuffer for each call of Session::Send

VARIABLES
  queue,               \* accepted by Send, not yet handed to WSASend
  submitted            \* handed to WSASend, in order

vars == <<queue, submitted>>

Init ==
  /\ queue = <<>>
  /\ submitted = <<>>

Enqueue(b) ==
  /\ queue' = Append(queue, b)
  /\ UNCHANGED submitted

(* The n oldest buffers become one gather list of WSASend. *)
Submit(n) ==
  /\ submitted' = submitted \o SubSeq(queue, 1, n)
  /\ queue' = SubSeq(queue, n + 1, Len(queue))

(* WSASend refused the n oldest buffers. *)
Discard(n) ==
  /\ queue' = SubSeq(queue, n + 1, Len(queue))
  /\ UNCHANGED submitted

Next ==
  \/ \E b \in Buffers : Enqueue(b)
  \/ \E n \in 1 .. Len(queue) : Submit(n) \/ Discard(n)

Spec == Init /\ [][Next]_vars
=============================================================================
