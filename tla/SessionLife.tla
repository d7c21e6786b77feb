---------------------------- MODULE SessionLife ----------------------------
(***************************************************************************)
(* The life of a session as the contents see it: OnConnected once, and     *)
(* after it at most once OnDisconnected.                                   *)
(***************************************************************************)
EXTENDS Sequences

CONSTANT Sessions

VARIABLE callbacks     \* what each session was told, in order

Init == callbacks = [s \in Sessions |-> <<>>]

OnConnected(s) ==
  /\ callbacks[s] = <<>>
  /\ callbacks' = [callbacks EXCEPT ![s] = <<"OnConnected">>]

OnDisconnected(s) ==
  /\ callbacks[s] = <<"OnConnected">>
  /\ callbacks' = [callbacks EXCEPT ![s] = Append(@, "OnDisconnected")]

Next == \E s \in Sessions : OnConnected(s) \/ OnDisconnected(s)

Spec == Init /\ [][Next]_callbacks
=============================================================================
