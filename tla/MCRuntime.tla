------------------------------ MODULE MCRuntime ------------------------------
(***************************************************************************)
(* One run for the four parts of the programs that share no state with one *)
(* another: the start of the threads and the service (Startup), the bytes  *)
(* of a packet (PacketCodec), counted objects (SharedPtr) and the pages of *)
(* the debug heap (StompAllocator).  Each behaviour follows one of them    *)
(* while the others stay as they were made, so that the states of the      *)
(* parts add up and do not multiply.                                       *)
(***************************************************************************)
EXTENDS Startup, PacketCodec, SharedPtr, StompAllocator, TLC

VARIABLE part  \* the part that takes the steps

partsVars == <<part, startVars, vars, sharedVars, stompVars>>

PartsInit ==
  /\ part \in {"startup", "codec", "shared", "stomp"}
  /\ StartInit /\ Init /\ SharedInit /\ StompInit
  /\ part # "codec" => packet = CHOOSE p \in Packets : p.buffs = <<>>
  /\ part # "startup" => role = CHOOSE r \in Roles : TRUE

StartupSteps ==
  /\ part = "startup" /\ StartNext
  /\ UNCHANGED <<part, vars, sharedVars, stompVars>>
CodecSteps ==
  /\ part = "codec" /\ Next
  /\ UNCHANGED <<part, startVars, sharedVars, stompVars>>
SharedSteps ==
  /\ part = "shared" /\ SharedNext
  /\ UNCHANGED <<part, startVars, vars, stompVars>>
StompSteps ==
  /\ part = "stomp" /\ StompNext
  /\ UNCHANGED <<part, startVars, vars, sharedVars>>

PartsNext == StartupSteps \/ CodecSteps \/ SharedSteps \/ StompSteps

PartsSpec == PartsInit /\ [][PartsNext]_partsVars

(* Threads, variables and objects of SharedPtr are interchangeable. *)
Symmetry ==
  Permutations(Users) \cup Permutations(Roots) \cup Permutations(Objects)
=============================================================================
