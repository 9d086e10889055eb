----------------------------- MODULE MC_SwQueue -----------------------------
(* The queue with three slots, two packets and a window of up to all the   *)
(* slots, so that head and tail wrap and the ring is completely full and   *)
(* completely empty in reachable states.                                   *)
EXTENDS SwQueue
=============================================================================
