----------------------------- MODULE PacketFifo -----------------------------
(***************************************************************************)
(* What a software queue promises the two processes that share it: packets *)
(* come out one at a time, in the order they went in, none lost and none   *)
(* twice, as long as the producer keeps at most Window of them in flight.  *)
(***************************************************************************)
EXTENDS Naturals, Sequences

CONSTANTS
  Packets,  (* what can be put in the queue                               *)
  NULL,     (* "nothing", which is no packet                              *)
  Window    (* how many packets may be in the queue at once               *)

VARIABLES
  items,    (* the packets in the queue, oldest first                     *)
  got       (* the last packet handed to the consumer                     *)

vars == <<items, got>>

Init ==
  /\ items = <<>>
  /\ got = NULL

Put ==
  /\ Len(items) < Window
  /\ \E p \in Packets : items' = Append(items, p)
  /\ UNCHANGED got

Take ==
  /\ items # <<>>
  /\ got' = Head(items)
  /\ items' = Tail(items)

(* A drain throws the oldest packet away without handing it over. *)
Drop ==
  /\ items # <<>>
  /\ items' = Tail(items)
  /\ UNCHANGED got

Next == Put \/ Take \/ Drop

Spec == Init /\ [][Next]_vars
=============================================================================
