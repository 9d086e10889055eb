-------------------------- MODULE IterationTransfer --------------------------
(***************************************************************************)
(* What end_iter and process_incoming_packets promise the receiver of      *)
(* iterations, without packets, pages and buffers: the metadata of the     *)
(* iterations arrives iteration by iteration, in order, each once and all  *)
(* of it.                                                                  *)
(***************************************************************************)
EXTENDS Sequences

CONSTANT Iterations  (* the sets of marks an iteration may leave           *)

VARIABLES
  sent,     (* what the iterations left that are not wholly received,      *)
            (* oldest first                                                *)
  told      (* what the receiver knows of the oldest of them               *)

transferVars == <<sent, told>>

Init ==
  /\ sent = <<>>
  /\ told = {}

Execute ==
  /\ \E left \in Iterations : sent' = Append(sent, left)
  /\ UNCHANGED told

(* The receiver learns more of the oldest iteration, and of no other. *)
Tell ==
  /\ sent # <<>>
  /\ told \subseteq told' /\ told' \subseteq Head(sent)
  /\ UNCHANGED sent

(* It goes on to the next when it knows all of it. *)
Finish ==
  /\ sent # <<>> /\ told = Head(sent)
  /\ sent' = Tail(sent)
  /\ told' = {}

TransferNext == Execute \/ Tell \/ Finish

TransferSpec == Init /\ [][TransferNext]_transferVars
=============================================================================
