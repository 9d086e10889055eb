---------------------------- MODULE PageTransfer ----------------------------
(***************************************************************************)
(* PageForward with a history variable, the iterations that are under way, *)
(* and what it implements: IterationTransfer.  The variable is written     *)
(* when a loop body ends and when the receiver takes the DONE packet, and  *)
(* read by no step.                                                        *)
(***************************************************************************)
EXTENDS PageForward

VARIABLE due   (* history: the metadata the iterations under way left      *)

transferVars == <<vars, due>>

TransferInit == Init /\ due = <<>>

Execute == RunBody /\ due' = Append(due, Expected')
SendOn  == EndIter /\ UNCHANGED due
Receive == ReceivePacket /\ UNCHANGED due
Finish  == TakeDone /\ due' = Tail(due)

TransferNext == Execute \/ SendOn \/ Receive \/ Finish

TransferSpec == TransferInit /\ [][TransferNext]_transferVars

(* As in PageForward. *)
TransferFairSpec ==
  TransferSpec /\ WF_transferVars(SendOn) /\ WF_transferVars(Receive \/ Finish)

-----------------------------------------------------------------------------
LeftBehind ==
  {UNION {MarksOf(p, m[p]) : p \in Page} : m \in [Page -> [Word -> Meta]]}

Transfer == INSTANCE IterationTransfer WITH
  Iterations <- LeftBehind, sent <- due, told <- marks

(* Whichever way pages are sent, and however many iterations the sender is *)
(* ahead: a receiver is told of one iteration at a time, in order, nothing *)
(* that belongs to another one at any moment, and at its end all of it.    *)
ImplementsTransfer == Transfer!TransferSpec

(* The inductive invariant behind it: each iteration under way has its     *)
(* DONE packet, in order, or is the one that is being sent.                *)
Place(at, d, n, s, m, open) ==
  /\ \A i, j \in 1 .. n : i < j => at[i] < at[j]
  /\ \A i \in 1 .. n : at[i] <= m => s[at[i]].type = "DONE" /\ s[at[i]].meta = d[i]
  /\ \A k \in 1 .. m : s[k].type = "DONE" => \E i \in 1 .. n : at[i] = k
  /\ open => n > 0 /\ at[n] = m + 1
  /\ ~open => \A i \in 1 .. n : at[i] <= m

DueInv ==
  /\ \E at \in [1 .. Len(due) -> 1 .. Len(stream) + 1] :
       Place(at, due, Len(due), stream, Len(stream), pc # "body")
  /\ pc # "body" => due[Len(due)] = Expected
=============================================================================
