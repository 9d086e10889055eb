---------------------------- MODULE PipelineOrder ----------------------------
(***************************************************************************)
(* What the worker processes of a pipeline promise, without the queues,    *)
(* the gate and the control block: the order in which the iterations of    *)
(* the stages end and are committed.                                       *)
(***************************************************************************)
EXTENDS Naturals

CONSTANTS
  Stages,     (* number of stages                                          *)
  Workers,    (* Workers[s]: number of workers of stage s                  *)
  Iterations  (* number of iterations                                      *)

AllStages == 0 .. Stages - 1
AllIters == 0 .. Iterations - 1
NoIter == Iterations

VARIABLES
  ended,      (* <<stage, iteration>>: the stage has sent all of it        *)
  committed,  (* how many iterations are committed                         *)
  failed      (* the iteration that misspeculated, or NoIter               *)

orderVars == <<ended, committed, failed>>

Init ==
  /\ ended = {}
  /\ committed = 0
  /\ failed = NoIter

(* A new invocation of the loop, after the one before has come to its end. *)
Begin ==
  /\ ended = {} \/ committed = Iterations \/ failed # NoIter
  /\ ended' = {} /\ committed' = 0 /\ failed' = NoIter

(* A stage ends an iteration, after                                        *)
(*   - the earlier stages have ended it, and the ones before it,           *)
(*   - its worker has ended the iterations it was to run before,           *)
(*   - the first iteration is committed, unless this is the first.         *)
End(s, i) ==
  /\ <<s, i>> \notin ended
  /\ \A t \in AllStages, j \in 0 .. i : t < s => <<t, j>> \in ended
  /\ \A j \in 0 .. i : j < i /\ j % Workers[s] = i % Workers[s] => <<s, j>> \in ended
  /\ i # 0 => committed # 0
  /\ ended' = ended \cup {<<s, i>>}
  /\ UNCHANGED <<committed, failed>>

(* Iterations are committed in order, each after all stages have ended it, *)
(* and none from the one that misspeculated on.                            *)
CommitNext ==
  /\ committed < Iterations /\ committed < failed
  /\ \A s \in AllStages : <<s, committed>> \in ended
  /\ committed' = committed + 1
  /\ UNCHANGED <<ended, failed>>

(* One iteration that is not yet committed misspeculates. *)
Fail(i) ==
  /\ failed = NoIter /\ committed <= i
  /\ failed' = i
  /\ UNCHANGED <<ended, committed>>

OrderNext ==
  \/ Begin
  \/ \E s \in AllStages, i \in AllIters : End(s, i)
  \/ CommitNext
  \/ \E i \in AllIters : Fail(i)

OrderSpec == Init /\ [][OrderNext]_orderVars
=============================================================================
