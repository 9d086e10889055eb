----------------------------- MODULE CleanedLoop -----------------------------
(***************************************************************************)
(* loopevent.cpp: the worker of loopevent_orig.cpp with its profiling      *)
(* taken out.  Its processes, packets and queues are those of Pipeline,    *)
(* and most of its statements are the same; what differs is check_misspec, *)
(* of which only the three local variables are left.  It no longer reads   *)
(* the process control block, so no worker exits but the one that finds    *)
(* out itself that it has misspeculated.                                   *)
(***************************************************************************)
EXTENDS Pipeline

CleanRunIteration(w, i) == Source(i, StageOf[w]) = w

CleanBeginInvocation == BeginInvocation
CleanEndInvocation == EndInvocation

(* pcb, wid and iter are read and nothing is done with them. *)
CleanCheckMisspec(w) ==
  /\ pc[w] = "check"
  /\ pc' = [pc EXCEPT ![w] = Follows.check]
  /\ UNCHANGED <<iter, from, queues, good, pcb, checker, main, history>>

(* Mutant: the gate is left out with the code around it. *)
CleanPassNoGate(w) ==
  /\ pc[w] = "gate"
  /\ pc' = [pc EXCEPT ![w] = Follows.gate]
  /\ UNCHANGED <<iter, from, queues, good, pcb, checker, main, history>>
CleanBeginIterNoGate(w) ==
  \/ CleanPassNoGate(w) \/ ReceivePacket(w) \/ ReceiveDone(w)
  \/ CleanCheckMisspec(w) \/ Predict(w)

CleanBeginIter(w) ==
  \/ PassGate(w) \/ ProcessReverseCommitQueue(w)
  \/ ReceivePacket(w) \/ ReceiveDone(w)
  \/ CleanCheckMisspec(w) \/ Predict(w)

(* The pages of an iteration are sent by the worker that runs it; then the *)
(* worker whose offset it is sends EOI, and all go on.                     *)
CleanForwardPages(w) ==
  /\ pc[w] = "forward"
  /\ ucvf' = IF CleanRunIteration(w, iter[w])
             THEN Broadcast(w, Packet("DATA", iter[w])) ELSE ucvf
  /\ pc' = [pc EXCEPT ![w] = "event"]
  /\ UNCHANGED <<iter, from, tryq, rcq, good, pcb, checker, main, history>>

CleanEndIter(w) == CleanForwardPages(w) \/ BroadcastEvent(w)

CleanWorker(w) ==
  \/ CleanBeginIter(w)
  \/ EndBody(w) \/ BodyMisspec(w) \/ RecordMisspec(w)
  \/ CleanEndIter(w)

(* A worker may wait for ever for the packets of one that misspeculated,   *)
(* so an invocation need not end.                                          *)
CleanNext ==
  \/ CleanBeginInvocation \/ CleanEndInvocation
  \/ \E w \in Wid : CleanWorker(w)
  \/ Checker
  \/ Terminated

CleanSpec == Init /\ [][CleanNext]_vars

CleanFairSpec ==
  /\ CleanSpec
  /\ \A w \in Wid : WF_vars(CleanWorker(w)) /\ WF_vars(TryCommit(w))
  /\ WF_vars(Commit \/ OpenGate \/ CommitMisspec \/ CommitRecordMisspec)
  /\ WF_vars(CleanEndInvocation)

-----------------------------------------------------------------------------
(* What the README says of the copies, "cleaned and isolated code from the *)
(* original": until a process reports a misspeculation the cleaned workers *)
(* do nothing the original ones do not.                                    *)
OriginalUntilMisspec == Init /\ [][pcb.happened \/ Next]_vars
=============================================================================
