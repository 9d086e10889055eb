---------------------------- MODULE CleanedProofs ----------------------------
(* What the cleaned copy of the worker has in common with the original, for *)
(* every layout of the pipeline and every trip count.                      *)
EXTENDS CleanedLoop, PipelineProgressProofs

(* run_iteration is written in another order and says the same. *)
LEMMA SameIteration ==
  ASSUME NEW w, NEW i
  PROVE  CleanRunIteration(w, i) <=> RunIteration(w, i)
BY DEF CleanRunIteration, RunIteration, Source, WidOffset

(* While nobody has misspeculated the two checks let everybody through. *)
LEMMA SameCheck ==
  ASSUME NEW w, ~pcb.happened, CleanCheckMisspec(w)
  PROVE  CheckMisspec(w)
<1>1. ~Misspeculated(iter[w])
  BY DEF Misspeculated
<1> QED
  BY <1>1 DEF CleanCheckMisspec, CheckMisspec

LEMMA SamePages ==
  ASSUME NEW w, CleanForwardPages(w)
  PROVE  ForwardPages(w)
BY SameIteration DEF CleanForwardPages, ForwardPages

(* A step of a cleaned worker is one of the original worker, unless a      *)
(* misspeculation has been reported.                                       *)
LEMMA SameStep ==
  ASSUME CleanNext
  PROVE  pcb.happened \/ Next
<1> SUFFICES ASSUME ~pcb.happened PROVE Next
  OBVIOUS
<1>1. CASE CleanBeginInvocation \/ CleanEndInvocation \/ Checker \/ Terminated
  BY <1>1 DEF CleanBeginInvocation, CleanEndInvocation, Next
<1>2. ASSUME NEW w \in Wid, CleanWorker(w)
      PROVE  Worker(w)
  <2>1. CASE CleanBeginIter(w)
    <3>1. CleanBeginIter(w) => BeginIter(w)
      BY SameCheck DEF CleanBeginIter, BeginIter
    <3> QED
      BY <2>1, <3>1 DEF Worker
  <2>2. CASE EndBody(w) \/ BodyMisspec(w) \/ RecordMisspec(w)
    BY <2>2 DEF Worker
  <2>3. CASE CleanEndIter(w)
    BY <2>3, SamePages DEF CleanEndIter, Worker
  <2> QED
    BY <1>2, <2>1, <2>2, <2>3 DEF CleanWorker
<1> QED
  BY <1>1, <1>2 DEF CleanNext, Next

(* The copy is faithful to the original as long as no process has reported *)
(* a misspeculation: the workers without the check do nothing the workers  *)
(* with it do not.                                                         *)
THEOREM CleanedIsOriginal == CleanSpec => OriginalUntilMisspec
<1>1. [CleanNext]_vars => [pcb.happened \/ Next]_vars
  BY SameStep
<1> QED
  BY <1>1, PTL DEF CleanSpec, OriginalUntilMisspec

-----------------------------------------------------------------------------
(* What the order of the loop owes to check_misspec: nothing.  The step    *)
(* that a cleaned worker takes instead keeps LoopInv.                      *)
LEMMA CleanSteps ==
  ASSUME [CleanNext]_vars
  PROVE  [Next]_vars \/ \E w \in Wid : CleanCheckMisspec(w)
<1>1. CASE CleanBeginInvocation \/ CleanEndInvocation \/ Checker \/ Terminated
  BY <1>1 DEF CleanBeginInvocation, CleanEndInvocation, Next
<1>2. ASSUME NEW w \in Wid, CleanWorker(w) PROVE Worker(w) \/ CleanCheckMisspec(w)
  BY <1>2, SamePages DEF CleanWorker, CleanBeginIter, CleanEndIter, Worker, BeginIter
<1> QED
  BY <1>1, <1>2 DEF CleanNext, Next

LEMMA CleanCheckKeeps ==
  ASSUME LoopInv, NEW w \in Wid, CleanCheckMisspec(w)
  PROVE  LoopInv' /\ UNCHANGED Order!orderVars
<1> USE DEF queues, history
<1>1. PipelineInv /\ TypeOK
  BY DEF LoopInv, PipelineInv
<1>2. /\ UNCHANGED <<iter, from, ucvf, tryq, rcq, good, pcb, checker, main, seen,
                     informed, tainted>>
      /\ pc[w] = "check" /\ pc' = [pc EXCEPT ![w] = "predict"]
  BY DEF CleanCheckMisspec, Follows
<1>3. \A v \in Wid : pc'[v] = IF v = w THEN "predict" ELSE pc[v]
  BY <1>1, <1>2 DEF TypeOK
<1>4. TypeOK'
  BY <1>1, <1>2 DEF TypeOK
<1>5. IterInv'
  BY <1>1, <1>2, <1>3 DEF PipelineInv, IterInv
<1>6. MisspecInv'
  BY <1>1, <1>2, <1>3 DEF PipelineInv, MisspecInv, EarlierWorkSurvives, NextToCommit
<1>7. GateInv'
  BY <1>1, <1>2, <1>3 DEF PipelineInv, GateInv, FirstIterationFirst
<1>8. PositionInv'
  BY <1>2, <1>3 DEF LoopInv, PositionInv
<1>9. QueueInv' /\ SeenInv'
  BY <1>2, <1>3, QuietKeeps DEF LoopInv, Quiet
<1>10. EndedIters' = EndedIters /\ NextToCommit' = NextToCommit
  BY <1>2 DEF EndedIters, NextToCommit
<1>11. EndedInv' /\ CommittedInv'
  BY <1>2, <1>10 DEF LoopInv, EndedInv, CommittedInv, Source, WidOffset
<1>12. FailedInv'
  BY <1>2, <1>3, <1>10 DEF LoopInv, FailedInv, RunIteration
<1>13. UNCHANGED Order!orderVars
  BY <1>2, <1>10 DEF Order!orderVars
<1> QED
  BY <1>4, <1>5, <1>6, <1>7, <1>8, <1>9, <1>11, <1>12, <1>13 DEF LoopInv, PipelineInv

LEMMA CleanLoopStep ==
  ASSUME LoopInv, [CleanNext]_vars
  PROVE  LoopInv' /\ [Order!OrderNext]_(Order!orderVars)
BY CleanSteps, CleanCheckKeeps, LoopStep, OrderStepMaps

LEMMA CleanLoopInvariant == CleanSpec => []LoopInv
<1>1. Init => LoopInv
  BY OrderInit DEF OrderInv
<1>2. LoopInv /\ [CleanNext]_vars => LoopInv'
  BY CleanLoopStep
<1> QED
  BY <1>1, <1>2, PTL DEF CleanSpec

(* Also without the check, and after a misspeculation, a worker executes   *)
(* an iteration on exactly what the earlier stages wrote up to it.         *)
THEOREM CleanedSeesEarlierStages == CleanSpec => []SeesEarlierStages
BY LoopSees, CleanLoopInvariant, PTL

(* The cleaned copy keeps the promise of the original: iterations end in   *)
(* the order of the stages and are committed in the order of the loop, and *)
(* none from the one that misspeculated on.                                *)
THEOREM CleanedImplementsOrder == CleanSpec => ImplementsOrder
<1>1. Init => Order!Init
  BY InitMaps
<1>2. LoopInv /\ [CleanNext]_vars => [Order!OrderNext]_(Order!orderVars)
  BY CleanLoopStep
<1> QED
  BY <1>1, <1>2, CleanLoopInvariant, PTL DEF CleanSpec, ImplementsOrder, Order!OrderSpec

(* Nobody waits for the check either.  Other workers than in the original  *)
(* go on after a misspeculation, and beyond what can be committed they may *)
(* wait for ever; the iterations before it are still decided.              *)
THEOREM CleanedNeverStuck == CleanSpec => []NeverStuck
<1>1. Init => WaitInv
  BY WaitInit
<1>2. LoopInv /\ WaitInv /\ [CleanNext]_vars => WaitInv'
  <2>1. ASSUME LoopInv, WaitInv, NEW w \in Wid, CleanCheckMisspec(w)
        PROVE  WaitInv'
    <3>1. /\ UNCHANGED <<iter, rcq, good, pcb, checker>>
          /\ pc[w] = "check" /\ pc' = [pc EXCEPT ![w] = "predict"]
      BY <2>1 DEF CleanCheckMisspec, queues, Follows
    <3>2. \A v \in Wid : pc'[v] = IF v = w THEN "predict" ELSE pc[v]
      BY <2>1, <3>1 DEF LoopInv, PipelineInv, TypeOK
    <3> QED
      BY <2>1, <3>1, <3>2 DEF WaitInv, NextToCommit
  <2> QED
    BY <2>1, CleanSteps, WaitStep
<1>3. LoopInv /\ WaitInv => NeverStuck
  BY SomebodyCanGoOn
<1> QED
  BY <1>1, <1>2, <1>3, CleanLoopInvariant, PTL DEF CleanSpec
=============================================================================
