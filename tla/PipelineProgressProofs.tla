----------------------- MODULE PipelineProgressProofs -----------------------
(***************************************************************************)
(* No deadlock in the pipeline, for every layout and trip count: until the *)
(* iterations of an invocation are decided some process can go on.  The    *)
(* argument follows the worker that is furthest behind, and of those in    *)
(* the same iteration the one of the earliest stage: it waits for nobody.  *)
(***************************************************************************)
EXTENDS PipelineOrderProofs, WellFoundedInduction

-----------------------------------------------------------------------------
(* The least element of a set of numbers, and the worker that is furthest  *)
(* behind. *)
LEMMA LessOnNat ==
  IsWellFoundedOn({ss \in Nat \X Nat : ss[1] < ss[2]}, Nat)
BY NatLessThanWellFounded, Zenon DEF OpToRel

LEMMA LeastNumber ==
  ASSUME NEW S, S \subseteq Nat, S # {}
  PROVE  \E x \in S : \A y \in S : x <= y
<1> PICK R : R = {ss \in Nat \X Nat : ss[1] < ss[2]}
  OBVIOUS
<1>1. \E x \in S : \A y \in S : ~(<<y, x>> \in R)
  BY LessOnNat, WFMin
<1> PICK x \in S : \A y \in S : ~(<<y, x>> \in R)
  BY <1>1
<1>2. ASSUME NEW y \in S PROVE x <= y
  <2>1. x \in Nat /\ y \in Nat
    OBVIOUS
  <2>2. y < x => <<y, x>> \in R
    BY <2>1
  <2> QED
    BY <2>1, <2>2
<1> QED
  BY <1>2

LEMMA FurthestBehind ==
  ASSUME TypeOK
  PROVE  \E v \in Wid : \A u \in Wid :
           iter[v] <= iter[u] /\ (iter[v] = iter[u] => StageOf[v] <= StageOf[u])
<1>1. \A u \in Wid : iter[u] \in Nat /\ StageOf[u] \in Nat
  BY SizeAssumption, LayoutAssumption
     DEF SizeAssumption, LayoutAssumption, Stage, TypeOK
<1>2. 0 \in Wid
  BY SizeAssumption DEF SizeAssumption, Wid
<1>3. {iter[u] : u \in Wid} \subseteq Nat /\ {iter[u] : u \in Wid} # {}
  BY <1>1, <1>2
<1> PICK i \in {iter[u] : u \in Wid} : \A j \in {iter[u] : u \in Wid} : i <= j
  BY <1>3, LeastNumber
<1> PICK B : B = {u \in Wid : iter[u] = i}
  OBVIOUS
<1>4. {StageOf[u] : u \in B} \subseteq Nat /\ {StageOf[u] : u \in B} # {}
  BY <1>1
<1> PICK s \in {StageOf[u] : u \in B} : \A t \in {StageOf[u] : u \in B} : s <= t
  BY <1>4, LeastNumber
<1> PICK v \in B : StageOf[v] = s
  OBVIOUS
<1> QED
  BY <1>1

-----------------------------------------------------------------------------
(* The gate and the ALLOC packets *)
LEMMA WaitInit == Init => WaitInv
BY SizeAssumption DEF SizeAssumption, Init, NewPcb, WaitInv

(* A worker step: the checker and the gate stay as they are, and the one   *)
(* worker that moves passes the gate only when it may. *)
LEMMA WorkerWaits ==
  ASSUME LoopInv, WaitInv, NEW w \in Wid, Worker(w)
  PROVE  WaitInv'
<1> USE DEF queues, history
<1>1. TypeOK /\ MisspecInv /\ FailedInv /\ iter[w] \in Nat /\ TripCount \in Nat
  BY SizeAssumption DEF SizeAssumption, LoopInv, PipelineInv, TypeOK
<1>2. UNCHANGED <<good, checker>> /\ pcb'.lastCommitted = pcb.lastCommitted
  BY <1>1 DEF TypeOK, Worker, BeginIter, PassGate, ProcessReverseCommitQueue,
     ReceivePacket, ReceiveDone, CheckMisspec, Predict, EndBody, BodyMisspec,
     RecordMisspec, ForwardPages, BroadcastEvent
<1>3. \A v \in Wid : rcq'[v] = rcq[v] \/ rcq'[v] = <<>>
  BY <1>1 DEF TypeOK, Worker, BeginIter, PassGate, ProcessReverseCommitQueue,
     ReceivePacket, ReceiveDone, CheckMisspec, Predict, EndBody, BodyMisspec,
     RecordMisspec, ForwardPages, BroadcastEvent
<1>4. NextToCommit' = NextToCommit
  BY <1>2 DEF NextToCommit
<1>5. ASSUME checker.pc = "stopped" PROVE pcb'.misIter = pcb.misIter
  <2>1. pc[w] # "misspec"
    BY <1>1, <1>5 DEF MisspecInv, FailedInv
  <2> QED
    BY <1>1, <2>1 DEF TypeOK, Worker, BeginIter, PassGate, ProcessReverseCommitQueue,
       ReceivePacket, ReceiveDone, CheckMisspec, Predict, EndBody, BodyMisspec,
       RecordMisspec, ForwardPages, BroadcastEvent
<1>6. ASSUME ~good, NEW v \in Wid
      PROVE  iter'[v] = 0 \/ (iter'[v] = 1 /\ pc'[v] \in {"gate", "finished"})
  <2>1. iter[v] = 0 \/ (iter[v] = 1 /\ pc[v] \in {"gate", "finished"})
    BY <1>6 DEF WaitInv
  <2>2. CASE v # w
    <3>1. iter'[v] = iter[v] /\ pc'[v] = pc[v]
      BY <1>1, <2>2 DEF TypeOK, Worker, BeginIter, PassGate, ProcessReverseCommitQueue,
         ReceivePacket, ReceiveDone, CheckMisspec, Predict, EndBody, BodyMisspec,
         RecordMisspec, ForwardPages, BroadcastEvent
    <3> QED
      BY <2>1, <3>1
  <2>3. CASE v = w /\ BroadcastEvent(w)
    <3>1. iter'[w] = iter[w] + 1 /\ pc'[w] \in {"gate", "finished"} /\ pc[w] = "event"
      BY <1>1, <2>3 DEF TypeOK, BroadcastEvent
    <3> QED
      BY <2>1, <2>3, <3>1
  <2>4. CASE v = w /\ ~BroadcastEvent(w)
    <3>1. iter'[w] = iter[w]
      BY <1>1, <2>4 DEF TypeOK, Worker, BeginIter, PassGate, ProcessReverseCommitQueue,
         ReceivePacket, ReceiveDone, CheckMisspec, Predict, EndBody, BodyMisspec,
         RecordMisspec, ForwardPages
    <3>2. iter[w] # 0 => pc'[w] = pc[w]
      BY <1>1, <1>6, <2>1, <2>4 DEF TypeOK, Worker, BeginIter, PassGate,
         ProcessReverseCommitQueue, ReceivePacket, ReceiveDone, CheckMisspec, Predict,
         EndBody, BodyMisspec, RecordMisspec, ForwardPages
    <3> QED
      BY <2>1, <2>4, <3>1, <3>2
  <2> QED
    BY <2>2, <2>3, <2>4
<1> QED
  BY <1>2, <1>3, <1>4, <1>5, <1>6 DEF WaitInv

LEMMA CheckerWaits ==
  ASSUME LoopInv, WaitInv, Checker
  PROVE  WaitInv'
<1> USE DEF queues, history
<1>1. TypeOK /\ MisspecInv /\ GateInv
  BY DEF LoopInv, PipelineInv
<1>2. ASSUME NEW w \in Wid, TryCommit(w) PROVE WaitInv'
  BY <1>1, <1>2 DEF TryCommit, TypeOK, WaitInv, NextToCommit
<1>3. CASE Commit
  <2>1. /\ NextToCommit = 0 => pcb.lastCommitted = ITER_MAX
        /\ NextToCommit # ITER_MAX /\ pcb'.lastCommitted = NextToCommit
    BY <1>1, <1>3, CommitTypes, SizeAssumption
       DEF SizeAssumption, Iter, Commit, Ended, NextToCommit, TypeOK
  <2>2. UNCHANGED <<iter, pc, good, checker>> /\ checker.pc = "commit"
    BY <1>3 DEF Commit
  <2>3. good => NextToCommit # 0
    BY <1>1, <2>1 DEF GateInv
  <2>4. good => UNCHANGED rcq
    BY <1>3, <2>3 DEF Commit
  <2> QED
    BY <2>1, <2>2, <2>4 DEF WaitInv
<1>4. CASE OpenGate
  BY <1>4 DEF OpenGate, WaitInv, NextToCommit
<1>5. CASE CommitMisspec
  BY <1>1, <1>5 DEF CommitMisspec, TypeOK, WaitInv
<1>6. CASE CommitRecordMisspec
  BY <1>1, <1>6 DEF CommitRecordMisspec, TypeOK, WaitInv, NextToCommit
<1> QED
  BY <1>2, <1>3, <1>4, <1>5, <1>6 DEF Checker

LEMMA WaitStep ==
  ASSUME LoopInv, WaitInv, [Next]_vars
  PROVE  WaitInv'
<1>1. CASE UNCHANGED vars
  BY <1>1 DEF vars, queues, history, WaitInv, NextToCommit
<1>2. CASE BeginInvocation
  BY <1>2 DEF BeginInvocation, NewPcb, WaitInv
<1>3. CASE EndInvocation
  BY <1>3 DEF EndInvocation, queues, history, WaitInv, NextToCommit
<1> QED
  BY <1>1, <1>2, <1>3, WorkerWaits, CheckerWaits DEF Next, Terminated

-----------------------------------------------------------------------------
(* The worker that is furthest behind can go on, if iterations are left    *)
(* that nobody has decided and the gate need not be opened first.          *)
LEMMA LastCanGoOn ==
  ASSUME LoopInv, WaitInv, main.inside, ~Decided, ~CheckerCanGoOn,
         NEW v \in Wid, iter[v] <= NextToCommit, NextToCommit < TripCount,
         \A u \in Wid :
           iter[v] <= iter[u] /\ (iter[v] = iter[u] => StageOf[v] <= StageOf[u])
  PROVE  \E w \in Wid : CanGoOn(w)
<1> SUFFICES ASSUME \A w \in Wid : ~CanGoOn(w)
             PROVE  FALSE
  OBVIOUS
<1>1. TypeOK /\ PipelineInv /\ MisspecInv /\ PositionInv /\ QueueInv /\ FailedInv
  BY DEF LoopInv, PipelineInv
<1>2. /\ \A u \in Wid : iter[u] \in Nat
      /\ TripCount \in Nat /\ NextToCommit \in Nat /\ TripCount < ITER_MAX
      /\ ITER_MAX \in Nat
  BY <1>1, CommitTypes, SizeAssumption DEF SizeAssumption, TypeOK
<1>3. iter[v] < TripCount /\ pc[v] # "finished"
  BY <1>1, <1>2 DEF PositionInv
<1>4. pc[v] # "exited"
  <2>1. SUFFICES ASSUME pc[v] = "exited" PROVE FALSE
    OBVIOUS
  <2>2. pcb.happened /\ pcb.misIter <= iter[v]
    BY <1>1, <2>1 DEF MisspecInv, EarlierWorkSurvives
  <2>3. pcb.misIter \in Nat /\ (pcb.misIter # ITER_MAX => NextToCommit <= pcb.misIter)
    BY <1>1, <1>2, CommitTypes DEF FailedInv, Iter
  <2>4. NextToCommit = pcb.misIter
    BY <1>2, <1>3, <2>2, <2>3
  <2> QED
    BY <2>2, <2>4 DEF Decided
<1>5. pc[v] # "gate"
  <2>1. SUFFICES ASSUME pc[v] = "gate" PROVE FALSE
    OBVIOUS
  <2>2. iter[v] # 0 /\ ~good
    BY <2>1 DEF CanGoOn
  <2>3. \A u \in Wid : iter[u] = 1 /\ pc[u] \in {"gate", "finished"}
    BY <1>2, <2>2 DEF WaitInv
  <2>4. \A u \in Wid : pc[u] = "gate"
    BY <1>1, <1>2, <1>3, <2>3 DEF PositionInv
  <2>5. \A u \in Wid : rcq[u] = <<>>
    BY <2>3, <2>4 DEF CanGoOn
  <2>6. pcb.lastCommitted # ITER_MAX
    BY <1>2, <2>2 DEF NextToCommit
  <2> QED
    BY <2>2, <2>5, <2>6 DEF CheckerCanGoOn
<1>6. pc[v] # "receive"
  <2>1. SUFFICES ASSUME pc[v] = "receive" PROVE FALSE
    OBVIOUS
  <2>2. from[v] # StageOf[v] /\ ucvf[Source(iter[v], from[v])][v] = <<>>
    BY <2>1 DEF CanGoOn
  <2>3. iter[v] \in Iter /\ from[v] \in Stage /\ StageOf[v] \in Stage
    BY <1>1, <2>1, InTheLoop
  <2>4. from[v] < StageOf[v]
    BY <1>1, <2>2, <2>3 DEF PositionInv, Stage
  <2> PICK i \in Iter, t \in Stage : i = iter[v] /\ t = from[v]
    BY <2>3
  <2>5. i \in Nat /\ t \in Nat
    BY SizeAssumption DEF SizeAssumption, Iter, Stage
  <2> PICK src \in Wid : src = Source(i, t)
    BY <2>5, SourceIsWorker
  <2>6. StageOf[src] = t /\ RunIteration(src, i)
    BY <2>5, SourceRuns
  <2>7. i < iter[src]
    BY <1>2, <2>3, <2>4, <2>5, <2>6 DEF Stage
  <2>8. i \in Awaited(src, v)
    BY <2>5, <2>6, <2>7 DEF Awaited, SentEoi, NextFrom
  <2>9. EoiIters(ucvf[src][v]) = Awaited(src, v)
    BY <1>1, <2>4, <2>6 DEF QueueInv
  <2>10. EoiIters(<<>>) = {}
    BY DEF EoiIters
  <2> QED
    BY <2>2, <2>8, <2>9, <2>10
<1> QED
  BY <1>3, <1>4, <1>5, <1>6 DEF CanGoOn

(* An iteration that is to be committed next has not been ended by some    *)
(* worker, so the one furthest behind is not beyond it. *)
LEMMA SomebodyCanGoOn ==
  ASSUME LoopInv, WaitInv
  PROVE  NeverStuck
<1> SUFFICES ASSUME main.inside, ~Decided, ~CheckerCanGoOn
             PROVE  \E w \in Wid : CanGoOn(w)
  BY DEF NeverStuck
<1>1. TypeOK /\ EndedInv /\ MisspecInv /\ FailedInv
  BY DEF LoopInv, PipelineInv
<1>2. /\ \A u \in Wid : iter[u] \in Nat
      /\ TripCount \in Nat /\ NextToCommit \in Nat /\ ITER_MAX \in Nat
      /\ Iter = 0 .. TripCount - 1
  BY <1>1, CommitTypes, SizeAssumption DEF SizeAssumption, TypeOK, Iter
<1>3. NextToCommit < TripCount
  BY <1>1, <1>2, CommitTypes, SizeAssumption DEF SizeAssumption, NextToCommit, Decided
<1>4. checker.pc = "commit"
  <2>1. checker.pc # "stopped"
    <3>1. checker.pc = "stopped" => NextToCommit = pcb.misIter /\ pcb.happened
      BY <1>1 DEF WaitInv, MisspecInv
    <3> QED
      BY <3>1 DEF Decided
  <2> QED
    BY <1>1, <2>1 DEF CheckerCanGoOn, TypeOK
<1>5. PICK s \in Stage : <<s, NextToCommit>> \notin checker.arrived
  BY <1>3, <1>4 DEF CheckerCanGoOn, Ended
<1>6. EndedIters = checker.arrived
  <2>1. \A w \in Wid : EoiIters(tryq[w]) = {}
    BY DEF CheckerCanGoOn, EoiIters
  <2> QED
    BY <2>1 DEF EndedIters
<1> PICK n \in Iter : n = NextToCommit
  BY <1>2, <1>3
<1>7. Source(n, s) \in Wid /\ ~(n < iter[Source(n, s)])
  BY <1>1, <1>2, <1>5, <1>6, SourceIsWorker DEF EndedInv
<1> PICK v \in Wid : \A u \in Wid :
      iter[v] <= iter[u] /\ (iter[v] = iter[u] => StageOf[v] <= StageOf[u])
  BY <1>1, FurthestBehind
<1>8. iter[v] <= NextToCommit
  BY <1>2, <1>7
<1> QED
  BY <1>3, <1>8, LastCanGoOn

(* Until an invocation has decided its iterations some process can go on,  *)
(* whatever the layout, the trip count and the iterations that fail: the   *)
(* gate, the queues and the exits of misspeculating workers never hold     *)
(* each other up. *)
THEOREM PipelineNeverStuck == Spec => []NeverStuck
<1>1. Init => LoopInv /\ WaitInv
  BY OrderInit, WaitInit DEF OrderInv
<1>2. LoopInv /\ WaitInv /\ [Next]_vars => (LoopInv /\ WaitInv)'
  BY LoopStep, WaitStep
<1>3. LoopInv /\ WaitInv => NeverStuck
  BY SomebodyCanGoOn
<1> QED
  BY <1>1, <1>2, <1>3, PTL DEF Spec
=============================================================================
