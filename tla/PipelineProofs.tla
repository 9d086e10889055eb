--------------------------- MODULE PipelineProofs ---------------------------
(***************************************************************************)
(* Pipeline, for every number of stages, workers and iterations and every  *)
(* replication: the inductive invariant PipelineInv, and from it that the  *)
(* first iteration is committed before any worker goes beyond it and that  *)
(* a worker exits only at or after the misspeculated iteration.  One lemma *)
(* for each conjunct of the invariant, with one step for each action.      *)
(***************************************************************************)
EXTENDS Pipeline, SequenceTheorems, TLAPS

(* The assumptions on the constants, with the sets as ranges of numbers. *)
LEMMA StageIsRange ==
  ASSUME NEW s \in Stage
  PROVE  /\ s \in Nat /\ Rep[s] \in Nat \ {0}
         /\ FirstWid[s] \in Nat /\ FirstWid[s] \in Wid
         /\ \A t \in Stage : s < t => FirstWid[s] < FirstWid[t]
         /\ \A w \in Wid : /\ w \in Nat /\ StageOf[w] \in Stage
                           /\ StageOf[w] = s <=>
                                FirstWid[s] <= w /\ w <= FirstWid[s] + Rep[s] - 1
         /\ FirstWid[s] + Rep[s] <= NumWorkers
<1> USE SizeAssumption, LayoutAssumption DEF SizeAssumption, LayoutAssumption
<1>1. s \in Nat /\ Wid \subseteq Nat
  BY DEF Stage, Wid
<1>2. FirstWid[s] \in Wid /\ Rep[s] \in Nat \ {0}
  OBVIOUS
<1>3. ASSUME NEW w \in Wid
      PROVE  StageOf[w] = s <=> FirstWid[s] <= w /\ w <= FirstWid[s] + Rep[s] - 1
  <2>1. StageOf[w] = s <=> w \in FirstWid[s] .. FirstWid[s] + Rep[s] - 1
    OBVIOUS
  <2> QED
    BY <1>1, <1>2, <2>1
<1> QED
  BY <1>1, <1>2, <1>3

(* The packets of a stage's iteration come from a worker: the offset is    *)
(* below the replication factor of the stage.                              *)
LEMMA SourceIsWorker ==
  ASSUME NEW i \in Nat, NEW s \in Stage
  PROVE  Source(i, s) \in Wid
<1>1. i % Rep[s] \in 0 .. Rep[s] - 1
  BY StageIsRange
<1>2. /\ FirstWid[s] + (i % Rep[s]) \in Nat
      /\ FirstWid[s] + (i % Rep[s]) <= NumWorkers - 1
  BY <1>1, StageIsRange, SizeAssumption DEF SizeAssumption
<1> QED
  BY <1>2, SizeAssumption DEF Source, WidOffset, Wid, SizeAssumption

(* A worker that has not finished is in an iteration of the loop. *)
LEMMA InTheLoop ==
  ASSUME PipelineInv, NEW w \in Wid
  PROVE  /\ iter[w] \in Nat /\ iter[w] <= TripCount /\ iter[w] < ITER_MAX
         /\ pc[w] # "finished" => iter[w] \in Iter
         /\ from[w] \in Stage /\ StageOf[w] \in Stage
<1>1. iter[w] \in 0 .. TripCount /\ from[w] \in Stage
  BY DEF PipelineInv, TypeOK
<1>2. pc[w] # "finished" => iter[w] < TripCount
  BY DEF PipelineInv, IterInv
<1>3. StageOf[w] \in Stage
  BY LayoutAssumption DEF LayoutAssumption
<1> QED
  BY <1>1, <1>2, <1>3, SizeAssumption DEF SizeAssumption, Iter

(* The packets the model sends are packets. *)
LEMMA PacketIsTyped ==
  ASSUME NEW kind \in {"DATA", "BOI", "EOI"}, NEW i \in Iter, NEW b \in BOOLEAN
  PROVE  /\ Packet(kind, i) \in PacketType
         /\ [Packet(kind, i) EXCEPT !.tainted = b] \in PacketType
  BY DEF Packet, PacketType

(* A broadcast leaves every queue a sequence of packets, and fills only    *)
(* queues from the sender to a worker of a following stage.                *)
LEMMA BroadcastIsTyped ==
  ASSUME ucvf \in [Wid -> [Wid -> Seq(PacketType)]],
         NEW w \in Wid, NEW p \in PacketType
  PROVE  /\ Broadcast(w, p) \in [Wid -> [Wid -> Seq(PacketType)]]
         /\ \A u, v \in Wid : Broadcast(w, p)[u][v] # <<>> =>
              ucvf[u][v] # <<>> \/ (u = w /\ v \in Following(w))
<1>1. \A v \in Wid : Append(ucvf[w][v], p) \in Seq(PacketType)
  OBVIOUS
<1>2. [v \in Wid |-> IF v \in Following(w) THEN Append(ucvf[w][v], p)
                     ELSE ucvf[w][v]] \in [Wid -> Seq(PacketType)]
  BY <1>1
<1> QED
  BY <1>2 DEF Broadcast

(* Every step keeps the types of the variables. *)
LEMMA TypeStep ==
  ASSUME PipelineInv, [Next]_vars
  PROVE  TypeOK'
<1> USE SizeAssumption DEF SizeAssumption, Stage, Iter, queues, history
<1>1. CASE UNCHANGED vars
  BY <1>1 DEF PipelineInv, TypeOK, vars
<1>2. CASE BeginInvocation
  <2>1. <<>> \in Seq(PacketType) /\ <<>> \in Seq({"ALLOC"})
    OBVIOUS
  <2>2. /\ ucvf' \in [Wid -> [Wid -> Seq(PacketType)]]
        /\ tryq' \in [Wid -> Seq(PacketType)]
        /\ rcq' \in [Wid -> Seq({"ALLOC"})]
    BY <1>2, <2>1 DEF BeginInvocation
  <2>3. 0 \in Stage /\ 0 \in 0 .. TripCount
    OBVIOUS
  <2>4. main' \in [inside : BOOLEAN, count : 0 .. Invocations]
    BY <1>2 DEF PipelineInv, TypeOK, BeginInvocation
  <2>5. pcb' \in [happened : BOOLEAN, misIter : Iter \cup {ITER_MAX},
                  lastCommitted : Iter \cup {ITER_MAX}]
    BY <1>2 DEF BeginInvocation, NewPcb
  <2> QED
    BY <1>2, <2>2, <2>3, <2>4, <2>5 DEF TypeOK, BeginInvocation
<1>3. CASE EndInvocation
  BY <1>3 DEF PipelineInv, TypeOK, EndInvocation
<1>4. CASE Commit
  <2>1. NextToCommit \in Iter
    BY <1>4 DEF PipelineInv, TypeOK, Commit, Ended, NextToCommit
  <2>2. pcb' \in [happened : BOOLEAN, misIter : Iter \cup {ITER_MAX},
                  lastCommitted : Iter \cup {ITER_MAX}]
    BY <1>4, <2>1 DEF PipelineInv, TypeOK, Commit
  <2>3. \A w \in Wid : Append(rcq[w], "ALLOC") \in Seq({"ALLOC"})
    BY DEF PipelineInv, TypeOK
  <2>4. rcq' \in [Wid -> Seq({"ALLOC"})]
    BY <1>4, <2>3 DEF PipelineInv, TypeOK, Commit
  <2> QED
    BY <1>4, <2>2, <2>4 DEF PipelineInv, TypeOK, Commit
<1>5. CASE OpenGate
  BY <1>5 DEF PipelineInv, TypeOK, OpenGate
<1>6. CASE CommitMisspec
  BY <1>6 DEF PipelineInv, TypeOK, CommitMisspec
<1>7. CASE CommitRecordMisspec
  <2>1. NextToCommit \in Iter
    BY <1>7 DEF PipelineInv, TypeOK, MisspecInv, CommitRecordMisspec, NextToCommit
  <2>2. pcb' \in [happened : BOOLEAN, misIter : Iter \cup {ITER_MAX},
                  lastCommitted : Iter \cup {ITER_MAX}]
    BY <1>7, <2>1 DEF PipelineInv, TypeOK, CommitRecordMisspec
  <2> QED
    BY <1>7, <2>2 DEF PipelineInv, TypeOK, CommitRecordMisspec
<1>8. ASSUME NEW w \in Wid, PassGate(w) PROVE TypeOK'
  BY <1>8 DEF PipelineInv, TypeOK, Follows, PassGate
<1>9. ASSUME NEW w \in Wid, ProcessReverseCommitQueue(w) PROVE TypeOK'
  <2>1. <<>> \in Seq({"ALLOC"})
    OBVIOUS
  <2>2. rcq' \in [Wid -> Seq({"ALLOC"})]
    BY <1>9, <2>1 DEF PipelineInv, TypeOK, ProcessReverseCommitQueue
  <2> QED
    BY <1>9, <2>2 DEF PipelineInv, TypeOK, ProcessReverseCommitQueue
<1>10. ASSUME NEW w \in Wid, ReceivePacket(w) PROVE TypeOK'
  <2> DEFINE src == Source(iter[w], from[w])
             q == ucvf[src][w]
  <2>1. src \in Wid /\ from[w] \in Stage /\ StageOf[w] \in Stage
    BY InTheLoop, SourceIsWorker
  <2>2. q \in Seq(PacketType) /\ q # <<>>
    BY <1>10, <2>1 DEF PipelineInv, TypeOK, ReceivePacket
  <2>3. Head(q) \in PacketType /\ Tail(q) \in Seq(PacketType)
    BY <2>2
  <2>4. ucvf' \in [Wid -> [Wid -> Seq(PacketType)]]
    BY <1>10, <2>1, <2>3 DEF PipelineInv, TypeOK, ReceivePacket
  <2>5. from' \in [Wid -> Stage]
    <3>1. from[w] + 1 \in Stage
      BY <1>10, InTheLoop DEF ReceivePacket
    <3>2. from' = [from EXCEPT ![w] = @ + 1] \/ from' = from
      BY <1>10 DEF ReceivePacket
    <3> QED
      BY <3>1, <3>2 DEF PipelineInv, TypeOK
  <2>6. seen' \in [Wid -> SUBSET (Stage \X Iter)]
    <3>1. <<from[w], Head(q).iter>> \in Stage \X Iter
      BY <2>3, InTheLoop DEF PacketType
    <3>2. \/ seen' = [seen EXCEPT ![w] = @ \cup {<<from[w], Head(q).iter>>}]
          \/ seen' = seen
      BY <1>10 DEF ReceivePacket
    <3>3. seen \in [Wid -> SUBSET (Stage \X Iter)]
      BY DEF PipelineInv, TypeOK
    <3> HIDE DEF Stage, Iter
    <3> QED
      BY <3>1, <3>2, <3>3
  <2>7. tainted' \in [Wid -> BOOLEAN]
    BY <1>10, <2>1, <2>3 DEF PipelineInv, TypeOK, ReceivePacket, PacketType
  <2> QED
    BY <1>10, <2>4, <2>5, <2>6, <2>7 DEF PipelineInv, TypeOK, ReceivePacket
<1>11. ASSUME NEW w \in Wid, ReceiveDone(w) PROVE TypeOK'
  BY <1>11 DEF PipelineInv, TypeOK, Follows, ReceiveDone
<1>12. ASSUME NEW w \in Wid, CheckMisspec(w) PROVE TypeOK'
  BY <1>12 DEF PipelineInv, TypeOK, Follows, CheckMisspec
<1>13. ASSUME NEW w \in Wid, Predict(w) PROVE TypeOK'
  <2>1. iter[w] \in Iter
    BY <1>13, InTheLoop DEF Predict
  <2>2. Append(tryq[w], Packet("BOI", iter[w])) \in Seq(PacketType)
    <3>1. Packet("BOI", iter[w]) \in PacketType
      BY <2>1, PacketIsTyped
    <3>2. tryq[w] \in Seq(PacketType)
      BY DEF PipelineInv, TypeOK
    <3> QED
      BY <3>1, <3>2
  <2>3. tryq' \in [Wid -> Seq(PacketType)]
    BY <1>13, <2>2 DEF PipelineInv, TypeOK, Predict
  <2> QED
    BY <1>13, <2>3 DEF PipelineInv, TypeOK, Predict
<1>14. ASSUME NEW w \in Wid, EndBody(w) PROVE TypeOK'
  BY <1>14 DEF PipelineInv, TypeOK, EndBody
<1>15. ASSUME NEW w \in Wid, BodyMisspec(w) PROVE TypeOK'
  BY <1>15 DEF PipelineInv, TypeOK, BodyMisspec
<1>16. ASSUME NEW w \in Wid, RecordMisspec(w) PROVE TypeOK'
  <2>1. iter[w] \in Iter
    BY <1>16, InTheLoop DEF RecordMisspec
  <2>2. pcb' \in [happened : BOOLEAN, misIter : Iter \cup {ITER_MAX},
                  lastCommitted : Iter \cup {ITER_MAX}]
    BY <1>16, <2>1 DEF PipelineInv, TypeOK, RecordMisspec
  <2> QED
    BY <1>16, <2>2 DEF PipelineInv, TypeOK, RecordMisspec
<1>17. ASSUME NEW w \in Wid, ForwardPages(w) PROVE TypeOK'
  <2>1. iter[w] \in Iter
    BY <1>17, InTheLoop DEF ForwardPages
  <2>2. Packet("DATA", iter[w]) \in PacketType
    BY <2>1, PacketIsTyped
  <2>3. ucvf' \in [Wid -> [Wid -> Seq(PacketType)]]
    BY <1>17, <2>2, BroadcastIsTyped DEF PipelineInv, TypeOK, ForwardPages
  <2> QED
    BY <1>17, <2>3 DEF PipelineInv, TypeOK, ForwardPages
<1>18. ASSUME NEW w \in Wid, BroadcastEvent(w) PROVE TypeOK'
  <2> DEFINE eoi == [Packet("EOI", iter[w]) EXCEPT !.tainted = Misspeculated(iter[w])]
  <2>1. iter[w] \in Iter
    BY <1>18, InTheLoop DEF BroadcastEvent
  <2>2. Misspeculated(iter[w]) \in BOOLEAN
    BY DEF Misspeculated, PipelineInv, TypeOK
  <2>3. eoi \in PacketType /\ Packet("EOI", iter[w]) \in PacketType
    BY <2>1, <2>2, PacketIsTyped
  <2>4. ucvf' \in [Wid -> [Wid -> Seq(PacketType)]]
    <3>1. ucvf' = Broadcast(w, eoi) \/ ucvf' = ucvf
      BY <1>18 DEF BroadcastEvent
    <3>2. ucvf \in [Wid -> [Wid -> Seq(PacketType)]]
      BY DEF PipelineInv, TypeOK
    <3> QED
      BY <2>3, <3>1, <3>2, BroadcastIsTyped
  <2>5. Append(tryq[w], Packet("EOI", iter[w])) \in Seq(PacketType)
    BY <2>3 DEF PipelineInv, TypeOK
  <2>6. tryq' \in [Wid -> Seq(PacketType)]
    BY <1>18, <2>5 DEF PipelineInv, TypeOK, BroadcastEvent
  <2>7. iter[w] + 1 \in 0 .. TripCount /\ 0 \in Stage
    BY <2>1
  <2>8. /\ iter' \in [Wid -> 0 .. TripCount]
        /\ pc' = [pc EXCEPT ![w] = IF iter[w] + 1 < TripCount THEN "gate" ELSE "finished"]
        /\ from' \in [Wid -> Stage]
        /\ tainted' \in [Wid -> BOOLEAN]
    BY <1>18, <2>7 DEF PipelineInv, TypeOK, BroadcastEvent
  <2> QED
    BY <1>18, <2>4, <2>6, <2>8 DEF PipelineInv, TypeOK, BroadcastEvent
<1>19. ASSUME NEW w \in Wid, TryCommit(w) PROVE TypeOK'
  <2>1. tryq[w] \in Seq(PacketType) /\ tryq[w] # <<>>
    BY <1>19 DEF PipelineInv, TypeOK, TryCommit
  <2>2. Head(tryq[w]) \in PacketType /\ Tail(tryq[w]) \in Seq(PacketType)
    BY <2>1
  <2>3. tryq' \in [Wid -> Seq(PacketType)]
    BY <1>19, <2>2 DEF PipelineInv, TypeOK, TryCommit
  <2>4. <<StageOf[w], Head(tryq[w]).iter>> \in Stage \X Iter
    BY <2>2, InTheLoop DEF PacketType
  <2>5. checker' \in [pc : {"commit", "misspec", "stopped"},
                      arrived : SUBSET (Stage \X Iter)]
    BY <1>19, <2>4 DEF PipelineInv, TypeOK, TryCommit
  <2> QED
    BY <1>19, <2>3, <2>5 DEF PipelineInv, TypeOK, TryCommit
<1> QED
  BY <1>1, <1>2, <1>3, <1>4, <1>5, <1>6, <1>7, <1>8, <1>9, <1>10, <1>11, <1>12,
     <1>13, <1>14, <1>15, <1>16, <1>17, <1>18, <1>19 DEF Next, Worker,
     BeginIter, Checker, Terminated

(* Nobody goes beyond the last iteration. *)
LEMMA IterStep ==
  ASSUME PipelineInv, [Next]_vars
  PROVE  IterInv'
<1> USE SizeAssumption DEF SizeAssumption, Stage, Iter, queues, history
<1>1. CASE UNCHANGED vars
  BY <1>1 DEF PipelineInv, TypeOK, IterInv, vars
<1>2. CASE BeginInvocation
  BY <1>2 DEF PipelineInv, TypeOK, IterInv, BeginInvocation
<1>3. CASE EndInvocation
  BY <1>3 DEF PipelineInv, TypeOK, IterInv, EndInvocation
<1>4. CASE Commit
  BY <1>4 DEF PipelineInv, TypeOK, IterInv, Commit
<1>5. CASE OpenGate
  BY <1>5 DEF PipelineInv, TypeOK, IterInv, OpenGate
<1>6. CASE CommitMisspec
  BY <1>6 DEF PipelineInv, TypeOK, IterInv, CommitMisspec
<1>7. CASE CommitRecordMisspec
  BY <1>7 DEF PipelineInv, TypeOK, IterInv, CommitRecordMisspec
<1>8. ASSUME NEW w \in Wid, PassGate(w) PROVE IterInv'
  BY <1>8 DEF PipelineInv, TypeOK, IterInv, Follows, PassGate
<1>9. ASSUME NEW w \in Wid, ProcessReverseCommitQueue(w) PROVE IterInv'
  BY <1>9 DEF PipelineInv, TypeOK, IterInv, ProcessReverseCommitQueue
<1>10. ASSUME NEW w \in Wid, ReceivePacket(w) PROVE IterInv'
  BY <1>10 DEF PipelineInv, TypeOK, IterInv, ReceivePacket
<1>11. ASSUME NEW w \in Wid, ReceiveDone(w) PROVE IterInv'
  BY <1>11 DEF PipelineInv, TypeOK, IterInv, Follows, ReceiveDone
<1>12. ASSUME NEW w \in Wid, CheckMisspec(w) PROVE IterInv'
  BY <1>12 DEF PipelineInv, TypeOK, IterInv, Follows, CheckMisspec
<1>13. ASSUME NEW w \in Wid, Predict(w) PROVE IterInv'
  BY <1>13 DEF PipelineInv, TypeOK, IterInv, Predict
<1>14. ASSUME NEW w \in Wid, EndBody(w) PROVE IterInv'
  BY <1>14 DEF PipelineInv, TypeOK, IterInv, EndBody
<1>15. ASSUME NEW w \in Wid, BodyMisspec(w) PROVE IterInv'
  BY <1>15 DEF PipelineInv, TypeOK, IterInv, BodyMisspec
<1>16. ASSUME NEW w \in Wid, RecordMisspec(w) PROVE IterInv'
  BY <1>16 DEF PipelineInv, TypeOK, IterInv, RecordMisspec
<1>17. ASSUME NEW w \in Wid, ForwardPages(w) PROVE IterInv'
  BY <1>17 DEF PipelineInv, TypeOK, IterInv, ForwardPages
<1>18. ASSUME NEW w \in Wid, BroadcastEvent(w) PROVE IterInv'
  BY <1>18 DEF PipelineInv, TypeOK, IterInv, BroadcastEvent
<1>19. ASSUME NEW w \in Wid, TryCommit(w) PROVE IterInv'
  BY <1>19 DEF PipelineInv, TypeOK, IterInv, TryCommit
<1> QED
  BY <1>1, <1>2, <1>3, <1>4, <1>5, <1>6, <1>7, <1>8, <1>9, <1>10, <1>11, <1>12,
     <1>13, <1>14, <1>15, <1>16, <1>17, <1>18, <1>19 DEF Next, Worker,
     BeginIter, Checker, Terminated

(* One process at most records a misspeculation, and nobody exits before. *)
LEMMA MisspecStep ==
  ASSUME PipelineInv, [Next]_vars
  PROVE  MisspecInv'
<1> USE SizeAssumption DEF SizeAssumption, Stage, Iter, queues, history
<1>1. CASE UNCHANGED vars
  BY <1>1 DEF PipelineInv, TypeOK, IterInv, MisspecInv, EarlierWorkSurvives,
     vars, NextToCommit
<1>2. CASE BeginInvocation
  BY <1>2 DEF PipelineInv, TypeOK, IterInv, MisspecInv, EarlierWorkSurvives,
     NextToCommit, NewPcb, BeginInvocation
<1>3. CASE EndInvocation
  BY <1>3 DEF PipelineInv, TypeOK, IterInv, MisspecInv, EarlierWorkSurvives,
     NextToCommit, EndInvocation
<1>4. CASE Commit
  BY <1>4 DEF PipelineInv, TypeOK, IterInv, MisspecInv, EarlierWorkSurvives,
     NextToCommit, Ended, Commit
<1>5. CASE OpenGate
  BY <1>5 DEF PipelineInv, TypeOK, IterInv, MisspecInv, EarlierWorkSurvives,
     NextToCommit, OpenGate
<1>6. CASE CommitMisspec
  BY <1>6 DEF PipelineInv, TypeOK, IterInv, MisspecInv, EarlierWorkSurvives,
     NextToCommit, Ended, CommitMisspec
<1>7. CASE CommitRecordMisspec
  <2>1. /\ pcb.happened /\ pcb.misIter = ITER_MAX
        /\ \A v \in Wid : pc[v] # "exited" /\ pc[v] # "misspec"
    BY <1>7 DEF PipelineInv, TypeOK, MisspecInv, EarlierWorkSurvives, CommitRecordMisspec
  <2>2. /\ pcb'.happened /\ checker'.pc = "stopped" /\ pc' = pc
    BY <1>7, <2>1 DEF PipelineInv, TypeOK, CommitRecordMisspec
  <2> QED
    BY <2>1, <2>2 DEF MisspecInv, EarlierWorkSurvives
<1>8. ASSUME NEW w \in Wid, PassGate(w) PROVE MisspecInv'
  BY <1>8 DEF PipelineInv, TypeOK, IterInv, MisspecInv, EarlierWorkSurvives,
     Follows, NextToCommit, PassGate
<1>9. ASSUME NEW w \in Wid, ProcessReverseCommitQueue(w) PROVE MisspecInv'
  BY <1>9 DEF PipelineInv, TypeOK, IterInv, MisspecInv, EarlierWorkSurvives,
     NextToCommit, ProcessReverseCommitQueue
<1>10. ASSUME NEW w \in Wid, ReceivePacket(w) PROVE MisspecInv'
  BY <1>10 DEF PipelineInv, TypeOK, IterInv, MisspecInv, EarlierWorkSurvives,
     NextToCommit, ReceivePacket
<1>11. ASSUME NEW w \in Wid, ReceiveDone(w) PROVE MisspecInv'
  BY <1>11 DEF PipelineInv, TypeOK, IterInv, MisspecInv, EarlierWorkSurvives,
     Follows, NextToCommit, ReceiveDone
<1>12. ASSUME NEW w \in Wid, CheckMisspec(w) PROVE MisspecInv'
  BY <1>12 DEF PipelineInv, TypeOK, IterInv, MisspecInv, EarlierWorkSurvives,
     Follows, NextToCommit, Misspeculated, CheckMisspec
<1>13. ASSUME NEW w \in Wid, Predict(w) PROVE MisspecInv'
  BY <1>13 DEF PipelineInv, TypeOK, IterInv, MisspecInv, EarlierWorkSurvives,
     NextToCommit, Predict
<1>14. ASSUME NEW w \in Wid, EndBody(w) PROVE MisspecInv'
  BY <1>14 DEF PipelineInv, TypeOK, IterInv, MisspecInv, EarlierWorkSurvives,
     NextToCommit, EndBody
<1>15. ASSUME NEW w \in Wid, BodyMisspec(w) PROVE MisspecInv'
  BY <1>15 DEF PipelineInv, TypeOK, IterInv, MisspecInv, EarlierWorkSurvives,
     NextToCommit, BodyMisspec
<1>16. ASSUME NEW w \in Wid, RecordMisspec(w) PROVE MisspecInv'
  <2>1. /\ pcb.happened /\ pcb.misIter = ITER_MAX /\ checker.pc # "misspec"
        /\ \A v \in Wid : pc[v] # "exited" /\ (pc[v] = "misspec" => v = w)
    <3>1. pcb.happened /\ pcb.misIter = ITER_MAX /\ checker.pc # "misspec"
      BY <1>16 DEF PipelineInv, MisspecInv, RecordMisspec
    <3>2. \A v \in Wid : pc[v] = "exited" => ITER_MAX <= iter[v]
      BY <3>1 DEF PipelineInv, MisspecInv, EarlierWorkSurvives
    <3>3. \A v \in Wid : ~(ITER_MAX <= iter[v])
      BY InTheLoop
    <3>4. \A v \in Wid : pc[v] = "misspec" => v = w
      BY <1>16 DEF PipelineInv, MisspecInv, RecordMisspec
    <3> QED
      BY <3>1, <3>2, <3>3, <3>4
  <2>2. /\ pcb'.happened /\ pcb'.misIter = iter[w]
        /\ pcb'.lastCommitted = pcb.lastCommitted /\ checker' = checker /\ iter' = iter
        /\ \A v \in Wid : pc'[v] = IF v = w THEN "exited" ELSE pc[v]
    BY <1>16, <2>1 DEF PipelineInv, TypeOK, RecordMisspec
  <2> QED
    <3>1. \A v \in Wid : pc'[v] # "misspec"
      BY <2>1, <2>2
    <3>2. EarlierWorkSurvives'
      BY <2>1, <2>2, InTheLoop DEF EarlierWorkSurvives
    <3> QED
      BY <2>1, <2>2, <3>1, <3>2 DEF MisspecInv
<1>17. ASSUME NEW w \in Wid, ForwardPages(w) PROVE MisspecInv'
  BY <1>17 DEF PipelineInv, TypeOK, IterInv, MisspecInv, EarlierWorkSurvives,
     NextToCommit, ForwardPages
<1>18. ASSUME NEW w \in Wid, BroadcastEvent(w) PROVE MisspecInv'
  BY <1>18 DEF PipelineInv, TypeOK, IterInv, MisspecInv, EarlierWorkSurvives,
     NextToCommit, Misspeculated, BroadcastEvent
<1>19. ASSUME NEW w \in Wid, TryCommit(w) PROVE MisspecInv'
  BY <1>19 DEF PipelineInv, TypeOK, IterInv, MisspecInv, EarlierWorkSurvives,
     NextToCommit, TryCommit
<1> QED
  BY <1>1, <1>2, <1>3, <1>4, <1>5, <1>6, <1>7, <1>8, <1>9, <1>10, <1>11, <1>12,
     <1>13, <1>14, <1>15, <1>16, <1>17, <1>18, <1>19 DEF Next, Worker,
     BeginIter, Checker, Terminated

(* The gate is open only when all have been told of the first iteration's *)
(* allocations, and only then does a worker pass it. *)
LEMMA GateStep ==
  ASSUME PipelineInv, [Next]_vars
  PROVE  GateInv'
<1> USE SizeAssumption DEF SizeAssumption, Stage, Iter, queues, history
<1>1. CASE UNCHANGED vars
  BY <1>1 DEF PipelineInv, TypeOK, IterInv, GateInv, FirstIterationFirst, vars
<1>2. CASE BeginInvocation
  BY <1>2 DEF PipelineInv, TypeOK, IterInv, GateInv, FirstIterationFirst,
     NewPcb, BeginInvocation
<1>3. CASE EndInvocation
  BY <1>3 DEF PipelineInv, TypeOK, IterInv, GateInv, FirstIterationFirst,
     EndInvocation
<1>4. CASE Commit
  <2>1. NextToCommit \in Iter /\ (NextToCommit = 0 <=> pcb.lastCommitted = ITER_MAX)
    BY <1>4 DEF PipelineInv, TypeOK, Commit, Ended, NextToCommit
  <2>2. pcb'.lastCommitted = NextToCommit /\ pcb'.lastCommitted # ITER_MAX
    BY <1>4, <2>1 DEF PipelineInv, TypeOK, Commit
  <2>3. UNCHANGED <<iter, pc, good, informed>>
    BY <1>4 DEF Commit
  <2>4. \A w \in Wid : rcq'[w] # <<>> \/ w \in informed
    <3>1. CASE NextToCommit = 0
      <4>1. \A w \in Wid : rcq'[w] = Append(rcq[w], "ALLOC")
        BY <1>4, <3>1 DEF Commit
      <4>2. \A w \in Wid : Append(rcq[w], "ALLOC") # <<>>
        <5>1. \A w \in Wid : rcq[w] \in Seq({"ALLOC"})
          BY DEF PipelineInv, TypeOK
        <5> QED
          BY <5>1
      <4> QED
        BY <4>1, <4>2
    <3>2. CASE NextToCommit # 0
      BY <1>4, <2>1, <3>2 DEF PipelineInv, GateInv, Commit
    <3> QED
      BY <3>1, <3>2
  <2> QED
    BY <2>2, <2>3, <2>4 DEF PipelineInv, GateInv, FirstIterationFirst
<1>5. CASE OpenGate
  BY <1>5 DEF PipelineInv, TypeOK, IterInv, GateInv, FirstIterationFirst,
     OpenGate
<1>6. CASE CommitMisspec
  BY <1>6 DEF PipelineInv, TypeOK, IterInv, GateInv, FirstIterationFirst,
     CommitMisspec
<1>7. CASE CommitRecordMisspec
  BY <1>7 DEF PipelineInv, TypeOK, IterInv, GateInv, FirstIterationFirst,
     CommitRecordMisspec
<1>8. ASSUME NEW w \in Wid, PassGate(w) PROVE GateInv'
  BY <1>8 DEF PipelineInv, TypeOK, IterInv, GateInv, FirstIterationFirst,
     Follows, PassGate
<1>9. ASSUME NEW w \in Wid, ProcessReverseCommitQueue(w) PROVE GateInv'
  BY <1>9 DEF PipelineInv, TypeOK, IterInv, GateInv, FirstIterationFirst,
     ProcessReverseCommitQueue
<1>10. ASSUME NEW w \in Wid, ReceivePacket(w) PROVE GateInv'
  BY <1>10 DEF PipelineInv, TypeOK, IterInv, GateInv, FirstIterationFirst,
     ReceivePacket
<1>11. ASSUME NEW w \in Wid, ReceiveDone(w) PROVE GateInv'
  BY <1>11 DEF PipelineInv, TypeOK, IterInv, GateInv, FirstIterationFirst,
     Follows, ReceiveDone
<1>12. ASSUME NEW w \in Wid, CheckMisspec(w) PROVE GateInv'
  BY <1>12 DEF PipelineInv, TypeOK, IterInv, GateInv, FirstIterationFirst,
     Follows, CheckMisspec
<1>13. ASSUME NEW w \in Wid, Predict(w) PROVE GateInv'
  BY <1>13 DEF PipelineInv, TypeOK, IterInv, GateInv, FirstIterationFirst,
     Predict
<1>14. ASSUME NEW w \in Wid, EndBody(w) PROVE GateInv'
  BY <1>14 DEF PipelineInv, TypeOK, IterInv, GateInv, FirstIterationFirst,
     EndBody
<1>15. ASSUME NEW w \in Wid, BodyMisspec(w) PROVE GateInv'
  BY <1>15 DEF PipelineInv, TypeOK, IterInv, GateInv, FirstIterationFirst,
     BodyMisspec
<1>16. ASSUME NEW w \in Wid, RecordMisspec(w) PROVE GateInv'
  BY <1>16 DEF PipelineInv, TypeOK, IterInv, GateInv, FirstIterationFirst,
     RecordMisspec
<1>17. ASSUME NEW w \in Wid, ForwardPages(w) PROVE GateInv'
  BY <1>17 DEF PipelineInv, TypeOK, IterInv, GateInv, FirstIterationFirst,
     ForwardPages
<1>18. ASSUME NEW w \in Wid, BroadcastEvent(w) PROVE GateInv'
  BY <1>18 DEF PipelineInv, TypeOK, IterInv, GateInv, FirstIterationFirst,
     BroadcastEvent
<1>19. ASSUME NEW w \in Wid, TryCommit(w) PROVE GateInv'
  BY <1>19 DEF PipelineInv, TypeOK, IterInv, GateInv, FirstIterationFirst,
     TryCommit
<1> QED
  BY <1>1, <1>2, <1>3, <1>4, <1>5, <1>6, <1>7, <1>8, <1>9, <1>10, <1>11, <1>12,
     <1>13, <1>14, <1>15, <1>16, <1>17, <1>18, <1>19 DEF Next, Worker,
     BeginIter, Checker, Terminated

(* The invariant holds when the program starts. *)
LEMMA InitEstablishes == Init => PipelineInv
<1> SUFFICES ASSUME Init PROVE PipelineInv
  OBVIOUS
<1> USE SizeAssumption DEF SizeAssumption
<1>1. <<>> \in Seq(PacketType) /\ <<>> \in Seq({"ALLOC"})
  OBVIOUS
<1>2. TypeOK
  <2>1. 0 \in Stage /\ 0 \in 0 .. TripCount /\ 0 \in 0 .. Invocations
    BY DEF Stage
  <2>2. /\ ucvf \in [Wid -> [Wid -> Seq(PacketType)]]
        /\ tryq \in [Wid -> Seq(PacketType)]
        /\ rcq \in [Wid -> Seq({"ALLOC"})]
    BY <1>1 DEF Init
  <2> QED
    BY <2>1, <2>2 DEF Init, TypeOK, NewPcb
<1>3. IterInv /\ MisspecInv
  BY DEF Init, IterInv, MisspecInv, EarlierWorkSurvives, NewPcb
<1>4. GateInv
  BY DEF Init, GateInv, FirstIterationFirst, NewPcb
<1> QED
  BY <1>2, <1>3, <1>4 DEF PipelineInv

(* PipelineInv is inductive. *)
THEOREM PipelineInvariant == Spec => []PipelineInv
<1>1. PipelineInv /\ [Next]_vars => PipelineInv'
  BY TypeStep, IterStep, MisspecStep, GateStep DEF PipelineInv
<1> QED
  BY <1>1, InitEstablishes, PTL DEF Spec

(* The variables keep their types: in particular no worker goes beyond the *)
(* last iteration and from never passes the last stage.                    *)
THEOREM TypesKept == Spec => []TypeOK
<1>1. PipelineInv => TypeOK
  BY DEF PipelineInv
<1> QED
  BY <1>1, PipelineInvariant, PTL

(* The gate of begin_iter: no worker runs a later iteration before the     *)
(* first one is committed and it knows what that allocated.                *)
THEOREM FirstIterationIsFirst == Spec => []FirstIterationFirst
<1>1. PipelineInv => FirstIterationFirst
  BY DEF PipelineInv, GateInv
<1> QED
  BY <1>1, PipelineInvariant, PTL

(* check_misspec: a worker exits only at or after the iteration that       *)
(* misspeculated, whoever detected it and whenever the pcb was read.       *)
THEOREM EarlierIterationsSurvive == Spec => []EarlierWorkSurvives
<1>1. PipelineInv => EarlierWorkSurvives
  BY DEF PipelineInv, MisspecInv
<1> QED
  BY <1>1, PipelineInvariant, PTL
=============================================================================
