------------------------- MODULE PipelineOrderProofs -------------------------
(***************************************************************************)
(* What is in the queues between the workers, for every number of stages,  *)
(* workers and iterations and every replication: the inductive invariant   *)
(* OrderInv of Pipeline, and from it that a worker has the memory of the   *)
(* earlier stages, that nothing is left in the queues, that no worker runs *)
(* on an iteration it was told had misspeculated, and that the pipeline    *)
(* implements PipelineOrder.                                               *)
(***************************************************************************)
EXTENDS PipelineProofs

-----------------------------------------------------------------------------
(* The source of the packets of a stage is the worker that runs the        *)
(* iteration there, by either of the two formulas of the code.             *)
LEMMA SourceRuns ==
  ASSUME NEW i \in Nat, NEW s \in Stage
  PROVE  StageOf[Source(i, s)] = s /\ RunIteration(Source(i, s), i)
<1>1. Source(i, s) \in Wid
  BY SourceIsWorker
<1>2. i % Rep[s] \in 0 .. Rep[s] - 1
  BY StageIsRange
<1>3. FirstWid[s] <= Source(i, s) /\ Source(i, s) <= FirstWid[s] + Rep[s] - 1
  BY <1>2, StageIsRange DEF Source, WidOffset
<1>4. StageOf[Source(i, s)] = s
  BY <1>1, <1>3, StageIsRange
<1> QED
  BY <1>4 DEF RunIteration, Source, WidOffset

LEMMA RunsFromSource ==
  ASSUME NEW i \in Nat, NEW w \in Wid
  PROVE  /\ StageOf[w] \in Stage
         /\ RunIteration(w, i) <=> w = Source(i, StageOf[w])
         /\ (w - FirstWid[StageOf[w]] = WidOffset(i, StageOf[w])) <=> RunIteration(w, i)
<1>1. StageOf[w] \in Stage
  BY LayoutAssumption DEF LayoutAssumption
<1>2. /\ FirstWid[StageOf[w]] \in Nat /\ w \in Nat
      /\ i % Rep[StageOf[w]] \in Nat
  BY <1>1, StageIsRange
<1> QED
  BY <1>1, <1>2 DEF RunIteration, Source, WidOffset

(* The types a proof about the queues needs. *)
LEMMA QueueTypes ==
  ASSUME TypeOK, NEW w \in Wid
  PROVE  /\ iter[w] \in Nat /\ iter[w] <= TripCount /\ from[w] \in Nat
         /\ StageOf[w] \in Stage /\ StageOf[w] \in Nat
         /\ \A v \in Wid : ucvf[w][v] \in Seq(PacketType)
         /\ seen[w] \subseteq Stage \X Iter
         /\ Iter \subseteq Nat /\ Stage \subseteq Nat /\ Wid \subseteq Nat
<1> USE SizeAssumption DEF SizeAssumption
<1>1. StageOf[w] \in Stage
  BY LayoutAssumption DEF LayoutAssumption
<1>2. Iter \subseteq Nat /\ Stage \subseteq Nat /\ Wid \subseteq Nat
  BY DEF Iter, Stage, Wid
<1>3. iter[w] \in 0 .. TripCount /\ from[w] \in Stage /\ seen[w] \in SUBSET (Stage \X Iter)
  BY DEF TypeOK
<1>4. \A v \in Wid : ucvf[w][v] \in Seq(PacketType)
  BY DEF TypeOK
<1>5. iter[w] \in Nat /\ iter[w] <= TripCount
  BY <1>3
<1>6. from[w] \in Nat /\ StageOf[w] \in Nat
  BY <1>1, <1>2, <1>3
<1> QED
  BY <1>1, <1>2, <1>3, <1>4, <1>5, <1>6

(* The elements of a sequence without its head, or with one more. *)
LEMMA HeadAndTail ==
  ASSUME NEW S, NEW q \in Seq(S), q # <<>>
  PROVE  /\ Len(q) \in Nat /\ Len(q) >= 1 /\ q[1] = Head(q) /\ q[1] \in S
         /\ Tail(q) \in Seq(S) /\ Len(Tail(q)) = Len(q) - 1
         /\ \A k \in 1 .. Len(Tail(q)) : k + 1 \in 1 .. Len(q) /\ Tail(q)[k] = q[k + 1]
         /\ \A k \in 1 .. Len(q) : k # 1 =>
              k - 1 \in 1 .. Len(Tail(q)) /\ Tail(q)[k - 1] = q[k]
<1>1. Len(q) \in Nat /\ Len(q) >= 1 /\ q[1] = Head(q) /\ q[1] \in S
  OBVIOUS
<1>2. Tail(q) \in Seq(S) /\ Len(Tail(q)) = Len(q) - 1
  OBVIOUS
<1>3. \A k \in 1 .. Len(Tail(q)) : k + 1 \in 1 .. Len(q) /\ Tail(q)[k] = q[k + 1]
  BY <1>1, <1>2
<1>4. \A k \in 1 .. Len(q) : k # 1 => k - 1 \in 1 .. Len(Tail(q)) /\ (k - 1) + 1 = k
  BY <1>1, <1>2
<1> QED
  BY <1>1, <1>2, <1>3, <1>4

LEMMA AppendElements ==
  ASSUME NEW S, NEW q \in Seq(S), NEW e \in S
  PROVE  /\ Len(q) \in Nat /\ Append(q, e) \in Seq(S) /\ Len(Append(q, e)) = Len(q) + 1
         /\ \A k \in 1 .. Len(q) : k \in 1 .. Len(q) + 1 /\ Append(q, e)[k] = q[k]
         /\ Append(q, e)[Len(q) + 1] = e
         /\ \A k \in 1 .. Len(q) + 1 : k \in 1 .. Len(q) \/ k = Len(q) + 1
  OBVIOUS

LEMMA PacketParts ==
  ASSUME NEW q \in Seq(PacketType), NEW k \in 1 .. Len(q)
  PROVE  /\ q[k] \in PacketType /\ q[k].iter \in Iter /\ q[k].iter \in Nat
         /\ q[k].kind \in {"DATA", "BOI", "EOI"} /\ q[k].tainted \in BOOLEAN
<1>1. q[k] \in PacketType
  OBVIOUS
<1>2. \A p \in PacketType : /\ p.iter \in Iter /\ p.kind \in {"DATA", "BOI", "EOI"}
                            /\ p.tainted \in BOOLEAN
  BY DEF PacketType
<1> QED
  BY <1>1, <1>2 DEF Iter

(* A packet with the place it has in the queue *)
LEMMA DataPlace ==
  ASSUME NEW q, NEW j
  PROVE  j \in DataIters(q) <=> \E k \in 1 .. Len(q) : q[k].kind = "DATA" /\ q[k].iter = j
BY DEF DataIters

LEMMA EoiPlace ==
  ASSUME NEW q, NEW j
  PROVE  j \in EoiIters(q) <=> \E k \in 1 .. Len(q) : q[k].kind = "EOI" /\ q[k].iter = j
BY DEF EoiIters

(* What is left in a queue when its first packet is taken *)
LEMMA TailEoi ==
  ASSUME NEW q \in Seq(PacketType), q # <<>>, NEW r, r = Tail(q)
  PROVE  /\ r \in Seq(PacketType)
         /\ EoiIters(q) = EoiIters(r) \cup (IF q[1].kind = "EOI" THEN {q[1].iter} ELSE {})
         /\ DataIters(q) = DataIters(r) \cup (IF q[1].kind = "DATA" THEN {q[1].iter} ELSE {})
<1>1. /\ r \in Seq(PacketType) /\ 1 \in 1 .. Len(q)
      /\ \A k \in 1 .. Len(r) : k + 1 \in 1 .. Len(q) /\ r[k] = q[k + 1]
      /\ \A k \in 1 .. Len(q) : k # 1 => k - 1 \in 1 .. Len(r) /\ r[k - 1] = q[k]
  BY HeadAndTail
<1>2. ASSUME NEW j
      PROVE  j \in EoiIters(q) <=> j \in EoiIters(r) \/ (q[1].kind = "EOI" /\ j = q[1].iter)
  <2>1. ASSUME j \in EoiIters(q), ~(q[1].kind = "EOI" /\ j = q[1].iter)
        PROVE  j \in EoiIters(r)
    <3>1. PICK k \in 1 .. Len(q) : q[k].kind = "EOI" /\ q[k].iter = j
      BY <2>1, EoiPlace
    <3>2. k - 1 \in 1 .. Len(r) /\ r[k - 1].kind = "EOI" /\ r[k - 1].iter = j
      BY <1>1, <2>1, <3>1
    <3> QED
      BY <3>2, EoiPlace
  <2>2. ASSUME j \in EoiIters(r) PROVE j \in EoiIters(q)
    <3>1. PICK k \in 1 .. Len(r) : r[k].kind = "EOI" /\ r[k].iter = j
      BY <2>2, EoiPlace
    <3>2. k + 1 \in 1 .. Len(q) /\ q[k + 1].kind = "EOI" /\ q[k + 1].iter = j
      BY <1>1, <3>1
    <3> QED
      BY <3>2, EoiPlace
  <2>3. ASSUME q[1].kind = "EOI", j = q[1].iter PROVE j \in EoiIters(q)
    BY <1>1, <2>3, EoiPlace
  <2> QED
    BY <2>1, <2>2, <2>3
<1>3. ASSUME NEW j
      PROVE  j \in DataIters(q) <=> j \in DataIters(r) \/ (q[1].kind = "DATA" /\ j = q[1].iter)
  <2>1. ASSUME j \in DataIters(q), ~(q[1].kind = "DATA" /\ j = q[1].iter)
        PROVE  j \in DataIters(r)
    <3>1. PICK k \in 1 .. Len(q) : q[k].kind = "DATA" /\ q[k].iter = j
      BY <2>1, DataPlace
    <3>2. k - 1 \in 1 .. Len(r) /\ r[k - 1].kind = "DATA" /\ r[k - 1].iter = j
      BY <1>1, <2>1, <3>1
    <3> QED
      BY <3>2, DataPlace
  <2>2. ASSUME j \in DataIters(r) PROVE j \in DataIters(q)
    <3>1. PICK k \in 1 .. Len(r) : r[k].kind = "DATA" /\ r[k].iter = j
      BY <2>2, DataPlace
    <3>2. k + 1 \in 1 .. Len(q) /\ q[k + 1].kind = "DATA" /\ q[k + 1].iter = j
      BY <1>1, <3>1
    <3> QED
      BY <3>2, DataPlace
  <2>3. ASSUME q[1].kind = "DATA", j = q[1].iter PROVE j \in DataIters(q)
    BY <1>1, <2>3, DataPlace
  <2> QED
    BY <2>1, <2>2, <2>3
<1> QED
  BY <1>1, <1>2, <1>3

LEMMA HeadLeast ==
  ASSUME NEW q \in Seq(PacketType), q # <<>>, Sorted(q)
  PROVE  /\ q[1].kind \in {"DATA", "EOI"} /\ q[1].iter \in Iter /\ q[1] = Head(q)
         /\ q[1].kind = "DATA" => q[1].iter \in DataIters(q)
         /\ q[1].kind = "EOI" => q[1].iter \in EoiIters(q) /\ q[1].iter \notin DataIters(q)
         /\ \A j \in DataIters(q) \cup EoiIters(q) : j \in Iter /\ q[1].iter <= j
<1>1. 1 \in 1 .. Len(q) /\ q[1] = Head(q) /\ Len(q) \in Nat
  BY HeadAndTail
<1>2. \A k \in 1 .. Len(q) : q[k].iter \in Iter /\ q[k].iter \in Nat /\ (k = 1 \/ 1 < k)
  BY PacketParts, <1>1
<1>3. \A k \in 1 .. Len(q) : q[1].iter <= q[k].iter
  BY <1>1, <1>2 DEF Sorted
<1>4. ASSUME q[1].kind = "EOI" PROVE q[1].iter \notin DataIters(q)
  BY <1>1, <1>2, <1>4, DataPlace DEF Sorted
<1>5. q[1].kind \in {"DATA", "EOI"}
  BY <1>1 DEF Sorted
<1> QED
  BY <1>1, <1>2, <1>3, <1>4, <1>5, DataPlace, EoiPlace

LEMMA TailIters ==
  ASSUME NEW q \in Seq(PacketType), q # <<>>, Sorted(q), NEW r, r = Tail(q)
  PROVE  /\ r \in Seq(PacketType) /\ Sorted(r)
         /\ q[1].kind = "DATA" => /\ DataIters(r) = DataIters(q) \ {q[1].iter}
                                  /\ EoiIters(r) = EoiIters(q)
         /\ q[1].kind = "EOI" => /\ EoiIters(r) = EoiIters(q) \ {q[1].iter}
                                 /\ DataIters(r) = DataIters(q)
<1>1. /\ r \in Seq(PacketType) /\ 1 \in 1 .. Len(q) /\ Len(q) \in Nat /\ Len(r) \in Nat
      /\ \A k \in 1 .. Len(r) : k + 1 \in 1 .. Len(q) /\ r[k] = q[k + 1]
  BY HeadAndTail
<1>2. Sorted(r)
  <2>1. \A k, l \in 1 .. Len(r) : k < l => k + 1 < l + 1
    BY <1>1
  <2> QED
    BY <1>1, <2>1 DEF Sorted
<1>3. \A k \in 1 .. Len(r) :
        \/ q[1].iter < r[k].iter
        \/ q[1].iter = r[k].iter /\ q[1].kind = "DATA" /\ r[k].kind = "EOI"
  <2>1. \A k \in 1 .. Len(r) : 1 < k + 1
    BY <1>1
  <2> QED
    BY <1>1, <2>1 DEF Sorted
<1>4. \A k \in 1 .. Len(q) : q[k].iter \in Nat
  BY PacketParts
<1>5. ASSUME q[1].kind = "DATA" PROVE q[1].iter \notin DataIters(r)
  <2>1. SUFFICES ASSUME NEW k \in 1 .. Len(r), r[k].kind = "DATA", r[k].iter = q[1].iter
                PROVE  FALSE
    BY DataPlace
  <2>2. r[k].iter \in Nat
    BY <1>1, <1>4
  <2> QED
    BY <1>3, <1>5, <2>1, <2>2
<1>6. ASSUME q[1].kind = "EOI" PROVE q[1].iter \notin EoiIters(r)
  <2>1. SUFFICES ASSUME NEW k \in 1 .. Len(r), r[k].kind = "EOI", r[k].iter = q[1].iter
                PROVE  FALSE
    BY EoiPlace
  <2>2. r[k].iter \in Nat
    BY <1>1, <1>4
  <2> QED
    BY <1>3, <1>6, <2>1, <2>2
<1>7. CASE q[1].kind = "DATA"
  <2>1. EoiIters(q) = EoiIters(r) \cup {} /\ DataIters(q) = DataIters(r) \cup {q[1].iter}
    BY <1>7, TailEoi
  <2> QED
    BY <1>1, <1>2, <1>5, <1>7, <2>1
<1>8. CASE q[1].kind = "EOI"
  <2>1. EoiIters(q) = EoiIters(r) \cup {q[1].iter} /\ DataIters(q) = DataIters(r) \cup {}
    BY <1>8, TailEoi
  <2> QED
    BY <1>1, <1>2, <1>6, <1>8, <2>1
<1> QED
  BY <1>1, <1>2, <1>7, <1>8

LEMMA NothingLeft ==
  ASSUME NEW q \in Seq(PacketType), Sorted(q), DataIters(q) = {}, EoiIters(q) = {}
  PROVE  q = <<>>
BY HeadLeast

(* A queue with one packet more *)
LEMMA AppendIters ==
  ASSUME NEW q \in Seq(PacketType), NEW p \in PacketType, NEW r, r = Append(q, p)
  PROVE  /\ r \in Seq(PacketType)
         /\ DataIters(r) = DataIters(q) \cup (IF p.kind = "DATA" THEN {p.iter} ELSE {})
         /\ EoiIters(r) = EoiIters(q) \cup (IF p.kind = "EOI" THEN {p.iter} ELSE {})
<1>1. /\ Len(q) \in Nat /\ r \in Seq(PacketType) /\ Len(r) = Len(q) + 1
      /\ \A k \in 1 .. Len(q) : k \in 1 .. Len(r) /\ r[k] = q[k]
      /\ Len(q) + 1 \in 1 .. Len(r) /\ r[Len(q) + 1] = p
      /\ \A k \in 1 .. Len(r) : k \in 1 .. Len(q) \/ k = Len(q) + 1
  BY AppendElements
<1>2. ASSUME NEW j
      PROVE  j \in EoiIters(r) <=> j \in EoiIters(q) \/ (p.kind = "EOI" /\ j = p.iter)
  <2>1. ASSUME j \in EoiIters(r), ~(p.kind = "EOI" /\ j = p.iter) PROVE j \in EoiIters(q)
    <3>1. PICK k \in 1 .. Len(r) : r[k].kind = "EOI" /\ r[k].iter = j
      BY <2>1, EoiPlace
    <3>2. k \in 1 .. Len(q) /\ q[k].kind = "EOI" /\ q[k].iter = j
      BY <1>1, <2>1, <3>1
    <3> QED
      BY <3>2, EoiPlace
  <2>2. ASSUME j \in EoiIters(q) PROVE j \in EoiIters(r)
    <3>1. PICK k \in 1 .. Len(q) : q[k].kind = "EOI" /\ q[k].iter = j
      BY <2>2, EoiPlace
    <3>2. k \in 1 .. Len(r) /\ r[k].kind = "EOI" /\ r[k].iter = j
      BY <1>1, <3>1
    <3> QED
      BY <3>2, EoiPlace
  <2>3. ASSUME p.kind = "EOI", j = p.iter PROVE j \in EoiIters(r)
    <3>1. Len(q) + 1 \in 1 .. Len(r) /\ r[Len(q) + 1].kind = "EOI" /\ r[Len(q) + 1].iter = j
      BY <1>1, <2>3
    <3> QED
      BY <3>1, EoiPlace
  <2> QED
    BY <2>1, <2>2, <2>3
<1>3. ASSUME NEW j
      PROVE  j \in DataIters(r) <=> j \in DataIters(q) \/ (p.kind = "DATA" /\ j = p.iter)
  <2>1. ASSUME j \in DataIters(r), ~(p.kind = "DATA" /\ j = p.iter) PROVE j \in DataIters(q)
    <3>1. PICK k \in 1 .. Len(r) : r[k].kind = "DATA" /\ r[k].iter = j
      BY <2>1, DataPlace
    <3>2. k \in 1 .. Len(q) /\ q[k].kind = "DATA" /\ q[k].iter = j
      BY <1>1, <2>1, <3>1
    <3> QED
      BY <3>2, DataPlace
  <2>2. ASSUME j \in DataIters(q) PROVE j \in DataIters(r)
    <3>1. PICK k \in 1 .. Len(q) : q[k].kind = "DATA" /\ q[k].iter = j
      BY <2>2, DataPlace
    <3>2. k \in 1 .. Len(r) /\ r[k].kind = "DATA" /\ r[k].iter = j
      BY <1>1, <3>1
    <3> QED
      BY <3>2, DataPlace
  <2>3. ASSUME p.kind = "DATA", j = p.iter PROVE j \in DataIters(r)
    <3>1. Len(q) + 1 \in 1 .. Len(r) /\ r[Len(q) + 1].kind = "DATA" /\ r[Len(q) + 1].iter = j
      BY <1>1, <2>3
    <3> QED
      BY <3>1, DataPlace
  <2> QED
    BY <2>1, <2>2, <2>3
<1> QED
  BY <1>1, <1>2, <1>3

LEMMA AppendSorted ==
  ASSUME NEW q \in Seq(PacketType), NEW p \in PacketType, Sorted(q),
         p.kind \in {"DATA", "EOI"},
         \A j \in EoiIters(q) : j < p.iter,
         \A j \in DataIters(q) : j < p.iter \/ (j = p.iter /\ p.kind = "EOI")
  PROVE  Sorted(Append(q, p))
<1> PICK r : r = Append(q, p)
  OBVIOUS
<1>1. /\ Len(q) \in Nat /\ Len(r) = Len(q) + 1
      /\ \A k \in 1 .. Len(q) : r[k] = q[k]
      /\ r[Len(q) + 1] = p
      /\ \A k \in 1 .. Len(r) : k \in 1 .. Len(q) \/ k = Len(q) + 1
  BY AppendElements
<1>2. \A k \in 1 .. Len(q) :
        q[k].iter < p.iter \/ (q[k].iter = p.iter /\ q[k].kind = "DATA" /\ p.kind = "EOI")
  BY DataPlace, EoiPlace DEF Sorted
<1>3. \A k \in 1 .. Len(r) : r[k].kind \in {"DATA", "EOI"}
  BY <1>1 DEF Sorted
<1>4. ASSUME NEW k \in 1 .. Len(r), NEW l \in 1 .. Len(r), k < l
      PROVE  \/ r[k].iter < r[l].iter
             \/ r[k].iter = r[l].iter /\ r[k].kind = "DATA" /\ r[l].kind = "EOI"
  <2>1. k \in 1 .. Len(q)
    BY <1>1, <1>4
  <2>2. CASE l = Len(q) + 1
    BY <1>1, <1>2, <2>1, <2>2
  <2>3. CASE l \in 1 .. Len(q)
    BY <1>1, <1>4, <2>1, <2>3 DEF Sorted
  <2> QED
    BY <1>1, <2>2, <2>3
<1> QED
  BY <1>3, <1>4 DEF Sorted

(* The steps that neither send nor receive, nor start an invocation. *)
Quiet ==
  /\ UNCHANGED <<iter, from, ucvf, seen>>
  /\ \A w \in Wid : pc'[w] = "event" <=> pc[w] = "event"

LEMMA QuietStep ==
  ASSUME TypeOK, [Next]_vars
  PROVE  \/ Quiet
         \/ BeginInvocation
         \/ \E w \in Wid : ReceivePacket(w) \/ ForwardPages(w) \/ BroadcastEvent(w)
<1> USE DEF queues, history
<1>1. CASE UNCHANGED vars
  BY <1>1 DEF vars, Quiet
<1>2. CASE EndInvocation \/ Commit \/ OpenGate \/ CommitMisspec \/ CommitRecordMisspec
  BY <1>2 DEF EndInvocation, Commit, OpenGate, CommitMisspec, CommitRecordMisspec, Quiet
<1>3. ASSUME NEW w \in Wid, PassGate(w) PROVE Quiet
  BY <1>3 DEF TypeOK, Follows, PassGate, Quiet
<1>4. ASSUME NEW w \in Wid, ProcessReverseCommitQueue(w) PROVE Quiet
  BY <1>4 DEF ProcessReverseCommitQueue, Quiet
<1>5. ASSUME NEW w \in Wid, ReceiveDone(w) PROVE Quiet
  BY <1>5 DEF TypeOK, Follows, ReceiveDone, Quiet
<1>6. ASSUME NEW w \in Wid, CheckMisspec(w) PROVE Quiet
  BY <1>6 DEF TypeOK, Follows, CheckMisspec, Quiet
<1>7. ASSUME NEW w \in Wid, Predict(w) PROVE Quiet
  BY <1>7 DEF TypeOK, Predict, Quiet
<1>8. ASSUME NEW w \in Wid, EndBody(w) PROVE Quiet
  BY <1>8 DEF TypeOK, EndBody, Quiet
<1>9. ASSUME NEW w \in Wid, BodyMisspec(w) PROVE Quiet
  BY <1>9 DEF TypeOK, BodyMisspec, Quiet
<1>10. ASSUME NEW w \in Wid, RecordMisspec(w) PROVE Quiet
  BY <1>10 DEF TypeOK, RecordMisspec, Quiet
<1>11. ASSUME NEW w \in Wid, TryCommit(w) PROVE Quiet
  BY <1>11 DEF TryCommit, Quiet
<1> QED
  BY <1>1, <1>2, <1>3, <1>4, <1>5, <1>6, <1>7, <1>8, <1>9, <1>10, <1>11
     DEF Next, Worker, BeginIter, Checker, Terminated

(* What a quiet step leaves as it was *)
LEMMA QuietKeeps ==
  ASSUME QueueInv, SeenInv, Quiet
  PROVE  QueueInv' /\ SeenInv'
<1>1. ASSUME NEW w \in Wid
      PROVE  SentData(w)' = SentData(w) /\ SentEoi(w)' = SentEoi(w)
  BY DEF Quiet, SentData, SentEoi, RunIteration
<1>2. ASSUME NEW v, NEW t PROVE NextFrom(v, t)' = NextFrom(v, t)
  BY DEF Quiet, NextFrom
<1>3. UNCHANGED <<ucvf, seen, iter, from>>
  BY DEF Quiet
<1>4. QueueInv'
  BY <1>1, <1>2, <1>3 DEF QueueInv, Unseen, Awaited
<1>5. SeenInv'
  <2>1. ASSUME NEW t \in Stage, NEW j \in Iter
        PROVE  SentData(Source(j, t))' = SentData(Source(j, t))
    BY <1>1, SourceIsWorker, SizeAssumption DEF Iter, SizeAssumption
  <2> QED
    BY <1>2, <1>3, <2>1 DEF SeenInv, Source, WidOffset
<1> QED
  BY <1>4, <1>5

-----------------------------------------------------------------------------
(* Worker v, in iteration i, takes a packet from the queue q of worker src *)
(* of stage t.  The packet is one of that iteration, and an EOI packet     *)
(* only when v has the pages.                                              *)
Takes(v, i, t, src, q) ==
  /\ i = iter[v] /\ t = from[v] /\ src = Source(i, t) /\ q = ucvf[src][v]
  /\ t < StageOf[v] /\ StageOf[src] = t /\ RunIteration(src, i)
  /\ q # <<>> /\ Sorted(q)
  /\ DataIters(q) = Unseen(src, v) /\ EoiIters(q) = Awaited(src, v)
  /\ q[1] = Head(q) /\ q[1].iter = i
  /\ \/ q[1].kind = "EOI" /\ <<t, i>> \in seen[v] /\ i < iter[src]
     \/ q[1].kind = "DATA" /\ <<t, i>> \notin seen[v] /\ i \in SentData(src)

LEMMA HeadOfQueue ==
  ASSUME PipelineInv, QueueInv, SeenInv, NEW v \in Wid, ReceivePacket(v)
  PROVE  \E i \in Iter, t \in Stage, src \in Wid, q \in Seq(PacketType) :
           Takes(v, i, t, src, q)
<1>1. TypeOK /\ iter[v] \in Iter /\ from[v] \in Stage /\ from[v] < StageOf[v]
  BY InTheLoop DEF PipelineInv, ReceivePacket
<1> PICK i \in Iter, t \in Stage : i = iter[v] /\ t = from[v]
  BY <1>1
<1>2. i \in Nat /\ t \in Nat
  BY SizeAssumption DEF SizeAssumption, Iter, Stage
<1> PICK src \in Wid : src = Source(i, t)
  BY <1>2, SourceIsWorker
<1>3. StageOf[src] = t /\ RunIteration(src, i) /\ t < StageOf[v]
  BY <1>1, <1>2, SourceRuns
<1>4. ucvf[src][v] \in Seq(PacketType) /\ iter[src] \in Nat
  BY <1>1, QueueTypes
<1> PICK q \in Seq(PacketType) : q = ucvf[src][v]
  BY <1>4
<1>5. q # <<>>
  BY DEF ReceivePacket
<1>6. Sorted(q) /\ DataIters(q) = Unseen(src, v) /\ EoiIters(q) = Awaited(src, v)
  BY <1>3 DEF QueueInv
<1>7. NextFrom(v, t) = i
  BY <1>2 DEF NextFrom
<1>8. /\ q[1].kind \in {"DATA", "EOI"} /\ q[1].iter \in Iter /\ q[1] = Head(q)
      /\ q[1].kind = "DATA" => q[1].iter \in Unseen(src, v)
      /\ q[1].kind = "EOI" => q[1].iter \in Awaited(src, v) /\ q[1].iter \notin Unseen(src, v)
      /\ \A j \in Unseen(src, v) \cup Awaited(src, v) : j \in Iter /\ q[1].iter <= j
  BY <1>5, <1>6, HeadLeast
<1> PICK j \in Iter : j = q[1].iter
  BY <1>8
<1>9. j \in Nat
  BY DEF Iter
<1>10. i < iter[src] => i \in SentEoi(src) /\ i \in SentData(src) /\ i \in Awaited(src, v)
  BY <1>2, <1>3, <1>7 DEF SentEoi, SentData, Awaited
<1>11. CASE q[1].kind = "EOI"
  <2>1. j \in SentEoi(src) /\ j >= i
    BY <1>3, <1>7, <1>8, <1>11 DEF Awaited
  <2>2. i < iter[src]
    BY <1>2, <1>4, <1>9, <2>1 DEF SentEoi
  <2>3. j = i
    BY <1>2, <1>8, <1>9, <1>10, <2>1, <2>2
  <2>4. <<t, i>> \in seen[v]
    BY <1>3, <1>8, <1>10, <1>11, <2>2, <2>3 DEF Unseen
  <2> QED
    BY <1>3, <1>5, <1>6, <1>8, <1>11, <2>2, <2>3, <2>4 DEF Takes
<1>12. CASE q[1].kind = "DATA"
  <2>1. j \in SentData(src) /\ <<t, j>> \notin seen[v]
    BY <1>3, <1>8, <1>12 DEF Unseen
  <2>2. ~(j < i)
    BY <1>3, <1>7, <2>1 DEF SeenInv
  <2>3. ~(i < j)
    <3>1. SUFFICES ASSUME i < j PROVE FALSE
      OBVIOUS
    <3>2. j <= iter[src]
      BY <1>4, <1>9, <2>1 DEF SentData
    <3>3. i \in Awaited(src, v)
      BY <1>2, <1>4, <1>9, <1>10, <3>1, <3>2
    <3> QED
      BY <1>2, <1>8, <1>9, <3>1, <3>3
  <2>4. j = i
    BY <1>2, <1>9, <2>2, <2>3
  <2> QED
    BY <1>3, <1>5, <1>6, <1>8, <1>12, <2>1, <2>4 DEF Takes
<1> QED
  BY <1>8, <1>11, <1>12

(* What the worker takes leaves the queue and enters its memory. *)
LEMMA ReceiveQueues ==
  ASSUME PipelineInv, QueueInv, SeenInv, NEW v \in Wid, ReceivePacket(v)
  PROVE  QueueInv' /\ SeenInv'
<1> USE DEF queues, history
<1> PICK i \in Iter, t \in Stage, src \in Wid, q \in Seq(PacketType) : Takes(v, i, t, src, q)
  BY HeadOfQueue
<1> PICK r : r = Tail(q)
  OBVIOUS
<1>1. TypeOK /\ i \in Nat /\ t \in Nat
  BY SizeAssumption DEF PipelineInv, SizeAssumption, Iter, Stage
<1>a. /\ i = iter[v] /\ t = from[v] /\ src = Source(i, t) /\ q = ucvf[src][v]
      /\ t < StageOf[v] /\ StageOf[src] = t
  BY DEF Takes
<1>b. UNCHANGED <<iter, pc>> /\ ucvf' = [ucvf EXCEPT ![src][v] = r]
  BY <1>a DEF ReceivePacket
<1>c. /\ Sorted(r)
      /\ q[1].kind = "DATA" => /\ DataIters(r) = DataIters(q) \ {q[1].iter}
                               /\ EoiIters(r) = EoiIters(q)
      /\ q[1].kind = "EOI" => /\ EoiIters(r) = EoiIters(q) \ {q[1].iter}
                              /\ DataIters(r) = DataIters(q)
  <2>1. q # <<>> /\ Sorted(q)
    BY DEF Takes
  <2> QED
    BY <2>1, TailIters
<1>d. \A w, u \in Wid : w # src \/ u # v => ucvf'[w][u] = ucvf[w][u]
  BY <1>1, <1>b DEF TypeOK
<1>e. ucvf'[src][v] = r
  BY <1>1, <1>b DEF TypeOK
<1>f. \A w \in Wid : SentData(w)' = SentData(w) /\ SentEoi(w)' = SentEoi(w)
  BY <1>b DEF SentData, SentEoi, RunIteration
<1>2. /\ i \in Iter /\ t < StageOf[v] /\ StageOf[src] = t /\ src = Source(i, t)
      /\ i = iter[v] /\ t = from[v]
      /\ UNCHANGED <<iter, pc>>
      /\ ucvf'[src][v] = r
      /\ \A w, u \in Wid : w # src \/ u # v => ucvf'[w][u] = ucvf[w][u]
      /\ Sorted(r)
      /\ \A w \in Wid : SentData(w)' = SentData(w) /\ SentEoi(w)' = SentEoi(w)
  BY <1>a, <1>b, <1>c, <1>d, <1>e, <1>f
<1>g. IF q[1].kind = "EOI"
      THEN UNCHANGED seen /\ from' = [from EXCEPT ![v] = @ + 1]
      ELSE UNCHANGED from /\ seen' = [seen EXCEPT ![v] = @ \cup {<<t, i>>}]
  BY DEF ReceivePacket, Takes
<1>3. \/ /\ DataIters(r) = Unseen(src, v)
         /\ EoiIters(r) = Awaited(src, v) \ {i}
         /\ UNCHANGED seen
         /\ from' = [from EXCEPT ![v] = @ + 1]
         /\ <<t, i>> \in seen[v] /\ i < iter[src]
      \/ /\ DataIters(r) = Unseen(src, v) \ {i}
         /\ EoiIters(r) = Awaited(src, v)
         /\ seen' = [seen EXCEPT ![v] = @ \cup {<<t, i>>}]
         /\ UNCHANGED from
         /\ i \in SentData(src)
  BY <1>c, <1>g DEF Takes
<1>4. ASSUME NEW w \in Wid, w # src, StageOf[w] = t PROVE ~RunIteration(w, i)
  BY <1>1, <1>2, <1>4, RunsFromSource
<1>5. \A w \in Wid : StageOf[w] \in Nat /\ iter[w] \in Nat /\ from[w] \in Nat /\ Iter \subseteq Nat
  BY <1>1, QueueTypes
<1>6. \A w \in Wid : seen[w] \in SUBSET (Stage \X Iter)
  BY <1>1 DEF TypeOK
<1>7. from \in [Wid -> Stage] /\ seen \in [Wid -> SUBSET (Stage \X Iter)]
  BY <1>1 DEF TypeOK
<1>8. ASSUME NEW w \in Wid, NEW u \in Wid, StageOf[w] < StageOf[u]
      PROVE  Unseen(w, u)' = IF w = src /\ u = v THEN DataIters(r) ELSE Unseen(w, u)
  <2>1. CASE UNCHANGED seen
    <3>1. Unseen(w, u)' = Unseen(w, u)
      BY <1>2, <2>1 DEF Unseen
    <3>2. w = src /\ u = v => DataIters(r) = Unseen(src, v)
      <4>1. CASE DataIters(r) = Unseen(src, v)
        BY <4>1
      <4>2. CASE /\ DataIters(r) = Unseen(src, v) \ {i}
                 /\ seen' = [seen EXCEPT ![v] = @ \cup {<<t, i>>}]
        <5>1. <<t, i>> \in seen[v]
          BY <1>7, <2>1, <4>2
        <5> QED
          BY <1>2, <4>2, <5>1 DEF Unseen
      <4> QED
        BY <1>3, <4>1, <4>2
    <3> QED
      BY <3>1, <3>2
  <2>2. CASE /\ DataIters(r) = Unseen(src, v) \ {i}
             /\ seen' = [seen EXCEPT ![v] = @ \cup {<<t, i>>}]
    <3>1. \A x \in Wid : seen'[x] = IF x = v THEN seen[v] \cup {<<t, i>>} ELSE seen[x]
      BY <1>7, <2>2
    <3>2. CASE w = src /\ u = v
      BY <1>2, <2>2, <3>1, <3>2 DEF Unseen
    <3>3. CASE u = v /\ w # src
      <4>1. \A j \in SentData(w) : <<StageOf[w], j>> # <<t, i>>
        BY <1>4, <3>3 DEF SentData
      <4> QED
        BY <1>2, <3>1, <3>3, <4>1 DEF Unseen
    <3>4. CASE u # v
      BY <1>2, <3>1, <3>4 DEF Unseen
    <3> QED
      BY <3>2, <3>3, <3>4
  <2> QED
    BY <1>3, <2>1, <2>2
<1>9. ASSUME NEW w \in Wid, NEW u \in Wid, StageOf[w] < StageOf[u]
      PROVE  Awaited(w, u)' = IF w = src /\ u = v THEN EoiIters(r) ELSE Awaited(w, u)
  <2>1. CASE /\ EoiIters(r) = Awaited(src, v)
             /\ UNCHANGED from
    <3>1. NextFrom(u, StageOf[w])' = NextFrom(u, StageOf[w])
      BY <1>2, <2>1 DEF NextFrom
    <3> QED
      BY <1>2, <2>1, <3>1 DEF Awaited
  <2>2. CASE /\ EoiIters(r) = Awaited(src, v) \ {i}
             /\ from' = [from EXCEPT ![v] = @ + 1]
    <3>1. \A x \in Wid : from'[x] = IF x = v THEN t + 1 ELSE from[x]
      BY <1>2, <1>7, <2>2
    <3>2. CASE u # v
      <4>1. NextFrom(u, StageOf[w])' = NextFrom(u, StageOf[w])
        BY <1>2, <3>1, <3>2 DEF NextFrom
      <4> QED
        BY <1>2, <3>2, <4>1 DEF Awaited
    <3>3. CASE u = v /\ StageOf[w] # t
      <4>1. NextFrom(u, StageOf[w])' = NextFrom(u, StageOf[w])
        BY <1>2, <1>5, <3>1, <3>3 DEF NextFrom
      <4> QED
        BY <1>2, <3>3, <4>1 DEF Awaited
    <3>4. CASE u = v /\ StageOf[w] = t
      <4>1. NextFrom(u, StageOf[w])' = i + 1 /\ NextFrom(u, StageOf[w]) = i
        BY <1>2, <1>5, <3>1, <3>4 DEF NextFrom
      <4>2. Awaited(w, u)' = {j \in SentEoi(w) : j >= i + 1} /\ Awaited(w, u) = {j \in SentEoi(w) : j >= i}
        BY <1>2, <4>1 DEF Awaited
      <4>3. SentEoi(w) \subseteq Nat
        BY <1>5 DEF SentEoi
      <4>4. Awaited(w, u)' = Awaited(w, u) \ {i}
        BY <1>1, <4>2, <4>3
      <4>5. w # src => i \notin SentEoi(w)
        BY <1>4, <3>4 DEF SentEoi
      <4> QED
        BY <2>2, <3>4, <4>2, <4>4, <4>5
    <3> QED
      BY <3>2, <3>3, <3>4
  <2> QED
    BY <1>3, <2>1, <2>2
<1>10. ASSUME NEW w \in Wid, NEW u \in Wid
       PROVE  IF StageOf[w] < StageOf[u]
              THEN /\ Sorted(ucvf'[w][u])
                   /\ DataIters(ucvf'[w][u]) = Unseen(w, u)'
                   /\ EoiIters(ucvf'[w][u]) = Awaited(w, u)'
              ELSE ucvf'[w][u] = <<>>
  <2>1. CASE w = src /\ u = v
    BY <1>2, <1>8, <1>9, <2>1
  <2>2. CASE ~(w = src /\ u = v)
    <3>1. ucvf'[w][u] = ucvf[w][u]
      BY <1>2, <2>2
    <3> QED
      BY <1>8, <1>9, <2>2, <3>1 DEF QueueInv
  <2> QED
    BY <2>1, <2>2
<1>11. QueueInv'
  BY <1>10 DEF QueueInv, Sorted, DataIters, EoiIters
<1>12. /\ \A x \in Wid : seen[x] \subseteq seen'[x]
       /\ \A x \in Wid, s \in Stage : NextFrom(x, s) \in Nat /\ NextFrom(x, s)' \in Nat
       /\ \A x \in Wid, s \in Stage : NextFrom(x, s) <= NextFrom(x, s)'
       /\ \A x \in Wid, s \in Stage : from'[x] # from[x] /\ s = from[x] =>
            x = v /\ NextFrom(x, s)' = i + 1
       /\ \A x \in Wid, s \in Stage : NextFrom(x, s)' # NextFrom(x, s) =>
            x = v /\ s = t /\ NextFrom(x, s)' = i + 1 /\ NextFrom(x, s) = i
  <2>1. Stage \subseteq Nat /\ \A x \in Wid : iter[x] \in Nat /\ from[x] \in Nat
    BY <1>1, QueueTypes
  <2>2. CASE UNCHANGED from /\ seen' = [seen EXCEPT ![v] = @ \cup {<<t, i>>}]
    BY <1>2, <1>7, <2>1, <2>2 DEF NextFrom
  <2>3. CASE UNCHANGED seen /\ from' = [from EXCEPT ![v] = @ + 1]
    <3>1. \A x \in Wid : from'[x] = IF x = v THEN t + 1 ELSE from[x]
      BY <1>2, <1>7, <2>3
    <3> QED
      BY <1>1, <1>2, <2>1, <2>3, <3>1 DEF NextFrom
  <2> QED
    BY <1>3, <2>2, <2>3
<1>13. \A x \in Wid, s \in Stage : NextFrom(x, s)' # NextFrom(x, s) =>
         <<t, i>> \in seen[v] /\ i < iter[src]
  BY <1>2, <1>3 DEF NextFrom
<1>14. ASSUME NEW s \in Stage, NEW j \in Iter
       PROVE  /\ SentData(Source(j, s))' = SentData(Source(j, s))
              /\ iter'[Source(j, s)] = iter[Source(j, s)] /\ j \in Nat
  BY <1>2, SourceIsWorker, SizeAssumption DEF Iter, SizeAssumption
<1>15. SeenInv'
  <2>1. ASSUME NEW x \in Wid, NEW s \in Stage, NEW j \in Iter, s < StageOf[x],
               j < NextFrom(x, s)'
        PROVE  <<s, j>> \in seen'[x] /\ j < iter'[Source(j, s)]
    <3>1. CASE j < NextFrom(x, s)
      BY <1>12, <1>14, <2>1, <3>1 DEF SeenInv
    <3>2. CASE ~(j < NextFrom(x, s))
      <4>3. NextFrom(x, s)' # NextFrom(x, s)
        BY <2>1, <3>2
      <4>4. x = v /\ s = t /\ j < i + 1 /\ ~(j < i)
        BY <1>12, <2>1, <3>2, <4>3
      <4>5. j \in Nat
        BY <1>14
      <4>1. x = v /\ s = t /\ j = i
        BY <1>1, <4>4, <4>5
      <4>2. <<t, i>> \in seen[v] /\ i < iter[src]
        BY <1>12, <1>13, <2>1, <3>2
      <4> QED
        BY <1>2, <1>12, <1>14, <4>1, <4>2
    <3> QED
      BY <3>1, <3>2
  <2>2. ASSUME NEW x \in Wid, NEW s \in Stage, NEW j \in Iter, <<s, j>> \in seen'[x]
        PROVE  /\ s < StageOf[x]
               /\ j < NextFrom(x, s)' \/ (s = from'[x] /\ j = iter'[x])
               /\ j \in SentData(Source(j, s))'
    <3>1. CASE <<s, j>> \in seen[x]
      <4>1. /\ s < StageOf[x] /\ j \in SentData(Source(j, s))
            /\ j < NextFrom(x, s) \/ (s = from[x] /\ j = iter[x])
        BY <3>1 DEF SeenInv
      <4>2. CASE j < NextFrom(x, s)
        BY <1>12, <1>14, <4>1, <4>2
      <4>3. CASE s = from[x] /\ j = iter[x]
        BY <1>1, <1>2, <1>12, <1>14, <4>1, <4>3
      <4> QED
        BY <4>1, <4>2, <4>3
    <3>2. CASE <<s, j>> \notin seen[x]
      BY <1>2, <1>3, <1>7, <1>14, <2>2, <3>2
    <3> QED
      BY <3>1, <3>2
  <2> QED
    BY <2>1, <2>2 DEF SeenInv
<1> QED
  BY <1>11, <1>15
(* What end_iter sends: the pages of an iteration, then its EOI packet, to *)
(* the workers of the following stages. *)
LEMMA BroadcastQueues ==
  ASSUME TypeOK, NEW w \in Wid, NEW p \in PacketType, ucvf' = Broadcast(w, p),
         NEW x \in Wid, NEW u \in Wid
  PROVE  ucvf'[x][u] = IF x = w /\ StageOf[w] < StageOf[u]
                       THEN Append(ucvf[w][u], p) ELSE ucvf[x][u]
BY QueueTypes DEF TypeOK, Broadcast, Following

LEMMA ForwardQueues ==
  ASSUME PipelineInv, QueueInv, SeenInv, NEW w \in Wid, ForwardPages(w)
  PROVE  QueueInv' /\ SeenInv'
<1> USE DEF queues, history
<1>1. TypeOK /\ iter[w] \in Iter
  BY InTheLoop DEF PipelineInv, ForwardPages
<1> PICK i \in Iter : i = iter[w]
  BY <1>1
<1>2. /\ UNCHANGED <<iter, from, seen>> /\ pc[w] = "forward"
      /\ pc' = [pc EXCEPT ![w] = "event"]
      /\ ucvf' = IF RunIteration(w, i) THEN Broadcast(w, Packet("DATA", i)) ELSE ucvf
  BY DEF ForwardPages
<1>3. \A x \in Wid : pc'[x] = "event" <=> (x = w \/ pc[x] = "event")
  BY <1>1, <1>2 DEF TypeOK
<1>4. \A x \in Wid : SentEoi(x)' = SentEoi(x)
  BY <1>2 DEF SentEoi, RunIteration
<1>5. i \in Nat /\ Iter \subseteq Nat /\ i \notin SentData(w)
  BY <1>1, <1>2, SizeAssumption DEF SizeAssumption, Iter, SentData
<1>6. ASSUME NEW x \in Wid
      PROVE  SentData(x)' = IF x = w /\ RunIteration(w, i) THEN SentData(w) \cup {i}
                            ELSE SentData(x)
  BY <1>2, <1>3 DEF SentData, RunIteration
<1>7. \A x \in Wid : SentData(x) \subseteq SentData(x)'
  BY <1>6
<1>8. \A x, t : NextFrom(x, t)' = NextFrom(x, t)
  BY <1>2 DEF NextFrom
<1>9. SeenInv'
  <2>1. \A j \in Iter, t \in Stage : Source(j, t) \in Wid /\ Source(j, t)' = Source(j, t)
    BY <1>5, SourceIsWorker DEF Source, WidOffset
  <2> QED
    BY <1>2, <1>7, <1>8, <2>1 DEF SeenInv
<1>10. ASSUME NEW x \in Wid, NEW u \in Wid, StageOf[x] < StageOf[u]
       PROVE  /\ Awaited(x, u)' = Awaited(x, u)
              /\ Unseen(x, u)' = IF x = w /\ RunIteration(w, i) THEN Unseen(w, u) \cup {i}
                                 ELSE Unseen(x, u)
  <2>1. Awaited(x, u)' = Awaited(x, u)
    BY <1>4, <1>8 DEF Awaited
  <2>2. CASE x = w /\ RunIteration(w, i)
    <3>1. Source(i, StageOf[w]) = w /\ StageOf[w] \in Stage
      BY <1>5, <2>2, RunsFromSource
    <3>2. <<StageOf[w], i>> \notin seen[u]
      BY <1>5, <3>1 DEF SeenInv
    <3> QED
      BY <1>2, <1>6, <2>1, <2>2, <3>2 DEF Unseen
  <2>3. CASE ~(x = w /\ RunIteration(w, i))
    BY <1>2, <1>6, <2>1, <2>3 DEF Unseen
  <2> QED
    BY <2>2, <2>3
<1>11. ASSUME NEW x \in Wid, NEW u \in Wid
       PROVE  IF StageOf[x] < StageOf[u]
              THEN /\ Sorted(ucvf'[x][u])
                   /\ DataIters(ucvf'[x][u]) = Unseen(x, u)'
                   /\ EoiIters(ucvf'[x][u]) = Awaited(x, u)'
              ELSE ucvf'[x][u] = <<>>
  <2> PICK p : p = Packet("DATA", i)
    OBVIOUS
  <2>1. p \in PacketType /\ p.kind = "DATA" /\ p.iter = i
    BY DEF Packet, PacketType
  <2>2. RunIteration(w, i) =>
          ucvf'[x][u] = IF x = w /\ StageOf[w] < StageOf[u]
                        THEN Append(ucvf[w][u], p) ELSE ucvf[x][u]
    BY <1>1, <1>2, <2>1, BroadcastQueues
  <2>3. CASE RunIteration(w, i) /\ x = w /\ StageOf[w] < StageOf[u]
    <3> PICK q \in Seq(PacketType) : q = ucvf[w][u]
      BY <1>1, QueueTypes
    <3> PICK r : r = Append(q, p)
      OBVIOUS
    <3>1. ucvf'[x][u] = r /\ Sorted(q)
      BY <2>2, <2>3 DEF QueueInv
    <3>2. DataIters(q) = Unseen(w, u) /\ EoiIters(q) = Awaited(w, u)
      BY <2>3 DEF QueueInv
    <3>3. \A j \in EoiIters(q) : j < i
      BY <3>2 DEF Awaited, SentEoi
    <3>4. \A j \in DataIters(q) : j < i
      BY <1>2, <3>2 DEF Unseen, SentData
    <3>5. Sorted(r)
      BY <2>1, <3>1, <3>3, <3>4, AppendSorted
    <3>6. DataIters(r) = DataIters(q) \cup {i} /\ EoiIters(r) = EoiIters(q)
      <4>1. /\ DataIters(r) = DataIters(q) \cup (IF p.kind = "DATA" THEN {p.iter} ELSE {})
            /\ EoiIters(r) = EoiIters(q) \cup (IF p.kind = "EOI" THEN {p.iter} ELSE {})
        BY <2>1, AppendIters
      <4> QED
        BY <2>1, <4>1
    <3> QED
      BY <1>10, <2>3, <3>1, <3>2, <3>5, <3>6
  <2>4. CASE ~(RunIteration(w, i) /\ x = w /\ StageOf[w] < StageOf[u])
    <3>1. ucvf'[x][u] = ucvf[x][u]
      BY <1>2, <2>2, <2>4
    <3> QED
      BY <1>10, <2>4, <3>1 DEF QueueInv
  <2> QED
    BY <2>3, <2>4
<1>12. QueueInv'
  BY <1>11 DEF QueueInv, Sorted, DataIters, EoiIters
<1> QED
  BY <1>9, <1>12

LEMMA EventQueues ==
  ASSUME PipelineInv, PositionInv, QueueInv, SeenInv, NEW w \in Wid, BroadcastEvent(w)
  PROVE  QueueInv' /\ SeenInv'
<1> USE DEF queues, history
<1>1. TypeOK /\ iter[w] \in Iter
  BY InTheLoop DEF PipelineInv, BroadcastEvent
<1> PICK i \in Iter : i = iter[w]
  BY <1>1
<1> PICK p : p = [Packet("EOI", i) EXCEPT !.tainted = Misspeculated(i)]
  OBVIOUS
<1>2. /\ UNCHANGED seen /\ pc[w] = "event"
      /\ pc' = [pc EXCEPT ![w] = IF i + 1 < TripCount THEN "gate" ELSE "finished"]
      /\ iter' = [iter EXCEPT ![w] = i + 1]
      /\ from' = [from EXCEPT ![w] = 0]
      /\ ucvf' = IF w - FirstWid[StageOf[w]] = WidOffset(i, StageOf[w])
                 THEN Broadcast(w, p) ELSE ucvf
  BY DEF BroadcastEvent
<1>3. i \in Nat /\ Iter \subseteq Nat /\ Stage \subseteq Nat
  BY SizeAssumption DEF SizeAssumption, Iter, Stage
<1>4. ucvf' = IF RunIteration(w, i) THEN Broadcast(w, p) ELSE ucvf
  BY <1>2, <1>3, RunsFromSource
<1>5. \A x \in Wid : iter'[x] = IF x = w THEN i + 1 ELSE iter[x]
  BY <1>1, <1>2 DEF TypeOK
<1>6. \A x \in Wid : pc'[x] = "event" <=> (x # w /\ pc[x] = "event")
  BY <1>1, <1>2 DEF TypeOK
<1>7. \A x \in Wid : from'[x] = IF x = w THEN 0 ELSE from[x]
  BY <1>1, <1>2 DEF TypeOK
<1>8. ASSUME NEW x \in Wid PROVE SentData(x)' = SentData(x)
  BY <1>2, <1>3, <1>5, <1>6 DEF SentData, RunIteration
<1>9. ASSUME NEW x \in Wid
      PROVE  SentEoi(x)' = IF x = w /\ RunIteration(w, i) THEN SentEoi(w) \cup {i}
                           ELSE SentEoi(x)
  BY <1>3, <1>5 DEF SentEoi, RunIteration
<1>10. from[w] = StageOf[w]
  BY <1>2 DEF PositionInv
<1>11. ASSUME NEW x \in Wid, NEW t \in Stage, t < StageOf[x]
       PROVE  NextFrom(x, t)' = NextFrom(x, t)
  BY <1>3, <1>5, <1>7, <1>10, <1>11 DEF NextFrom
<1>12. SeenInv'
  <2>1. \A j \in Iter, t \in Stage : Source(j, t) \in Wid /\ Source(j, t)' = Source(j, t)
    BY <1>3, SourceIsWorker DEF Source, WidOffset
  <2>2. \A x \in Wid : iter[x] \in Nat /\ iter[x] <= iter'[x]
    BY <1>1, <1>3, <1>5, QueueTypes
  <2>3. ASSUME NEW x \in Wid, NEW s \in Stage, NEW j \in Iter, s < StageOf[x],
               j < NextFrom(x, s)'
        PROVE  <<s, j>> \in seen'[x] /\ j < iter'[Source(j, s)]
    <3>1. <<s, j>> \in seen[x] /\ j < iter[Source(j, s)]
      BY <1>11, <2>3 DEF SeenInv
    <3>2. iter[Source(j, s)] \in Nat /\ iter[Source(j, s)] <= iter'[Source(j, s)]
      BY <2>1, <2>2
    <3>3. j \in Nat /\ iter'[Source(j, s)] \in Nat
      BY <1>3, <1>5, <2>1, <2>2
    <3> QED
      BY <1>2, <3>1, <3>2, <3>3
  <2>4. ASSUME NEW x \in Wid, NEW s \in Stage, NEW j \in Iter, <<s, j>> \in seen'[x]
        PROVE  /\ s < StageOf[x]
               /\ j < NextFrom(x, s)' \/ (s = from'[x] /\ j = iter'[x])
               /\ j \in SentData(Source(j, s))'
    <3>1. /\ s < StageOf[x] /\ j \in SentData(Source(j, s))
          /\ j < NextFrom(x, s) \/ (s = from[x] /\ j = iter[x])
      BY <1>2, <2>4 DEF SeenInv
    <3>2. j \in SentData(Source(j, s))'
      BY <1>8, <2>1, <3>1
    <3>3. s = from[x] => x # w
      BY <1>3, <1>10, <3>1
    <3> QED
      BY <1>5, <1>7, <1>11, <3>1, <3>2, <3>3
  <2> QED
    BY <2>3, <2>4 DEF SeenInv
<1>13. ASSUME NEW x \in Wid, NEW u \in Wid, StageOf[x] < StageOf[u]
       PROVE  /\ Unseen(x, u)' = Unseen(x, u)
              /\ Awaited(x, u)' = IF x = w /\ RunIteration(w, i) THEN Awaited(w, u) \cup {i}
                                  ELSE Awaited(x, u)
  <2>1. Unseen(x, u)' = Unseen(x, u)
    BY <1>2, <1>8 DEF Unseen
  <2>2. StageOf[x] \in Stage /\ NextFrom(u, StageOf[x])' = NextFrom(u, StageOf[x])
    BY <1>11, <1>13, RunsFromSource, <1>3
  <2>3. CASE x = w /\ RunIteration(w, i)
    <3>1. Source(i, StageOf[w]) = w
      BY <1>3, <2>3, RunsFromSource
    <3>2. ~(i < NextFrom(u, StageOf[w]))
      <4>1. ~(i < iter[w])
        BY <1>3
      <4> QED
        BY <1>13, <2>2, <2>3, <3>1, <4>1 DEF SeenInv
    <3>3. NextFrom(u, StageOf[w]) \in Nat
      BY <1>1, <1>3, QueueTypes DEF NextFrom
    <3>4. i >= NextFrom(u, StageOf[w])
      BY <1>3, <3>2, <3>3
    <3> QED
      BY <1>9, <2>1, <2>2, <2>3, <3>4 DEF Awaited
  <2>4. CASE ~(x = w /\ RunIteration(w, i))
    BY <1>9, <2>1, <2>2, <2>4 DEF Awaited
  <2> QED
    BY <2>3, <2>4
<1>14. ASSUME NEW x \in Wid, NEW u \in Wid
       PROVE  IF StageOf[x] < StageOf[u]
              THEN /\ Sorted(ucvf'[x][u])
                   /\ DataIters(ucvf'[x][u]) = Unseen(x, u)'
                   /\ EoiIters(ucvf'[x][u]) = Awaited(x, u)'
              ELSE ucvf'[x][u] = <<>>
  <2>1. p \in PacketType /\ p.kind = "EOI" /\ p.iter = i
    <3>1. Misspeculated(i) \in BOOLEAN
      BY <1>1 DEF TypeOK, Misspeculated
    <3> QED
      BY <3>1 DEF Packet, PacketType
  <2>2. RunIteration(w, i) =>
          ucvf'[x][u] = IF x = w /\ StageOf[w] < StageOf[u]
                        THEN Append(ucvf[w][u], p) ELSE ucvf[x][u]
    BY <1>1, <1>4, <2>1, BroadcastQueues
  <2>3. CASE RunIteration(w, i) /\ x = w /\ StageOf[w] < StageOf[u]
    <3> PICK q \in Seq(PacketType) : q = ucvf[w][u]
      BY <1>1, QueueTypes
    <3> PICK r : r = Append(q, p)
      OBVIOUS
    <3>1. ucvf'[x][u] = r /\ Sorted(q)
      BY <2>2, <2>3 DEF QueueInv
    <3>2. DataIters(q) = Unseen(w, u) /\ EoiIters(q) = Awaited(w, u)
      BY <2>3 DEF QueueInv
    <3>3. \A j \in EoiIters(q) : j < i
      BY <3>2 DEF Awaited, SentEoi
    <3>4. \A j \in DataIters(q) : j < i \/ j = i
      BY <3>2 DEF Unseen, SentData
    <3>5. Sorted(r)
      BY <2>1, <3>1, <3>3, <3>4, AppendSorted
    <3>6. DataIters(r) = DataIters(q) /\ EoiIters(r) = EoiIters(q) \cup {i}
      <4>1. /\ DataIters(r) = DataIters(q) \cup (IF p.kind = "DATA" THEN {p.iter} ELSE {})
            /\ EoiIters(r) = EoiIters(q) \cup (IF p.kind = "EOI" THEN {p.iter} ELSE {})
        BY <2>1, AppendIters
      <4> QED
        BY <2>1, <4>1
    <3> QED
      BY <1>13, <2>3, <3>1, <3>2, <3>5, <3>6
  <2>4. CASE ~(RunIteration(w, i) /\ x = w /\ StageOf[w] < StageOf[u])
    <3>1. ucvf'[x][u] = ucvf[x][u]
      BY <1>4, <2>2, <2>4
    <3> QED
      BY <1>13, <2>4, <3>1 DEF QueueInv
  <2> QED
    BY <2>3, <2>4
<1>15. QueueInv'
  BY <1>14 DEF QueueInv, Sorted, DataIters, EoiIters
<1> QED
  BY <1>12, <1>15
(* Nothing has been sent yet, before and at the start of an invocation. *)
LEMMA NothingSent ==
  ASSUME iter = [w \in Wid |-> 0], from = [w \in Wid |-> 0],
         seen = [w \in Wid |-> {}], ucvf = [w \in Wid |-> [v \in Wid |-> <<>>]],
         \A w \in Wid : pc[w] # "event"
  PROVE  QueueInv /\ SeenInv
<1>1. Iter \subseteq Nat /\ Stage \subseteq Nat /\ \A j \in Iter : ~(j < 0)
  BY SizeAssumption DEF SizeAssumption, Iter, Stage
<1>2. \A w \in Wid : StageOf[w] \in Stage
  BY LayoutAssumption DEF LayoutAssumption
<1>3. ASSUME NEW w \in Wid PROVE SentData(w) = {} /\ SentEoi(w) = {}
  <2>1. iter[w] = 0
    OBVIOUS
  <2> QED
    BY <1>1, <2>1 DEF SentData, SentEoi
<1>4. \A v \in Wid, t \in Stage : NextFrom(v, t) = 0
  BY <1>1 DEF NextFrom
<1>5. Sorted(<<>>) /\ DataIters(<<>>) = {} /\ EoiIters(<<>>) = {}
  BY DEF Sorted, DataIters, EoiIters
<1>6. QueueInv
  BY <1>3, <1>5 DEF QueueInv, Unseen, Awaited
<1>7. SeenInv
  BY <1>1, <1>4 DEF SeenInv
<1> QED
  BY <1>6, <1>7

LEMMA QueuesStep ==
  ASSUME PipelineInv, PositionInv, QueueInv, SeenInv, [Next]_vars
  PROVE  QueueInv' /\ SeenInv'
<1>1. CASE BeginInvocation
  <2>1. /\ iter' = [w \in Wid |-> 0] /\ from' = [w \in Wid |-> 0]
        /\ seen' = [w \in Wid |-> {}] /\ ucvf' = [w \in Wid |-> [v \in Wid |-> <<>>]]
        /\ \A w \in Wid : pc'[w] # "event"
    BY <1>1 DEF BeginInvocation
  <2>2. /\ Iter \subseteq Nat /\ Stage \subseteq Nat /\ \A j \in Iter : ~(j < 0)
        /\ \A w \in Wid : StageOf[w] \in Stage
    BY SizeAssumption, LayoutAssumption DEF SizeAssumption, LayoutAssumption, Iter, Stage
  <2>3. ASSUME NEW w \in Wid PROVE SentData(w)' = {} /\ SentEoi(w)' = {}
    <3>1. iter'[w] = 0
      BY <2>1
    <3> QED
      BY <2>1, <2>2, <3>1 DEF SentData, SentEoi
  <2>4. \A v \in Wid, t \in Stage : NextFrom(v, t)' = 0
    BY <2>1, <2>2 DEF NextFrom
  <2>5. Sorted(<<>>) /\ DataIters(<<>>) = {} /\ EoiIters(<<>>) = {}
    BY DEF Sorted, DataIters, EoiIters
  <2>6. \A w, v \in Wid : Unseen(w, v)' = {} /\ Awaited(w, v)' = {} /\ ucvf'[w][v] = <<>>
    BY <2>1, <2>3 DEF Unseen, Awaited
  <2>7. QueueInv'
    BY <2>5, <2>6 DEF QueueInv, Sorted, DataIters, EoiIters
  <2>8. SeenInv'
    <3>1. \A v \in Wid : seen'[v] = {}
      BY <2>1
    <3>2. \A v \in Wid, t \in Stage, j \in Iter : ~(j < NextFrom(v, t)')
      BY <2>2, <2>4
    <3> QED
      BY <3>1, <3>2 DEF SeenInv
  <2> QED
    BY <2>7, <2>8
<1> QED
  BY <1>1, QuietStep, QuietKeeps, ReceiveQueues, ForwardQueues, EventQueues
     DEF PipelineInv

-----------------------------------------------------------------------------
(* Where each worker is in its iteration *)
LEMMA PositionStep ==
  ASSUME PipelineInv, PositionInv, [Next]_vars
  PROVE  PositionInv'
<1> USE DEF queues, history
<1>1. \A w \in Wid : /\ from[w] \in Nat /\ StageOf[w] \in Nat /\ iter[w] \in Nat
                     /\ iter[w] <= TripCount /\ TripCount \in Nat
                     /\ pc[w] # "finished" => iter[w] < TripCount
  BY QueueTypes, SizeAssumption DEF PipelineInv, IterInv, SizeAssumption
<1>2. TypeOK
  BY DEF PipelineInv
<1>3. CASE UNCHANGED vars
  BY <1>3 DEF vars, PositionInv
<1>4. CASE BeginInvocation
  BY <1>1, <1>4 DEF BeginInvocation, PositionInv
<1>5. CASE EndInvocation
  BY <1>2, <1>5 DEF EndInvocation, PositionInv, TypeOK
<1>6. CASE Commit \/ OpenGate \/ CommitMisspec \/ CommitRecordMisspec
  BY <1>6 DEF Commit, OpenGate, CommitMisspec, CommitRecordMisspec, PositionInv
<1>7. ASSUME NEW w \in Wid, PassGate(w) PROVE PositionInv'
  BY <1>1, <1>2, <1>7 DEF PassGate, Follows, PositionInv, TypeOK
<1>8. ASSUME NEW w \in Wid, ProcessReverseCommitQueue(w) PROVE PositionInv'
  BY <1>8 DEF ProcessReverseCommitQueue, PositionInv
<1>9. ASSUME NEW w \in Wid, ReceivePacket(w) PROVE PositionInv'
  <2>1. /\ UNCHANGED <<iter, pc, main>> /\ pc[w] = "receive" /\ from[w] < StageOf[w]
        /\ from' = from \/ from' = [from EXCEPT ![w] = @ + 1]
    BY <1>9 DEF ReceivePacket
  <2>2. CASE from' = from
    BY <2>1, <2>2 DEF PositionInv
  <2>3. CASE from' = [from EXCEPT ![w] = @ + 1]
    <3>1. \A v \in Wid : from'[v] = IF v = w THEN from[w] + 1 ELSE from[v]
      BY <1>2, <2>3 DEF TypeOK
    <3>2. from[w] + 1 <= StageOf[w]
      BY <1>1, <2>1
    <3>3. main.inside
      BY <2>1 DEF PositionInv
    <3> QED
      BY <2>1, <3>1, <3>2, <3>3 DEF PositionInv
  <2> QED
    BY <2>1, <2>2, <2>3
<1>10. ASSUME NEW w \in Wid, ReceiveDone(w) PROVE PositionInv'
  BY <1>1, <1>2, <1>10 DEF ReceiveDone, Follows, PositionInv, TypeOK
<1>11. ASSUME NEW w \in Wid, CheckMisspec(w) PROVE PositionInv'
  BY <1>1, <1>2, <1>11 DEF CheckMisspec, Follows, PositionInv, TypeOK
<1>12. ASSUME NEW w \in Wid, Predict(w) PROVE PositionInv'
  BY <1>1, <1>2, <1>12 DEF Predict, PositionInv, TypeOK
<1>13. ASSUME NEW w \in Wid, EndBody(w) \/ BodyMisspec(w) \/ RecordMisspec(w)
       PROVE  PositionInv'
  BY <1>1, <1>2, <1>13 DEF EndBody, BodyMisspec, RecordMisspec, PositionInv, TypeOK
<1>14. ASSUME NEW w \in Wid, ForwardPages(w) PROVE PositionInv'
  BY <1>1, <1>2, <1>14 DEF ForwardPages, PositionInv, TypeOK
<1>15. ASSUME NEW w \in Wid, BroadcastEvent(w) PROVE PositionInv'
  <2>1. /\ UNCHANGED main /\ pc[w] = "event"
        /\ pc' = [pc EXCEPT ![w] = IF iter[w] + 1 < TripCount THEN "gate" ELSE "finished"]
        /\ iter' = [iter EXCEPT ![w] = @ + 1]
        /\ from' = [from EXCEPT ![w] = 0]
    BY <1>15 DEF BroadcastEvent
  <2>2. iter[w] + 1 < TripCount \/ iter[w] + 1 = TripCount
    BY <1>1, <2>1
  <2> QED
    BY <1>1, <1>2, <2>1, <2>2 DEF PositionInv, TypeOK
<1>16. ASSUME NEW w \in Wid, TryCommit(w) PROVE PositionInv'
  BY <1>16 DEF TryCommit, PositionInv
<1> QED
  BY <1>3, <1>4, <1>5, <1>6, <1>7, <1>8, <1>9, <1>10, <1>11, <1>12, <1>13, <1>14,
     <1>15, <1>16
     DEF Next, Worker, BeginIter, Checker, Terminated
-----------------------------------------------------------------------------
(* An iteration that is at or after a misspeculation remains so until the  *)
(* next invocation. *)
LEMMA MisspeculatedStays ==
  ASSUME PipelineInv, [Next]_vars, ~BeginInvocation, NEW i \in Iter, Misspeculated(i)
  PROVE  Misspeculated(i)'
<1> USE DEF queues, history, Misspeculated
<1>1. TypeOK /\ MisspecInv
  BY DEF PipelineInv
<1>2. pcb.happened /\ pcb.misIter <= i /\ pcb.misIter # ITER_MAX
  BY SizeAssumption DEF SizeAssumption, Iter
<1>3. CASE UNCHANGED pcb
  BY <1>3
<1>4. CASE Commit
  BY <1>1, <1>4 DEF Commit, TypeOK
<1>5. ~CommitMisspec /\ ~CommitRecordMisspec
  BY <1>1, <1>2 DEF CommitMisspec, CommitRecordMisspec, MisspecInv
<1>6. \A w \in Wid : ~BodyMisspec(w) /\ ~RecordMisspec(w)
  BY <1>1, <1>2 DEF BodyMisspec, RecordMisspec, MisspecInv
<1>7. CASE EndInvocation \/ OpenGate \/ (\E w \in Wid : TryCommit(w))
  BY <1>3, <1>7 DEF EndInvocation, OpenGate, TryCommit
<1>8. ASSUME NEW w \in Wid, BeginIter(w) PROVE UNCHANGED pcb
  BY <1>8 DEF BeginIter, PassGate, ProcessReverseCommitQueue, ReceivePacket,
     ReceiveDone, CheckMisspec, Predict
<1>9. ASSUME NEW w \in Wid, EndBody(w) \/ ForwardPages(w) \/ BroadcastEvent(w)
      PROVE  UNCHANGED pcb
  BY <1>9 DEF EndBody, ForwardPages, BroadcastEvent
<1> QED
  BY <1>3, <1>4, <1>5, <1>6, <1>7, <1>8, <1>9 DEF Next, Worker, Checker, Terminated, vars

(* The packets keep the meaning of their marks. *)
LEMMA MarksInQueues ==
  ASSUME PipelineInv, QueueInv, SeenInv, TaintInv, [Next]_vars,
         NEW w \in Wid, NEW v \in Wid, NEW k \in 1 .. Len(ucvf'[w][v]),
         ucvf'[w][v][k].tainted
  PROVE  Misspeculated(ucvf[w][v][k].iter)'
<1> USE DEF queues, history
<1>1. TypeOK /\ TypeOK'
  BY TypeStep DEF PipelineInv
<1>2. \A x, y \in Wid : ucvf[x][y] \in Seq(PacketType)
  BY <1>1, QueueTypes
<1>3. ASSUME ~BeginInvocation, NEW l \in 1 .. Len(ucvf[w][v]),
             ucvf'[w][v][k] = ucvf[w][v][l]
      PROVE  Misspeculated(ucvf[w][v][k].iter)'
  <2> PICK i : i = ucvf[w][v][l].iter
    OBVIOUS
  <2>1. i \in Iter
    BY <1>2, <1>3, PacketParts
  <2>2. Misspeculated(i)
    BY <1>3 DEF TaintInv
  <2>3. Misspeculated(i)'
    BY <1>3, <2>1, <2>2, MisspeculatedStays
  <2>4. ucvf'[w][v][k].iter = i
    BY <1>3
  <2> QED
    BY <2>3, <2>4 DEF Misspeculated
<1>4. CASE BeginInvocation
  BY <1>4 DEF BeginInvocation
<1>5. CASE Quiet /\ ~BeginInvocation
  BY <1>3, <1>5 DEF Quiet
<1>6. ASSUME NEW x \in Wid, ReceivePacket(x) PROVE Misspeculated(ucvf[w][v][k].iter)'
  <2>1. ~BeginInvocation
    BY <1>6 DEF ReceivePacket, BeginInvocation
  <2> PICK i \in Iter, t \in Stage, src \in Wid, q \in Seq(PacketType) : Takes(x, i, t, src, q)
    BY <1>6, HeadOfQueue
  <2> PICK r : r = Tail(q)
    OBVIOUS
  <2>2. ucvf' = [ucvf EXCEPT ![src][x] = r] /\ q = ucvf[src][x] /\ q # <<>>
    BY <1>6 DEF ReceivePacket, Takes
  <2>3. CASE w = src /\ v = x
    <3>1. ucvf'[w][v] = r
      BY <1>1, <2>2, <2>3 DEF TypeOK
    <3>3. \A l \in 1 .. Len(r) : l + 1 \in 1 .. Len(q) /\ r[l] = q[l + 1]
      BY <2>2, HeadAndTail
    <3>2. k + 1 \in 1 .. Len(q) /\ r[k] = q[k + 1]
      BY <3>1, <3>3
    <3> QED
      BY <1>3, <2>1, <2>2, <2>3, <3>1, <3>2
  <2>4. CASE ~(w = src /\ v = x)
    <3>3. ucvf \in [Wid -> [Wid -> Seq(PacketType)]]
      BY <1>1 DEF TypeOK
    <3>2. \A y, z \in Wid : y # src \/ z # x => ucvf'[y][z] = ucvf[y][z]
      BY <2>2, <3>3
    <3>1. ucvf'[w][v] = ucvf[w][v]
      BY <2>4, <3>2
    <3> QED
      BY <1>3, <2>1, <3>1
  <2> QED
    BY <2>3, <2>4
<1>7. ASSUME NEW x \in Wid, NEW p \in PacketType, ~BeginInvocation,
             ucvf' = Broadcast(x, p), p.tainted => Misspeculated(p.iter)'
      PROVE  Misspeculated(ucvf[w][v][k].iter)'
  <2>1. ucvf'[w][v] = IF w = x /\ StageOf[x] < StageOf[v]
                      THEN Append(ucvf[x][v], p) ELSE ucvf[w][v]
    BY <1>1, <1>7, BroadcastQueues
  <2>2. CASE w = x /\ StageOf[x] < StageOf[v]
    <3> PICK q \in Seq(PacketType) : q = ucvf[x][v]
      BY <1>2
    <3> PICK r : r = Append(q, p)
      OBVIOUS
    <3>1. ucvf'[w][v] = r /\ q = ucvf[w][v]
      BY <2>1, <2>2
    <3>2. /\ \A l \in 1 .. Len(q) : r[l] = q[l]
          /\ r[Len(q) + 1] = p
          /\ \A l \in 1 .. Len(r) : l \in 1 .. Len(q) \/ l = Len(q) + 1
      BY AppendElements
    <3>3. CASE k \in 1 .. Len(q)
      BY <1>3, <1>7, <3>1, <3>2, <3>3
    <3>4. CASE k \notin 1 .. Len(q)
      <4>1. ucvf'[w][v][k] = p
        BY <3>1, <3>2, <3>4
      <4>2. p.tainted /\ Misspeculated(p.iter)'
        BY <1>7, <4>1
      <4> QED
        BY <4>1, <4>2 DEF Misspeculated
    <3> QED
      BY <3>3, <3>4
  <2>3. CASE ~(w = x /\ StageOf[x] < StageOf[v])
    BY <1>3, <1>7, <2>1, <2>3
  <2> QED
    BY <2>2, <2>3
<1>8. ASSUME NEW x \in Wid, ForwardPages(x) PROVE Misspeculated(ucvf[w][v][k].iter)'
  <2> PICK p : p = Packet("DATA", iter[x])
    OBVIOUS
  <2>1. iter[x] \in Iter /\ ~BeginInvocation /\ (ucvf' = ucvf \/ ucvf' = Broadcast(x, p))
    BY <1>8, InTheLoop DEF ForwardPages, BeginInvocation
  <2>2. p \in PacketType /\ ~p.tainted
    BY <2>1 DEF Packet, PacketType
  <2> QED
    BY <1>3, <1>7, <2>1, <2>2
<1>9. ASSUME NEW x \in Wid, BroadcastEvent(x) PROVE Misspeculated(ucvf[w][v][k].iter)'
  <2> PICK p : p = [Packet("EOI", iter[x]) EXCEPT !.tainted = Misspeculated(iter[x])]
    OBVIOUS
  <2>1. /\ iter[x] \in Iter /\ ~BeginInvocation /\ UNCHANGED pcb
        /\ ucvf' = ucvf \/ ucvf' = Broadcast(x, p)
    BY <1>9, InTheLoop DEF BroadcastEvent, BeginInvocation
  <2>2. Misspeculated(iter[x]) \in BOOLEAN
    BY <1>1 DEF TypeOK, Misspeculated
  <2>3. p \in PacketType /\ p.iter = iter[x] /\ p.tainted = Misspeculated(iter[x])
    BY <2>1, <2>2 DEF Packet, PacketType
  <2>4. p.tainted => Misspeculated(p.iter)'
    BY <2>1, <2>3 DEF Misspeculated
  <2> QED
    BY <1>3, <1>7, <2>1, <2>3, <2>4
<1> QED
  BY <1>1, <1>4, <1>5, <1>6, <1>8, <1>9, QuietStep

LEMMA TaintStep ==
  ASSUME PipelineInv, QueueInv, SeenInv, TaintInv, [Next]_vars
  PROVE  TaintInv'
<1> USE DEF queues, history
<1>1. TypeOK
  BY DEF PipelineInv
<1>2. \A w \in Wid : tainted[w] =>
        pc[w] \in {"receive", "check", "exited"} /\ Misspeculated(iter[w]) /\ iter[w] \in Iter
  BY InTheLoop DEF TaintInv
<1>3. SUFFICES ASSUME NEW v \in Wid, tainted'[v]
               PROVE  pc'[v] \in {"receive", "check", "exited"} /\ Misspeculated(iter[v])'
  BY MarksInQueues DEF TaintInv
<1>4. ~BeginInvocation
  BY <1>3 DEF BeginInvocation
<1>5. tainted[v] => Misspeculated(iter[v])' \/ iter'[v] # iter[v]
  <2> PICK i : i = iter[v]
    OBVIOUS
  <2>1. tainted[v] => i \in Iter /\ Misspeculated(i)
    BY <1>2
  <2>2. tainted[v] => Misspeculated(i)'
    BY <1>4, <2>1, MisspeculatedStays
  <2> QED
    BY <2>2 DEF Misspeculated
<1>6. CASE UNCHANGED <<iter, pc, tainted>>
  BY <1>2, <1>3, <1>5, <1>6
<1>7. CASE EndInvocation \/ Commit \/ OpenGate \/ CommitMisspec \/ CommitRecordMisspec
           \/ UNCHANGED vars \/ (\E w \in Wid : TryCommit(w))
  BY <1>6, <1>7 DEF EndInvocation, Commit, OpenGate, CommitMisspec, CommitRecordMisspec,
     TryCommit, vars
<1>8. ASSUME NEW w \in Wid, \/ PassGate(w) \/ ReceiveDone(w) \/ CheckMisspec(w) \/ Predict(w)
                            \/ EndBody(w) \/ BodyMisspec(w) \/ RecordMisspec(w)
                            \/ ForwardPages(w) \/ ProcessReverseCommitQueue(w)
      PROVE  pc'[v] \in {"receive", "check", "exited"} /\ Misspeculated(iter[v])'
  <2>1. UNCHANGED <<iter, tainted>>
    BY <1>8 DEF PassGate, ReceiveDone, CheckMisspec, Predict, EndBody, BodyMisspec,
       RecordMisspec, ForwardPages, ProcessReverseCommitQueue
  <2>2. tainted[v] /\ Misspeculated(iter[v])'
    BY <1>3, <1>5, <2>1
  <2>3. pc'[v] \in {"receive", "check", "exited"}
    BY <1>1, <1>2, <1>8, <2>2 DEF TypeOK, PassGate, ReceiveDone, CheckMisspec, Predict, EndBody,
       BodyMisspec, RecordMisspec, ForwardPages, ProcessReverseCommitQueue, Follows
  <2> QED
    BY <2>2, <2>3
<1>9. ASSUME NEW w \in Wid, ReceivePacket(w)
      PROVE  pc'[v] \in {"receive", "check", "exited"} /\ Misspeculated(iter[v])'
  <2> PICK i \in Iter, t \in Stage, src \in Wid, q \in Seq(PacketType) : Takes(w, i, t, src, q)
    BY <1>9, HeadOfQueue
  <2>1. /\ UNCHANGED <<iter, pc, pcb>> /\ pc[w] = "receive"
        /\ \/ UNCHANGED tainted
           \/ tainted' = [tainted EXCEPT ![w] = @ \/ q[1].tainted]
    BY <1>9 DEF ReceivePacket, Takes
  <2>2. tainted[v] \/ (v = w /\ q[1].tainted)
    BY <1>1, <1>3, <2>1 DEF TypeOK
  <2>3. CASE tainted[v]
    BY <1>2, <1>5, <2>1, <2>3
  <2>4. CASE v = w /\ q[1].tainted
    <3>1. q = ucvf[src][w] /\ q # <<>> /\ q[1].iter = i /\ i = iter[w]
      BY DEF Takes
    <3>2. 1 \in 1 .. Len(q)
      BY <3>1, HeadAndTail
    <3>3. Misspeculated(i)
      BY <2>4, <3>1, <3>2 DEF TaintInv
    <3> QED
      BY <2>1, <2>4, <3>1, <3>3 DEF Misspeculated
  <2> QED
    BY <2>2, <2>3, <2>4
<1>10. ASSUME NEW w \in Wid, BroadcastEvent(w)
       PROVE  pc'[v] \in {"receive", "check", "exited"} /\ Misspeculated(iter[v])'
  <2>1. /\ UNCHANGED pcb
        /\ tainted' = [tainted EXCEPT ![w] = FALSE] /\ iter' = [iter EXCEPT ![w] = @ + 1]
        /\ pc' = [pc EXCEPT ![w] = IF iter[w] + 1 < TripCount THEN "gate" ELSE "finished"]
    BY <1>10 DEF BroadcastEvent
  <2>2. v # w /\ tainted[v] /\ iter'[v] = iter[v] /\ pc'[v] = pc[v]
    BY <1>1, <1>3, <2>1 DEF TypeOK
  <2> QED
    BY <1>2, <1>5, <2>2
<1> QED
  BY <1>4, <1>7, <1>8, <1>9, <1>10 DEF Next, Worker, BeginIter, Checker, Terminated
-----------------------------------------------------------------------------
(* What try-commit has been told, or will be *)
LEMMA EndedPlace ==
  ASSUME NEW s, NEW i
  PROVE  <<s, i>> \in EndedIters <=>
           \/ <<s, i>> \in checker.arrived
           \/ \E w \in Wid : s = StageOf[w] /\ i \in EoiIters(tryq[w])
BY DEF EndedIters

LEMMA EndedTyped ==
  ASSUME TypeOK
  PROVE  EndedIters \subseteq Stage \X Iter
<1>1. ASSUME NEW w \in Wid PROVE StageOf[w] \in Stage /\ EoiIters(tryq[w]) \subseteq Iter
  <2>1. tryq[w] \in Seq(PacketType)
    BY DEF TypeOK
  <2>2. \A k \in 1 .. Len(tryq[w]) : tryq[w][k].iter \in Iter
    BY <2>1, PacketParts
  <2>3. EoiIters(tryq[w]) \subseteq Iter
    BY <2>2 DEF EoiIters
  <2> QED
    BY <2>3, LayoutAssumption DEF LayoutAssumption
<1> QED
  BY <1>1 DEF EndedIters, TypeOK

(* A packet more for try-commit, and one that try-commit takes *)
LEMMA EndedAppend ==
  ASSUME TypeOK, TypeOK', NEW w \in Wid, NEW p \in PacketType,
         tryq' = [tryq EXCEPT ![w] = Append(@, p)], UNCHANGED checker
  PROVE  EndedIters' = EndedIters \cup
           (IF p.kind = "EOI" THEN {<<StageOf[w], p.iter>>} ELSE {})
<1> PICK q \in Seq(PacketType) : q = tryq[w]
  BY DEF TypeOK
<1> PICK r : r = Append(q, p)
  OBVIOUS
<1>1. \A v \in Wid : tryq'[v] = IF v = w THEN r ELSE tryq[v]
  BY DEF TypeOK
<1>2. EoiIters(r) = EoiIters(q) \cup (IF p.kind = "EOI" THEN {p.iter} ELSE {})
  BY AppendIters
<1>3. ASSUME NEW v \in Wid
      PROVE  EoiIters(tryq[v])' =
               EoiIters(tryq[v]) \cup (IF v = w /\ p.kind = "EOI" THEN {p.iter} ELSE {})
  <2>1. EoiIters(tryq[v])' = EoiIters(tryq'[v])
    BY DEF EoiIters
  <2> QED
    BY <1>1, <1>2, <2>1
<1>4. EndedIters \subseteq Stage \X Iter
  BY EndedTyped
<1> QED
  BY <1>3, <1>4 DEF EndedIters

LEMMA EndedTake ==
  ASSUME TypeOK, NEW w \in Wid, TryCommit(w)
  PROVE  EndedIters' = EndedIters
<1> PICK q \in Seq(PacketType) : q = tryq[w]
  BY DEF TypeOK
<1> PICK r : r = Tail(q)
  OBVIOUS
<1>1. /\ q # <<>> /\ \A v \in Wid : tryq'[v] = IF v = w THEN r ELSE tryq[v]
      /\ checker' = IF q[1].kind = "EOI"
                    THEN [checker EXCEPT !.arrived = @ \cup {<<StageOf[w], q[1].iter>>}]
                    ELSE checker
  BY DEF TypeOK, TryCommit
<1>2. EoiIters(q) = EoiIters(r) \cup (IF q[1].kind = "EOI" THEN {q[1].iter} ELSE {})
  BY <1>1, TailEoi
<1>3. ASSUME NEW v \in Wid
      PROVE  EoiIters(tryq[v]) =
               EoiIters(tryq[v])' \cup (IF v = w /\ q[1].kind = "EOI" THEN {q[1].iter} ELSE {})
  <2>1. EoiIters(tryq[v])' = EoiIters(tryq'[v])
    BY DEF EoiIters
  <2> QED
    BY <1>1, <1>2, <2>1
<1>4. checker'.arrived = checker.arrived \cup
        (IF q[1].kind = "EOI" THEN {<<StageOf[w], q[1].iter>>} ELSE {})
  BY <1>1 DEF TypeOK
<1>5. ASSUME NEW s, NEW i PROVE <<s, i>> \in EndedIters' <=> <<s, i>> \in EndedIters
  <2>1. <<s, i>> \in EndedIters <=>
          \/ <<s, i>> \in checker.arrived
          \/ \E v \in Wid : s = StageOf[v] /\ i \in EoiIters(tryq[v])
    BY EndedPlace
  <2>2. <<s, i>> \in EndedIters' <=>
          \/ <<s, i>> \in checker'.arrived
          \/ \E v \in Wid : s = StageOf[v] /\ i \in EoiIters(tryq[v])'
    BY DEF EndedIters
  <2>3. CASE q[1].kind = "EOI"
    BY <1>3, <1>4, <2>1, <2>2, <2>3
  <2>4. CASE q[1].kind # "EOI"
    BY <1>3, <1>4, <2>1, <2>2, <2>4
  <2> QED
    BY <2>3, <2>4
<1>6. EndedIters \subseteq Stage \X Iter /\ EndedIters' \subseteq Stage \X Iter
  <2>1. EndedIters' \subseteq Stage \X Iter
    <3>1. ASSUME NEW v \in Wid
          PROVE  StageOf[v] \in Stage /\ EoiIters(tryq[v])' \subseteq Iter
      <4>1. StageOf[v] \in Stage /\ tryq[v] \in Seq(PacketType)
        BY LayoutAssumption DEF LayoutAssumption, TypeOK
      <4>2. \A k \in 1 .. Len(tryq[v]) : tryq[v][k].iter \in Iter
        BY <4>1, PacketParts
      <4>3. EoiIters(tryq[v]) \subseteq Iter
        BY <4>2 DEF EoiIters
      <4> QED
        BY <1>3, <4>1, <4>3
    <3>2. StageOf[w] \in Stage /\ q[1] \in PacketType
      BY <1>1, HeadAndTail, LayoutAssumption DEF LayoutAssumption
    <3>3. q[1].iter \in Iter
      BY <3>2 DEF PacketType
    <3>4. checker'.arrived \subseteq Stage \X Iter
      BY <1>4, <3>2, <3>3 DEF TypeOK
    <3> QED
      BY <3>1, <3>4 DEF EndedIters
  <2> QED
    BY <2>1, EndedTyped
<1>7. \A e \in Stage \X Iter : e \in EndedIters' <=> e \in EndedIters
  <2>1. \A e \in Stage \X Iter : e = <<e[1], e[2]>>
    OBVIOUS
  <2> QED
    BY <1>5, <2>1
<1> QED
  BY <1>6, <1>7

(* A stage ends an iteration in broadcast_event of the worker that runs    *)
(* it, and in no other step.                                               *)
LEMMA EndedStep ==
  ASSUME PipelineInv, [Next]_vars
  PROVE  \/ BeginInvocation /\ EndedIters' = {}
         \/ \E w \in Wid : /\ BroadcastEvent(w) /\ RunIteration(w, iter[w])
                           /\ EndedIters' = EndedIters \cup {<<StageOf[w], iter[w]>>}
         \/ /\ EndedIters' = EndedIters /\ ~BeginInvocation
            /\ \A w \in Wid : BroadcastEvent(w) => ~RunIteration(w, iter[w])
<1> USE DEF queues, history
<1>1. TypeOK /\ TypeOK'
  BY TypeStep DEF PipelineInv
<1>2. ASSUME tryq' = tryq, checker'.arrived = checker.arrived
      PROVE  EndedIters' = EndedIters
  BY <1>2 DEF EndedIters, EoiIters
<1>3. CASE BeginInvocation
  <2>1. \A w \in Wid : EoiIters(tryq[w])' = {}
    BY <1>3 DEF BeginInvocation, EoiIters
  <2>2. checker'.arrived = {}
    BY <1>3 DEF BeginInvocation
  <2> QED
    BY <1>3, <2>1, <2>2 DEF EndedIters
<1>4. ASSUME NEW w \in Wid, Predict(w) PROVE EndedIters' = EndedIters
  <2>1. CASE tryq' = tryq
    BY <1>2, <1>4, <2>1 DEF Predict
  <2>2. CASE tryq' = [tryq EXCEPT ![w] = Append(@, Packet("BOI", iter[w]))]
    <3> PICK p : p = Packet("BOI", iter[w])
      OBVIOUS
    <3>1. p \in PacketType /\ p.kind = "BOI"
      BY <1>4, InTheLoop DEF Predict, Packet, PacketType
    <3>2. UNCHANGED checker
      BY <1>4 DEF Predict
    <3> QED
      BY <1>1, <2>2, <3>1, <3>2, EndedAppend
  <2> QED
    BY <1>4, <2>1, <2>2 DEF Predict
<1>5. ASSUME NEW w \in Wid, BroadcastEvent(w)
      PROVE  IF RunIteration(w, iter[w])
             THEN EndedIters' = EndedIters \cup {<<StageOf[w], iter[w]>>}
             ELSE EndedIters' = EndedIters
  <2> PICK p : p = Packet("EOI", iter[w])
    OBVIOUS
  <2>1. iter[w] \in Iter /\ iter[w] \in Nat
    BY <1>5, InTheLoop DEF BroadcastEvent
  <2>2. p \in PacketType /\ p.kind = "EOI" /\ p.iter = iter[w]
    BY <2>1 DEF Packet, PacketType
  <2>3. UNCHANGED checker
    BY <1>5 DEF BroadcastEvent
  <2>4. tryq' = IF RunIteration(w, iter[w])
                THEN [tryq EXCEPT ![w] = Append(@, p)] ELSE tryq
    BY <1>5, <2>1, RunsFromSource DEF BroadcastEvent
  <2>5. CASE RunIteration(w, iter[w])
    <3>1. EndedIters' = EndedIters \cup
            (IF p.kind = "EOI" THEN {<<StageOf[w], p.iter>>} ELSE {})
      BY <1>1, <2>2, <2>3, <2>4, <2>5, EndedAppend
    <3> QED
      BY <2>2, <2>5, <3>1
  <2>6. CASE ~RunIteration(w, iter[w])
    BY <1>2, <2>3, <2>4, <2>6
  <2> QED
    BY <2>5, <2>6
<1>6. ASSUME NEW w \in Wid, TryCommit(w) PROVE EndedIters' = EndedIters
  BY <1>1, <1>6, EndedTake
<1>7. ASSUME \/ EndInvocation \/ Commit \/ OpenGate \/ CommitMisspec
             \/ CommitRecordMisspec \/ UNCHANGED vars
      PROVE  EndedIters' = EndedIters
  <2>1. tryq' = tryq /\ checker'.arrived = checker.arrived
    BY <1>1, <1>7 DEF EndInvocation, Commit, OpenGate, CommitMisspec, CommitRecordMisspec,
       vars, TypeOK
  <2> QED
    BY <1>2, <2>1
<1>8. ASSUME NEW w \in Wid,
             \/ PassGate(w) \/ ProcessReverseCommitQueue(w) \/ ReceivePacket(w)
             \/ ReceiveDone(w) \/ CheckMisspec(w) \/ EndBody(w) \/ BodyMisspec(w)
             \/ RecordMisspec(w) \/ ForwardPages(w)
      PROVE  EndedIters' = EndedIters
  <2>1. tryq' = tryq /\ checker' = checker
    BY <1>8 DEF PassGate, ProcessReverseCommitQueue, ReceivePacket, ReceiveDone,
       CheckMisspec, EndBody, BodyMisspec, RecordMisspec, ForwardPages
  <2> QED
    BY <1>2, <2>1
<1>9. EndedIters' = EndedIters \/ BeginInvocation \/ \E w \in Wid : BroadcastEvent(w)
  BY <1>4, <1>6, <1>7, <1>8 DEF Next, Worker, BeginIter, Checker, Terminated
<1>10. ASSUME NEW w \in Wid, BroadcastEvent(w) PROVE ~BeginInvocation
  BY <1>10 DEF BroadcastEvent, BeginInvocation
<1> QED
  BY <1>3, <1>5, <1>9, <1>10

LEMMA EndedKept ==
  ASSUME PipelineInv, EndedInv, [Next]_vars
  PROVE  EndedInv'
<1> USE DEF queues, history
<1>1. TypeOK
  BY DEF PipelineInv
<1>2. Iter \subseteq Nat /\ \A w \in Wid : iter[w] \in Nat
  BY <1>1, QueueTypes, SizeAssumption DEF SizeAssumption, Iter
<1>3. \A s \in Stage, i \in Iter : /\ Source(i, s) \in Wid /\ StageOf[Source(i, s)] = s
                                   /\ RunIteration(Source(i, s), i)
  BY <1>2, SourceIsWorker, SourceRuns
<1>4. CASE BeginInvocation
  <2>1. EndedIters' = {} /\ \A w \in Wid : iter'[w] = 0
    <3>1. ~\E w \in Wid : BroadcastEvent(w)
      <4>1. ~main.inside /\ main'.inside
        BY <1>4 DEF BeginInvocation
      <4>2. \A w \in Wid : BroadcastEvent(w) => main' = main
        BY DEF BroadcastEvent
      <4> QED
        BY <4>1, <4>2
    <3> QED
      BY <1>4, <3>1, EndedStep DEF BeginInvocation
  <2>2. \A s \in Stage, i \in Iter : ~(i < iter'[Source(i, s)])
    BY <1>2, <1>3, <2>1
  <2> QED
    BY <2>1, <2>2 DEF EndedInv, Source, WidOffset
<1>5. ASSUME NEW w \in Wid, BroadcastEvent(w) PROVE EndedInv'
  <2> PICK j \in Iter : j = iter[w]
    BY <1>5, InTheLoop DEF BroadcastEvent
  <2>1. \A v \in Wid : iter'[v] = IF v = w THEN j + 1 ELSE iter[v]
    BY <1>1, <1>5 DEF BroadcastEvent, TypeOK
  <2>2. j \in Nat /\ ~BeginInvocation
    BY <1>2, <1>5 DEF BroadcastEvent, BeginInvocation
  <2>3. ASSUME NEW s \in Stage, NEW i \in Iter
        PROVE  i < iter'[Source(i, s)] <=> \/ i < iter[Source(i, s)]
                                           \/ i = j /\ s = StageOf[w] /\ RunIteration(w, j)
    <3>1. CASE Source(i, s) = w
      BY <1>2, <1>3, <2>1, <2>2, <3>1
    <3>2. CASE Source(i, s) # w
      <4>1. s = StageOf[w] => ~RunIteration(w, i)
        BY <1>2, <3>2, RunsFromSource
      <4> QED
        BY <1>3, <2>1, <3>2, <4>1
    <3> QED
      BY <3>1, <3>2
  <2>4. ASSUME NEW s \in Stage, NEW i \in Iter
        PROVE  <<s, i>> \in EndedIters' <=> \/ <<s, i>> \in EndedIters
                                            \/ i = j /\ s = StageOf[w] /\ RunIteration(w, j)
    <3>1. \A v \in Wid : BroadcastEvent(v) => v = w
      <4>1. \A v \in Wid : BroadcastEvent(v) => iter'[v] = iter[v] + 1
        BY <1>1 DEF BroadcastEvent, TypeOK
      <4> QED
        BY <1>2, <2>1, <4>1
    <3>2. \/ RunIteration(w, j) /\ EndedIters' = EndedIters \cup {<<StageOf[w], j>>}
          \/ ~RunIteration(w, j) /\ EndedIters' = EndedIters
      BY <1>5, <2>2, <3>1, EndedStep
    <3> QED
      BY <3>2
  <2> QED
    BY <2>3, <2>4 DEF EndedInv, Source, WidOffset
<1>6. ASSUME ~BeginInvocation, ~\E w \in Wid : BroadcastEvent(w) PROVE EndedInv'
  <2>1. EndedIters' = EndedIters
    BY <1>6, EndedStep
  <2>2. UNCHANGED iter
    BY <1>6 DEF Next, Worker, BeginIter, Checker, Terminated, vars, EndInvocation,
       PassGate, ProcessReverseCommitQueue, ReceivePacket, ReceiveDone, CheckMisspec,
       Predict, EndBody, BodyMisspec, RecordMisspec, ForwardPages, TryCommit,
       Commit, OpenGate, CommitMisspec, CommitRecordMisspec
  <2> QED
    BY <2>1, <2>2 DEF EndedInv, Source, WidOffset
<1> QED
  BY <1>4, <1>5, <1>6

LEMMA CommitTypes ==
  ASSUME TypeOK
  PROVE  /\ pcb.lastCommitted \in Iter \cup {ITER_MAX} /\ pcb.misIter \in Iter \cup {ITER_MAX}
         /\ NextToCommit \in Nat /\ NextToCommit <= TripCount
<1>1. pcb.lastCommitted \in Iter \cup {ITER_MAX} /\ pcb.misIter \in Iter \cup {ITER_MAX}
  BY DEF TypeOK
<1> QED
  BY <1>1, SizeAssumption DEF SizeAssumption, Iter, NextToCommit

LEMMA CommittedKept ==
  ASSUME PipelineInv, CommittedInv, [Next]_vars
  PROVE  CommittedInv'
<1> USE DEF queues, history
<1>1. TypeOK /\ ITER_MAX \in Nat /\ TripCount \in Nat /\ TripCount < ITER_MAX /\ Iter \subseteq Nat
  BY SizeAssumption DEF PipelineInv, SizeAssumption, Iter
<1>2. NextToCommit \in Nat
  BY <1>1, CommitTypes
<1>3. CASE BeginInvocation
  <2>1. NextToCommit' = 0
    BY <1>3 DEF BeginInvocation, NewPcb, NextToCommit
  <2> QED
    BY <1>1, <2>1 DEF CommittedInv
<1>4. ~BeginInvocation => EndedIters \subseteq EndedIters'
  BY EndedStep
<1>5. CASE Commit
  <2>1. NextToCommit' = NextToCommit + 1 /\ ~BeginInvocation
    BY <1>1, <1>2, <1>5 DEF Commit, Ended, NextToCommit, TypeOK, BeginInvocation
  <2>2. \A s \in Stage : <<s, NextToCommit>> \in EndedIters
    BY <1>5 DEF Commit, Ended, EndedIters
  <2> QED
    BY <1>1, <1>2, <1>4, <2>1, <2>2 DEF CommittedInv
<1>6. ASSUME ~BeginInvocation, ~Commit PROVE NextToCommit' = NextToCommit
  <2>1. pcb'.lastCommitted = pcb.lastCommitted
    BY <1>1, <1>6 DEF Next, Worker, BeginIter, Checker, Terminated, vars, EndInvocation,
       PassGate, ProcessReverseCommitQueue, ReceivePacket, ReceiveDone, CheckMisspec,
       Predict, EndBody, BodyMisspec, RecordMisspec, ForwardPages, BroadcastEvent, TryCommit,
       Commit, OpenGate, CommitMisspec, CommitRecordMisspec, TypeOK
  <2> QED
    BY <2>1 DEF NextToCommit
<1> QED
  BY <1>3, <1>4, <1>5, <1>6 DEF CommittedInv

(* The iteration that misspeculated is never ended by the stage that ran   *)
(* it, or was not committed by the process that checks it.                 *)
LEMMA FailedNotCommitted ==
  ASSUME PipelineInv, EndedInv, CommittedInv, NEW w \in Wid, iter[w] \in Iter,
         RunIteration(w, iter[w])
  PROVE  NextToCommit <= iter[w]
<1> PICK i \in Iter : i = iter[w]
  OBVIOUS
<1>1. NextToCommit \in Nat /\ i \in Nat /\ StageOf[w] \in Stage
  BY CommitTypes, QueueTypes DEF PipelineInv
<1>2. Source(i, StageOf[w]) = w
  BY <1>1, RunsFromSource
<1>3. <<StageOf[w], i>> \notin EndedIters
  BY <1>1, <1>2 DEF EndedInv
<1> QED
  BY <1>1, <1>3 DEF CommittedInv

LEMMA FailedKept ==
  ASSUME PipelineInv, PositionInv, EndedInv, CommittedInv, FailedInv, [Next]_vars
  PROVE  FailedInv'
<1> USE DEF queues, history
<1>1. TypeOK /\ MisspecInv
  BY DEF PipelineInv
<1>2. /\ ITER_MAX \in Nat /\ TripCount \in Nat /\ TripCount < ITER_MAX /\ Iter \subseteq Nat
      /\ Iter = 0 .. TripCount - 1
  BY SizeAssumption DEF SizeAssumption, Iter
<1>3. /\ pcb.lastCommitted \in Iter \cup {ITER_MAX} /\ pcb.misIter \in Iter \cup {ITER_MAX}
      /\ NextToCommit \in Nat /\ NextToCommit <= TripCount
      /\ pcb.lastCommitted = TripCount - 1 <=> NextToCommit = TripCount
  BY <1>1, <1>2, CommitTypes, SizeAssumption DEF NextToCommit, SizeAssumption
<1>4. CASE BeginInvocation
  BY <1>2, <1>4 DEF BeginInvocation, NewPcb, FailedInv
<1>5. ASSUME main' = main, EndedIters' = EndedIters \/ main.inside,
             UNCHANGED pcb, checker'.pc = checker.pc,
             \A v \in Wid : pc'[v] = "misspec" =>
               pc[v] = "misspec" /\ iter'[v] = iter[v],
             \A v \in Wid : pc[v] = "exited" => pc'[v] = "exited" /\ iter'[v] = iter[v]
      PROVE  FailedInv'
  BY <1>5 DEF FailedInv, RunIteration, NextToCommit
<1>6. ASSUME ~BeginInvocation, ~\E w \in Wid : BroadcastEvent(w)
      PROVE  EndedIters' = EndedIters
  BY <1>6, EndedStep
<1>7. CASE UNCHANGED vars
  BY <1>5, <1>7 DEF vars, EndedIters
<1>8. CASE EndInvocation
  <2>1. /\ EndedIters' = EndedIters /\ UNCHANGED <<iter, pc, pcb, checker>>
        /\ pcb.misIter # ITER_MAX \/ pcb.lastCommitted = TripCount - 1
    BY <1>8 DEF EndInvocation, EndedIters
  <2> QED
    BY <2>1 DEF FailedInv, RunIteration, NextToCommit
<1>9. CASE OpenGate \/ \E w \in Wid : TryCommit(w)
  <2>1. /\ UNCHANGED <<iter, pc, pcb, main>> /\ checker'.pc = checker.pc
    BY <1>1, <1>9 DEF OpenGate, TryCommit, TypeOK
  <2>2. EndedIters' = EndedIters
    BY <1>1, <1>9, EndedTake DEF OpenGate, EndedIters
  <2> QED
    BY <1>5, <2>1, <2>2
<1>10. ASSUME NEW w \in Wid, \/ PassGate(w) \/ ProcessReverseCommitQueue(w) \/ ReceivePacket(w)
                             \/ ReceiveDone(w) \/ CheckMisspec(w) \/ Predict(w) \/ EndBody(w)
                             \/ ForwardPages(w) \/ BroadcastEvent(w)
       PROVE  FailedInv'
  <2>1. UNCHANGED <<pcb, main, checker>> /\ pc[w] \notin {"misspec", "exited", "finished"}
    BY <1>10 DEF PassGate, ProcessReverseCommitQueue, ReceivePacket, ReceiveDone,
       CheckMisspec, Predict, EndBody, ForwardPages, BroadcastEvent
  <2>2. /\ \A v \in Wid : v # w => pc'[v] = pc[v] /\ iter'[v] = iter[v]
        /\ pc'[w] # "misspec"
    BY <1>1, <1>10 DEF TypeOK, PassGate, ProcessReverseCommitQueue, ReceivePacket,
       ReceiveDone, CheckMisspec, Predict, EndBody, ForwardPages, BroadcastEvent, Follows
  <2>3. main.inside
    BY <2>1 DEF PositionInv
  <2> QED
    BY <1>5, <2>1, <2>2, <2>3
<1>11. ASSUME NEW w \in Wid, BodyMisspec(w) PROVE FailedInv'
  <2>1. /\ UNCHANGED <<iter, main, checker>> /\ pc[w] = "body" /\ RunIteration(w, iter[w])
        /\ pc' = [pc EXCEPT ![w] = "misspec"] /\ pcb' = [pcb EXCEPT !.happened = TRUE]
    BY <1>11 DEF BodyMisspec
  <2>2. \A v \in Wid : pc'[v] = IF v = w THEN "misspec" ELSE pc[v]
    BY <1>1, <2>1 DEF TypeOK
  <2>3. pcb'.misIter = pcb.misIter /\ pcb'.lastCommitted = pcb.lastCommitted
    BY <1>1, <2>1 DEF TypeOK
  <2>4. main.inside
    BY <2>1 DEF PositionInv
  <2> QED
    BY <2>1, <2>2, <2>3, <2>4 DEF FailedInv, RunIteration, NextToCommit
<1>12. ASSUME NEW w \in Wid, RecordMisspec(w) PROVE FailedInv'
  <2>1. /\ UNCHANGED <<iter, main, checker>> /\ pc[w] = "misspec"
        /\ pc' = [pc EXCEPT ![w] = "exited"] /\ pcb' = [pcb EXCEPT !.misIter = iter[w]]
    BY <1>12 DEF RecordMisspec
  <2>2. \A v \in Wid : pc'[v] = IF v = w THEN "exited" ELSE pc[v]
    BY <1>1, <2>1 DEF TypeOK
  <2>3. pcb'.misIter = iter[w] /\ pcb'.lastCommitted = pcb.lastCommitted
    BY <1>1, <2>1 DEF TypeOK
  <2>4. main.inside /\ RunIteration(w, iter[w])
    BY <2>1 DEF PositionInv, FailedInv
  <2>5. iter[w] \in Iter
    BY <2>1, InTheLoop
  <2>6. NextToCommit <= iter[w] /\ iter[w] # ITER_MAX
    BY <1>2, <2>4, <2>5, FailedNotCommitted
  <2> QED
    BY <2>1, <2>2, <2>3, <2>4, <2>6 DEF FailedInv, RunIteration, NextToCommit
<1>13. CASE Commit
  <2>1. /\ UNCHANGED <<iter, pc, main, checker, tryq>> /\ checker.pc = "commit"
        /\ NextToCommit < TripCount
        /\ \A s \in Stage : <<s, NextToCommit>> \in checker.arrived
        /\ pcb' = [pcb EXCEPT !.lastCommitted = NextToCommit]
    BY <1>13 DEF Commit, Ended
  <2>2. /\ pcb'.misIter = pcb.misIter /\ pcb'.lastCommitted = NextToCommit
        /\ NextToCommit' = NextToCommit + 1 /\ NextToCommit \in Iter
    BY <1>1, <1>2, <1>3, <2>1 DEF TypeOK, NextToCommit
  <2>3. EndedIters' = EndedIters /\ \A s \in Stage : <<s, NextToCommit>> \in EndedIters
    BY <2>1 DEF EndedIters
  <2>4. EndedIters # {}
    <3>1. 0 \in Stage
      BY SizeAssumption DEF Stage, SizeAssumption
    <3> QED
      BY <2>3, <3>1
  <2>5. ASSUME pcb.misIter # ITER_MAX PROVE NextToCommit # pcb.misIter
    <3>1. PICK w \in Wid : /\ pc[w] = "exited" /\ iter[w] = pcb.misIter
                           /\ RunIteration(w, pcb.misIter)
      BY <2>1, <2>5 DEF FailedInv
    <3>2. pcb.misIter \in Nat /\ pcb.misIter \in Iter /\ StageOf[w] \in Stage
      BY <1>1, <1>2, <1>3, <2>5, QueueTypes
    <3>3. Source(pcb.misIter, StageOf[w]) = w
      BY <3>1, <3>2, RunsFromSource
    <3>4. <<StageOf[w], pcb.misIter>> \notin EndedIters
      BY <1>2, <3>1, <3>2, <3>3 DEF EndedInv
    <3> QED
      BY <2>3, <3>2, <3>4
  <2>6. pcb.misIter # ITER_MAX => NextToCommit' <= pcb.misIter
    BY <1>2, <1>3, <2>2, <2>5 DEF FailedInv
  <2>7. ~main.inside => pcb.misIter # ITER_MAX
    BY <1>3, <2>1, <2>4 DEF FailedInv
  <2> QED
    BY <2>1, <2>2, <2>6, <2>7 DEF FailedInv, RunIteration
<1>14. CASE CommitMisspec
  <2>1. /\ UNCHANGED <<iter, pc, main, tryq>> /\ checker' = [checker EXCEPT !.pc = "misspec"]
        /\ pcb' = [pcb EXCEPT !.happened = TRUE] /\ checker.pc = "commit"
    BY <1>14 DEF CommitMisspec
  <2>2. /\ pcb'.misIter = pcb.misIter /\ pcb'.lastCommitted = pcb.lastCommitted
        /\ checker'.pc = "misspec" /\ checker'.arrived = checker.arrived
    BY <1>1, <2>1 DEF TypeOK
  <2>3. EndedIters' = EndedIters
    BY <2>1, <2>2 DEF EndedIters
  <2> QED
    BY <2>1, <2>2, <2>3 DEF FailedInv, RunIteration, NextToCommit
<1>15. CASE CommitRecordMisspec
  <2>1. /\ UNCHANGED <<iter, pc, main, tryq>> /\ checker' = [checker EXCEPT !.pc = "stopped"]
        /\ pcb' = [pcb EXCEPT !.misIter = NextToCommit] /\ checker.pc = "misspec"
    BY <1>15 DEF CommitRecordMisspec
  <2>2. /\ pcb'.misIter = NextToCommit /\ pcb'.lastCommitted = pcb.lastCommitted
        /\ checker'.pc = "stopped"
    BY <1>1, <2>1 DEF TypeOK
  <2>3. NextToCommit' = NextToCommit /\ NextToCommit < TripCount
    BY <1>1, <2>1, <2>2 DEF NextToCommit, MisspecInv
  <2>4. pcb'.misIter # ITER_MAX /\ NextToCommit' <= pcb'.misIter
    BY <1>2, <1>3, <2>2, <2>3
  <2> QED
    BY <2>1, <2>2, <2>4 DEF FailedInv, RunIteration
<1> QED
  BY <1>4, <1>7, <1>8, <1>9, <1>10, <1>11, <1>12, <1>13, <1>14, <1>15
     DEF Next, Worker, BeginIter, Checker, Terminated

-----------------------------------------------------------------------------
(* Before the first invocation nothing is sent and nothing has ended. *)
LEMMA OrderInit == Init => OrderInv
<1> SUFFICES ASSUME Init PROVE OrderInv
  OBVIOUS
<1>1. PipelineInv
  BY InitEstablishes
<1>2. /\ Iter \subseteq Nat /\ Stage \subseteq Nat /\ \A i \in Iter : ~(i < 0)
      /\ \A w \in Wid : StageOf[w] \in Stage
  BY SizeAssumption, LayoutAssumption DEF SizeAssumption, LayoutAssumption, Iter, Stage
<1>3. QueueInv /\ SeenInv
  BY NothingSent DEF Init
<1>4. PositionInv
  <2>1. \A w \in Wid : 0 <= StageOf[w]
    <3>1. \A s \in Nat : 0 <= s
      OBVIOUS
    <3> QED
      BY <1>2, <3>1
  <2>2. ~main.inside /\ \A w \in Wid : from[w] = 0 /\ pc[w] = "finished"
    BY DEF Init
  <2> QED
    BY <2>1, <2>2 DEF PositionInv
<1>8. TaintInv
  <2>1. \A w, v \in Wid : ucvf[w][v] = <<>> /\ ~tainted[w]
    BY DEF Init
  <2> QED
    BY <2>1 DEF TaintInv
<1>5. EndedIters = {}
  BY DEF Init, EndedIters, EoiIters
<1>6. EndedInv
  BY <1>2, <1>5, SourceIsWorker DEF Init, EndedInv
<1>7. CommittedInv /\ FailedInv
  BY <1>2, <1>5 DEF Init, NewPcb, NextToCommit, CommittedInv, FailedInv
<1> QED
  BY <1>1, <1>3, <1>4, <1>6, <1>7, <1>8 DEF OrderInv, LoopInv

LEMMA PipelineStep ==
  ASSUME PipelineInv, [Next]_vars
  PROVE  PipelineInv'
BY TypeStep, IterStep, MisspecStep, GateStep DEF PipelineInv

LEMMA LoopStep ==
  ASSUME LoopInv, [Next]_vars
  PROVE  LoopInv'
BY PipelineStep, PositionStep, QueuesStep, EndedKept, CommittedKept, FailedKept DEF LoopInv

LEMMA OrderStep ==
  ASSUME OrderInv, [Next]_vars
  PROVE  OrderInv'
BY LoopStep, TaintStep DEF OrderInv, LoopInv

(* The packets in every queue, the memory of every worker and what try-    *)
(* commit is told follow from where the workers are, in every reachable    *)
(* state: the invariant the theorems below are read off.                   *)
THEOREM OrderInvariant == Spec => []OrderInv
BY OrderInit, OrderStep, PTL DEF Spec

(* A worker that executes an iteration has passed all earlier stages. *)
LEMMA LoopSees == LoopInv => SeesEarlierStages
<1>1. ASSUME LoopInv, NEW w \in Wid, Executing(w)
      PROVE  seen[w] = {s \in Stage : s < StageOf[w]} \X (0 .. iter[w])
  <2>1. TypeOK /\ pc[w] # "finished" /\ from[w] = StageOf[w]
    BY <1>1 DEF LoopInv, PipelineInv, PositionInv, Executing
  <2>2. /\ iter[w] \in Iter /\ iter[w] \in Nat /\ Iter = 0 .. TripCount - 1
        /\ TripCount \in Nat /\ Stage \subseteq Nat /\ StageOf[w] \in Nat
    BY <1>1, <2>1, InTheLoop, QueueTypes, SizeAssumption
       DEF LoopInv, SizeAssumption, Iter
  <2>3. \A t \in Stage : t < StageOf[w] => NextFrom(w, t) = iter[w] + 1
    BY <2>1, <2>2 DEF NextFrom
  <2>4. ASSUME NEW t \in Stage, t < StageOf[w], NEW j \in 0 .. iter[w]
        PROVE  <<t, j>> \in seen[w]
    <3>1. j \in Iter /\ j < NextFrom(w, t)
      BY <2>2, <2>3, <2>4
    <3> QED
      BY <1>1, <2>4, <3>1 DEF LoopInv, SeenInv
  <2>5. ASSUME NEW t \in Stage, NEW j \in Iter, <<t, j>> \in seen[w]
        PROVE  t < StageOf[w] /\ j \in 0 .. iter[w]
    <3>1. t < StageOf[w] /\ (j < NextFrom(w, t) \/ t = from[w])
      BY <1>1, <2>5 DEF LoopInv, SeenInv
    <3>2. j < iter[w] + 1
      BY <2>1, <2>2, <2>3, <3>1
    <3> QED
      BY <2>2, <3>1, <3>2
  <2>6. seen[w] \subseteq Stage \X Iter
    BY <2>1, QueueTypes
  <2>7. \A e \in seen[w] : e = <<e[1], e[2]>> /\ e[1] \in Stage /\ e[2] \in Iter
    BY <2>6
  <2> QED
    BY <2>4, <2>5, <2>7
<1> QED
  BY <1>1 DEF SeesEarlierStages

(* process_incoming_packets: what a worker executes an iteration on is     *)
(* what the earlier stages wrote up to that iteration, and nothing else.   *)
THEOREM EarlierStagesSeen == Spec => []SeesEarlierStages
<1>1. OrderInv => SeesEarlierStages
  BY LoopSees DEF OrderInv
<1> QED
  BY <1>1, OrderInvariant, PTL

(* end_iter and begin_iter: every packet that a worker sends to another is *)
(* one that the other takes before the loop ends.                          *)
THEOREM QueuesAreDrained == Spec => []QueuesDrained
<1>1. ASSUME LoopInv, main.inside, \A w \in Wid : pc[w] = "finished",
             NEW w \in Wid, NEW v \in Wid
      PROVE  ucvf[w][v] = <<>>
  <2>1. TypeOK /\ iter[v] = TripCount /\ from[v] = 0 /\ StageOf[w] \in Stage
    BY <1>1, LayoutAssumption DEF LoopInv, PipelineInv, PositionInv, LayoutAssumption
  <2>2. Iter = 0 .. TripCount - 1 /\ TripCount \in Nat /\ Stage \subseteq Nat
    BY SizeAssumption DEF SizeAssumption, Iter, Stage
  <2>3. CASE ~(StageOf[w] < StageOf[v])
    BY <1>1, <2>3 DEF LoopInv, QueueInv
  <2>4. CASE StageOf[w] < StageOf[v]
    <3> PICK q \in Seq(PacketType) : q = ucvf[w][v]
      BY <2>1, QueueTypes
    <3>1. Sorted(q) /\ DataIters(q) = Unseen(w, v) /\ EoiIters(q) = Awaited(w, v)
      BY <1>1, <2>4 DEF LoopInv, QueueInv
    <3>6. ~(from[v] > StageOf[w])
      <4>1. StageOf[w] \in Nat
        BY <2>1, <2>2
      <4>2. \A s \in Nat : ~(0 > s)
        OBVIOUS
      <4> QED
        BY <2>1, <4>1, <4>2
    <3>2. NextFrom(v, StageOf[w]) = TripCount
      BY <2>1, <3>6 DEF NextFrom
    <3>3. \A j \in Iter : j < NextFrom(v, StageOf[w])
      BY <2>2, <3>2
    <3>4. Unseen(w, v) = {}
      BY <1>1, <2>1, <2>4, <3>3 DEF LoopInv, SeenInv, Unseen, SentData
    <3>5. Awaited(w, v) = {}
      BY <2>2, <3>2 DEF Awaited, SentEoi
    <3> QED
      BY <3>1, <3>4, <3>5, NothingLeft
  <2> QED
    BY <2>3, <2>4
<1>2. OrderInv => QueuesDrained
  BY <1>1 DEF QueuesDrained, OrderInv
<1> QED
  BY <1>2, OrderInvariant, PTL

(* check_misspec after process_incoming_packets: no worker runs an         *)
(* iteration which it was sent as one that had misspeculated.              *)
THEOREM TaintedNeverRuns == Spec => []NeverRunsOnTainted
<1>1. OrderInv => NeverRunsOnTainted
  BY DEF OrderInv, TaintInv, NeverRunsOnTainted, Executing
<1> QED
  BY <1>1, OrderInvariant, PTL

-----------------------------------------------------------------------------
(* How the steps of the pipeline are steps of PipelineOrder: broadcast_    *)
(* event is End, Commit is CommitNext, recording a misspeculation is Fail, *)
(* and the others change nothing of the order.                             *)
FailedIter == IF pcb.misIter = ITER_MAX THEN TripCount ELSE pcb.misIter

LEMMA OrderTypes ==
  /\ ITER_MAX \in Nat /\ TripCount \in Nat /\ TripCount < ITER_MAX
  /\ Iter = 0 .. TripCount - 1 /\ Stage = 0 .. NumStages - 1 /\ Stage \subseteq Nat
BY SizeAssumption DEF SizeAssumption, Iter, Stage

(* The steps that change what PipelineOrder looks at *)
LEMMA OrderQuiet ==
  ASSUME PipelineInv, [Next]_vars, ~BeginInvocation, ~Commit, ~CommitRecordMisspec,
         ~\E w \in Wid : RecordMisspec(w)
  PROVE  NextToCommit' = NextToCommit /\ FailedIter' = FailedIter
<1> USE DEF queues, history
<1>1. pcb'.lastCommitted = pcb.lastCommitted /\ pcb'.misIter = pcb.misIter
  BY DEF PipelineInv, TypeOK, Next, Worker, BeginIter, Checker, Terminated, vars, EndInvocation,
     PassGate, ProcessReverseCommitQueue, ReceivePacket, ReceiveDone, CheckMisspec,
     Predict, EndBody, BodyMisspec, ForwardPages, BroadcastEvent, TryCommit,
     OpenGate, CommitMisspec
<1> QED
  BY <1>1 DEF NextToCommit, FailedIter

LEMMA BeginIsBegin ==
  ASSUME LoopInv, BeginInvocation, EndedIters' = {}
  PROVE  Order!Begin
<1>1. NextToCommit' = 0 /\ FailedIter' = TripCount
  BY DEF BeginInvocation, NewPcb, NextToCommit, FailedIter
<1>2. pcb.misIter \in Iter \cup {ITER_MAX} /\ ~main.inside
  BY DEF LoopInv, PipelineInv, TypeOK, BeginInvocation
<1>3. EndedIters = {} \/ pcb.misIter # ITER_MAX \/ pcb.lastCommitted = TripCount - 1
  BY <1>2 DEF LoopInv, FailedInv
<1>4. pcb.lastCommitted = TripCount - 1 => NextToCommit = TripCount
  BY OrderTypes DEF NextToCommit
<1>5. pcb.misIter # ITER_MAX => FailedIter # TripCount
  BY <1>2, OrderTypes DEF FailedIter
<1> QED
  BY <1>1, <1>3, <1>4, <1>5 DEF Order!Begin, Order!NoIter, FailedIter

LEMMA EventIsEnd ==
  ASSUME LoopInv, NEW w \in Wid, BroadcastEvent(w), RunIteration(w, iter[w]),
         EndedIters' = EndedIters \cup {<<StageOf[w], iter[w]>>}
  PROVE  \E s \in Order!AllStages, i \in Order!AllIters : Order!End(s, i)
<1> USE DEF queues, history
<1>1. /\ PipelineInv /\ TypeOK /\ pc[w] = "event" /\ from[w] = StageOf[w]
      /\ UNCHANGED pcb
  BY DEF LoopInv, PipelineInv, PositionInv, BroadcastEvent
<1> PICK i \in Iter, s \in Stage : i = iter[w] /\ s = StageOf[w]
  BY <1>1, InTheLoop
<1>2. i \in Nat /\ s \in Nat /\ 0 .. i \subseteq Iter
  BY OrderTypes
<1>3. \A t \in Stage, j \in Iter : <<t, j>> \in EndedIters <=> j < iter[Source(j, t)]
  BY DEF LoopInv, EndedInv
<1>4. Source(i, s) = w
  BY <1>2, RunsFromSource
<1>5. <<s, i>> \notin EndedIters
  BY <1>2, <1>3, <1>4
<1>6. ASSUME NEW t \in Stage, NEW j \in 0 .. i, t < s PROVE <<t, j>> \in EndedIters
  <2>1. NextFrom(w, t) = i + 1
    BY <1>1, <1>6 DEF NextFrom
  <2>2. j \in Iter /\ j < i + 1
    BY <1>2
  <2> QED
    BY <1>3, <1>6, <2>1, <2>2 DEF LoopInv, SeenInv
<1>7. ASSUME NEW j \in 0 .. i, j < i, j % Rep[s] = i % Rep[s] PROVE <<s, j>> \in EndedIters
  <2>1. Source(j, s) = w
    BY <1>4, <1>7 DEF Source, WidOffset
  <2> QED
    BY <1>2, <1>3, <1>7, <2>1
<1>8. ASSUME i # 0 PROVE NextToCommit # 0
  <2>1. pcb.lastCommitted # ITER_MAX
    BY <1>1, <1>8 DEF PipelineInv, GateInv, FirstIterationFirst
  <2>2. pcb.lastCommitted \in Nat
    BY <1>1, <2>1, CommitTypes, OrderTypes
  <2> QED
    BY <2>1, <2>2 DEF NextToCommit
<1>9. UNCHANGED <<NextToCommit, FailedIter>>
  BY <1>1 DEF NextToCommit, FailedIter
<1>10. Order!AllStages = Stage /\ Order!AllIters = Iter
  BY DEF Order!AllStages, Order!AllIters, Stage, Iter
<1>11. Order!End(s, i)
  BY <1>5, <1>6, <1>7, <1>8, <1>9, <1>10 DEF Order!End, FailedIter
<1> QED
  BY <1>10, <1>11

LEMMA CommitIsCommitNext ==
  ASSUME LoopInv, LoopInv', Commit
  PROVE  Order!CommitNext
<1> USE DEF queues, history
<1>1. /\ UNCHANGED <<tryq, checker>> /\ NextToCommit < TripCount
      /\ \A s \in Stage : <<s, NextToCommit>> \in EndedIters
      /\ pcb' = [pcb EXCEPT !.lastCommitted = NextToCommit]
  BY DEF Commit, Ended, EndedIters
<1>2. TypeOK /\ NextToCommit \in Nat /\ pcb.misIter \in Iter \cup {ITER_MAX}
  BY CommitTypes DEF LoopInv, PipelineInv
<1>3. pcb'.misIter = pcb.misIter /\ pcb'.lastCommitted = NextToCommit
  BY <1>1, <1>2 DEF TypeOK
<1>4. NextToCommit' = NextToCommit + 1 /\ FailedIter' = FailedIter
  BY <1>1, <1>2, <1>3, OrderTypes DEF NextToCommit, FailedIter
<1>5. EndedIters' = EndedIters
  BY <1>1 DEF EndedIters
<1>6. pcb.misIter # ITER_MAX => NextToCommit + 1 <= pcb.misIter
  BY <1>3, <1>4 DEF LoopInv, FailedInv
<1>7. NextToCommit < FailedIter
  BY <1>1, <1>2, <1>6, OrderTypes DEF FailedIter
<1> QED
  BY <1>1, <1>4, <1>5, <1>7
     DEF Order!CommitNext, Order!AllStages, Stage, FailedIter

LEMMA RecordIsFail ==
  ASSUME LoopInv, LoopInv', UNCHANGED <<tryq, checker.arrived>>,
         NEW i \in Iter, pcb.misIter = ITER_MAX, pcb' = [pcb EXCEPT !.misIter = i]
  PROVE  Order!Fail(i)
<1>1. TypeOK /\ i \in Nat /\ i # ITER_MAX
  BY OrderTypes DEF LoopInv, PipelineInv
<1>2. pcb'.misIter = i /\ pcb'.lastCommitted = pcb.lastCommitted
  BY <1>1 DEF TypeOK
<1>3. NextToCommit' = NextToCommit /\ FailedIter' = i /\ FailedIter = TripCount
  BY <1>1, <1>2 DEF NextToCommit, FailedIter
<1>4. EndedIters' = EndedIters
  BY DEF EndedIters
<1>5. NextToCommit <= i
  BY <1>1, <1>2, <1>3 DEF LoopInv, FailedInv
<1> QED
  BY <1>3, <1>4, <1>5 DEF Order!Fail, Order!NoIter, FailedIter

LEMMA OrderStepMaps ==
  ASSUME LoopInv, LoopInv', [Next]_vars
  PROVE  [Order!OrderNext]_(Order!orderVars)
<1> USE DEF queues, history
<1>1. PipelineInv /\ TypeOK /\ MisspecInv
  BY DEF LoopInv, PipelineInv
<1>2. CASE BeginInvocation /\ EndedIters' = {}
  BY <1>2, BeginIsBegin DEF Order!OrderNext
<1>3. ASSUME NEW w \in Wid, BroadcastEvent(w), RunIteration(w, iter[w]),
             EndedIters' = EndedIters \cup {<<StageOf[w], iter[w]>>}
      PROVE  Order!OrderNext
  BY <1>3, EventIsEnd DEF Order!OrderNext
<1>4. CASE Commit
  BY <1>4, CommitIsCommitNext DEF Order!OrderNext
<1>5. ASSUME NEW w \in Wid, RecordMisspec(w) PROVE Order!OrderNext
  <2>1. /\ iter[w] \in Iter /\ pcb.misIter = ITER_MAX
        /\ UNCHANGED <<tryq, checker>> /\ pcb' = [pcb EXCEPT !.misIter = iter[w]]
    BY <1>1, <1>5, InTheLoop DEF RecordMisspec, MisspecInv
  <2> PICK i \in Iter : i = iter[w]
    BY <2>1
  <2>2. Order!Fail(i)
    BY <2>1, RecordIsFail
  <2> QED
    BY <2>2 DEF Order!OrderNext, Order!AllIters, Iter
<1>6. CASE CommitRecordMisspec
  <2>1. /\ NextToCommit \in Iter /\ pcb.misIter = ITER_MAX
        /\ UNCHANGED tryq /\ checker'.arrived = checker.arrived
        /\ pcb' = [pcb EXCEPT !.misIter = NextToCommit]
    BY <1>1, <1>6, CommitTypes, OrderTypes DEF CommitRecordMisspec, MisspecInv, TypeOK
  <2> PICK i \in Iter : i = NextToCommit
    BY <2>1
  <2>2. Order!Fail(i)
    BY <2>1, RecordIsFail
  <2> QED
    BY <2>2 DEF Order!OrderNext, Order!AllIters, Iter
<1>7. ASSUME EndedIters' = EndedIters, ~BeginInvocation, ~Commit, ~CommitRecordMisspec,
             ~\E w \in Wid : RecordMisspec(w)
      PROVE  UNCHANGED Order!orderVars
  <2>1. NextToCommit' = NextToCommit /\ FailedIter' = FailedIter
    BY <1>1, <1>7, OrderQuiet
  <2> QED
    BY <1>7, <2>1 DEF Order!orderVars, FailedIter
<1> QED
  BY <1>1, <1>2, <1>3, <1>4, <1>5, <1>6, <1>7, EndedStep

LEMMA InitMaps == Init => Order!Init
<1>1. Init => EndedIters = {}
  BY DEF Init, EndedIters, EoiIters
<1> QED
  BY <1>1 DEF Init, NewPcb, NextToCommit, Order!Init, Order!NoIter

(* The pipeline implements PipelineOrder: whatever the queues, the gate    *)
(* and the checks do, iterations end in the order of the stages and are    *)
(* committed in the order of the loop, up to the one that misspeculated.   *)
THEOREM PipelineImplementsOrder == Spec => ImplementsOrder
<1>1. Init => Order!Init
  BY InitMaps
<1>2. OrderInv /\ OrderInv' /\ [Next]_vars => [Order!OrderNext]_(Order!orderVars)
  BY OrderStepMaps DEF OrderInv
<1> QED
  BY <1>1, <1>2, OrderInvariant, PTL DEF Spec, ImplementsOrder, Order!OrderSpec

=============================================================================
