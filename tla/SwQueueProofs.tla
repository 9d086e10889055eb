--------------------------- MODULE SwQueueProofs ---------------------------
(***************************************************************************)
(* Proofs about the software queue, for every ring size, every window that *)
(* fits into the ring and every set of packets.                            *)
(***************************************************************************)
EXTENDS SwQueue, SequenceTheorems, TLAPS

(* What the callers must keep to: no more packets in flight than the ring  *)
(* has slots, and __sw_queue_empty asked before __sw_queue_consume.        *)
CallersBehave == Window <= Slots /\ TestFirst

-----------------------------------------------------------------------------
(* Facts about the ring and the history the steps below rest on. *)

LEMMA SlotsPositive == Slots \in Nat \ {0}
  BY QueueAssumption DEF QueueAssumption, Slots

LEMMA AdvanceInRing ==
  ASSUME NEW s \in Slot
  PROVE  Advance(s) \in Slot
  BY SlotsPositive DEF Advance, Slot

LEMMA RestOfFifo ==
  ASSUME NEW s \in Seq(Packets), s # <<>>
  PROVE  /\ Rest(s) = Tail(s)
         /\ Rest(s) \in Seq(Packets)
         /\ Len(s) \in Nat \ {0}
         /\ Len(Rest(s)) = Len(s) - 1
         /\ \A i \in 1 .. Len(s) - 1 : Rest(s)[i] = s[i + 1]
         /\ s[1] \in Packets
         /\ Head(s) = s[1]
<1>1. Rest(s) = Tail(s)
  BY DEF Rest
<1>2. Len(s) \in Nat \ {0}
  BY EmptySeq
<1>3. QED
  BY <1>1, <1>2, HeadTailProperties, ElementOfSeq

LEMMA RestIsSeq ==
  ASSUME NEW s \in Seq(Packets)
  PROVE  Rest(s) \in Seq(Packets)
  BY HeadTailProperties DEF Rest

LEMMA AppendToFifo ==
  ASSUME NEW s \in Seq(Packets), NEW p \in Packets
  PROVE  /\ Append(s, p) \in Seq(Packets)
         /\ Len(s) \in Nat
         /\ Len(Append(s, p)) = Len(s) + 1
         /\ \A i \in 1 .. Len(s) : Append(s, p)[i] = s[i]
         /\ Append(s, p)[Len(s) + 1] = p
  OBVIOUS

-----------------------------------------------------------------------------
(* The ring, seen from the oldest packet. *)

LEMMA OldestInRing == TypeOK => Oldest \in Slot /\ Front \in Slot
  BY AdvanceInRing DEF TypeOK, Oldest, Front

LEMMA DistanceInRing ==
  ASSUME Oldest \in Slot
  PROVE  /\ \A s \in Slot : Distance(s) \in 0 .. Slots - 1
         /\ \A s, t \in Slot : Distance(s) = Distance(t) => s = t
         /\ Distance(Oldest) = 0
  BY SlotsPositive DEF Distance, Slot

LEMMA DistanceOfNext ==
  ASSUME Oldest \in Slot, NEW s \in Slot
  PROVE  Distance(Advance(s)) = IF Distance(s) + 1 = Slots
                                THEN 0 ELSE Distance(s) + 1
  BY SlotsPositive DEF Distance, Slot, Advance

(* When a packet is taken the ring is seen from the next slot: every slot  *)
(* comes one nearer and the slot of the packet taken becomes the farthest. *)
LEMMA DistanceAfterTake ==
  ASSUME Oldest \in Slot, Oldest' = Advance(Oldest), NEW s \in Slot
  PROVE  Distance(s)' = IF s = Oldest THEN Slots - 1 ELSE Distance(s) - 1
  BY SlotsPositive DEF Distance, Slot, Advance

LEMMA DistanceUnchanged ==
  ASSUME Oldest' = Oldest
  PROVE  \A s \in Slot : Distance(s)' = Distance(s)
  BY DEF Distance

-----------------------------------------------------------------------------
(* A store of the producer into the slot at head, which is free, does not  *)
(* touch a packet in flight.                                               *)
LEMMA HeadIsFree ==
  ASSUME RingInv, Len(fifo) < Slots, pp # "advance"
  PROVE  /\ Distance(head) = Len(fifo)
         /\ flag[head] = NULL
         /\ fifo # <<>> => head # Oldest
<1>1. Oldest \in Slot /\ head \in Slot
  BY OldestInRing DEF RingInv, TypeOK
<1>2. Distance(head) = Len(fifo)
  BY DEF RingInv, FrontFollowsFifo, Front
<1>3. Len(fifo) \in Nat /\ (fifo # <<>> => Len(fifo) # 0)
  BY EmptySeq DEF RingInv, TypeOK
<1>4. QED
  BY <1>1, <1>2, <1>3, DistanceInRing DEF RingInv, RingHoldsFifo

LEMMA ProduceValueStep ==
  ASSUME QueueAssumption, CallersBehave, RingInv, ProduceValue
  PROVE  RingInv'
<1> USE DEF RingInv
<1>1. PICK p \in Packets : val' = [val EXCEPT ![head] = p]
  BY DEF ProduceValue
<1>2. Len(fifo) < Slots /\ Len(fifo) \in Nat
  BY SlotsPositive DEF ProduceValue, CallersBehave, QueueAssumption, TypeOK
<1>3. Distance(head) = Len(fifo) /\ flag[head] = NULL
      /\ (fifo # <<>> => head # Oldest)
  BY <1>2, HeadIsFree DEF ProduceValue
<1>4. Oldest' = Oldest /\ Front' = Front
  BY DEF ProduceValue, Oldest, Front
<1>5. TypeOK'
  BY <1>1 DEF TypeOK, ProduceValue
<1>6. RingHoldsFifo'
  <2>1. SUFFICES ASSUME NEW s \in Slot
                 PROVE  IF Distance(s) < Len(fifo)
                        THEN /\ flag[s] # NULL
                             /\ \/ val'[s] = fifo[Distance(s) + 1]
                                \/ s = tail /\ Clearing
                        ELSE flag[s] = NULL
    BY <1>4, DistanceUnchanged DEF RingHoldsFifo, Clearing, ProduceValue
  <2>2. Distance(s) < Len(fifo) => s # head
    BY <1>2, <1>3
  <2>3. QED
    BY <1>1, <2>2 DEF RingHoldsFifo, TypeOK
<1>7. FrontFollowsFifo'
  BY <1>4, OldestInRing, DistanceUnchanged DEF FrontFollowsFifo, ProduceValue
<1>8. WithinWindow'
  BY <1>1 DEF WithinWindow, ProduceValue, TypeOK
<1>9. HoldsOldest'
  <2>1. Clearing => tail # head
    BY <1>3 DEF HoldsOldest, Oldest, Clearing
  <2>2. QED
    BY <1>1, <2>1 DEF HoldsOldest, Clearing, ProduceValue, TypeOK
<1>10. NeverTakesNull'
  BY DEF NeverTakesNull, ProduceValue
<1>11. QED
  BY <1>5, <1>6, <1>7, <1>8, <1>9, <1>10

LEMMA ProduceFlagStep ==
  ASSUME QueueAssumption, CallersBehave, RingInv, ProduceFlag
  PROVE  RingInv'
<1> USE DEF RingInv
<1>1. Len(fifo) < Slots /\ Len(fifo) < Window /\ val[head] \in Packets
  BY SlotsPositive DEF ProduceFlag, WithinWindow, CallersBehave, QueueAssumption, TypeOK
<1>2. /\ fifo' \in Seq(Packets)
      /\ Len(fifo) \in Nat
      /\ Len(fifo') = Len(fifo) + 1
      /\ \A i \in 1 .. Len(fifo) : fifo'[i] = fifo[i]
      /\ fifo'[Len(fifo) + 1] = val[head]
  BY <1>1, AppendToFifo DEF ProduceFlag, TypeOK
<1>3. Distance(head) = Len(fifo) /\ flag[head] = NULL
      /\ (fifo # <<>> => head # Oldest)
  BY <1>1, HeadIsFree DEF ProduceFlag
<1>4. Oldest' = Oldest /\ Front' = Advance(head)
  BY DEF ProduceFlag, Oldest, Front
<1>5. Oldest \in Slot /\ head \in Slot
  BY OldestInRing DEF TypeOK
<1>6. TypeOK'
  BY <1>2 DEF TypeOK, ProduceFlag
<1>7. RingHoldsFifo'
  <2>1. SUFFICES ASSUME NEW s \in Slot
                 PROVE  IF Distance(s) < Len(fifo')
                        THEN /\ flag'[s] # NULL
                             /\ \/ val[s] = fifo'[Distance(s) + 1]
                                \/ s = tail /\ Clearing
                        ELSE flag'[s] = NULL
    BY <1>4, DistanceUnchanged DEF RingHoldsFifo, Clearing, ProduceFlag
  <2>2. CASE s = head
    BY <2>2, <1>2, <1>3, <1>5 DEF ProduceFlag, TypeOK, QueueAssumption
  <2>3. CASE s # head
    <3>1. Distance(s) \in Nat /\ Distance(s) # Len(fifo)
      BY <2>3, <1>3, <1>5, DistanceInRing
    <3>2. flag'[s] = flag[s]
      BY <2>3 DEF ProduceFlag, TypeOK
    <3>3. Distance(s) < Len(fifo) =>
            fifo'[Distance(s) + 1] = fifo[Distance(s) + 1]
      BY <3>1, <1>2
    <3>4. QED
      BY <3>1, <3>2, <3>3, <1>2 DEF RingHoldsFifo
  <2>4. QED
    BY <2>2, <2>3
<1>8. FrontFollowsFifo'
  <2>1. Distance(Advance(head)) = IF Len(fifo) + 1 = Slots
                                  THEN 0 ELSE Len(fifo) + 1
    BY <1>3, <1>5, DistanceOfNext
  <2>2. Advance(head) \in Slot /\ Distance(Oldest) = 0
    BY <1>5, AdvanceInRing, DistanceInRing
  <2>3. Len(fifo') = Slots => Advance(head) = Oldest
    BY <2>1, <2>2, <1>2, <1>5, DistanceInRing
  <2>4. Distance(Advance(head))' = Distance(Advance(head))
    BY <1>4, <2>2, DistanceUnchanged DEF Distance, Advance, ProduceFlag
  <2>5. Distance(Front)' = Distance(Advance(head))
    BY <1>4 DEF Distance
  <2>6. QED
    BY <1>1, <1>2, <1>4, <2>1, <2>3, <2>5, SlotsPositive DEF FrontFollowsFifo
<1>9. WithinWindow'
  BY <1>1, <1>2 DEF WithinWindow, ProduceFlag, QueueAssumption
<1>10. HoldsOldest'
  BY <1>2, <1>5, EmptySeq DEF HoldsOldest, Clearing, ProduceFlag, TypeOK
<1>11. NeverTakesNull'
  BY DEF NeverTakesNull, ProduceFlag
<1>12. QED
  BY <1>6, <1>7, <1>8, <1>9, <1>10, <1>11

LEMMA ProduceAdvanceStep ==
  ASSUME RingInv, ProduceAdvance
  PROVE  RingInv'
<1> USE DEF RingInv
<1>1. Oldest' = Oldest /\ Front' = Front
  BY DEF ProduceAdvance, Oldest, Front, Advance
<1>2. TypeOK'
  BY AdvanceInRing DEF TypeOK, ProduceAdvance
<1>3. RingHoldsFifo'
  BY <1>1, DistanceUnchanged DEF RingHoldsFifo, Clearing, ProduceAdvance
<1>4. FrontFollowsFifo'
  BY <1>1, OldestInRing DEF FrontFollowsFifo, ProduceAdvance, Distance
<1>5. WithinWindow' /\ HoldsOldest' /\ NeverTakesNull'
  BY DEF WithinWindow, HoldsOldest, Clearing, NeverTakesNull, ProduceAdvance
<1>6. QED
  BY <1>2, <1>3, <1>4, <1>5

-----------------------------------------------------------------------------
(* The consumer's steps that neither free a slot nor move on leave the     *)
(* ring as it is seen from the oldest packet.                              *)

LEMMA RingUnchanged ==
  ASSUME RingInv, UNCHANGED <<flag, val, head, pp, fifo>>, Oldest' = Oldest,
         Clearing => Clearing' /\ tail' = tail
  PROVE  RingHoldsFifo' /\ FrontFollowsFifo' /\ WithinWindow'
<1> USE DEF RingInv
<1>1. Front' = Front
  BY DEF Front, Advance
<1>2. RingHoldsFifo'
  BY DistanceUnchanged DEF RingHoldsFifo, Clearing
<1>3. FrontFollowsFifo'
  BY <1>1 DEF FrontFollowsFifo, Distance
<1>4. WithinWindow'
  BY DEF WithinWindow
<1>5. QED
  BY <1>2, <1>3, <1>4

(* A flag that is set means there is a packet, and it is the oldest. *)
LEMMA FlagMeansPacket ==
  ASSUME RingInv, cp \in {"idle", "clear"}
  PROVE  IsEmpty <=> fifo = <<>>
<1> USE DEF RingInv
<1>1. Oldest = tail /\ tail \in Slot
  BY DEF Oldest, TypeOK
<1>2. Distance(tail) = 0
  BY <1>1, DistanceInRing
<1>3. Len(fifo) \in Nat /\ (Len(fifo) = 0 <=> fifo = <<>>)
  BY EmptySeq DEF TypeOK
<1>4. QED
  BY <1>1, <1>2, <1>3 DEF RingHoldsFifo, IsEmpty

LEMMA BeginConsumeStep ==
  ASSUME CallersBehave, RingInv, BeginConsume
  PROVE  RingInv'
<1> USE DEF RingInv
<1>1. fifo # <<>>
  BY FlagMeansPacket DEF BeginConsume, CallersBehave
<1>2. Oldest' = Oldest
  BY DEF BeginConsume, Oldest
<1>3. TypeOK' /\ HoldsOldest' /\ NeverTakesNull'
  BY <1>1 DEF TypeOK, BeginConsume, HoldsOldest, Clearing, NeverTakesNull
<1>4. QED
  BY <1>2, <1>3, RingUnchanged DEF BeginConsume, Clearing

LEMMA ConsumeReadStep ==
  ASSUME RingInv, ConsumeRead
  PROVE  RingInv'
<1> USE DEF RingInv
<1>1. Oldest' = Oldest /\ Oldest = tail /\ tail \in Slot
  BY DEF ConsumeRead, Oldest, TypeOK
<1>2. Distance(tail) = 0 /\ Len(fifo) > 0
  BY <1>1, DistanceInRing, EmptySeq DEF ConsumeRead, HoldsOldest, TypeOK
<1>3. val[tail] = fifo[1]
  BY <1>1, <1>2 DEF RingHoldsFifo, Clearing, ConsumeRead
<1>4. TypeOK' /\ HoldsOldest' /\ NeverTakesNull'
  BY <1>3 DEF TypeOK, ConsumeRead, HoldsOldest, Clearing, NeverTakesNull
<1>5. QED
  BY <1>1, <1>4, RingUnchanged DEF ConsumeRead, Clearing

(* The word that goes over the flag is the null that was stored before. *)
LEMMA ConsumeLoadWordStep ==
  ASSUME RingInv, ConsumeLoadWord
  PROVE  RingInv'
<1> USE DEF RingInv
<1>1. Oldest' = Oldest /\ tail \in Slot
  BY DEF ConsumeLoadWord, Oldest, TypeOK
<1>2. TypeOK' /\ HoldsOldest' /\ NeverTakesNull'
  BY <1>1 DEF TypeOK, ConsumeLoadWord, HoldsOldest, Clearing, NeverTakesNull
<1>3. QED
  BY <1>1, <1>2, RingUnchanged DEF ConsumeLoadWord, Clearing

LEMMA ConsumeClearValueStep ==
  ASSUME CallersBehave, QueueAssumption, RingInv, ConsumeClearValue
  PROVE  RingInv'
<1> USE DEF RingInv
<1>1. Oldest' = Oldest /\ Front' = Front
  BY DEF ConsumeClearValue, Oldest, Front, Advance
<1>2. /\ tail \in Slot /\ head \in Slot /\ fifo # <<>>
      /\ val' = [val EXCEPT ![tail] = NULL]
  BY DEF ConsumeClearValue, HoldsOldest, TypeOK
<1>3. TypeOK'
  BY DEF TypeOK, ConsumeClearValue
<1>4. RingHoldsFifo'
  <2>1. SUFFICES ASSUME NEW s \in Slot
                 PROVE  IF Distance(s) < Len(fifo)
                        THEN /\ flag[s] # NULL
                             /\ \/ val'[s] = fifo[Distance(s) + 1]
                                \/ s = tail
                        ELSE flag[s] = NULL
    BY <1>1, DistanceUnchanged DEF RingHoldsFifo, Clearing, ConsumeClearValue
  <2>2. QED
    BY <1>2 DEF RingHoldsFifo, Clearing, ConsumeClearValue, TypeOK
<1>5. FrontFollowsFifo'
  BY <1>1 DEF FrontFollowsFifo, Distance, ConsumeClearValue
<1>6. WithinWindow'
  <2>1. CASE pp = "publish"
    <3>1. Len(fifo) < Slots
      BY <2>1, SlotsPositive DEF WithinWindow, CallersBehave, TypeOK, QueueAssumption
    <3>2. head # tail
      BY <2>1, <3>1, <1>2, HeadIsFree DEF Oldest, ConsumeClearValue
    <3>3. QED
      BY <3>2, <1>2 DEF WithinWindow, ConsumeClearValue, TypeOK
  <2>2. CASE pp # "publish"
    BY <2>2 DEF WithinWindow, ConsumeClearValue
  <2>3. QED
    BY <2>1, <2>2
<1>7. HoldsOldest' /\ NeverTakesNull'
  BY <1>2 DEF HoldsOldest, Clearing, NeverTakesNull, ConsumeClearValue, TypeOK
<1>8. QED
  BY <1>3, <1>4, <1>5, <1>6, <1>7

-----------------------------------------------------------------------------
(* Freeing the oldest slot: the ring is seen from the next one. *)

LEMMA FreeOldest ==
  ASSUME QueueAssumption, CallersBehave, RingInv, fifo # <<>>,
         cp \in {"clear_flag", "clear"}, cp' \in {"advance", "clear_advance"},
         flag' = [flag EXCEPT ![tail] = NULL], fifo' = Rest(fifo),
         UNCHANGED <<val, head, tail, pp>>
  PROVE  RingHoldsFifo' /\ FrontFollowsFifo' /\ WithinWindow'
<1> USE DEF RingInv
<1>1. /\ Oldest = tail /\ Oldest' = Advance(tail) /\ Front' = Front
      /\ tail \in Slot /\ Front \in Slot
  BY OldestInRing DEF Oldest, Front, Advance, TypeOK
<1>2. /\ Len(fifo) \in Nat \ {0}
      /\ Len(fifo') = Len(fifo) - 1
      /\ \A i \in 1 .. Len(fifo) - 1 : fifo'[i] = fifo[i + 1]
  BY RestOfFifo DEF TypeOK
<1>3. \A s \in Slot :
        Distance(s)' = IF s = tail THEN Slots - 1 ELSE Distance(s) - 1
  BY <1>1, DistanceAfterTake
<1>4. \A s \in Slot : /\ Distance(s) \in 0 .. Slots - 1
                      /\ Distance(s) = 0 <=> s = tail
  BY <1>1, DistanceInRing
<1>5. Len(fifo) <= Slots
  BY SlotsPositive, <1>2 DEF WithinWindow, CallersBehave, QueueAssumption
<1>6. RingHoldsFifo'
  <2>1. SUFFICES ASSUME NEW s \in Slot
                 PROVE  IF Distance(s)' < Len(fifo')
                        THEN /\ flag'[s] # NULL
                             /\ val[s] = fifo'[Distance(s)' + 1]
                        ELSE flag'[s] = NULL
    BY DEF RingHoldsFifo, Clearing
  <2>2. CASE s = tail
    <3>1. flag'[s] = NULL
      BY <2>2, <1>1 DEF TypeOK
    <3>2. ~(Distance(s)' < Len(fifo'))
      BY <2>2, <1>1, <1>2, <1>3, <1>5, SlotsPositive
    <3>3. QED
      BY <3>1, <3>2
  <2>3. CASE s # tail
    <3>1. flag'[s] = flag[s]
      BY <2>3 DEF TypeOK
    <3>2. Distance(s)' = Distance(s) - 1 /\ Distance(s) \in Nat \ {0}
      BY <2>3, <1>3, <1>4
    <3>3. Distance(s) < Len(fifo) =>
            fifo'[Distance(s)' + 1] = fifo[Distance(s) + 1]
      BY <3>2, <1>2
    <3>4. QED
      BY <2>3, <3>1, <3>2, <3>3, <1>2 DEF RingHoldsFifo, Clearing
  <2>4. QED
    BY <2>2, <2>3
<1>7. FrontFollowsFifo'
  <2>1. Distance(Front)' = IF Front = tail THEN Slots - 1
                           ELSE Distance(Front) - 1
    BY <1>1, DistanceAfterTake DEF Distance
  <2>2. Len(fifo') < Slots
    BY <1>2, <1>5, SlotsPositive
  <2>3. CASE Len(fifo) < Slots
    BY <2>1, <2>2, <2>3, <1>1, <1>2, <1>4 DEF FrontFollowsFifo
  <2>4. CASE Len(fifo) = Slots
    BY <2>1, <2>2, <2>4, <1>1, <1>2, SlotsPositive DEF FrontFollowsFifo
  <2>5. QED
    BY <2>3, <2>4, <1>2, <1>5, SlotsPositive
<1>8. WithinWindow'
  BY <1>2 DEF WithinWindow, QueueAssumption
<1>9. QED
  BY <1>6, <1>7, <1>8

LEMMA ConsumeClearFlagStep ==
  ASSUME QueueAssumption, CallersBehave, RingInv, ConsumeClearFlag
  PROVE  RingInv'
<1> USE DEF RingInv
<1>1. fifo # <<>> /\ word = NULL /\ value = fifo[1]
  BY DEF ConsumeClearFlag, HoldsOldest, Clearing
<1>2. fifo' \in Seq(Packets) /\ fifo[1] \in Packets
  BY <1>1, RestOfFifo DEF ConsumeClearFlag, TypeOK
<1>3. RingHoldsFifo' /\ FrontFollowsFifo' /\ WithinWindow'
  BY <1>1, FreeOldest DEF ConsumeClearFlag
<1>4. TypeOK'
  BY <1>1, <1>2 DEF TypeOK, ConsumeClearFlag
<1>5. HoldsOldest' /\ NeverTakesNull'
  BY <1>1, <1>2 DEF HoldsOldest, Clearing, NeverTakesNull, ConsumeClearFlag
<1>6. QED
  BY <1>3, <1>4, <1>5

LEMMA ClearSlotStep ==
  ASSUME QueueAssumption, CallersBehave, RingInv, ClearSlot
  PROVE  RingInv'
<1> USE DEF RingInv
<1>1. fifo # <<>>
  BY FlagMeansPacket DEF ClearSlot
<1>2. RingHoldsFifo' /\ FrontFollowsFifo' /\ WithinWindow'
  BY <1>1, FreeOldest DEF ClearSlot
<1>3. TypeOK'
  BY RestIsSeq DEF TypeOK, ClearSlot
<1>4. HoldsOldest' /\ NeverTakesNull'
  BY DEF HoldsOldest, Clearing, NeverTakesNull, ClearSlot
<1>5. QED
  BY <1>2, <1>3, <1>4

(* Moving on, and the entry to and exit from a drain. *)
LEMMA OtherConsumerSteps ==
  ASSUME RingInv,
         ConsumeAdvance \/ ClearAdvance \/ BeginClear \/ EndClear
  PROVE  RingInv'
<1> USE DEF RingInv
<1>1. UNCHANGED <<flag, val, head, pp, value, word, fifo, got>>
  BY DEF ConsumeAdvance, ClearAdvance, BeginClear, EndClear
<1>2. Oldest' = Oldest /\ ~Clearing
  BY DEF Clearing, ConsumeAdvance, ClearAdvance, BeginClear, EndClear, Oldest, Advance
<1>3. TypeOK'
  BY AdvanceInRing
  DEF TypeOK, ConsumeAdvance, ClearAdvance, BeginClear, EndClear
<1>4. HoldsOldest' /\ NeverTakesNull'
  BY DEF HoldsOldest, Clearing, NeverTakesNull,
         ConsumeAdvance, ClearAdvance, BeginClear, EndClear
<1>5. QED
  BY <1>1, <1>2, <1>3, <1>4, RingUnchanged

-----------------------------------------------------------------------------
LEMMA InitEstablishesRingInv ==
  ASSUME QueueAssumption, Init
  PROVE  RingInv
<1>1. 0 \in Slot /\ fifo = <<>> /\ Len(fifo) = 0
  BY SlotsPositive DEF Init, Slot
<1>2. TypeOK
  BY <1>1, EmptySeq DEF Init, TypeOK
<1>3. Oldest = 0 /\ Front = 0 /\ \A s \in Slot : Distance(s) = s
  BY DEF Init, Oldest, Front, Distance, Slot
<1>4. RingHoldsFifo /\ FrontFollowsFifo
  BY <1>1, <1>3, SlotsPositive
  DEF RingHoldsFifo, Clearing, FrontFollowsFifo, Init, Slot
<1>5. WithinWindow /\ HoldsOldest /\ NeverTakesNull
  BY <1>1 DEF WithinWindow, HoldsOldest, Clearing, NeverTakesNull, Init, QueueAssumption
<1>6. QED
  BY <1>2, <1>4, <1>5 DEF RingInv

LEMMA NextKeepsRingInv ==
  ASSUME QueueAssumption, CallersBehave, RingInv, [Next]_vars
  PROVE  RingInv'
<1>1. CASE Producer
  BY <1>1, ProduceValueStep, ProduceFlagStep, ProduceAdvanceStep DEF Producer
<1>2. CASE Consumer
  BY <1>2, BeginConsumeStep, ConsumeReadStep, ConsumeClearValueStep,
     ConsumeLoadWordStep, ConsumeClearFlagStep, ClearSlotStep, OtherConsumerSteps DEF Consumer
<1>3. CASE UNCHANGED vars
  BY <1>3
  DEF vars, RingInv, TypeOK, RingHoldsFifo, FrontFollowsFifo, WithinWindow,
      HoldsOldest, Clearing, NeverTakesNull, Distance, Oldest, Front, Advance
<1>4. QED
  BY <1>1, <1>2, <1>3 DEF Next

(* Whatever the size of the ring, the packets in flight lie in it back to  *)
(* back in the order they were published and every other slot is free, for *)
(* callers that keep no more in flight than it has slots and test first.   *)
THEOREM RingInvariant ==
  ASSUME CallersBehave
  PROVE  Spec => []RingInv
<1>1. Init => RingInv
  BY QueueAssumption, InitEstablishesRingInv
<1>2. RingInv /\ [Next]_vars => RingInv'
  BY QueueAssumption, NextKeepsRingInv
<1>3. QED
  BY <1>1, <1>2, PTL DEF Spec

(* Every word of the ring and both pointers keep their types: nothing but  *)
(* a packet is ever published, so the consumer that copies the value word  *)
(* over the flag frees the slot. *)
THEOREM QueueTypesKept ==
  ASSUME CallersBehave
  PROVE  Spec => []TypeOK
<1>1. RingInv => TypeOK
  BY DEF RingInv
<1>2. QED
  BY <1>1, RingInvariant, PTL

(* __sw_queue_produce, which looks at no flag, never destroys a packet     *)
(* that has not been taken.                                                *)
THEOREM NeverOverwritten ==
  ASSUME CallersBehave
  PROVE  Spec => []NeverOverwrites
<1>1. RingInv => NeverOverwrites
  <2>1. SUFFICES ASSUME RingInv, pp = "idle", Len(fifo) < Window
                 PROVE  flag[head] = NULL
    BY DEF NeverOverwrites
  <2>2. Len(fifo) \in Nat
    BY <2>1, EmptySeq DEF RingInv, TypeOK
  <2>3. Len(fifo) < Slots
    BY <2>1, <2>2, SlotsPositive, QueueAssumption DEF CallersBehave, QueueAssumption
  <2>4. QED
    BY <2>1, <2>3, HeadIsFree
<1>2. QED
  BY <1>1, RingInvariant, PTL

(* __sw_queue_empty answers 1 exactly when no published packet is left.    *)
THEOREM EmptyTestExact ==
  ASSUME CallersBehave
  PROVE  Spec => []EmptyIsExact
<1>1. RingInv => EmptyIsExact
  BY FlagMeansPacket DEF EmptyIsExact
<1>2. QED
  BY <1>1, RingInvariant, PTL

-----------------------------------------------------------------------------
(* Every step of the ring is a step of the abstract queue or invisible. *)
LEMMA StepImplementsFifo ==
  ASSUME QueueAssumption, CallersBehave, RingInv, [Next]_vars
  PROVE  [Fifo!Next]_(Fifo!vars)
<1> USE DEF RingInv
<1>1. CASE ProduceFlag
  <2>1. Len(fifo) < Window /\ val[head] \in Packets
    BY <1>1 DEF ProduceFlag, WithinWindow
  <2>2. Fifo!Put
    BY <1>1, <2>1 DEF ProduceFlag, Fifo!Put
  <2>3. QED
    BY <2>2 DEF Fifo!Next
<1>2. CASE ConsumeClearFlag
  <2>1. fifo # <<>> /\ value = fifo[1]
    BY <1>2 DEF ConsumeClearFlag, HoldsOldest, Clearing
  <2>2. Rest(fifo) = Tail(fifo) /\ Head(fifo) = fifo[1]
    BY <2>1, RestOfFifo DEF TypeOK
  <2>3. Fifo!Take
    BY <1>2, <2>1, <2>2 DEF ConsumeClearFlag, Fifo!Take
  <2>4. QED
    BY <2>3 DEF Fifo!Next
<1>3. CASE ClearSlot
  <2>1. fifo # <<>>
    BY <1>3, FlagMeansPacket DEF ClearSlot
  <2>2. Fifo!Drop
    BY <1>3, <2>1, RestOfFifo DEF ClearSlot, Fifo!Drop, TypeOK
  <2>3. QED
    BY <2>2 DEF Fifo!Next
<1>4. CASE \/ ProduceValue \/ ProduceAdvance \/ BeginConsume \/ ConsumeRead
           \/ ConsumeClearValue \/ ConsumeLoadWord \/ ConsumeAdvance \/ BeginClear
           \/ ClearAdvance \/ EndClear \/ UNCHANGED vars
  <2>1. UNCHANGED <<fifo, got>>
    BY <1>4
    DEF ProduceValue, ProduceAdvance, BeginConsume, ConsumeRead,
        ConsumeClearValue, ConsumeLoadWord, ConsumeAdvance, BeginClear,
        ClearAdvance, EndClear, vars
  <2>2. QED
    BY <2>1 DEF Fifo!vars
<1>5. QED
  BY <1>1, <1>2, <1>3, <1>4 DEF Next, Producer, Consumer

(* The ring of flags with its lock-free producer and consumer implements   *)
(* the first-in first-out queue, for every ring size.                      *)
THEOREM RingImplementsFifo ==
  ASSUME CallersBehave
  PROVE  Spec => ImplementsFifo
<1>1. Init => Fifo!Init
  BY DEF Init, Fifo!Init
<1>2. RingInv /\ [Next]_vars => [Fifo!Next]_(Fifo!vars)
  BY QueueAssumption, StepImplementsFifo
<1>3. QED
  BY <1>1, <1>2, RingInvariant, PTL DEF Spec, ImplementsFifo, Fifo!Spec
=============================================================================
