----------------------------- MODULE TallyProofs -----------------------------
(***************************************************************************)
(* The tallies of simplified_translation/ for every number of processes,   *)
(* heaps and packets, every capacity that is an int and any ints in the    *)
(* memory in front of the array, with subtraction that wraps.              *)
(***************************************************************************)
EXTENDS TallyLoop, FiniteSetTheorems, NaturalsInduction, WellFoundedInduction, TLAPS

(* The constants computed from the parameters *)
LEMMA Sizes ==
  /\ AllWorkers \in Nat \ {0} /\ NumAux \in Nat \ {0} /\ PerHeap \in Nat \ {0}
  /\ NumWorkers \in Nat \ {0} /\ NumHeaps \in Nat
  /\ 0 \in Wid /\ Wid \subseteq Row /\ 0 \in Aux
  /\ Capacity \in Nat /\ Capacity >= 2 /\ Packets \in Nat
  /\ IntMax \in Nat /\ Capacity <= IntMax
BY TallyAssumption DEF TallyAssumption, NumWorkers, Wid, Row, Aux

LEMMA Quotient ==
  ASSUME NEW a \in Nat, NEW b \in Nat \ {0}
  PROVE  a \div b \in Nat /\ a \div b <= a
OBVIOUS

LEMMA Counts ==
  /\ WorkersOverPerHeap \in Nat \ {0}
  /\ NumIters \in Nat /\ Jump \in Nat
<1>1. NumAux \div PerHeap \in Nat /\ NumAux \div PerHeap <= NumAux
  BY Sizes, Quotient
<1>2. WorkersOverPerHeap \in Nat \ {0}
  BY <1>1, Sizes, TallyAssumption DEF WorkersOverPerHeap, TallyAssumption
<1>3. NumHeaps \div WorkersOverPerHeap \in Nat
  BY <1>2, Sizes, Quotient
<1> QED
  BY <1>2, <1>3, Sizes DEF NumIters, Jump, NumStages

(* x % NUM_WORKERS is a row of the array or in front of it. *)
LEMMA RowOf ==
  ASSUME NEW x \in Nat
  PROVE  ModNumWorkers(x) \in Row
<1>1. x % AllWorkers \in 0 .. AllWorkers - 1
  BY Sizes
<1> QED
  BY <1>1, Sizes DEF ModNumWorkers, Row, NumWorkers

(* The first tally with room *)
LEMMA LessIsWellFounded ==
  IsWellFoundedOn({ss \in Nat \X Nat : ss[1] < ss[2]}, Nat)
BY NatLessThanWellFounded, Zenon DEF OpToRel

LEMMA Least ==
  ASSUME NEW S, S \subseteq Nat, S # {}
  PROVE  Min(S) \in S
<1> PICK R : R = {ss \in Nat \X Nat : ss[1] < ss[2]}
  OBVIOUS
<1>1. \E x \in S : \A y \in S : ~(<<y, x>> \in R)
  BY LessIsWellFounded, WFMin
<1> PICK x \in S : \A y \in S : ~(<<y, x>> \in R)
  BY <1>1
<1>2. ASSUME NEW y \in S PROVE x <= y
  <2>1. x \in Nat /\ y \in Nat
    OBVIOUS
  <2>2. y < x => <<y, x>> \in R
    BY <2>1
  <2> QED
    BY <2>1, <2>2
<1> QED
  BY <1>2 DEF Min

(* One more packet, in whatever tally, leaves the tallies in any range     *)
(* that reaches from zero or below to the capacity or above.               *)
LEMMA AddKeeps ==
  ASSUME NEW D, D \subseteq Nat, 0 \in D, NEW lo \in Int, NEW hi \in Int,
         lo <= 0, Capacity <= hi, NEW f \in [D -> lo .. hi]
  PROVE  AddPacket(f) \in [D -> lo .. hi]
<1> PICK room : room = {k \in D : f[k] < Capacity}
  OBVIOUS
<1>1. AddPacket(f) = IF room = {} THEN [f EXCEPT ![0] = @ - 2 + 1]
                     ELSE [f EXCEPT ![Min(room)] = @ + 1]
  BY DEF AddPacket, HasRoom
<1>2. CASE room = {}
  <2>1. f[0] \in lo .. hi /\ f[0] >= Capacity
    BY <1>2, Sizes
  <2>2. f[0] - 2 + 1 \in lo .. hi
    BY <2>1, Sizes
  <2> QED
    BY <1>1, <1>2, <2>2
<1>3. CASE room # {}
  <2>1. Min(room) \in room
    BY <1>3, Least
  <2> PICK m \in D : m = Min(room)
    BY <2>1
  <2>2. f[m] \in lo .. hi /\ f[m] < Capacity
    BY <2>1
  <2>3. f[m] + 1 \in lo .. hi
    BY <2>2, Sizes
  <2> QED
    BY <1>1, <1>3, <2>3
<1> QED
  BY <1>2, <1>3

LEMMA AddKeepsTallies ==
  ASSUME NEW D, D \subseteq Nat, 0 \in D, NEW f \in [D -> 0 .. Capacity]
  PROVE  AddPacket(f) \in [D -> 0 .. Capacity]
<1>1. 0 \in Int /\ Capacity \in Int /\ 0 <= 0 /\ Capacity <= Capacity
  BY Sizes
<1> QED
  BY <1>1, AddKeeps, Zenon

LEMMA AddKeepsInts ==
  ASSUME NEW D, D \subseteq Nat, 0 \in D, NEW f \in [D -> CInt]
  PROVE  AddPacket(f) \in [D -> CInt]
<1> PICK lo \in Int : lo = (0 - IntMax) - 1
  BY Sizes
<1>1. lo <= 0 /\ IntMax \in Int /\ Capacity <= IntMax
  BY Sizes
<1>2. CInt = lo .. IntMax
  BY DEF CInt
<1> QED
  BY <1>1, <1>2, AddKeeps, Zenon

(* The sizes in use stay within the arrays. *)
LEMMA InRangeBounds ==
  ASSUME NEW n \in Nat, NEW max \in Nat \ {0}
  PROVE  InRange(n, max) \in 1 .. max
BY DEF InRange

LEMMA NonZeroIsCount ==
  ASSUME NEW buf, NEW m \in Nat, NEW n \in Nat
  PROVE  NonZero(buf, m, n) \in Nat
<1>0. 0 \in Int /\ m - 1 \in Int /\ n - 1 \in Int
  OBVIOUS
<1>a. IsFiniteSet(0 .. m - 1)
  BY <1>0, FS_Interval
<1>b. IsFiniteSet(0 .. n - 1)
  BY <1>0, FS_Interval
<1>1. IsFiniteSet((0 .. m - 1) \X (0 .. n - 1))
  BY <1>a, <1>b, FS_Product
<1>2. IsFiniteSet({x \in (0 .. m - 1) \X (0 .. n - 1) : buf[x[1]][x[2]] # 0})
  BY <1>1, FS_Subset
<1> QED
  BY <1>2, FS_CardinalityType DEF NonZero

LEMMA UpdatedIsBuffer ==
  ASSUME NEW buf \in [Load -> [Context -> 0 .. 7]], NEW by \in [Load -> [Context -> Nat]]
  PROVE  Updated(buf, by) \in [Load -> [Context -> 0 .. 7]]
<1>1. \A a \in 0 .. 7, n \in Nat : (a + n) % 8 \in 0 .. 7
  OBVIOUS
<1>2. \A l \in Load, c \in Context : buf[l][c] \in 0 .. 7 /\ by[l][c] \in Nat
  OBVIOUS
<1> QED
  BY <1>1, <1>2 DEF Updated

-----------------------------------------------------------------------------
(* While the program runs its worker is one there is, and inside of an     *)
(* iteration that is one of the loop; then the types, the range of the     *)
(* tallies and the second packet need no more.                             *)
Running == pc \in {"begin", "second", "wait", "end", "forward"}
TallyInv ==
  /\ TypeOK
  /\ pc # "ended" => w \in Wid
  /\ Running => iter < NumIters
  /\ SecondPacketThere
  /\ TalliesInRange

LEMMA SourceIsRow ==
  ASSUME TallyInv
  PROVE  Source \in Row
<1>1. w + i \in Nat
  BY Sizes DEF TallyInv, TypeOK
<1> QED
  BY <1>1, RowOf DEF Source

LEMMA TallyInit == Init => TallyInv
<1> SUFFICES ASSUME Init PROVE TallyInv
  OBVIOUS
<1> USE Sizes, Counts
<1> PICK front \in [Row \ Wid -> [Wid -> InFront]] :
      ucvf = [r \in Row |-> IF r \in Wid THEN [v \in Wid |-> 0] ELSE front[r]]
  BY DEF Init
<1>1. ASSUME NEW r \in Row
      PROVE  (IF r \in Wid THEN [v \in Wid |-> 0] ELSE front[r]) \in [Wid -> CInt]
  <2>1. CASE r \in Wid
    <3>1. 0 \in CInt
      BY DEF CInt
    <3> QED
      BY <2>1, <3>1
  <2>2. CASE r \notin Wid
    <3>1. front[r] \in [Wid -> InFront]
      BY <2>2
    <3>2. InFront \subseteq CInt
      BY TallyAssumption DEF TallyAssumption
    <3> QED
      BY <2>2, <3>1, <3>2
  <2> QED
    BY <2>1, <2>2
<1>2. ucvf \in [Row -> [Wid -> CInt]]
  BY <1>1
<1>3. \A r, v \in Wid : ucvf[r][v] = 0
  BY Sizes
<1>4. NumHeaps \div 4 \in Nat
  BY Quotient
<1>a. MaxLoads \in 1 .. MaxLoads /\ MaxContexts \in 1 .. MaxContexts
  BY TallyAssumption DEF TallyAssumption
<1>b. Zero \in [Load -> [Context -> 0 .. 7]]
  BY DEF Zero
<1>c. 0 \in 0 .. NumWorkers /\ 0 \in 0 .. NumIters /\ 0 \in 0 .. Packets
  OBVIOUS
<1>d. /\ queues \in [Wid -> [Aux -> Int]]
      /\ commit \in [Aux -> Nat] /\ reverse \in [Wid -> Nat]
  BY DEF Init
<1>5. TypeOK
  BY <1>2, <1>4, <1>a, <1>b, <1>c, <1>d DEF Init, TypeOK
<1>6. TalliesInRange
  BY <1>3 DEF Init, TalliesInRange
<1> QED
  BY <1>5, <1>6 DEF TallyInv, Init, SecondPacketThere, Running

(* A tally one packet is taken from stays an int, brings begin_iter one    *)
(* turn nearer to zero, and is one less if it counts packets.              *)
LEMMA ConsumedInt ==
  ASSUME NEW t \in CInt, t # 0
  PROVE  /\ Consumed(t) \in CInt
         /\ Takes(t) \in Nat /\ Takes(Consumed(t)) \in Nat
         /\ Takes(Consumed(t)) < Takes(t)
         /\ t > 0 => Consumed(t) = t - 1
BY Sizes DEF Consumed, CInt, Takes

LEMMA TakeKeeps ==
  ASSUME TallyInv, Take, w \in Wid, ucvf[Source][w] # 0
  PROVE  /\ ucvf' \in [Row -> [Wid -> CInt]]
         /\ ucvf'[Source][w] = Consumed(ucvf[Source][w])
         /\ \A r, v \in Wid : ucvf'[r][v] \in 0 .. Capacity
<1> PICK s \in Row : s = Source
  BY SourceIsRow
<1>1. /\ ucvf \in [Row -> [Wid -> CInt]] /\ ucvf[s][w] \in CInt /\ ucvf[s][w] # 0
      /\ \A r, v \in Wid : ucvf[r][v] \in 0 .. Capacity
  BY DEF TallyInv, TypeOK, TalliesInRange
<1> PICK c \in CInt : c = Consumed(ucvf[s][w])
  BY <1>1, ConsumedInt
<1>2. ucvf' = [ucvf EXCEPT ![s][w] = c]
  BY DEF Take
<1>3. ucvf' \in [Row -> [Wid -> CInt]] /\ ucvf'[s][w] = c
  BY <1>1, <1>2
<1>4. \A r \in Row, v \in Wid : ucvf'[r][v] = ucvf[r][v] \/ (r = s /\ v = w)
  BY <1>1, <1>2
<1>5. ASSUME NEW r \in Wid, NEW v \in Wid PROVE ucvf'[r][v] \in 0 .. Capacity
  <2>1. r \in Row
    BY Sizes
  <2>2. CASE ucvf'[r][v] = ucvf[r][v]
    BY <1>1, <2>2
  <2>3. CASE r = s /\ v = w
    <3>1. ucvf[s][w] \in 0 .. Capacity
      BY <1>1, <2>3
    <3>2. c = ucvf[s][w] - 1
      BY <1>1, <3>1, ConsumedInt, Sizes
    <3> QED
      <4> PICK t \in 0 .. Capacity : t = ucvf[s][w]
        BY <3>1
      <4>a. t # 0 /\ c = t - 1
        BY <1>1, <3>2
      <4>1. c \in 0 .. Capacity
        BY <4>a, Sizes
      <4> QED
        BY <1>3, <2>3, <4>1
  <2> QED
    BY <1>4, <2>1, <2>2, <2>3
<1> QED
  BY <1>3, <1>5

(* A step that leaves the tallies and buffers alone and moves to a worker, *)
(* or an iteration, there is.                                              *)
LEMMA MoveKeeps ==
  ASSUME TallyInv, UNCHANGED <<tallies, ro, buffers>>,
         pc' \in {"iter", "begin", "ended"},
         w' \in 0 .. NumWorkers, pc' # "ended" => w' \in Wid,
         iter' \in 0 .. NumIters, Running' => iter' < NumIters, stage' \in Nat, mine' \in BOOLEAN,
         i' \in Nat, left' \in 0 .. Packets
  PROVE  TallyInv'
<1>1. TypeOK'
  BY DEF TallyInv, TypeOK, tallies, buffers
<1>2. TalliesInRange'
  BY DEF TallyInv, TalliesInRange, tallies
<1> QED
  BY <1>1, <1>2 DEF TallyInv, SecondPacketThere

(* The kind of a tally says that there is a packet, and that there are two.*)
LEMMA KindCounts ==
  ASSUME NEW t \in CInt
  PROVE  /\ Kind(t) # "DONE" => t # 0
         /\ Kind(t) \in {"SUPER", "NORMAL"} => Consumed(t) # 0
<1>1. t \in Int /\ IntMax # 0
  BY Sizes DEF CInt
<1>2. Kind(t) # "DONE" => t # 0
  BY DEF Kind
<1>3. Kind(t) \in {"SUPER", "NORMAL"} => t % 4 = 0 \/ t % 4 = 2
  BY DEF Kind
<1>4. t % 4 = 0 \/ t % 4 = 2 => t # 1
  OBVIOUS
<1>5. t # 0 /\ t # 1 => Consumed(t) # 0
  BY <1>1 DEF Consumed
<1> QED
  BY <1>2, <1>3, <1>4, <1>5

LEMMA TakingCounts ==
  ASSUME TallyInv, NEW kind \in {"SUPER", "NORMAL", "ALLOC"}, Taking(kind)
  PROVE  /\ w \in Wid /\ ucvf[Source][w] # 0
         /\ kind # "ALLOC" => Consumed(ucvf[Source][w]) # 0
<1>1. w \in Wid
  BY DEF TallyInv, Taking
<1>2. ucvf[Source][w] \in CInt
  BY <1>1, SourceIsRow DEF TallyInv, TypeOK
<1>3. Kind(ucvf[Source][w]) = kind
  BY DEF Taking
<1> QED
  BY <1>1, <1>2, <1>3, KindCounts

-----------------------------------------------------------------------------
(* One case for each action. *)
LEMMA TallyStep == TallyInv /\ [Next]_vars => TallyInv'
<1> SUFFICES ASSUME TallyInv, [Next]_vars PROVE TallyInv'
  OBVIOUS
<1> USE Sizes, Counts
<1>t. TypeOK /\ TalliesInRange
  BY DEF TallyInv
<1>1. CASE NextWorker
  <2>1. w \in Wid /\ w + 1 \in 0 .. NumWorkers /\ (w + 1) % PerHeap \in Nat
    BY <1>1 DEF NextWorker, TallyInv, Wid
  <2>2. w + 1 < NumWorkers => w + 1 \in Wid
    BY <2>1 DEF Wid
  <2>3. /\ pc' \in {"iter", "ended"} /\ (pc' # "ended" => w' \in Wid)
        /\ w' = w + 1 /\ iter' = 0 /\ stage' = (w + 1) % PerHeap /\ mine' = FALSE
        /\ i' = i /\ left' = left /\ UNCHANGED <<tallies, ro, buffers>>
    BY <1>1, <2>2 DEF NextWorker
  <2>4. i \in Nat /\ left \in 0 .. Packets
    BY <1>t DEF TypeOK
  <2> QED
    <3>1. ~ Running'
      BY <2>3 DEF Running
    <3>2. /\ w' \in 0 .. NumWorkers /\ iter' \in 0 .. NumIters /\ stage' \in Nat
          /\ mine' \in BOOLEAN /\ i' \in Nat /\ left' \in 0 .. Packets
      <4>1. 0 \in 0 .. NumIters
        OBVIOUS
      <4> HIDE Sizes, Counts
      <4> QED
        BY <2>1, <2>3, <2>4, <4>1
    <3>3. pc' \in {"iter", "begin", "ended"} /\ (pc' # "ended" => w' \in Wid)
          /\ UNCHANGED <<tallies, ro, buffers>>
      BY <2>3
    <3> QED
      BY <3>1, <3>2, <3>3, MoveKeeps
<1>2. CASE NextIter
  <2>1. stage' \in Nat
    BY <1>2, <1>t DEF NextIter, TypeOK
  <2>2. w \in Wid /\ mine' \in BOOLEAN
    BY <1>2, <1>t, Zenon DEF NextIter, TypeOK, TallyInv
  <2> QED
    BY <1>2, <1>t, <2>1, <2>2, MoveKeeps DEF NextIter, TypeOK
<1>3. CASE EndIter
  <2>1. w \in Wid /\ iter < NumIters
    BY <1>3 DEF EndIter, TallyInv, Running
  <2> QED
    BY <1>3, <1>t, <2>1, MoveKeeps DEF EndIter, TypeOK, Running
<1>4. CASE TakeNormal
  <2>1. w \in Wid /\ ucvf[Source][w] # 0 /\ Consumed(ucvf[Source][w]) # 0
    BY <1>4, TakingCounts DEF TakeNormal
  <2> QED
    BY <1>4, <1>t, <2>1, TakeKeeps
       DEF TakeNormal, Taking, TypeOK, TallyInv, SecondPacketThere, TalliesInRange,
           Running, Source, driver, buffers
<1>5. CASE TakeRoPage
  <2>1. w \in Wid /\ ucvf[Source][w] # 0 /\ ro - 1 \in Nat
    BY <1>5, <1>t, TakingCounts DEF TakeRoPage, TypeOK
  <2> QED
    BY <1>5, <1>t, <2>1, TakeKeeps
       DEF TakeRoPage, Taking, TypeOK, TallyInv, SecondPacketThere, TalliesInRange,
           Running, driver, buffers
<1>6. CASE TakeSuper
  <2>1. w \in Wid /\ ucvf[Source][w] # 0 /\ Consumed(ucvf[Source][w]) # 0
    BY <1>6, TakingCounts DEF TakeSuper
  <2> QED
    BY <1>6, <1>t, <2>1, TakeKeeps
       DEF TakeSuper, Taking, TypeOK, TallyInv, SecondPacketThere, TalliesInRange,
           Running, Source, driver, buffers
<1>7. CASE TakeSecond
  <2>1. w \in Wid /\ ucvf[Source][w] # 0
    BY <1>7 DEF TakeSecond, TallyInv, SecondPacketThere
  <2> QED
    BY <1>7, <1>t, <2>1, TakeKeeps
       DEF TakeSecond, TypeOK, TallyInv, SecondPacketThere, TalliesInRange,
           Running, driver, buffers
<1>8. CASE TakeAlloc
  <2>1. w \in Wid /\ ucvf[Source][w] # 0
    BY <1>8, TakingCounts DEF TakeAlloc
  <2> QED
    BY <1>8, <1>t, <2>1, TakeKeeps
       DEF TakeAlloc, Taking, TypeOK, TallyInv, SecondPacketThere, TalliesInRange,
           Running, driver, buffers
<1>9. CASE TakeDone
  BY <1>9, <1>t
     DEF TakeDone, Taking, TypeOK, TallyInv, SecondPacketThere, TalliesInRange,
         Running, driver, tallies, buffers
<1>10. CASE Predict
  <2>1. /\ inv' \in [Load -> [Context -> 0 .. 7]] /\ lin' \in [Load -> [Context -> 0 .. 7]]
        /\ queues' \in [Wid -> [Aux -> Int]]
    <3>1. OwnLoad \in [Load -> [Context -> Nat]] /\ OwnContext \in [Load -> [Context -> Nat]]
      BY DEF OwnLoad, OwnContext, Load, Context
    <3>2. Updated(inv, OwnLoad) \in [Load -> [Context -> 0 .. 7]]
      BY <1>t, <3>1, UpdatedIsBuffer DEF TypeOK
    <3>3. Updated(lin, OwnContext) \in [Load -> [Context -> 0 .. 7]]
      BY <1>t, <3>1, UpdatedIsBuffer DEF TypeOK
    <3> PICK row : row = [a \in Aux |-> queues[w][a] + 1]
      OBVIOUS
    <3>w. w \in Wid /\ queues \in [Wid -> [Aux -> Int]]
      BY <1>10, <1>t DEF Predict, TypeOK, TallyInv
    <3>r. row \in [Aux -> Int]
      BY <3>w
    <3>4. [queues EXCEPT ![w] = [a \in Aux |-> @[a] + 1]] \in [Wid -> [Aux -> Int]]
      BY <3>w, <3>r
    <3> QED
      BY <1>10, <1>t, <3>2, <3>3, <3>4 DEF Predict, TypeOK
  <2> QED
    BY <1>10, <1>t, <2>1
       DEF Predict, TypeOK, TallyInv, SecondPacketThere, TalliesInRange, Running, driver
<1>11. CASE BusyWait
  BY <1>11, <1>t
     DEF BusyWait, TypeOK, TallyInv, SecondPacketThere, TalliesInRange, Running, driver, buffers
<1>12. CASE UpdateShadow
  <2>1. loads' \in 1 .. MaxLoads /\ contexts' \in 1 .. MaxContexts
    <3>1. loads \in Nat /\ contexts \in Nat
      BY <1>t, TallyAssumption DEF TypeOK, TallyAssumption
    <3>2. InRange(NonZero(inv, loads, contexts), MaxLoads) \in 1 .. MaxLoads
      BY <3>1, NonZeroIsCount, InRangeBounds, TallyAssumption DEF TallyAssumption
    <3>3. CASE IsMyIter
      <4>1. loads' \in 1 .. MaxLoads
            /\ contexts' = InRange(NonZero(lin, loads', contexts), MaxContexts)
        BY <1>12, <3>2, <3>3 DEF UpdateShadow
      <4>2. loads' \in Nat
        BY <4>1, TallyAssumption DEF TallyAssumption
      <4>3. NonZero(lin, loads', contexts) \in Nat
        BY <3>1, <4>2, NonZeroIsCount
      <4> QED
        BY <4>1, <4>3, InRangeBounds, TallyAssumption DEF TallyAssumption
    <3>4. CASE ~IsMyIter
      BY <1>12, <1>t, <3>4 DEF UpdateShadow, TypeOK
    <3> QED
      BY <3>3, <3>4
  <2>2. left' \in 0 .. Packets /\ i' \in Nat
    BY <1>12, <1>t DEF UpdateShadow, EndStage, TypeOK
  <2> QED
    BY <1>12, <1>t, <2>1, <2>2
       DEF UpdateShadow, TypeOK, TallyInv, SecondPacketThere, TalliesInRange,
           Running, driver, tallies
<1>13. CASE ForwardToCommit
  <2>1. 0 \in Aux /\ Aux \subseteq Nat /\ commit \in [Aux -> 0 .. Capacity]
    BY <1>t DEF TypeOK, TalliesInRange, Aux
  <2>2. commit' \in [Aux -> 0 .. Capacity]
    BY <1>13, <2>1, AddKeepsTallies DEF ForwardToCommit
  <2>3. commit' \in [Aux -> Nat] /\ \A a \in Aux : commit'[a] \in 0 .. Capacity
    BY <2>2
  <2> QED
    BY <1>13, <1>t, <2>2, <2>3
       DEF ForwardToCommit, TypeOK, TallyInv, SecondPacketThere, TalliesInRange,
           Running, driver, buffers
<1>14. CASE ForwardToStage
  <2> PICK s \in Row : s = Source
    BY SourceIsRow
  <2>1. 0 \in Wid /\ Wid \subseteq Nat /\ ucvf[s] \in [Wid -> CInt]
    BY <1>t DEF TypeOK, Wid
  <2>2. AddPacket(ucvf[s]) \in [Wid -> CInt]
    BY <2>1, AddKeepsInts, Zenon
  <2>3. ucvf' = [ucvf EXCEPT ![s] = AddPacket(ucvf[s])] /\ ucvf \in [Row -> [Wid -> CInt]]
    BY <1>14, <1>t DEF ForwardToStage, TypeOK
  <2>4. ucvf' \in [Row -> [Wid -> CInt]]
    BY <2>2, <2>3
  <2>5. ASSUME NEW r \in Wid, NEW v \in Wid PROVE ucvf'[r][v] \in 0 .. Capacity
    <3>1. r \in Row /\ \A u \in Wid : ucvf[r][u] \in 0 .. Capacity
      BY <1>t DEF TalliesInRange
    <3>2. CASE r # s
      BY <2>3, <3>1, <3>2
    <3>3. CASE r = s
      <4>1. ucvf[s] \in [Wid -> 0 .. Capacity]
        BY <2>1, <3>1, <3>3
      <4>2. ucvf'[r] = AddPacket(ucvf[s])
        BY <2>3, <3>1, <3>3
      <4>3. AddPacket(ucvf[s]) \in [Wid -> 0 .. Capacity]
        BY <2>1, <4>1, AddKeepsTallies, Zenon
      <4> QED
        BY <4>2, <4>3
    <3> QED
      BY <3>2, <3>3
  <2> QED
    BY <1>14, <1>t, <2>4, <2>5
       DEF ForwardToStage, TypeOK, TallyInv, SecondPacketThere, TalliesInRange,
           Running, driver, buffers
<1>15. CASE ForwardToAux
  <2>1. left > 0 /\ left \in 0 .. Packets /\ left' = left - 1 /\ i' = iter + 1 /\ iter \in Nat
    BY <1>15, <1>t DEF ForwardToAux, EndStage, TypeOK
  <2>2. left' \in 0 .. Packets /\ i' \in Nat
    BY <2>1
  <2>3. queues' \in [Wid -> [Aux -> Int]]
    <3>1. w \in Wid /\ queues \in [Wid -> [Aux -> Int]] /\ 0 \in Aux
      BY <1>15, <1>t DEF ForwardToAux, TypeOK, TallyInv
    <3>2. queues[w] \in [Aux -> Int] /\ queues[w][0] - 2 + 1 \in Int
      BY <3>1
    <3> PICK row : row = [queues[w] EXCEPT ![0] = queues[w][0] - 2 + 1]
      OBVIOUS
    <3>3. row \in [Aux -> Int]
      BY <3>1, <3>2
    <3>4. queues' = [queues EXCEPT ![w] = row]
      BY <1>15, <3>1 DEF ForwardToAux
    <3> QED
      BY <3>1, <3>3, <3>4
  <2> QED
    BY <1>15, <1>t, <2>2, <2>3
       DEF ForwardToAux, TypeOK, TallyInv, SecondPacketThere, TalliesInRange,
           Running, driver, buffers
<1>16. CASE UNCHANGED vars
  BY <1>16, <1>t
     DEF vars, driver, tallies, buffers, TypeOK, TallyInv, SecondPacketThere,
         TalliesInRange, Running, Source
<1> QED
  BY <1>1, <1>2, <1>3, <1>4, <1>5, <1>6, <1>7, <1>8, <1>9, <1>10, <1>11, <1>12,
     <1>13, <1>14, <1>15, <1>16 DEF Next

(* The three properties the runs check hold of main of the simplified      *)
(* program whatever the numbers of constants.h, the capacity, the packets  *)
(* forwarded and the memory in front of the array.                         *)
THEOREM TallyInvariant == Spec => []TallyInv
<1>1. TallyInv /\ [Next]_vars => TallyInv'
  BY TallyStep
<1> QED
  BY TallyInit, <1>1, PTL DEF Spec

(* The update_shadow functions never leave a size in use above its array,  *)
(* and no row outside of the array and the one in front of it is used.     *)
THEOREM SizesInBounds == Spec => []TypeOK
<1>1. TallyInv => TypeOK
  BY DEF TallyInv
<1> QED
  BY TallyInvariant, <1>1, PTL

(* begin_iter never takes the second packet of a pair from an empty queue. *)
THEOREM PairsAreWhole == Spec => []SecondPacketThere
<1>1. TallyInv => SecondPacketThere
  BY DEF TallyInv
<1> QED
  BY TallyInvariant, <1>1, PTL

(* The search for a queue with room keeps every tally within the capacity. *)
THEOREM TalliesBounded == Spec => []TalliesInRange
<1>1. TallyInv => TalliesInRange
  BY DEF TallyInv
<1> QED
  BY TallyInvariant, <1>1, PTL

-----------------------------------------------------------------------------
(* main ends: what a step leaves is a number in each component *)
DescentInv ==
  /\ TallyInv
  /\ Receiving => i <= stage
  /\ pc = "second" => i < stage

LEMMA DescentInit == Init => DescentInv
BY TallyInit DEF Init, DescentInv, Receiving

LEMMA DescentStep == DescentInv /\ [Next]_vars => DescentInv'
<1> SUFFICES ASSUME DescentInv, [Next]_vars PROVE DescentInv'
  OBVIOUS
<1>1. TallyInv' /\ stage' \in Nat /\ stage \in Nat /\ i \in Nat
  BY TallyStep DEF DescentInv, TallyInv, TypeOK
<1>2. CASE NextIter
  BY <1>1, <1>2 DEF NextIter, DescentInv, Receiving
<1>3. CASE TakeNormal \/ TakeSuper
  BY <1>1, <1>3 DEF TakeNormal, TakeSuper, Taking, driver, DescentInv, Receiving
<1>4. CASE TakeRoPage \/ TakeAlloc \/ TakeDone
  BY <1>1, <1>4 DEF TakeRoPage, TakeAlloc, TakeDone, Taking, driver, DescentInv, Receiving
<1>5. CASE TakeSecond
  BY <1>1, <1>5 DEF TakeSecond, driver, DescentInv, Receiving
<1>6. CASE NextWorker \/ Predict \/ BusyWait \/ UpdateShadow \/ EndIter
  BY <1>1, <1>6
     DEF NextWorker, Predict, BusyWait, UpdateShadow, EndIter, DescentInv, Receiving
<1>7. CASE ForwardToCommit \/ ForwardToStage \/ ForwardToAux
  BY <1>1, <1>7 DEF ForwardToCommit, ForwardToStage, ForwardToAux, DescentInv, Receiving
<1>8. CASE UNCHANGED vars
  BY <1>1, <1>8 DEF vars, driver, DescentInv, Receiving
<1> QED
  BY <1>2, <1>3, <1>4, <1>5, <1>6, <1>7, <1>8 DEF Next

LEMMA DescentIsDown == DescentInv => DescentEnds
<1> SUFFICES ASSUME DescentInv PROVE DescentEnds
  OBVIOUS
<1>1. TypeOK /\ (Receiving => w \in Wid)
  BY DEF DescentInv, TallyInv, Receiving
<1>2. Phases \in Nat
  BY <1>1 DEF Phases, TypeOK, Receiving
<1>3. Turns \in Nat
  BY <1>1, Sizes DEF Turns, TypeOK, DescentInv
<1>4. Rest \in Nat
  <2>1. Receiving => Takes(ucvf[Source][w]) \in Nat
    <3>1. Receiving => ucvf[Source][w] \in CInt
      BY <1>1, SourceIsRow DEF DescentInv, TypeOK
    <3> QED
      BY <3>1, Sizes DEF Takes, CInt
  <2>2. i \in Nat /\ NumStages \in Nat
    BY <1>1, Sizes DEF TypeOK, NumStages
  <2> QED
    BY <2>1, <2>2 DEF Rest
<1> QED
  BY <1>2, <1>3, <1>4 DEF DescentEnds

(* A packet taken is one take less from the tally of this turn. *)
LEMMA TakeDescends ==
  ASSUME DescentInv, Take, Receiving, Receiving', UNCHANGED <<driver, i>>,
         ucvf[Source][w] # 0
  PROVE  Descends
<1>1. w \in Wid /\ w' = w /\ iter' = iter /\ stage' = stage /\ i' = i
  BY DEF DescentInv, TallyInv, Receiving, driver
<1>2. Source' = Source
  BY <1>1 DEF Source
<1>3. ucvf'[Source][w] = Consumed(ucvf[Source][w]) /\ ucvf[Source][w] \in CInt
  BY <1>1, TakeKeeps, SourceIsRow DEF DescentInv, TallyInv, TypeOK
<1>4. Rest' = Takes(Consumed(ucvf[Source][w])) /\ Rest = Takes(ucvf[Source][w])
  BY <1>1, <1>2, <1>3 DEF Rest, Takes
<1>a. Rest' < Rest
  BY <1>3, <1>4, ConsumedInt
<1>5. Turns' = Turns
  BY <1>1 DEF Turns
<1>6. Phases' = Phases
  BY DEF Phases, Receiving
<1> QED
  BY <1>1, <1>a, <1>5, <1>6 DEF Descends

LEMMA StepDescends == DescentInv /\ [Next]_vars => [Descends]_vars
<1> SUFFICES ASSUME DescentInv, Next PROVE Descends
  OBVIOUS
<1>t. /\ TypeOK /\ TallyInv /\ SecondPacketThere
      /\ w \in Nat /\ iter \in Nat /\ stage \in Nat /\ i \in Nat /\ left \in Nat
      /\ NumStages \in Nat
  BY Sizes, Counts DEF DescentInv, TallyInv, TypeOK, NumStages
<1>1. CASE NextWorker
  BY <1>1, <1>t DEF NextWorker, Descends
<1>2. CASE EndIter
  BY <1>2, <1>t DEF EndIter, Descends
<1>3. CASE NextIter \/ Predict \/ BusyWait \/ UpdateShadow
  <2>1. w' = w /\ iter' = iter
    BY <1>3 DEF NextIter, Predict, BusyWait, UpdateShadow, driver
  <2>2. Phases' < Phases
    BY <1>3 DEF NextIter, Predict, BusyWait, UpdateShadow, Phases, Receiving
  <2> QED
    BY <2>1, <2>2 DEF Descends
<1>4. CASE TakeNormal \/ TakeRoPage \/ TakeSuper \/ TakeAlloc
  <2>1. ucvf[Source][w] # 0
    BY <1>4, <1>t, TakingCounts DEF TakeNormal, TakeRoPage, TakeSuper, TakeAlloc
  <2>2. Take /\ Receiving /\ Receiving' /\ UNCHANGED <<driver, i>>
    BY <1>4 DEF TakeNormal, TakeRoPage, TakeSuper, TakeAlloc, Taking, Receiving
  <2> QED
    BY <2>1, <2>2, TakeDescends
<1>5. CASE TakeSecond
  <2>1. Take /\ Receiving /\ Receiving' /\ UNCHANGED <<driver, i>> /\ ucvf[Source][w] # 0
    BY <1>5, <1>t DEF TakeSecond, SecondPacketThere, Receiving
  <2> QED
    BY <2>1, TakeDescends
<1>6. CASE TakeDone
  <2>1. /\ w' = w /\ iter' = iter /\ stage' = stage /\ i' = i + 1 /\ pc' = pc
        /\ pc = "begin"
    BY <1>6 DEF TakeDone, Taking, driver
  <2>2. Phases' = Phases /\ Turns = stage - i /\ Turns' = stage - (i + 1)
    BY <2>1 DEF Phases, Turns, Receiving
  <2> QED
    BY <1>t, <2>1, <2>2 DEF Descends
<1>7. CASE ForwardToCommit \/ ForwardToStage
  <2>1. /\ w' = w /\ iter' = iter /\ left' = left /\ i' = i + 1 /\ pc' = pc
        /\ pc = "forward" /\ i < NumStages
    BY <1>7 DEF ForwardToCommit, ForwardToStage, driver
  <2>2. Phases' = Phases /\ Turns' = Turns
    BY <2>1 DEF Phases, Turns, Receiving
  <2>3. Rest = NumStages - i
        /\ Rest' = IF i + 1 < NumStages THEN NumStages - (i + 1) ELSE 0
    BY <2>1 DEF Rest, Receiving, NumStages
  <2> QED
    BY <1>t, <2>1, <2>2, <2>3 DEF Descends
<1>8. CASE ForwardToAux
  <2>1. /\ w' = w /\ iter' = iter /\ left' = left - 1 /\ pc' = pc /\ pc = "forward"
    BY <1>8 DEF ForwardToAux, driver
  <2>2. Phases' = Phases /\ Turns' = left - 1 /\ Turns = left
    BY <2>1 DEF Phases, Turns, Receiving
  <2> QED
    BY <1>t, <2>1, <2>2 DEF Descends
<1> QED
  BY <1>1, <1>2, <1>3, <1>4, <1>5, <1>6, <1>7, <1>8 DEF Next

(* The loop of begin_iter stops at my_stage, and nothing that has to go    *)
(* down is ever below zero.                                                *)
THEOREM DescentIsBounded == Spec => []DescentEnds
<1> QED
  BY DescentInit, DescentStep, DescentIsDown, PTL DEF Spec

(* Every step of the simplified program descends, so that it comes to the  *)
(* end of begin_iter's packets and of main whatever the workers before     *)
(* have left in the tallies, and whatever ints lie in front of them: below *)
(* zero too, where every turn is one nearer to the wrap.                   *)
THEOREM EveryStepDescends == Spec => StepsDescend
<1> QED
  BY DescentInit, DescentStep, StepDescends, PTL DEF Spec, StepsDescend

=============================================================================
