----------------------------- MODULE TallyLoop -----------------------------
(***************************************************************************)
(* The program of simplified_translation/: one process runs the workers    *)
(* one after the other, a queue is the number of packets in it, and the    *)
(* type of a packet is read off that number (queue_consume).               *)
(*                                                                         *)
(* Macros are taken as they expand.  NUM_WORKERS is "12-NUM_AUX_WORKERS"   *)
(* without parentheses, so x % NUM_WORKERS is (x % 12) - NUM_AUX_WORKERS:  *)
(* a row of ucvf_queues may be negative.  The memory in front of the array *)
(* is modelled as more rows, which hold any int in the beginning; that no  *)
(* other variable of the program lies there is an assumption on the build. *)
(* __cost has no influence on what is done and is left out.                *)
(*                                                                         *)
(* A tally in front of the array may be below zero, and queue_consume only *)
(* says DONE at zero: it counts down to the least int and on from there.   *)
(* C leaves that step undefined; it is taken as the wrap to the largest    *)
(* int, as the machine's subtraction does it.  So begin_iter ends, after   *)
(* 2^31 turns or more with the int of the code, and need not end in a      *)
(* build that makes something else of the overflow.                        *)
(***************************************************************************)
EXTENDS Integers, FiniteSets, FiniteSetsExt

CONSTANTS
  AllWorkers,   (* the 12 of NUM_WORKERS                                   *)
  NumAux,       (* NUM_AUX_WORKERS                                         *)
  PerHeap,      (* NUM_WORKERS_PER_HEAP                                    *)
  NumHeaps,     (* NUM_HEAPS, and NUM_STAGES                               *)
  MaxLoads, MaxContexts,
  Capacity,     (* QUEUE_SIZE/(PAGE_SIZE/4)                                *)
  Packets,      (* forward_packet calls of one end_iter                    *)
  IntMax,       (* INT_MAX: ints are -IntMax - 1 .. IntMax                 *)
  InFront       (* what may lie in front of ucvf_queues                    *)

CInt == (0 - IntMax) - 1 .. IntMax

ASSUME TallyAssumption ==
  /\ NumAux \in Nat \ {0} /\ AllWorkers \in Nat /\ NumAux < AllWorkers
  /\ PerHeap \in Nat \ {0}
  /\ NumHeaps \in Nat \ {0}
  /\ MaxLoads \in Nat \ {0} /\ MaxContexts \in Nat \ {0}
  /\ Capacity \in Nat \ {0, 1}
  /\ Packets \in Nat
  /\ IntMax \in Nat /\ Capacity <= IntMax
  /\ InFront \subseteq CInt

(* NUM_WORKERS, NUM_WORKERS/NUM_WORKERS_PER_HEAP, NUM_ITERS, jump *)
NumWorkers == AllWorkers - NumAux
WorkersOverPerHeap == AllWorkers - (NumAux \div PerHeap)
NumIters == (NumHeaps \div WorkersOverPerHeap) * PerHeap
NumStages == NumHeaps
Jump == NumStages \div WorkersOverPerHeap

(* (x) % NUM_WORKERS *)
ModNumWorkers(x) == (x % AllWorkers) - NumAux

Wid == 0 .. NumWorkers - 1
Aux == 0 .. NumAux - 1
Row == (0 - NumAux) .. NumWorkers - 1
Load == 0 .. MaxLoads - 1
Context == 0 .. MaxContexts - 1

VARIABLES
  pc,          (* where the program is                                     *)
  w, iter,     (* loop variables of main                                   *)
  stage, mine, (* my_stage and is_my_iter of main                          *)
  i,           (* loop variable of begin_iter and of forward_packet        *)
  left,        (* packets end_iter has still to forward                    *)
  ucvf, queues, commit, reverse,   (* the tallies                          *)
  ro,          (* num_ro_pages                                             *)
  loads, contexts,                 (* sizes in use of the two buffers      *)
  inv, lin     (* loop_invariant_buffer, linear_predictors                 *)

driver == <<w, iter, stage, mine>>
tallies == <<ucvf, queues, commit, reverse>>
buffers == <<loads, contexts, inv, lin>>
vars == <<pc, driver, i, left, tallies, ro, buffers>>

Zero == [l \in Load |-> [c \in Context |-> 0]]

Init ==
  /\ pc = "iter"
  /\ w = 0 /\ iter = 0 /\ stage = 0 /\ mine = FALSE
  /\ i = 0 /\ left = 0
  /\ \E front \in [Row \ Wid -> [Wid -> InFront]] :
       ucvf = [r \in Row |-> IF r \in Wid THEN [v \in Wid |-> 0] ELSE front[r]]
  /\ queues = [v \in Wid |-> [a \in Aux |-> 0]]
  /\ commit = [a \in Aux |-> 0]
  /\ reverse = [v \in Wid |-> 0]
  /\ ro = NumHeaps \div 4
  /\ loads = MaxLoads /\ contexts = MaxContexts
  /\ inv = Zero /\ lin = Zero

-----------------------------------------------------------------------------
(* The type queue_consume reads off a tally; in the mutant the types are   *)
(* off by one.                                                             *)
KindShifted(t) ==
  CASE t = 0 -> "DONE"
    [] t # 0 /\ t % 4 = 1 -> "SUPER"
    [] t # 0 /\ t % 4 = 3 -> "NORMAL"
    [] OTHER -> "ALLOC"
Kind(t) ==
  CASE t = 0 -> "DONE"
    [] t # 0 /\ t % 4 = 0 -> "SUPER"
    [] t % 4 = 2 -> "NORMAL"
    [] OTHER -> "ALLOC"

(* What is left of an int by the subtraction of queue_consume *)
Consumed(t) ==
  IF t = 0 THEN 0 ELSE IF t - 1 \in CInt THEN t - 1 ELSE IntMax

(* A tally at the limit is passed over; in the mutant one above it.        *)
HasRoomFor1More(t) == t <= Capacity
HasRoom(t) == t < Capacity

(* get_available_... and queue_produce: one more in the first tally with   *)
(* room, or, when there is none, two less and one more in the first.       *)
AddPacket(f) ==
  LET room == {k \in DOMAIN f : HasRoom(f[k])}
  IN  IF room = {} THEN [f EXCEPT ![0] = @ - 2 + 1]
                   ELSE [f EXCEPT ![Min(room)] = @ + 1]

(* What the update_shadow functions return: the number of entries in use   *)
(* that are not zero, the maximum if that is above it or zero              *)
InRange(n, max) == IF n > max \/ n <= 0 THEN max ELSE n
NonZero(buf, m, n) ==
  Cardinality({x \in (0 .. m - 1) \X (0 .. n - 1) : buf[x[1]][x[2]] # 0})

-----------------------------------------------------------------------------
(* The loops of main. *)

NextWorker ==
  /\ pc = "iter" /\ iter = NumIters
  /\ w' = w + 1
  /\ iter' = 0 /\ stage' = (w + 1) % PerHeap /\ mine' = FALSE
  /\ pc' = IF w + 1 < NumWorkers THEN "iter" ELSE "ended"
  /\ UNCHANGED <<i, left, tallies, ro, buffers>>

NextIter ==
  /\ pc = "iter" /\ iter < NumIters
  /\ stage' = IF iter # 0 /\ iter % PerHeap = 0 THEN stage + Jump ELSE stage
  /\ mine' = (mine \/ w % PerHeap = iter % PerHeap)
  /\ i' = 0
  /\ pc' = "begin"
  /\ UNCHANGED <<w, iter, left, tallies, ro, buffers>>

-----------------------------------------------------------------------------
(* __specpriv_begin_iter(w, iter, stage, mine) *)

Source == ModNumWorkers(w + i)
Taking(kind) ==
  pc = "begin" /\ i < stage /\ Kind(ucvf[Source][w]) = kind
Take == ucvf' = [ucvf EXCEPT ![Source][w] = Consumed(@)]

TakeNormal ==
  /\ Taking("NORMAL") /\ Take
  /\ pc' = "second"
  /\ UNCHANGED <<driver, i, left, queues, commit, reverse, ro, buffers>>

(* A SUPER packet is taken for a read-only page while num_ro_pages lasts;  *)
(* the mutant does not ask whether it does.                                *)
AnyRoPage ==
  /\ Taking("SUPER") /\ Take
  /\ ro' = ro - 1
  /\ UNCHANGED <<pc, driver, i, left, queues, commit, reverse, buffers>>
TakeRoPage ==
  /\ Taking("SUPER") /\ Take
  /\ ro > 0 /\ ro' = ro - 1
  /\ UNCHANGED <<pc, driver, i, left, queues, commit, reverse, buffers>>

TakeSuper ==
  /\ Taking("SUPER") /\ Take
  /\ ro = 0
  /\ pc' = "second"
  /\ UNCHANGED <<driver, i, left, queues, commit, reverse, ro, buffers>>

TakeSecond ==
  /\ pc = "second" /\ Take
  /\ pc' = "begin"
  /\ UNCHANGED <<driver, i, left, queues, commit, reverse, ro, buffers>>

(* Mutant: looks at the packet without taking it. *)
PeekAlloc == Taking("ALLOC") /\ UNCHANGED vars
TakeAlloc ==
  /\ Taking("ALLOC") /\ Take
  /\ UNCHANGED <<pc, driver, i, left, queues, commit, reverse, ro, buffers>>

TakeDone ==
  /\ Taking("DONE") /\ i' = i + 1
  /\ UNCHANGED <<pc, driver, left, tallies, ro, buffers>>

OwnLoad == [l \in Load |-> [c \in Context |-> l]]
OwnContext == [l \in Load |-> [c \in Context |-> c]]
Updated(buf, by) ==
  [l \in Load |-> [c \in Context |->
     IF l < loads /\ c < contexts THEN (buf[l][c] + by[l][c]) % 8 ELSE buf[l][c]]]

(* update_loop_invariants, update_linear_predicted_values, and a packet to *)
(* each auxiliary process, at the first stage after the first iteration    *)
Predict ==
  /\ pc = "begin" /\ i = stage
  /\ IF iter # 0 /\ stage = 0
     THEN /\ inv' = Updated(inv, OwnLoad)
          /\ lin' = Updated(lin, OwnContext)
          /\ queues' = [queues EXCEPT ![w] = [a \in Aux |-> @[a] + 1]]
     ELSE UNCHANGED <<inv, lin, queues>>
  /\ pc' = "wait"
  /\ UNCHANGED <<driver, i, left, ucvf, commit, reverse, ro, loads, contexts>>

(* busy_wait takes one packet after the other from a tally above zero. *)
BusyWait ==
  /\ pc = "wait"
  /\ reverse' = IF iter = 0 THEN [reverse EXCEPT ![w] = 0] ELSE reverse
  /\ pc' = "end"
  /\ UNCHANGED <<driver, i, left, ucvf, queues, commit, ro, buffers>>

-----------------------------------------------------------------------------
(* __specpriv_end_iter(w, iter, stage): its parameters are wid, my_stage   *)
(* and is_my_iter, so my_stage is iter there, and is_my_iter is stage.     *)

EndStage == iter
IsMyIter == stage # 0

UpdateShadow ==
  /\ pc = "end"
  /\ IF IsMyIter
     THEN /\ loads' = InRange(NonZero(inv, loads, contexts), MaxLoads)
          /\ contexts' = InRange(NonZero(lin, loads', contexts), MaxContexts)
     ELSE UNCHANGED <<loads, contexts>>
  /\ left' = Packets
  /\ i' = EndStage + 1
  /\ pc' = "forward"
  /\ UNCHANGED <<driver, tallies, ro, inv, lin>>

(* forward_packet: for each following stage a packet to the commit process *)
(* or into a row of ucvf_queues, *)
ForwardToCommit ==
  /\ pc = "forward" /\ left > 0 /\ i < NumStages /\ ~IsMyIter
  /\ commit' = AddPacket(commit)
  /\ i' = i + 1
  /\ UNCHANGED <<pc, driver, left, ucvf, queues, reverse, ro, buffers>>

(* Mutant: for ever to the same stage. *)
ForwardAgain ==
  /\ pc = "forward" /\ left > 0 /\ i < NumStages /\ IsMyIter
  /\ ucvf' = [ucvf EXCEPT ![Source] = AddPacket(@)]
  /\ UNCHANGED <<pc, driver, i, left, queues, commit, reverse, ro, buffers>>

ForwardToStage ==
  /\ pc = "forward" /\ left > 0 /\ i < NumStages /\ IsMyIter
  /\ ucvf' = [ucvf EXCEPT ![Source] = AddPacket(@)]
  /\ i' = i + 1
  /\ UNCHANGED <<pc, driver, left, queues, commit, reverse, ro, buffers>>

(* and one to an auxiliary process.  get_available_packet compares         *)
(* queues[idx], a row and so an address, with the capacity: no row is ever *)
(* found to have room.                                                     *)
ForwardToAux ==
  /\ pc = "forward" /\ left > 0 /\ i >= NumStages
  /\ queues' = [queues EXCEPT ![w][0] = @ - 2 + 1]
  /\ left' = left - 1
  /\ i' = EndStage + 1
  /\ UNCHANGED <<pc, driver, ucvf, commit, reverse, ro, buffers>>

EndIter ==
  /\ pc = "forward" /\ left = 0
  /\ iter' = iter + 1
  /\ pc' = "iter"
  /\ UNCHANGED <<w, stage, mine, i, left, tallies, ro, buffers>>

Next ==
  \/ NextWorker \/ NextIter
  \/ TakeNormal \/ TakeRoPage \/ TakeSuper \/ TakeSecond \/ TakeAlloc \/ TakeDone
  \/ Predict \/ BusyWait
  \/ UpdateShadow \/ ForwardToCommit \/ ForwardToStage \/ ForwardToAux \/ EndIter

Spec == Init /\ [][Next]_vars

(* It is one sequential process. *)
FairSpec == Spec /\ WF_vars(Next)

-----------------------------------------------------------------------------
(* The sizes that the update functions return stay within the arrays, and  *)
(* every row that is used is one of the array or just in front of it.      *)
TypeOK ==
  /\ pc \in {"iter", "begin", "second", "wait", "end", "forward", "ended"}
  /\ w \in 0 .. NumWorkers /\ iter \in 0 .. NumIters
  /\ stage \in Nat /\ mine \in BOOLEAN /\ i \in Nat /\ left \in 0 .. Packets
  /\ ucvf \in [Row -> [Wid -> CInt]]
  /\ queues \in [Wid -> [Aux -> Int]]
  /\ commit \in [Aux -> Nat] /\ reverse \in [Wid -> Nat]
  /\ ro \in Nat
  /\ loads \in 1 .. MaxLoads /\ contexts \in 1 .. MaxContexts
  /\ inv \in [Load -> [Context -> 0 .. 7]]
  /\ lin \in [Load -> [Context -> 0 .. 7]]

(* queue_consume hands out a packet that has a second only while there is  *)
(* another one ("can consume 2 packets"): begin_iter never takes a second  *)
(* packet from an empty queue, whatever workers have left in the tally.    *)
SecondPacketThere == pc = "second" => ucvf[Source][w] # 0

(* The search in packet.c keeps the tallies it reads between zero and the  *)
(* capacity, the two packets it drops when all are full included.          *)
TalliesInRange ==
  /\ \A r, v \in Wid : ucvf[r][v] \in 0 .. Capacity
  /\ \A a \in Aux : commit[a] \in 0 .. Capacity

(* Every worker's begin_iter comes to the end of its packets, and main to  *)
(* its own end: with ints that wrap, also from a tally below zero.         *)
MainEnds == <>(pc = "ended")

(* What makes main end: a step moves on to a later worker, iteration or    *)
(* phase of an iteration, or leaves fewer turns of the loop it is in, or   *)
(* fewer takes until the tally of this turn is zero, or fewer stages to    *)
(* forward to.  From a tally below zero it takes the way over the wrap.    *)
Receiving == pc \in {"begin", "second"}
Phases ==
  CASE pc = "iter" -> 4 [] Receiving -> 3 [] pc = "wait" -> 2 [] pc = "end" -> 1
    [] OTHER -> 0
Turns == IF Receiving THEN stage - i ELSE left
Takes(t) == IF t >= 0 THEN t ELSE t + 2 * (IntMax + 1)
Rest ==
  IF Receiving THEN Takes(ucvf[Source][w])
  ELSE IF i < NumStages THEN NumStages - i ELSE 0
Descends ==
  \/ w' > w
  \/ w' = w /\ iter' > iter
  \/ w' = w /\ iter' = iter /\ Phases' < Phases
  \/ w' = w /\ iter' = iter /\ Phases' = Phases /\ Turns' < Turns
  \/ w' = w /\ iter' = iter /\ Phases' = Phases /\ Turns' = Turns /\ Rest' < Rest

(* No tally, whatever int it is, keeps begin_iter or forward_packet in a   *)
(* loop for ever: every turn brings it nearer to its end.                  *)
StepsDescend == [][Descends]_vars
(* It cannot go down for ever, and the loop of begin_iter leaves at        *)
(* my_stage: it never runs past it.                                        *)
DescentEnds == Phases \in Nat /\ Turns \in Nat /\ Rest \in Nat

(* constants.h: a tally is the number of elements in the queue.            *)
TalliesAreCounts == \A v \in Wid, a \in Aux : queues[v][a] >= 0
=============================================================================
