--------------------------- MODULE TranslatedDriver ---------------------------
(***************************************************************************)
(* main of translation/loopevent_trans.c, which imitates the main process  *)
(* and its workers: it calls begin_iter, busy_wait and end_iter of one     *)
(* worker after the other.  It is one sequential program, so a queue is    *)
(* the number of packets in it.  The constants are those of constants.h,   *)
(* and what its macros come to is computed as the preprocessor does it.    *)
(*                                                                         *)
(* The packets sent are fresh ones of create_packet (malloc): their type   *)
(* is whatever was there.  The pools, of which forward_packet asks for a   *)
(* packet that it does not use, and the heaps do not matter.               *)
(***************************************************************************)
EXTENDS Integers

CONSTANTS
  AllWorkers,   (* the 12 of NUM_WORKERS                                   *)
  NumAux,       (* num_aux_workers                                         *)
  PerHeap,      (* NUM_WORKERS_PER_HEAP                                    *)
  NumHeaps,     (* NUM_HEAPS                                               *)
  Regions,      (* NUM_GLOBALS + NUM_HEAPS + NUM_STACKS                    *)
  Words,        (* PAGE_SIZE / 8                                           *)
  Capacity      (* packets a queue holds: QUEUE_SIZE / 2                   *)

NumWorkers == AllWorkers - NumAux
NumStages == NumHeaps
(* NUM_WORKERS/NUM_WORKERS_PER_HEAP, that is 12-2/2 *)
WorkersOverPerHeap == AllWorkers - NumAux \div PerHeap
NumIters == (NumHeaps \div WorkersOverPerHeap) * PerHeap
Jump == NumStages \div WorkersOverPerHeap

Wid == 0 .. NumWorkers - 1

VARIABLES
  pc,       (* where main is, or what it stopped at                        *)
  w, iter,  (* the loops of main                                           *)
  stage,    (* my_stage                                                    *)
  i,        (* the loop over stages of begin_iter or forward_packet        *)
  left,     (* calls of forward_packet that end_iter has still to make     *)
  ucvf,     (* ucvf_queues: a function on the queues created               *)
  queues    (* queues, likewise                                            *)

vars == <<pc, w, iter, stage, i, left, ucvf, queues>>

(* init_queues(NUM_WORKERS, num_aux_workers) *)
UcvfCreated == {e \in Wid \X Wid : e[1] < e[2]}
QueuesCreated == Wid \X (0 .. NumAux - 1)

Init ==
  /\ pc = "iter" /\ w = 0 /\ iter = 0 /\ stage = 0
  /\ i = 0 /\ left = 0
  /\ ucvf = [e \in UcvfCreated |-> 0]
  /\ queues = [e \in QueuesCreated |-> 0]

(* __sw_queue_produce: a full ring keeps the packets it has room for. *)
Produced(n) == IF n < Capacity THEN n + 1 ELSE n

-----------------------------------------------------------------------------
NextWorker ==
  /\ pc = "iter" /\ iter = NumIters
  /\ w' = w + 1 /\ iter' = 0 /\ stage' = (w + 1) % PerHeap
  /\ pc' = IF w + 1 < NumWorkers THEN "iter" ELSE "ended"
  /\ UNCHANGED <<i, left, ucvf, queues>>

NextIter ==
  /\ pc = "iter" /\ iter < NumIters
  /\ stage' = IF iter # 0 /\ iter % PerHeap = 0 THEN stage + Jump ELSE stage
  /\ i' = 0
  /\ pc' = "begin"
  /\ UNCHANGED <<w, iter, left, ucvf, queues>>

(* __specpriv_begin_iter takes packets of worker 0 for every stage before  *)
(* its own.  A packet may have any type.  The second packet of a pair is   *)
(* taken and not looked at; there may be none.                             *)
Take ==
  /\ pc = "begin" /\ i < stage
  /\ \/ /\ <<0, w>> \notin UcvfCreated
        /\ pc' = "no queue" /\ UNCHANGED <<i, ucvf>>
     \/ /\ <<0, w>> \in UcvfCreated /\ ucvf[<<0, w>>] = 0
        /\ pc' = "no packet" /\ UNCHANGED <<i, ucvf>>
     \/ /\ <<0, w>> \in UcvfCreated /\ ucvf[<<0, w>>] > 0
        /\ \/ (* DONE *)
              /\ ucvf' = [ucvf EXCEPT ![<<0, w>>] = @ - 1] /\ i' = i + 1
           \/ (* ALLOC, a read-only page, or no type at all *)
              /\ ucvf' = [ucvf EXCEPT ![<<0, w>>] = @ - 1] /\ i' = i
           \/ (* NORMAL, SUPER *)
              /\ ucvf' = [ucvf EXCEPT ![<<0, w>>] = IF @ > 1 THEN @ - 2 ELSE 0]
              /\ i' = i
        /\ pc' = pc
  /\ UNCHANGED <<w, iter, stage, left, queues>>

(* The rest of begin_iter; then busy_wait, which finds the reverse commit  *)
(* queue empty: there is no commit process.                                *)
Predict ==
  /\ pc = "begin" /\ i = stage
  /\ queues' = IF iter # 0 /\ stage = 0
               THEN [e \in QueuesCreated |->
                       IF e[1] = w THEN Produced(queues[e]) ELSE queues[e]]
               ELSE queues
  /\ pc' = "end"
  /\ UNCHANGED <<w, iter, stage, i, left, ucvf>>

(* __specpriv_end_iter: for each region forward_pair, a pair for the page  *)
(* and one for each of its words *)
BeginForward ==
  /\ pc = "end"
  /\ left' = IF w = stage THEN Regions * (2 + 2 * Words) ELSE 0
  /\ i' = stage + 1
  /\ pc' = "forward"
  /\ UNCHANGED <<w, iter, stage, ucvf, queues>>

(* forward_packet: the queue to each following stage is looked up by the   *)
(* number of the stage, *)
ForwardToStage ==
  /\ pc = "forward" /\ left > 0 /\ i < NumStages
  /\ IF <<w, i>> \in UcvfCreated
     THEN /\ ucvf' = [ucvf EXCEPT ![<<w, i>>] = Produced(@)]
          /\ i' = i + 1 /\ pc' = pc
     ELSE pc' = "no queue" /\ UNCHANGED <<i, ucvf>>
  /\ UNCHANGED <<w, iter, stage, left, queues>>

(* and the one to the auxiliary process by that of the worker. *)
ForwardToAux ==
  /\ pc = "forward" /\ left > 0 /\ i >= NumStages
  /\ IF <<w, w>> \in QueuesCreated
     THEN /\ queues' = [queues EXCEPT ![<<w, w>>] = Produced(@)]
          /\ left' = left - 1 /\ i' = stage + 1 /\ pc' = pc
     ELSE pc' = "no queue" /\ UNCHANGED <<i, left, queues>>
  /\ UNCHANGED <<w, iter, stage, ucvf>>

EndIter ==
  /\ pc = "forward" /\ left = 0
  /\ iter' = iter + 1
  /\ pc' = "iter"
  /\ UNCHANGED <<w, stage, i, left, ucvf, queues>>

Next ==
  \/ NextWorker \/ NextIter
  \/ Take \/ Predict
  \/ BeginForward \/ ForwardToStage \/ ForwardToAux \/ EndIter

Spec == Init /\ [][Next]_vars

-----------------------------------------------------------------------------
(* loopevent_trans.c says of the queues of uncommitted pages that they are *)
(* from worker to worker: every queue that the program uses is one that    *)
(* init_queues has created for two of its workers.                         *)
QueuesOfWorkers == pc # "no queue"
=============================================================================
