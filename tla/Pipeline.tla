------------------------------ MODULE Pipeline ------------------------------
(***************************************************************************)
(* The worker processes of a speculative pipeline: __specpriv_begin_iter   *)
(* and __specpriv_end_iter of loopevent_orig.cpp, called by every worker   *)
(* for every iteration of the loop.                                        *)
(*                                                                         *)
(* Stage s has Rep[s] workers, FirstWid[s] being the first; iteration i of *)
(* the stage is run by one of them.  Each worker sends what its iterations *)
(* wrote to all workers of the following stages, one queue for each pair   *)
(* (ucvf_queues), followed by an EOI packet, and before it goes on with an *)
(* iteration receives what the earlier stages wrote in it.  The pages of   *)
(* an iteration are one DATA packet here (PageForward has the pages, and   *)
(* SwQueue the queue).                                                     *)
(*                                                                         *)
(* The processes that are not under src/ -- try-commit, commit, and the    *)
(* loop body -- are modelled from what begin_iter and end_iter expect.     *)
(***************************************************************************)
EXTENDS Naturals, Sequences

CONSTANTS
  NumStages,     (* stages of the pipeline                                 *)
  NumWorkers,    (* worker processes                                       *)
  StageOf,       (* GET_MY_STAGE                                           *)
  FirstWid,      (* GET_FIRST_WID_OF_STAGE                                 *)
  Rep,           (* GET_REPLICATION_FACTOR                                 *)
  TripCount,     (* iterations of the loop                                 *)
  ITER_MAX,      (* (Iteration)-1: Iteration is unsigned                   *)
  MayFail,       (* iterations that may misspeculate                       *)
  Invocations    (* bound of the model: times the loop is invoked          *)

Stage == 0 .. NumStages - 1
Wid == 0 .. NumWorkers - 1
Iter == 0 .. TripCount - 1

ASSUME SizeAssumption ==
  /\ NumStages \in Nat \ {0}
  /\ NumWorkers \in Nat \ {0}
  /\ TripCount \in Nat \ {0}
  /\ ITER_MAX \in Nat /\ TripCount < ITER_MAX
  /\ MayFail \subseteq Iter
  /\ Invocations \in Nat

(* The workers of a stage are numbered one after the other. *)
ASSUME LayoutAssumption ==
  /\ StageOf \in [Wid -> Stage]
  /\ FirstWid \in [Stage -> Wid]
  /\ Rep \in [Stage -> Nat \ {0}]
  /\ \A s \in Stage : FirstWid[s] + Rep[s] <= NumWorkers
  /\ \A s \in Stage, w \in Wid :
       StageOf[w] = s <=> w \in FirstWid[s] .. FirstWid[s] + Rep[s] - 1
  /\ \A s, t \in Stage : s < t => FirstWid[s] < FirstWid[t]

VARIABLES
  iter,      (* current_iter of each worker                                *)
  pc,        (* the call each worker is in                                 *)
  from,      (* the stage process_incoming_packets has come to             *)
  ucvf,      (* ucvf_queues[source][destination]                           *)
  tryq,      (* queues to the try-commit process                           *)
  rcq,       (* reverse_commit_queues                                      *)
  good,      (* *good_to_go                                                *)
  pcb,       (* the process control block                                  *)
  checker,   (* try-commit and commit: what they do, what has arrived      *)
  main,      (* the main process: outside or inside an invocation          *)
  seen,      (* history: what each worker's memory has of other workers    *)
  informed,  (* history: workers that were told of the first allocations   *)
  tainted    (* history: was told of an iteration that had misspeculated   *)

queues == <<ucvf, tryq, rcq>>
history == <<seen, informed, tainted>>
vars == <<iter, pc, from, queues, good, pcb, checker, main, history>>

(* Mutant: the offset is that of the next iteration. *)
RunNextIteration(w, i) ==
  LET stage == StageOf[w] IN FirstWid[stage] + ((i + 1) % Rep[stage]) = w

(* run_iteration: does worker w run iteration i of its stage? *)
RunIteration(w, i) ==
  LET stage == StageOf[w] IN FirstWid[stage] + (i % Rep[stage]) = w

(* GET_WID_OFFSET_IN_STAGE, and with it the source of a stage's packets.   *)
(* Which worker process_incoming_packets takes them from is not under      *)
(* src/: it is assumed to be the one that run_iteration names.  (The       *)
(* translation spells the call out, but always takes from worker 0.)       *)
WidOffset(i, s) == i % Rep[s]
(* Mutant: the worker of the next iteration. *)
NextSource(i, s) == FirstWid[s] + WidOffset(i + 1, s)
Source(i, s) == FirstWid[s] + WidOffset(i, s)

(* The workers a broadcast goes to; a mutant includes those of the same    *)
(* stage.                                                                  *)
NotBefore(w) == {v \in Wid : StageOf[v] >= StageOf[w]}
Following(w) == {v \in Wid : StageOf[v] > StageOf[w]}

(* broadcast to the workers of the following stages *)
Broadcast(w, p) ==
  [ucvf EXCEPT ![w] = [v \in Wid |-> IF v \in Following(w)
                                     THEN Append(@[v], p) ELSE @[v]]]

Packet(kind, i) == [kind |-> kind, iter |-> i, tainted |-> FALSE]

(* The order of the calls of begin_iter.  In the mutant the check for      *)
(* misspeculation comes before the incoming packets.                       *)
CheckFirst == [gate |-> "check", check |-> "receive", receive |-> "predict"]
Follows == [gate |-> "receive", receive |-> "check", check |-> "predict"]

(* Mutant: check_misspec does not compare the iterations. *)
AnyMisspeculated(i) == pcb.happened
Misspeculated(i) == pcb.happened /\ pcb.misIter <= i

-----------------------------------------------------------------------------
(* The process control block and the rest of begin_invocation.  That an    *)
(* invocation starts with empty queues and a closed gate is the work of    *)
(* the callback that spawns the workers (init_queues in translation/).     *)

(* Mutants: -1 kept as a signed number, and 0 instead of -1. *)
SignedPcb == [happened |-> FALSE, misIter |-> 0 - 1, lastCommitted |-> ITER_MAX]
ZeroPcb == [happened |-> FALSE, misIter |-> 0, lastCommitted |-> ITER_MAX]
NewPcb == [happened |-> FALSE, misIter |-> ITER_MAX, lastCommitted |-> ITER_MAX]

Init ==
  /\ iter = [w \in Wid |-> 0]
  /\ pc = [w \in Wid |-> "finished"]
  /\ from = [w \in Wid |-> 0]
  /\ ucvf = [w \in Wid |-> [v \in Wid |-> <<>>]]
  /\ tryq = [w \in Wid |-> <<>>]
  /\ rcq = [w \in Wid |-> <<>>]
  /\ good = FALSE
  /\ pcb = NewPcb
  /\ checker = [pc |-> "commit", arrived |-> {}]
  /\ main = [inside |-> FALSE, count |-> 0]
  /\ seen = [w \in Wid |-> {}]
  /\ informed = {}
  /\ tainted = [w \in Wid |-> FALSE]

BeginInvocation ==
  /\ ~main.inside /\ main.count < Invocations
  /\ main' = [inside |-> TRUE, count |-> main.count + 1]
  /\ iter' = [w \in Wid |-> 0]
  /\ pcb' = NewPcb
  /\ pc' = [w \in Wid |-> "gate"]
  /\ from' = [w \in Wid |-> 0]
  /\ ucvf' = [w \in Wid |-> [v \in Wid |-> <<>>]]
  /\ tryq' = [w \in Wid |-> <<>>]
  /\ rcq' = [w \in Wid |-> <<>>]
  /\ good' = FALSE
  /\ checker' = [pc |-> "commit", arrived |-> {}]
  /\ seen' = [w \in Wid |-> {}]
  /\ informed' = {}
  /\ tainted' = [w \in Wid |-> FALSE]

(* end_invocation.  That the workers and the last commit have ended by     *)
(* then is assumed of the caller, which is not under src/.                 *)
EndInvocation ==
  /\ main.inside
  /\ \A w \in Wid : pc[w] \in {"finished", "exited"}
  /\ pcb.misIter # ITER_MAX \/ pcb.lastCommitted = TripCount - 1
  /\ main' = [main EXCEPT !.inside = FALSE]
  /\ UNCHANGED <<iter, pc, from, queues, good, pcb, checker, history>>

-----------------------------------------------------------------------------
(* __specpriv_begin_iter *)

(* Mutant: the second iteration does not wait. *)
PassGateLate(w) ==
  /\ pc[w] = "gate"
  /\ iter[w] > 1 => good
  /\ pc' = [pc EXCEPT ![w] = Follows.gate]
  /\ UNCHANGED <<iter, from, queues, good, pcb, checker, main, history>>

PassGate(w) ==
  /\ pc[w] = "gate"
  /\ iter[w] # 0 => good
  /\ pc' = [pc EXCEPT ![w] = Follows.gate]
  /\ UNCHANGED <<iter, from, queues, good, pcb, checker, main, history>>

(* Mutant: looks at the packets and leaves them in the queue. *)
PeekReverseCommitQueue(w) ==
  /\ pc[w] = "gate" /\ iter[w] # 0 /\ ~good
  /\ rcq[w] # <<>>
  /\ informed' = informed \cup {w}
  /\ UNCHANGED <<iter, pc, from, queues, good, pcb, checker, main, seen, tainted>>

(* process_reverse_commit_queue, called while the gate is closed *)
ProcessReverseCommitQueue(w) ==
  /\ pc[w] = "gate" /\ iter[w] # 0 /\ ~good
  /\ rcq[w] # <<>>
  /\ rcq' = [rcq EXCEPT ![w] = <<>>]
  /\ informed' = informed \cup {w}
  /\ UNCHANGED <<iter, pc, from, ucvf, tryq, good, pcb, checker, main,
                 seen, tainted>>

(* process_incoming_packets: for each earlier stage, takes packets from    *)
(* the worker that runs this iteration there, up to the EOI packet.        *)
ReceivePacket(w) ==
  /\ pc[w] = "receive" /\ from[w] < StageOf[w]
  /\ LET src == Source(iter[w], from[w])
         q == ucvf[src][w]
         p == Head(q)
     IN  /\ q # <<>>
         /\ ucvf' = [ucvf EXCEPT ![src][w] = Tail(q)]
         /\ IF p.kind = "EOI"
            THEN /\ from' = [from EXCEPT ![w] = @ + 1]
                 /\ tainted' = [tainted EXCEPT ![w] = @ \/ p.tainted]
                 /\ UNCHANGED seen
            ELSE /\ seen' = [seen EXCEPT ![w] = @ \cup {<<from[w], p.iter>>}]
                 /\ UNCHANGED <<from, tainted>>
  /\ UNCHANGED <<iter, pc, tryq, rcq, good, pcb, checker, main, informed>>

ReceiveDone(w) ==
  /\ pc[w] = "receive" /\ from[w] = StageOf[w]
  /\ pc' = [pc EXCEPT ![w] = Follows.receive]
  /\ UNCHANGED <<iter, from, queues, good, pcb, checker, main, history>>

CheckMisspec(w) ==
  /\ pc[w] = "check"
  /\ pc' = [pc EXCEPT ![w] =
              IF Misspeculated(iter[w]) THEN "exited" ELSE Follows.check]
  /\ UNCHANGED <<iter, from, queues, good, pcb, checker, main, history>>

(* The first stage uses predicted values and tells try-commit to check     *)
(* them; then the loop body is called.                                     *)
Predict(w) ==
  /\ pc[w] = "predict"
  /\ IF iter[w] # 0 /\ StageOf[w] = 0
     THEN tryq' = [tryq EXCEPT ![w] = Append(@, Packet("BOI", iter[w]))]
     ELSE UNCHANGED tryq
  /\ pc' = [pc EXCEPT ![w] = "body"]
  /\ UNCHANGED <<iter, from, ucvf, rcq, good, pcb, checker, main, history>>

BeginIter(w) ==
  \/ PassGate(w) \/ ProcessReverseCommitQueue(w)
  \/ ReceivePacket(w) \/ ReceiveDone(w) \/ CheckMisspec(w) \/ Predict(w)

-----------------------------------------------------------------------------
(* The loop body, outside src/: it ends, or the worker that runs it finds  *)
(* that it misspeculated, records that in the pcb -- the flag first, which *)
(* is the worse order for check_misspec -- and exits.                      *)

EndBody(w) ==
  /\ pc[w] = "body"
  /\ pc' = [pc EXCEPT ![w] = "forward"]
  /\ UNCHANGED <<iter, from, queues, good, pcb, checker, main, history>>

BodyMisspec(w) ==
  /\ pc[w] = "body" /\ RunIteration(w, iter[w])
  /\ iter[w] \in MayFail /\ ~pcb.happened
  /\ pcb' = [pcb EXCEPT !.happened = TRUE]
  /\ pc' = [pc EXCEPT ![w] = "misspec"]
  /\ UNCHANGED <<iter, from, queues, good, checker, main, history>>

RecordMisspec(w) ==
  /\ pc[w] = "misspec"
  /\ pcb' = [pcb EXCEPT !.misIter = iter[w]]
  /\ pc' = [pc EXCEPT ![w] = "exited"]
  /\ UNCHANGED <<iter, from, queues, good, checker, main, history>>

-----------------------------------------------------------------------------
(* __specpriv_end_iter *)

ForwardPages(w) ==
  /\ pc[w] = "forward"
  /\ ucvf' = IF RunIteration(w, iter[w])
             THEN Broadcast(w, Packet("DATA", iter[w])) ELSE ucvf
  /\ pc' = [pc EXCEPT ![w] = "event"]
  /\ UNCHANGED <<iter, from, tryq, rcq, good, pcb, checker, main, history>>

(* broadcast_event(EOI) by the worker the iteration belongs to, and        *)
(* advance_iter; the loop ends after TripCount iterations.                 *)
BroadcastEvent(w) ==
  /\ pc[w] = "event"
  /\ LET eoi == [Packet("EOI", iter[w]) EXCEPT !.tainted = Misspeculated(iter[w])]
     IN  IF w - FirstWid[StageOf[w]] = WidOffset(iter[w], StageOf[w])
         THEN /\ ucvf' = Broadcast(w, eoi)
              /\ tryq' = [tryq EXCEPT ![w] = Append(@, Packet("EOI", iter[w]))]
         ELSE UNCHANGED <<ucvf, tryq>>
  /\ iter' = [iter EXCEPT ![w] = @ + 1]
  /\ pc' = [pc EXCEPT ![w] = IF iter[w] + 1 < TripCount THEN "gate" ELSE "finished"]
  /\ from' = [from EXCEPT ![w] = 0]
  /\ tainted' = [tainted EXCEPT ![w] = FALSE]
  /\ UNCHANGED <<rcq, good, pcb, checker, main, seen,
                 informed>>

Worker(w) ==
  \/ BeginIter(w)
  \/ EndBody(w) \/ BodyMisspec(w) \/ RecordMisspec(w)
  \/ ForwardPages(w) \/ BroadcastEvent(w)

-----------------------------------------------------------------------------
(* Try-commit and commit, outside src/.  Try-commit receives iterations;   *)
(* commit takes them in order, once every stage has ended them, and after  *)
(* the first one sends each worker an ALLOC packet, waits until they have  *)
(* been taken, and opens the gate.  A check may fail instead.              *)

NextToCommit ==
  IF pcb.lastCommitted = ITER_MAX THEN 0 ELSE pcb.lastCommitted + 1

TryCommit(w) ==
  /\ tryq[w] # <<>>
  /\ tryq' = [tryq EXCEPT ![w] = Tail(@)]
  /\ checker' = IF Head(tryq[w]).kind = "EOI"
                THEN [checker EXCEPT !.arrived =
                        @ \cup {<<StageOf[w], Head(tryq[w]).iter>>}]
                ELSE checker
  /\ UNCHANGED <<iter, pc, from, ucvf, rcq, good, pcb, main, history>>

Ended == NextToCommit < TripCount /\ \A s \in Stage : <<s, NextToCommit>> \in checker.arrived

Commit ==
  /\ checker.pc = "commit" /\ Ended
  /\ pcb' = [pcb EXCEPT !.lastCommitted = NextToCommit]
  /\ rcq' = IF NextToCommit = 0
            THEN [w \in Wid |-> Append(rcq[w], "ALLOC")] ELSE rcq
  /\ UNCHANGED <<iter, pc, from, ucvf, tryq, good, checker, main, history>>

(* That the gate stays closed until every worker has taken its ALLOC       *)
(* packet is assumed of commit, not shown: the loop in begin_iter tests    *)
(* good_to_go before it drains the queue and would leave them there.       *)
OpenGate ==
  /\ ~good /\ pcb.lastCommitted # ITER_MAX
  /\ \A w \in Wid : rcq[w] = <<>>
  /\ good' = TRUE
  /\ UNCHANGED <<iter, pc, from, queues, pcb, checker, main, history>>

CommitMisspec ==
  /\ checker.pc = "commit" /\ Ended
  /\ NextToCommit \in MayFail /\ ~pcb.happened
  /\ pcb' = [pcb EXCEPT !.happened = TRUE]
  /\ checker' = [checker EXCEPT !.pc = "misspec"]
  /\ UNCHANGED <<iter, pc, from, queues, good, main, history>>

CommitRecordMisspec ==
  /\ checker.pc = "misspec"
  /\ pcb' = [pcb EXCEPT !.misIter = NextToCommit]
  /\ checker' = [checker EXCEPT !.pc = "stopped"]
  /\ UNCHANGED <<iter, pc, from, queues, good, main, history>>

Checker ==
  \/ \E w \in Wid : TryCommit(w)
  \/ Commit \/ OpenGate \/ CommitMisspec \/ CommitRecordMisspec

(* After the last invocation the program does something else. *)
Terminated ==
  /\ ~main.inside /\ main.count = Invocations
  /\ UNCHANGED vars

Next ==
  \/ BeginInvocation \/ EndInvocation
  \/ \E w \in Wid : Worker(w)
  \/ Checker
  \/ Terminated

Spec == Init /\ [][Next]_vars

(* Every process keeps being scheduled: a worker whose call can go on goes *)
(* on, try-commit polls all its queues, and commit and the main process    *)
(* wait for nothing but what their guards say.  Nothing is assumed of the  *)
(* failures, nor that the loop is invoked again.                           *)
FairSpec ==
  /\ Spec
  /\ \A w \in Wid : WF_vars(Worker(w)) /\ WF_vars(TryCommit(w))
  /\ WF_vars(Commit \/ OpenGate \/ CommitMisspec \/ CommitRecordMisspec)
  /\ WF_vars(EndInvocation)

-----------------------------------------------------------------------------
PacketType == [kind : {"DATA", "BOI", "EOI"}, iter : Iter, tainted : BOOLEAN]
TypeOK ==
  /\ iter \in [Wid -> 0 .. TripCount]
  /\ pc \in [Wid -> {"gate", "receive", "check", "predict", "body", "misspec",
                     "forward", "event", "finished", "exited"}]
  /\ from \in [Wid -> Stage]
  /\ ucvf \in [Wid -> [Wid -> Seq(PacketType)]]
  /\ tryq \in [Wid -> Seq(PacketType)]
  /\ rcq \in [Wid -> Seq({"ALLOC"})]
  /\ good \in BOOLEAN
  /\ pcb \in [happened : BOOLEAN, misIter : Iter \cup {ITER_MAX},
              lastCommitted : Iter \cup {ITER_MAX}]
  /\ checker \in [pc : {"commit", "misspec", "stopped"},
                  arrived : SUBSET (Stage \X Iter)]
  /\ main \in [inside : BOOLEAN, count : 0 .. Invocations]
  /\ seen \in [Wid -> SUBSET (Stage \X Iter)]
  /\ informed \subseteq Wid
  /\ tainted \in [Wid -> BOOLEAN]

Executing(w) == pc[w] \in {"body", "forward", "event"}

(* A worker executes iteration i on a memory that has exactly what the     *)
(* earlier stages wrote in iterations 0 to i: process_incoming_packets has *)
(* found the right source for each stage, missed no packet and taken none  *)
(* of a later iteration, however far ahead the earlier stages are.         *)
SeesEarlierStages ==
  \A w \in Wid : Executing(w) =>
    seen[w] = {s \in Stage : s < StageOf[w]} \X (0 .. iter[w])

(* The comment at the gate of begin_iter: a worker goes beyond the first   *)
(* iteration only after that has been committed, and after it has been     *)
(* told what the first iteration allocated.                                *)
FirstIterationFirst ==
  \A w \in Wid : iter[w] # 0 /\ pc[w] \notin {"gate", "finished"} =>
    pcb.lastCommitted # ITER_MAX /\ w \in informed

(* The comment at process_incoming_packets: "following stages are executed *)
(* only when there is no speculation in previous stages".  A worker that   *)
(* has received an iteration which the sender could know to be at or after *)
(* a misspeculation does not run it, though no packet says so.             *)
NeverRunsOnTainted ==
  \A w \in Wid : pc[w] = "predict" \/ Executing(w) => ~tainted[w]

(* check_misspec lets a worker exit only at or after the misspeculated     *)
(* iteration, whenever it reads the two fields of the pcb: the iterations  *)
(* before it can still be finished and committed.                          *)
EarlierWorkSurvives ==
  \A w \in Wid : pc[w] = "exited" => pcb.happened /\ pcb.misIter <= iter[w]

(* When all workers have finished the loop no packet is left between them: *)
(* each one that was sent had a receiver that took it.                     *)
QueuesDrained ==
  (main.inside /\ \A w \in Wid : pc[w] = "finished") =>
    \A w, v \in Wid : ucvf[w][v] = <<>>

(* What every invocation comes to: it has committed all iterations, or all *)
(* before the one that misspeculated. *)
Decided ==
  \/ pcb.lastCommitted = TripCount - 1
  \/ pcb.happened /\ NextToCommit = pcb.misIter

(* Every invocation decides its iterations: no worker waits at the gate or *)
(* for a packet that those iterations need, and the exit of other workers  *)
(* holds nobody up.                                                        *)
EveryIterationDecided == main.inside ~> Decided

(* The calls that wait for another process are the gate and the receiving  *)
(* of a packet; in every other one a worker can go on.                     *)
CanGoOn(w) ==
  CASE pc[w] = "gate" -> iter[w] # 0 => good \/ rcq[w] # <<>>
    [] pc[w] = "receive" ->
         from[w] = StageOf[w] \/ ucvf[Source(iter[w], from[w])][w] # <<>>
    [] OTHER -> pc[w] \notin {"finished", "exited"}
CheckerCanGoOn ==
  \/ \E w \in Wid : tryq[w] # <<>>
  \/ checker.pc = "misspec"
  \/ checker.pc = "commit" /\ Ended
  \/ ~good /\ pcb.lastCommitted # ITER_MAX /\ \A w \in Wid : rcq[w] = <<>>

(* Workers that wait for each other never do so in a circle, nor for one   *)
(* that has exited or for a gate that nobody will open: until the          *)
(* iterations are decided somebody can go on, in any layout.               *)
NeverStuck ==
  main.inside => Decided \/ CheckerCanGoOn \/ \E w \in Wid : CanGoOn(w)

-----------------------------------------------------------------------------
(* The abstract specification of the order of the iterations.  A stage has *)
(* ended an iteration when its EOI packet is on the way to try-commit or   *)
(* has arrived there.                                                      *)

EoiIters(q) == {q[k].iter : k \in {l \in 1 .. Len(q) : q[l].kind = "EOI"}}
EndedIters ==
  checker.arrived \cup UNION {{StageOf[w]} \X EoiIters(tryq[w]) : w \in Wid}

Order == INSTANCE PipelineOrder WITH
  Stages <- NumStages, Workers <- Rep, Iterations <- TripCount,
  ended <- EndedIters,
  committed <- NextToCommit,
  failed <- IF pcb.misIter = ITER_MAX THEN TripCount ELSE pcb.misIter

(* Whatever the workers, the queues and the gate do, and however late a    *)
(* worker reads the control block: iterations end in the order of the      *)
(* stages, and are committed in the order of the loop, each after every    *)
(* stage has ended it, up to the one that misspeculated and no further.    *)
ImplementsOrder == Order!OrderSpec

-----------------------------------------------------------------------------
(* The inductive invariant behind FirstIterationFirst and                  *)
(* EarlierWorkSurvives. *)

(* A worker that has not finished is in an iteration of the loop. *)
IterInv == \A w \in Wid : pc[w] # "finished" => iter[w] < TripCount

(* At most one process records a misspeculation; until it has, the pcb     *)
(* names no iteration and nobody has exited.                               *)
MisspecInv ==
  /\ ~pcb.happened =>
       /\ pcb.misIter = ITER_MAX /\ checker.pc = "commit"
       /\ \A w \in Wid : pc[w] # "misspec"
  /\ checker.pc = "misspec" =>
       /\ pcb.misIter = ITER_MAX /\ NextToCommit < TripCount
       /\ \A w \in Wid : pc[w] # "misspec"
  /\ \A w \in Wid : pc[w] = "misspec" =>
       /\ pcb.misIter = ITER_MAX
       /\ \A v \in Wid : pc[v] = "misspec" => v = w
  /\ EarlierWorkSurvives

(* Once the first iteration is committed each worker has its ALLOC packet  *)
(* in the queue or behind it, and behind it when the gate is open.         *)
GateInv ==
  /\ good => pcb.lastCommitted # ITER_MAX /\ Wid \subseteq informed
  /\ pcb.lastCommitted # ITER_MAX =>
       \A w \in Wid : rcq[w] # <<>> \/ w \in informed
  /\ FirstIterationFirst

PipelineInv == TypeOK /\ IterInv /\ MisspecInv /\ GateInv

-----------------------------------------------------------------------------
(* The inductive invariant behind SeesEarlierStages, QueuesDrained,        *)
(* NeverRunsOnTainted and ImplementsOrder: what is in each queue follows   *)
(* from where its two workers are. *)

(* A worker that has passed process_incoming_packets has come to its own   *)
(* stage, and one that is before it to the first; none is in the loop      *)
(* outside an invocation.                                                  *)
PositionInv ==
  \A w \in Wid :
    /\ from[w] <= StageOf[w]
    /\ pc[w] \in {"gate", "finished"} => from[w] = 0
    /\ pc[w] \notin {"gate", "receive", "finished"} => from[w] = StageOf[w]
    /\ pc[w] = "finished" /\ main.inside => iter[w] = TripCount
    /\ ~main.inside => pc[w] \in {"finished", "exited"}

(* Worker v has received the iterations before this one from stage t.      *)
NextFrom(v, t) == IF from[v] > t THEN iter[v] + 1 ELSE iter[v]

(* The iterations whose DATA and whose EOI packet worker w has sent        *)
SentEoi(w) == {j \in Iter : RunIteration(w, j) /\ j < iter[w]}
SentData(w) ==
  {j \in Iter : RunIteration(w, j) /\ (j < iter[w] \/ (j = iter[w] /\ pc[w] = "event"))}

DataIters(q) == {q[k].iter : k \in {l \in 1 .. Len(q) : q[l].kind = "DATA"}}

(* The packets of a queue lie in the order of the iterations, DATA before  *)
(* EOI.                                                                    *)
Sorted(q) ==
  /\ \A k \in 1 .. Len(q) : q[k].kind \in {"DATA", "EOI"}
  /\ \A k, l \in 1 .. Len(q) : k < l =>
       \/ q[k].iter < q[l].iter
       \/ q[k].iter = q[l].iter /\ q[k].kind = "DATA" /\ q[l].kind = "EOI"

(* In the queue from w to v are the packets w has sent and v has not       *)
(* received.                                                               *)
Unseen(w, v) == {j \in SentData(w) : <<StageOf[w], j>> \notin seen[v]}
Awaited(w, v) == {j \in SentEoi(w) : j >= NextFrom(v, StageOf[w])}

QueueInv ==
  \A w, v \in Wid :
    IF StageOf[w] < StageOf[v]
    THEN /\ Sorted(ucvf[w][v])
         /\ DataIters(ucvf[w][v]) = Unseen(w, v)
         /\ EoiIters(ucvf[w][v]) = Awaited(w, v)
    ELSE ucvf[w][v] = <<>>

(* A worker has the iterations it has received, perhaps the pages of the   *)
(* next one, and their workers have ended them.                            *)
SeenInv ==
  \A v \in Wid :
    /\ \A t \in Stage, j \in Iter : t < StageOf[v] /\ j < NextFrom(v, t) =>
         <<t, j>> \in seen[v] /\ j < iter[Source(j, t)]
    /\ \A t \in Stage, j \in Iter : <<t, j>> \in seen[v] =>
         /\ t < StageOf[v]
         /\ j < NextFrom(v, t) \/ (t = from[v] /\ j = iter[v])
         /\ j \in SentData(Source(j, t))

(* A mark on a packet or a worker is true for good.                        *)
TaintInv ==
  /\ \A w, v \in Wid : \A k \in 1 .. Len(ucvf[w][v]) :
       ucvf[w][v][k].tainted => Misspeculated(ucvf[w][v][k].iter)
  /\ \A v \in Wid : tainted[v] =>
       pc[v] \in {"receive", "check", "exited"} /\ Misspeculated(iter[v])

(* Try-commit has been told, or will be, of the iterations that workers    *)
(* have left behind; those that are committed are among them; and the one  *)
(* that misspeculated never will be.                                       *)
EndedInv ==
  \A s \in Stage, i \in Iter : <<s, i>> \in EndedIters <=> i < iter[Source(i, s)]
CommittedInv ==
  \A s \in Stage, i \in Iter : i < NextToCommit => <<s, i>> \in EndedIters
FailedInv ==
  /\ \A w \in Wid : pc[w] = "misspec" => RunIteration(w, iter[w])
  /\ checker.pc = "stopped" => pcb.misIter # ITER_MAX
  /\ pcb.misIter # ITER_MAX =>
       /\ NextToCommit <= pcb.misIter
       /\ \/ checker.pc = "stopped"
          \/ \E w \in Wid : /\ pc[w] = "exited" /\ iter[w] = pcb.misIter
                            /\ RunIteration(w, pcb.misIter)
  /\ ~main.inside => \/ EndedIters = {} \/ pcb.misIter # ITER_MAX
                     \/ pcb.lastCommitted = TripCount - 1

(* All of it but what the marks say: the part that does not depend on      *)
(* check_misspec.                                                          *)
LoopInv ==
  /\ PipelineInv
  /\ PositionInv /\ QueueInv /\ SeenInv
  /\ EndedInv /\ CommittedInv /\ FailedInv

OrderInv == LoopInv /\ TaintInv

-----------------------------------------------------------------------------
(* What NeverStuck needs beyond LoopInv.  While the gate is closed nobody  *)
(* has begun a second iteration; ALLOC packets lie in the queues only      *)
(* between the first commit and the gate; and once commit has recorded its *)
(* misspeculation it commits nothing more. *)
WaitInv ==
  /\ ~good => \A w \in Wid :
       iter[w] = 0 \/ (iter[w] = 1 /\ pc[w] \in {"gate", "finished"})
  /\ good \/ pcb.lastCommitted = ITER_MAX => \A w \in Wid : rcq[w] = <<>>
  /\ checker.pc = "stopped" => NextToCommit = pcb.misIter
=============================================================================
