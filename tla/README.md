# A verification project for SpecPriv's loop events and their translations

The repository holds the worker side of a speculative parallelization runtime
(SpecPriv) in three forms: the original `loopevent_orig.cpp` (with the cleaned
copies `loopevent.cpp` and `isolated_func_analysis.cpp`), a translation to C that
keeps queues and packets (`translation/`), and a simplified one for cost analysis
that keeps only tallies (`simplified_translation/`). This directory models the
protocol the three have in common, checks it with TLC and proves its safety
properties with TLAPS.

    tlc -config MC_SwQueue_fifo.cfg MC_SwQueue     one run; others in PROJECT.json
    tlapm SwQueueProofs.tla                        its proofs; the same for PipelineProofs,
                                                   PipelineOrderProofs, PipelineProgressProofs,
                                                   CleanedProofs, TallyProofs, PageForwardProofs
                                                   and PacketPoolProofs

## 1. Inventory

A loop is executed by a pipeline of stages. A stage has one worker process or, if
it is parallel, several. **Every** worker calls `begin_iter` and `end_iter` for
**every** iteration, but only one worker of a stage runs the body of an iteration
(`run_iteration`). What it read and wrote, page by page, is sent to all workers of
the following stages and to a try-commit process; a commit process takes iterations
in order. Processes share memory only through queues, the packets in them, one flag
(`good_to_go`) and a process control block (`pcb`).

| Component | Source | State | Operations | Interacts with | What makes it correct |
|---|---|---|---|---|---|
| software queue | `translation/queue.c` | ring of flag/value words, head, tail | produce, consume, empty, clear, reset | one producer and one consumer process, no lock | FIFO; no packet lost, repeated, overwritten; empty test exact |
| page forwarding | `loopevent_orig.cpp` 299-478, 626-914 | shadow pages, touched marks, read-only page buffer, malloc buffer | `end_iter`, `clear_read`, `forward_pair`, `buffer_ro_page`, `forward_ro_page` | sends packets to the receiver | receiver learns exactly the metadata of the iteration; framing; a clean slate for the next iteration |
| receiving | `translation/loopevent_trans.c` 100-157 | - | `process_incoming_packets` | takes packets of every earlier stage | same |
| worker pipeline | `loopevent_orig.cpp` 54-293, 626-914 | `current_iter`, pcb, `good_to_go` | `begin_invocation`, `begin_iter`, `check_misspec`, `end_iter`, `end_invocation` | all workers, try-commit, commit | an iteration runs on the values of the earlier stages; first-iteration gate; misspeculation |
| packet pools | `translation/packet.c` | ring of packets per process, `next` | `get_available_packet` and its commit form | sender takes, receiver frees (`ptr = NULL`) | a packet in a queue is not handed out again; one is found eventually |
| translated driver | `translation/loopevent_trans.c` | loop counters, `my_stage`, the queues | `main` runs `begin_iter`, `busy_wait`, `end_iter` of worker after worker | queues | uses queues that exist |
| cleaned copies | `loopevent.cpp`, `isolated_func_analysis.cpp` | as the worker pipeline | the original's without profiling; `check_misspec` does nothing | as the worker pipeline | does what the original does |
| tallies | `simplified_translation/` | a number per queue, `num_ro_pages`, `__cost` | `queue_produce`, `queue_consume`, `get_available_*`, `begin_iter`, `end_iter` | - | tallies stay a count; `begin_iter` ends |
| invariant buffers | `simplified_translation/invariant.c` | sizes modulo 8 | update functions | tallies | results stay in the arrays' bounds |
| heaps | `*/heap.c` | sizes | `init_heaps` | - | (placeholders) |
| NRBW regions | `loopevent_orig.cpp` 352-386, 478-618 | - | only called under `#if 0` | - | (dead code) |

Hard behaviour: the two sides of a queue interleave load by load; a parallel stage
sends from a different worker each iteration while receivers are iterations behind;
workers wait for each other, for the first commit and for ALLOC packets; a worker may
misspeculate and exit while others are before or after that iteration; the read-only
buffer and the metadata are carried from one iteration to the next. `PROJECT.json`
lists each hazard at its line with the properties that would catch it.

Outside the repository, and modelled from how the code here uses them: the loop body
with its instrumented loads and stores, `communicate.h` (broadcast, forward, the
source of a stage's packets), the try-commit and commit processes. The map marks them
external. The translations are texts for a cost analysis: `translation/` calls
functions and macros that nothing in the repository defines, and is modelled for what
its statements would do.

## 2. Modules

| Module | Models | State and actions |
|---|---|---|
| `PacketFifo` | the abstract queue | `items`, `got`; put, take, drop |
| `SwQueue` | `queue.c` | `flag[s]`, `val[s]` are `data[2s]`, `data[2s+1]`; `head`, `tail` count pairs of words; each store and load of the ring is one action, also where one statement has both (`word` is the register between them); `fifo`, `got` are history |
| `SwQueueProofs` | theorems on `SwQueue` | |
| `PageForward` | `end_iter` sending to one receiver | a word of shadow is a set of metadata bits 0-2; a packet is a record; one action per page in `end_iter`, or per word of a page that goes word by word, and one per packet in the receiver |
| `IterationTransfer` | the abstract transfer of iterations | `sent`, `told`; execute, tell, finish |
| `PageTransfer` | `PageForward` with the history variable that `IterationTransfer` needs | `due`, what the iterations under way left |
| `PageForwardProofs` | theorems on `PageForward` and `PageTransfer` | |
| `Pipeline` | all workers, gate, misspeculation | `pc[w]` is the call worker `w` is in; `ucvf[src][dst]` are sequences; the pages of an iteration are one DATA packet |
| `PipelineOrder` | the abstract pipeline | which stages have ended which iterations, how many are committed, which one failed |
| `PipelineProofs`, `PipelineOrderProofs`, `PipelineProgressProofs` | theorems on `Pipeline`; the second has those on the contents of the queues, the third that the processes do not block each other | |
| `CleanedLoop` | `loopevent.cpp` | the state and most actions of `Pipeline`, with its own `begin_iter`, `end_iter` and `check_misspec` |
| `CleanedProofs` | theorems on `CleanedLoop` | |
| `PacketPool` | `packet.c` | `pool[k]` is a packet: whether its `ptr` is set, what was written to it; `cur` is the local pointer of the search; one action per packet passed over, sent, taken, released; `of` is the pool looked at |
| `PacketPoolProofs` | theorems on `PacketPool` | |
| `TallyLoop` | `simplified_translation/` | one sequential program: `w`, `iter` the loops of `main`; a tally is a number; one action per packet taken, and per packet put into a queue by `forward_packet` |
| `TallyProofs` | theorems on `TallyLoop` | |
| `TranslatedDriver` | `translation/loopevent_trans.c` `main` | one sequential program; a queue is a number of packets, and exists or not |
| `MC_*` | instances for TLC | layouts of workers |

The modules are layers: `Pipeline` abstracts the pages of an iteration, which
`PageForward` has, to one packet, and both take a queue for a sequence, which
`SwQueue` implements (`ImplementsFifo`) under two conditions on its callers: at most
QUEUE_SIZE/2 packets in flight, and an emptiness test before a packet is taken. The
code itself enforces neither, see section 6. `Pipeline` in turn implements
`PipelineOrder` (`ImplementsOrder`): a stage has *ended* an iteration once its EOI packet
is on the way to try-commit or has arrived there, and what is *committed* and *failed* is
read off the control block. Gate, queues, receiving and checking are stutters there; what
is left is the order that the code arrives at without ever comparing two workers.
`PageForward`, with its history, implements `IterationTransfer` (`ImplementsTransfer`): a
receiver is told of iteration after iteration, which is what `Pipeline` takes for granted
when it sends the pages of an iteration as one packet.
`CleanedLoop` has the actions of `Pipeline` and states that its steps are steps of the
original until somebody misspeculates (`OriginalUntilMisspec`).

### What the models abstract

* Stores become visible in program order (x86-TSO); the code has no fences and no
  atomics, so on a weaker memory model or with a reordering compiler the queue's
  order of stores is not guaranteed, and nothing here says it is.
* `SwQueue`: `__sw_queue_clear` leaves the value words behind, as in the code.
* `PageForward`: one receiver. The bytes of a word are treated alike by `clear_read`
  and `forward_pair`, so a word has one byte of metadata. `half` and the DONE packet's
  `meta` are not in the code; only properties use them. The two packets of a pair
  are appended at once: the receiver can only take them one by one, in order. Some of its
  definitions name lines of the copies of `clear_read`, `forward_ro_page` and
  `forward_pair` in the map, which are the original's line for line.
  `update_shadow_for_loop_invariants` and its sibling (external) are left out: they
  only clear bits before the pages are sent.
* `PacketPool`: filling a packet and producing it is one step after it was found; the
  original does so in `communicate.h`. The translation takes a packet from the pool and
  sends another that it allocates (`create_packet`), so its pool is never used up.
  Single packets stand for EOI, ALLOC and read-only pages, whose `ptr` is set; SUPER
  pairs are left out. The receiver of a worker's pool marks a packet consumed
  (`begin_iter`); `busy_wait`, the receiver of the commit process's pool, does not, so
  that pool gives no more packets than it has (`most`).
* `TranslatedDriver`: sequential, so a queue is a number of packets; they come from
  `malloc` and have any type. No packet is ever put into a reverse commit queue.
* `CleanedLoop`: the processes outside the file are those of `Pipeline`.
* `PageForward` takes every page that has metadata to carry the touched mark, globals and
  stacks included (see below).
* `Pipeline`: at most one misspeculation per invocation (`MayFail` names the
  iterations that may); at the end of the first commit, commit waits until the ALLOC
  packets have been taken before it opens the gate. The last is an assumption on a
  process that is not here: `begin_iter` stops draining the queue as soon as it sees
  the gate open, so without it packets could be left behind. The flag and the
  iteration in the pcb are stored one after the other, flag first, the worse order for
  the reader. `process_incoming_packets` blocks until a packet is there. How the main
  process ends workers that wait for an exited one is not modelled: in the
  misspeculation run they wait (hence CHECK_DEADLOCK FALSE there).

### What is assumed of code that is not here

Some of what could go wrong is decided by code outside the repository, and the models have it
as an assumption. It is not checked, and the hazards in `PROJECT.json` that depend on it say so:

* *A producer never is more than QUEUE_SIZE/2 packets ahead* (`Window` of `SwQueue`). Nothing
  in `__sw_queue_produce` or in `end_iter` sees to that. `NeverOverwrites` is about wrap and
  interleaving, not about a producer that overruns its consumer.
* *The gate opens when all reverse commit queues are empty* (`OpenGate`). `begin_iter` relies on
  it (`loopevent_orig.cpp:186`): it does not look into the queue again once the gate is open.
* *An invocation ends when every worker has finished or exited, and the next one finds queues
  and gate reset* (`EndInvocation`, `BeginInvocation`). That nothing is carried over is, in
  part, this assumption.
* *The commit process's pool is as large as all it ever sends* (the third pool of
  `packet_pools`), as its packets are not released.
* *The packets of a stage come from the worker `run_iteration` names* (`Source` of `Pipeline`).
  What `process_incoming_packets` does in `communicate.h` is not known; the only rendering of it
  here, `translation/loopevent_trans.c:104`, always takes those of worker 0.
* *Metadata never comes without the touched mark* (`RunBody` of `PageForward`). The code is not
  sure of it for globals and stacks (the TODOs at `loopevent_orig.cpp:704-706` and 771-773).
  `ReceivesAllMetadata` and `CleanSlate` would fail for a page without the mark: it is
  neither sent nor reset.

## 3. Runs

| Run | Instance | Shows |
|---|---|---|
| `queue_fifo` | 3 slots, 2 packets, window 3 | every interleaving is a FIFO queue; packets are taken eventually |
| `queue_untested` | no emptiness test | **violation**: a null pointer is taken |
| `forward_kinds` | 2 pages of 2 words, WordLimit 1, buffer of 2 | all three ways to send a page, in every mixture, over many iterations; the read-only buffer entered at every fill level and running full |
| `forward_reads` | 1 page of 2 words | **violation**: a read byte is sent without bit 0 |
| `packet_pools` | 2 destinations with windows of 2; pools of 9 packets (with pairs), 4 (without), 6 (never released) | packets with a null `ptr` are not handed out while in flight; packets that are not released are passed over, and the search ends all the same |
| `tally_loop` | 3 workers, 4 iterations, 8 stages, capacity 6, 6 packets per `end_iter`; ints of 4 bits, of which -3, 0 and 5 lie in front of the array | tallies stay in range, second packets are there, every step is one nearer to the end, `main` ends |
| `tally_counts` | the same | **violation**: a tally falls below zero |
| `pipeline_sps` | workers 0 / 1 2 / 3, 3 iterations | two levels of pipeline around a parallel stage |
| `pipeline_misspec` | workers 0 1 / 2, any of 3 iterations fails, 2 invocations | parallel first stage; exit, late and early checks; nothing carried over to the next invocation |
| `cleaned_loop` | the same, workers of `loopevent.cpp` | the cleaned worker is the original one until somebody misspeculates, and commits as much |
| `cleaned_tainted` | the same | **violation**: it runs iterations on pages of one that misspeculated |
| `driver_queues` | the constants of `translation/constants.h` | **violation**: `main` uses a queue that does not exist |

The properties:

* `RingInv` the packets in flight lie back to back from the consumer's slot, all other
  slots are free (with the facts about the two callers that make it inductive);
  `NeverOverwrites`, `EmptyIsExact`, `ImplementsFifo`, `EventuallyTaken`.
* `PairsStayTogether` sender and receiver agree on the framing; `ReceivesAllMetadata`
  at DONE the receiver knows exactly what the body left; `UpdatesMappedPages` ALLOC
  before updates; `CleanSlate`; `ImplementsTransfer` nothing of one iteration is told with
  another, and a receiver goes on to the next when it knows all of the one before;
  `IterationReceived`.
* `NoReuseInFlight`, `PairsIntact` a packet is not handed out twice, and what a
  receiver reads is what was sent to it; `NoPacketLost` a packet that is not in a queue
  and not with a receiver is free, so that the pool never shrinks; `FoundAtOnce` the search of a large pool looks at
  one packet; `MessageSent`.
* `SecondPacketThere` `begin_iter` never takes the second of a pair from an empty tally;
  `TalliesInRange`; `MainEnds`, and `StepsDescend`, the measure that makes it so: no tally, whatever
  int it is, keeps a loop going for ever.
* `SeesEarlierStages` an executing worker has exactly what earlier stages wrote in
  iterations 0 to its own; `FirstIterationFirst`; `NeverRunsOnTainted` receiving before
  checking; `EarlierWorkSurvives` nobody exits before the failed iteration;
  `QueuesDrained`; `NeverStuck` unless all that had to be decided is
  decided, some process can go on; `EveryIterationDecided` all iterations up to
  the failed one are committed; `ImplementsOrder` stages end iterations in the order of
  the pipeline, iterations are committed in order, each after all stages have ended it
  and none from the failed one on, and a new invocation begins with nothing left over.
* `OriginalUntilMisspec` the cleaned worker does nothing the original does not.
* `QueuesOfWorkers` the queues used are from one worker to another.

### Bounds and why they are enough

A ring of three slots is the smallest in which first, middle and last slot differ and
in which it can be empty, partly full and full at every position; two packets tell
order apart. With WordLimit 1 and two words a page can be zero, read-only, sparse or
dense; ForwardWhole then sends two words, and the word-by-word loop skips one. A buffer
of two is filled by two read-only pages, and the index that is left over makes the next
iteration start at every fill level and overflow the buffer within it. `StreamBound`
(1) lets an iteration start only when the packets of the one before are taken; the
receiver's lag beyond that is `Pipeline`'s concern. `IterationReceived` says that the stream
becomes empty, and relies on it. So at most one iteration is under way in
this run of `ImplementsTransfer`; for any number of them it is the theorem
`ForwardImplementsTransfer` (TLC agrees on one page with a `StreamBound` of 6, which lets
several iterations be under way). Three iterations over a parallel
stage of two workers bring each worker back to a second iteration and let the first
stage run two iterations ahead. The pool has one packet more than can be in flight,
NumDest * (Window + 2), the packets a receiver has taken and not released included;
with 8 instead of 9 a packet is handed out twice (for other numbers of destinations and
other windows the bound is the theorem `PoolsAreLargeEnough`). In that pool no packet is ever
passed over; the second has 4, and the search goes round it more than once; the third has the 6
packets that three messages to two destinations take, and with fewer the search would
not end. The code's PACKET_POOL_SIZE (524288)
is far above that bound for 31 workers and queues of 8192 (254014), but only because a
message goes to all workers before the next one is sent. The simplified program is deterministic; its
instance has 4 in place of 12 for the workers and 8 heaps instead of 20, so that, unlike with
the constants of the code, `my_stage` also jumps, and 6 packets and a capacity of 6 fill
rows, empty them and drop packets. Its ints have four bits (`IntMax` 7): a tally of -3 in front
of the array counts down to -8 and goes on from 7, so that the turns a negative tally takes are
all there, 13 of them where the code's ints have 2^32 - 3. The translated program is deterministic too, up to the
types of the packets, and runs with the constants of the code. `ITER_MAX` (15) stands for the largest unsigned
`Iteration`; it only has to exceed the trip count.

### Fairness

* `SwQueue`: weak fairness of the consumer, which polls in a loop; none of the
  producer.
* `PageForward`: weak fairness of a worker inside `end_iter` and of the receiver,
  which waits for packets; none of the loop body.
* `PacketPool`: weak fairness of the search of a worker that has a message to send, and
  of each receiver; none of the start of a message.
* `TallyLoop`: weak fairness of the one process it is.
* `Pipeline`: weak fairness of each worker process, of try-commit for each of its
  queues, of commit and of the end of an invocation: processes are scheduled by the
  operating system and their loops contain no other wait than the guards shown.
  Nothing is assumed of failures or of a further invocation. `CleanedLoop` the same.

## 4. Proofs

`SwQueueProofs` proves for every QUEUE_SIZE, set of packets and window, from
`QueueAssumption` and `CallersBehave` (window at most QUEUE_SIZE/2, test before take):

* `RingInvariant`: `Spec => []RingInv`. `RingHoldsFifo` alone is not inductive: a
  step of `__sw_queue_consume` has to know that it holds the oldest packet
  (`HoldsOldest`), and `__sw_queue_produce` that its slot is right behind the packets
  in flight (`FrontFollowsFifo`) and that it keeps to its window (`WithinWindow`). The
  proof rests on lemmas about `Advance` and `Distance` on a ring and has one step per
  action.
* `NeverOverwritten`, `EmptyTestExact`: from `RingInvariant`; `QueueTypesKept` that head,
  tail and the words keep their types.
* `RingImplementsFifo`: every step of the ring is a put, take or drop of `PacketFifo`,
  or leaves it unchanged.

`PipelineProofs` proves for every number of stages, workers, iterations and
invocations, from `SizeAssumption` (the trip count fits an `Iteration` and is not -1)
and `LayoutAssumption` (the workers of a stage are consecutive, the stages in order):

* `PipelineInvariant`: `Spec => []PipelineInv`, of four conjuncts. `MisspecInv` is
  `EarlierWorkSurvives` with what keeps it true between the two stores to the pcb: only
  one process records a misspeculation, and until it has stored the iteration
  `misIter` is ITER_MAX, which no worker has reached. `GateInv` is `FirstIterationFirst`
  with the way of the ALLOC packet: once iteration 0 is committed it is in each
  worker's queue or has been taken. One lemma for each conjunct, one step for each action.
* `TypesKept`, `FirstIterationIsFirst`, `EarlierIterationsSurvive`: its consequences. Type
  correctness rests on `SourceIsWorker`, that the modulus leads to a worker.

`PipelineOrderProofs` adds, from the same assumptions, what is in the queues:

* `OrderInvariant`: `Spec => []OrderInv`. `QueueInv` says of each pair of workers that
  the queue between them holds, in order, the iterations that one has sent and the
  other has not taken; which these are follows from where the two workers are
  (`Unseen`, `Awaited`), so that a packet sent, taken or skipped changes both sides of
  the equation alike. `SeenInv` has what a worker received, `EndedInv`, `CommittedInv`
  and `FailedInv` what try-commit, commit and the control block say of the workers, and
  `TaintInv` that a mark is never wrong. The first of these rest on the two formulas of
  the code for the worker of an iteration giving the same (`SourceRuns`).
* `EarlierStagesSeen`, `QueuesAreDrained`, `TaintedNeverRuns`: its consequences.
* `PipelineImplementsOrder`: a step of the workers is a step of `PipelineOrder` or
  leaves its variables unchanged.

`PipelineProgressProofs` has the safety half of progress, from the same assumptions:

* `PipelineNeverStuck`: `Spec => []NeverStuck`. The argument is the order the code relies
  on: of the workers that have not finished, the one that is furthest behind - by its
  iteration, then by its stage - waits for nobody. What it waits for at a queue was sent by
  a worker that is ahead of it (`QueueInv`), or that worker has exited after an iteration
  that must not be committed; at the gate it waits for the first commit, hence for packets
  the checker has (`WaitInv`). `CanGoOn` and `CheckerCanGoOn` are the guards of the
  actions, spelled out because ENABLED is beyond the prover; TLC checked that they are
  equivalent to it. `NeverStuck` with weak fairness is what `EveryIterationDecided` comes
  from; that last step stays with TLC.

`CleanedProofs`: `CleanedIsOriginal`, and with it that `LoopInv` (`OrderInv` without
`TaintInv`, which the cleaned workers break) is invariant for them too, hence
`CleanedSeesEarlierStages`, `CleanedImplementsOrder` and `CleanedNeverStuck`.

`PageForwardProofs`, for all pages, words, limits and sizes of the buffer, and for any
`StreamBound`, from `ForwardAssumption` and the null values being none of the others:

* `ForwardInvariant`: `Spec => []ForwardInv`. It looks at the stream as the receiver
  will: `Framed` says at which places pairs begin, `MappedInv` which pages are known
  *before* a packet is taken, `DoneInv` that at each DONE packet the metadata told since
  the last one is what that iteration left. `ToldInv` is the same for the iteration
  that is being sent: what was told, or lies in the read-only buffer, is what belongs to
  the pages and words the loop has passed. `SlateInv` has what the loop has still to do.
* `TypesKept`, `FramingAgrees`, `UpdatesAreMapped`, `AllMetadataReceived` and
  `SlateIsClean`: its consequences.
* `ForwardImplementsTransfer`: `TransferSpec => ImplementsTransfer`, a step of the sender
  or the receiver is a step of `IterationTransfer` or leaves its variables unchanged. It
  needs `DueInv` besides `ForwardInv`: there are places in the stream, in the order of the
  iterations under way, that hold their DONE packets and account for all DONE packets there
  are; only the last iteration may lack its packet, while it is being sent. Then what the
  receiver knows at any moment belongs to the oldest of them (`KnowsTheOldest`): up to the
  first DONE packet by `DoneInv`, and if there is none, one iteration is under way and
  `ToldInv` has it. `HistoryIsIdle` says that the history restrains nothing.

`PacketPoolProofs`, for every number of destinations and every window, from
`PoolAssumption` and `LargeEnough` (a pool that sends pairs has more than
NumDest * (Window + 2) packets and its packets are released; others may have any size):

* `PoolInvariant`: `Spec => []PoolInv`. That no packet is handed out while in flight is
  not inductive, as the second packet of a pair looks free. What makes it true is
  `Ordered`: in a large pool the packet that was sent n packets ago lies n before `cur`,
  because no packet has to be passed over, because the one at `cur` is older than any in
  flight. The age of a packet follows from its place in its queue and from how far the
  round over the destinations has come, and is unique to it (`AgeUnique`); it is at most
  NumDest * (Window + 2) (`AgeRange`).
* `TypesKept`, `PoolsAreLargeEnough`, `PairsStayIntact`, `SearchIsOneLook`, `NothingIsLost`:
  its consequences.

`TallyProofs`, for all the values of `constants.h` that `TallyAssumption` allows:
`TallyInvariant`, and from it `SizesInBounds`, `PairsAreWhole` and `TalliesBounded`. The
search for room in a row of tallies is a choice among the rows that come first, so that
the proof needs the smallest of a set of numbers and no recursion. `EveryStepDescends` is
what makes main end: each step goes on to a later worker, iteration or phase of an
iteration, or leaves fewer turns of the loop it is in, or fewer packets in the tally (or
stages to forward to) of that turn; the run checks the same formula, `StepsDescend`. The
tallies and what lies in front of the array are any ints. One below zero is counted down to the
least int and, over the wrap, on to zero (`Takes` is the number of turns); where the overflow
does something else, which C allows, or another variable lies there, nothing is proved.
`DescentIsBounded`: what descends are numbers, so that it cannot go on for ever; it needs that
the second packet of a pair is there (taking it is a step too, and there is none to take from
zero) and that the loop of `begin_iter` does not run past `my_stage`.

Only model-checked is liveness (`EventuallyTaken`, `IterationReceived`, `MessageSent`,
`MainEnds`, `EveryIterationDecided`), because ENABLED, and with it what follows from weak
fairness, is out of the prover's reach. For three of them the safety part is proved:
`NothingIsLost` for `MessageSent`, `EveryStepDescends` for `MainEnds`, `PipelineNeverStuck`
for `EveryIterationDecided`; the first and the last still lack a measure of what is left to
do. All other properties of the passing runs are proved.

## 5. Plan

Done, in this order: the queue, on which everything rests; what a stream of packets
means (`PageForward`); what the workers promise each other (`Pipeline`, with
`PipelineOrder` as what they implement); what pools add to the queues (`PacketPool`); the
two translated programs (`TallyLoop`, `TranslatedDriver`); the cleaned copies
(`CleanedLoop`); then the theorems, module by module.

What could follow:

1. SUPER pairs in `PacketPool`, with and without the release of the second packet, once
   `forward_page` and `update_super_packet` are in the repository.
2. `Pipeline` with `IterationTransfer` in place of its DATA packet, so that the two
   refinements meet in one module.
3. The gate with a main process that ends workers.
4. For `Pipeline` and `PacketPool` a measure that every step lowers, as `TallyLoop` has:
   no worker ever goes back, and the packets it can take in an iteration are finite in
   number.

## 6. What the runs found

* **The translation consumes without waiting** (`queue_untested`).
  `loopevent_trans.c:98` says that busy waiting is called separately; `busy_wait` only
  covers the reverse commit queues. The comment may mean only the wait at the gate; then no
  line of the translation says who waits for the packets of the stages, and none does. The
  run is of the queue with such a caller: with the constants as they are `main` stops before
  anything is received (`driver_queues`).
* **`clear_read` does not set bit 0** (`forward_reads`). `s0 & mask0` in
  `loopevent_orig.cpp:326` is always zero where the mask matters (the mask alone was
  meant), so a byte that was read on a page with other, written bytes is sent as
  b'0100, which by the comment above it try-commit does not verify.
* **A tally becomes negative** (`tally_counts`). `simplified_translation/packet.c:75`
  compares `queues[idx]`, a row, with the capacity: no queue to an auxiliary process is
  ever found to have room, and each packet lowers the tally by one.

* **The cleaned copy does not check** (`cleaned_tainted`). `check_misspec` of
  `loopevent.cpp:51` lost its condition together with the profiling around it; the
  comments at its call (157-165) still say what it is there for. `isolated_func_analysis.cpp`
  has the same one. Nothing wrong is committed for that: `cleaned_loop` shows that the
  iterations before the failed one are committed, and no more.
* **The translated program uses a queue that does not exist** (`driver_queues`).
  `forward_packet` looks a queue up by the number of a stage (`loopevent_trans.c:222`), and
  there are 20 stages and 10 workers: the first packet of worker 0 for stage 10 is stored
  through a null pointer. What comes after that in `main` is not reached with these
  constants, `begin_iter`'s receiving and `end_invocation` included. The only settings of
  `constants.h` with which it goes on are `NUM_WORKERS_PER_HEAP` 1 and as many heaps as
  workers (one iteration, nobody receives), and those with too few heaps for an iteration.

`__sw_queue_produce` does not look whether its slot is free, and a packet takes two words:
`queue_fifo` assumes a producer that is at most QUEUE_SIZE/2 packets ahead. No bound in
`end_iter` keeps a stage from running further ahead of the next; the comment in
`simplified_translation/constants.h:63`, which has a maximum of QUEUE_SIZE elements, counts
words.

`NUM_WORKERS` expands without parentheses, and `(wid+i) % NUM_WORKERS` to
`((wid+i) % 12) - 2`: `begin_iter` and `forward_packet` of the simplified program use rows
-1 and -2 of `ucvf_queues`. `TallyLoop` has these rows, which hold any int in the beginning,
and assumes that no other variable lies there; `queues` in particular, whose tallies go below
zero, does not. `queue_consume` says DONE only at zero. From a negative int `begin_iter`
therefore takes 2^31 packets or more, over an overflow that C leaves undefined and that
`TallyLoop` takes as the wrap of the machine's subtraction. That `main` ends is true only so.

## 7. Not modelled

Profiling and affinity (no effect on the protocol), unmapping of memory (`fini_queues`,
`fini_packets`, which the translated program does not reach), the heaps of
the translations (placeholders), the NRBW and separation regions (under `#if 0`), chunks
of SUPER packets (no code takes one from its pool), recovery after a misspeculation and
the life of the processes (not in the repository).
