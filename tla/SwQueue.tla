------------------------------ MODULE SwQueue ------------------------------
(***************************************************************************)
(* The software queue of translation/queue.c: a ring of QUEUE_SIZE words   *)
(* in memory shared by one producer process and one consumer process.      *)
(*                                                                         *)
(* An element takes two words, a flag and a value, so the ring is modelled *)
(* as Slots pairs and the pointers head and tail, which always move by two *)
(* words, as slot numbers.  There is no lock and no count: the flag of a   *)
(* slot is the only thing the two sides tell each other.  Every store and  *)
(* load of __sw_queue_produce, __sw_queue_consume and __sw_queue_clear is  *)
(* an action of its own, in program order.                                 *)
(*                                                                         *)
(* The code never compares head with tail.  Window is the number of        *)
(* packets the callers keep in the queue; TestFirst says whether the       *)
(* consumer asks __sw_queue_empty before it consumes, as busy_wait does,   *)
(* or not, as __specpriv_begin_iter does.                                  *)
(***************************************************************************)
EXTENDS Naturals, Sequences

CONSTANTS
  QUEUE_SIZE,  (* words in the ring                                       *)
  Packets,     (* the pointers that are produced                          *)
  NULL,        (* SW_QUEUE_NULL, which is also the null pointer           *)
  OCCUPIED,    (* SW_QUEUE_OCCUPIED                                       *)
  Window,      (* most packets in flight                                  *)
  TestFirst    (* is __sw_queue_empty asked before __sw_queue_consume?    *)

ASSUME QueueAssumption ==
  /\ QUEUE_SIZE \in Nat \ {0}
  /\ QUEUE_SIZE % 2 = 0
  /\ NULL \notin Packets
  /\ OCCUPIED # NULL
  /\ Window \in Nat
  /\ TestFirst \in BOOLEAN

VARIABLES
  flag,   (* data[2*s]: NULL when slot s is free                          *)
  val,    (* data[2*s+1]                                                  *)
  head,   (* slot the producer writes next                                *)
  tail,   (* slot the consumer reads next                                 *)
  pp,     (* where the producer is in __sw_queue_produce                  *)
  cp,     (* where the consumer is in its call                            *)
  value,  (* local variable of __sw_queue_consume                         *)
  word,   (* register: the value word on its way to the flag              *)
  fifo,   (* history: packets published and not yet taken                 *)
  got     (* history: what the last __sw_queue_consume returns            *)

vars == <<flag, val, head, tail, pp, cp, value, word, fifo, got>>

Slots == QUEUE_SIZE \div 2
Slot == 0 .. Slots - 1

(* "pointer += 2; if (pointer >= &data[QUEUE_SIZE]) pointer = &data[0]",   *)
(* and two mutants: one that does not wrap, one that wraps a slot early.   *)
NoWrap(s) == s + 1
WrapEarly(s) == IF s + 2 >= Slots THEN 0 ELSE s + 1
Advance(s) == IF s + 1 >= Slots THEN 0 ELSE s + 1

(* The history forgets the packet that was published first. *)
Rest(s) == IF s = <<>> THEN s ELSE Tail(s)

(* __sw_queue_create and __sw_queue_reset, before any process uses it. *)
Init ==
  /\ flag = [s \in Slot |-> NULL]
  /\ val = [s \in Slot |-> NULL]
  /\ head = 0
  /\ tail = 0
  /\ pp = "idle"
  /\ cp = "idle"
  /\ value = NULL
  /\ word = NULL
  /\ fifo = <<>>
  /\ got = NULL

-----------------------------------------------------------------------------
(* The producer: __sw_queue_produce. *)

ProduceValue ==
  /\ pp = "idle"
  /\ Len(fifo) < Window
  /\ \E p \in Packets : val' = [val EXCEPT ![head] = p]
  /\ pp' = "publish"
  /\ UNCHANGED <<flag, head, tail, cp, value, word, fifo, got>>

ProduceFlag ==
  /\ pp = "publish"
  /\ flag' = [flag EXCEPT ![head] = OCCUPIED]
  /\ fifo' = Append(fifo, val[head])
  /\ pp' = "advance"
  /\ UNCHANGED <<val, head, tail, cp, value, word, got>>

ProduceAdvance ==
  /\ pp = "advance"
  /\ head' = Advance(head)
  /\ pp' = "idle"
  /\ UNCHANGED <<flag, val, tail, cp, value, word, fifo, got>>

Producer == ProduceValue \/ ProduceFlag \/ ProduceAdvance

-----------------------------------------------------------------------------
(* The consumer: __sw_queue_consume, after __sw_queue_empty if asked. *)

IsEmptyAtHead == flag[head] = NULL  (* a mutant *)
IsEmpty == flag[tail] = NULL

BeginConsume ==
  /\ cp = "idle"
  /\ TestFirst => ~IsEmpty
  /\ cp' = "read"
  /\ UNCHANGED <<flag, val, head, tail, pp, value, word, fifo, got>>

(* Mutant: the pointer is advanced before the value is read. *)
ConsumeReadNext ==
  /\ cp = "read"
  /\ value' = val[Advance(tail)]
  /\ cp' = "clear_value"
  /\ UNCHANGED <<flag, val, head, tail, pp, word, fifo, got>>

ConsumeRead ==
  /\ cp = "read"
  /\ value' = val[tail]
  /\ cp' = "clear_value"
  /\ UNCHANGED <<flag, val, head, tail, pp, word, fifo, got>>

(* Mutant: the value word is not cleared. *)
ConsumeKeepValue ==
  /\ cp = "clear_value"
  /\ cp' = "load_word"
  /\ UNCHANGED <<flag, val, head, tail, pp, value, word, fifo, got>>

ConsumeClearValue ==
  /\ cp = "clear_value"
  /\ val' = [val EXCEPT ![tail] = NULL]
  /\ cp' = "load_word"
  /\ UNCHANGED <<flag, head, tail, pp, value, word, fifo, got>>

(* The flag is cleared by copying the value word over it: a load *)
ConsumeLoadWord ==
  /\ cp = "load_word"
  /\ word' = val[tail]
  /\ cp' = "clear_flag"
  /\ UNCHANGED <<flag, val, head, tail, pp, value, fifo, got>>

(* and a store. *)
ConsumeClearFlag ==
  /\ cp = "clear_flag"
  /\ flag' = [flag EXCEPT ![tail] = word]
  /\ fifo' = Rest(fifo)
  /\ got' = value
  /\ cp' = "advance"
  /\ UNCHANGED <<val, head, tail, pp, value, word>>

ConsumeAdvance ==
  /\ cp = "advance"
  /\ tail' = Advance(tail)
  /\ cp' = "idle"
  /\ UNCHANGED <<flag, val, head, pp, value, word, fifo, got>>

(* __sw_queue_clear: frees slots until the one at tail is free. *)

BeginClear ==
  /\ cp = "idle"
  /\ cp' = "clear"
  /\ UNCHANGED <<flag, val, head, tail, pp, value, word, fifo, got>>

ClearSlot ==
  /\ cp = "clear"
  /\ ~IsEmpty
  /\ flag' = [flag EXCEPT ![tail] = NULL]
  /\ fifo' = Rest(fifo)
  /\ cp' = "clear_advance"
  /\ UNCHANGED <<val, head, tail, pp, value, word, got>>

ClearAdvance ==
  /\ cp = "clear_advance"
  /\ tail' = Advance(tail)
  /\ cp' = "clear"
  /\ UNCHANGED <<flag, val, head, pp, value, word, fifo, got>>

EndClear ==
  /\ cp = "clear"
  /\ IsEmpty
  /\ cp' = "idle"
  /\ UNCHANGED <<flag, val, head, tail, pp, value, word, fifo, got>>

Consumer ==
  \/ BeginConsume \/ ConsumeRead \/ ConsumeClearValue
  \/ ConsumeLoadWord \/ ConsumeClearFlag \/ ConsumeAdvance
  \/ BeginClear \/ ClearSlot \/ ClearAdvance \/ EndClear

Next == Producer \/ Consumer

Spec == Init /\ [][Next]_vars

(* The consumer polls in a loop, so it never stops for good. *)
FairSpec == Spec /\ WF_vars(Consumer)

-----------------------------------------------------------------------------
TypeOK ==
  /\ flag \in [Slot -> Packets \cup {NULL, OCCUPIED}]
  /\ val \in [Slot -> Packets \cup {NULL}]
  /\ head \in Slot
  /\ tail \in Slot
  /\ pp \in {"idle", "publish", "advance"}
  /\ cp \in {"idle", "read", "clear_value", "load_word", "clear_flag", "advance",
             "clear", "clear_advance"}
  /\ value \in Packets \cup {NULL}
  /\ word \in Packets \cup {NULL}
  /\ fifo \in Seq(Packets)
  /\ got \in Packets \cup {NULL}

(* Where the oldest packet still in the queue is: the consumer that has    *)
(* freed a slot and not moved on yet leaves tail one behind.               *)
Oldest == IF cp \in {"advance", "clear_advance"} THEN Advance(tail) ELSE tail

(* Where the next packet goes: the producer that has published a slot and  *)
(* not moved on yet leaves head one behind.                                *)
Front == IF pp = "advance" THEN Advance(head) ELSE head

(* How far slot s is from the oldest packet, walking the ring. *)
Distance(s) == IF s >= Oldest THEN s - Oldest ELSE s - Oldest + Slots

(* Between the two words it clears, the consumer leaves the oldest packet's *)
(* flag without its value.                                                 *)
Clearing == cp \in {"load_word", "clear_flag"}

(* The packets in flight lie in the ring back to back from Oldest, in the  *)
(* order they were published, and every other slot is free: what the two   *)
(* sides rely on when they test a flag instead of comparing head and tail. *)
RingHoldsFifo ==
  \A s \in Slot :
    IF Distance(s) < Len(fifo)
    THEN /\ flag[s] # NULL
         /\ val[s] = fifo[Distance(s) + 1] \/ (s = tail /\ Clearing)
    ELSE flag[s] = NULL

(* A producer that keeps to its Window never stores into a slot whose      *)
(* packet has not been taken (__sw_queue_produce does not look).           *)
NeverOverwrites ==
  (pp = "idle" /\ Len(fifo) < Window) => flag[head] = NULL

(* __sw_queue_empty, asked between two calls of the consumer, is right in  *)
(* both directions whatever the producer is doing at that moment.          *)
EmptyIsExact ==
  cp \in {"idle", "clear"} => (IsEmpty <=> fifo = <<>>)

(* __sw_queue_consume returns a packet, never the null pointer that        *)
(* process_incoming_packets and busy_wait would dereference.               *)
NeverTakesNull == cp = "advance" => got \in Packets

(* The slot the producer writes next is right behind the packets in        *)
(* flight, or the oldest of them when the ring is full.                    *)
FrontFollowsFifo ==
  IF Len(fifo) < Slots
  THEN Distance(Front) = Len(fifo)
  ELSE Len(fifo) = Slots /\ Front = Oldest

(* The producer keeps to its window, the packet it is about to publish     *)
(* included.                                                               *)
WithinWindow ==
  /\ Len(fifo) <= Window
  /\ pp = "publish" => Len(fifo) < Window /\ val[head] \in Packets

(* A consumer inside __sw_queue_consume has hold of the oldest packet.     *)
HoldsOldest ==
  /\ cp \in {"read", "clear_value"} \/ Clearing => fifo # <<>>
  /\ cp = "clear_value" \/ Clearing => value = fifo[1]
  /\ Clearing => val[tail] = NULL
  /\ cp = "clear_flag" => word = NULL

(* The inductive invariant: it holds when the window fits into the ring    *)
(* and the consumer asks before it takes.                                  *)
RingInv ==
  /\ TypeOK
  /\ RingHoldsFifo
  /\ FrontFollowsFifo
  /\ WithinWindow
  /\ HoldsOldest
  /\ NeverTakesNull

(* The ring of flags implements the queue of packets: every step is a put, *)
(* a take of the oldest packet, a drop of the oldest packet, or invisible. *)
Fifo == INSTANCE PacketFifo WITH items <- fifo
ImplementsFifo == Fifo!Spec

(* While packets are in the queue the consumer keeps taking them: it never *)
(* polls past a published packet for ever.                                 *)
EventuallyTaken ==
  (fifo # <<>>) ~> (cp \in {"advance", "clear_advance"})
=============================================================================
