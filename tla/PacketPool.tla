----------------------------- MODULE PacketPool -----------------------------
(***************************************************************************)
(* A pool of packets, of a worker or of the commit process: packet.c of    *)
(* translation/.                                                           *)
(*                                                                         *)
(* A packet is free when its ptr is null.  get_available_packet turns      *)
(* round the pool until it meets a free one; the receiver sets ptr to null *)
(* when it is done with a packet.  The second packet of a pair is sent     *)
(* with a null ptr (forward_pair), so it looks free while it is in a queue *)
(* and nothing but the size of the pool keeps it from being handed out.    *)
(*                                                                         *)
(* A worker sends each message to all NumDest workers that follow, taking  *)
(* a packet for each, and keeps at most Window packets in a queue (see     *)
(* SwQueue).  Filling and producing a packet are outside src/.             *)
(*                                                                         *)
(* The commit process sends ALLOC packets to all workers.  They take them  *)
(* in busy_wait, which does not release them: its pool is used up after    *)
(* PoolSize packets, and it must not send more in an invocation.           *)
(***************************************************************************)
EXTENDS Naturals, Sequences

CONSTANTS
  NumDest,    (* workers of the following stages                           *)
  Window,     (* most packets in one queue                                 *)
  Pools       (* the pools looked at: of each its PACKET_POOL_SIZE, the    *)
              (* messages sent from it, whether receivers release its      *)
              (* packets and, if they do not, how many messages are sent   *)

ASSUME PoolAssumption ==
  /\ NumDest \in Nat \ {0}
  /\ Window \in Nat \ {0}
  /\ \A p \in Pools :
       /\ p.size \in Nat \ {0}
       /\ p.messages \subseteq {<<"single">>, <<"pair", "shadow">>}
       /\ p.released \in BOOLEAN
       /\ p.most \in Nat

(* A pool from which pairs are sent has more packets than can be in flight *)
(* at a time, those a receiver has taken and not released included.        *)
MostInFlight == NumDest * (Window + 2)
ASSUME LargeEnough ==
  \A p \in Pools :
    \/ p.messages \subseteq {<<"single">>}
    \/ p.released /\ p.size > MostInFlight

Dest == 1 .. NumDest

(* A message is one packet, as EOI and ALLOC are, or a pair. *)
Kind == {"single", "pair", "shadow"}

VARIABLES
  of,      (* the pool this is; it stays the same                          *)
  sent,    (* messages begun, where packets are not released               *)
  pool,    (* ptr: is it set?  kind: what was written into the packet      *)
  next,    (* packet_nexts[wid]                                            *)
  cur,     (* local variable next of get_available_packet                  *)
  todo,    (* packets of the message that are still to be sent             *)
  dest,    (* the destination the loop over workers has come to            *)
  q,       (* the queues, as sequences of packets                          *)
  rpc,     (* where each receiver is in process_incoming_packets           *)
  hold     (* packets each receiver has taken and not released             *)

sender == <<sent, next, cur, todo, dest>>
vars == <<of, pool, sender, q, rpc, hold>>

Index == 0 .. of.size - 1

Init ==
  /\ of \in Pools
  /\ sent = 0
  /\ pool = [k \in Index |-> [ptr |-> FALSE, kind |-> "single"]]
  /\ next = 0 /\ cur = 0
  /\ todo = <<>> /\ dest = 1
  /\ q = [d \in Dest |-> <<>>]
  /\ rpc = [d \in Dest |-> "idle"]
  /\ hold = [d \in Dest |-> <<>>]

-----------------------------------------------------------------------------
(* The sender. *)

(* The packet behind k, back to the beginning at the end of the pool; a    *)
(* mutant does not go back.                                                *)
OffTheEnd(k) == k + 1
Behind(k) == IF k + 1 >= of.size THEN 0 ELSE k + 1

(* Where the search goes on after packet k was handed out; in the mutant   *)
(* it starts with the same packet again.                                   *)
Again(k) == k
NextAfter(k) == Behind(k)

(* Mutant: the packet is not tested. *)
Untested(k) == TRUE
IsAvailable(k) == ~pool[k].ptr

BeginMessage ==
  /\ todo = <<>>
  /\ todo' \in of.messages
  /\ of.released \/ sent < of.most
  /\ sent' = IF of.released THEN sent ELSE sent + 1
  /\ cur' = next
  /\ dest' = 1
  /\ UNCHANGED <<of, pool, next, q, rpc, hold>>

(* A packet that is not available is passed over. *)
PassOver ==
  /\ todo # <<>> /\ ~IsAvailable(cur)
  /\ cur' = Behind(cur)
  /\ UNCHANGED <<of, pool, sent, next, todo, dest, q, rpc, hold>>

(* An available packet is filled and put into the queue of dest. *)
SendAvailable ==
  /\ todo # <<>> /\ IsAvailable(cur)
  /\ Len(q[dest]) < Window
  /\ pool' = [pool EXCEPT ![cur] =
                [ptr |-> Head(todo) # "shadow", kind |-> Head(todo)]]
  /\ q' = [q EXCEPT ![dest] = Append(@, cur)]
  /\ next' = NextAfter(cur)
  /\ cur' = NextAfter(cur)
  /\ IF dest < NumDest
     THEN dest' = dest + 1 /\ UNCHANGED todo
     ELSE dest' = 1 /\ todo' = Tail(todo)
  /\ UNCHANGED <<of, sent, rpc, hold>>

GetAvailablePacket == PassOver \/ SendAvailable

-----------------------------------------------------------------------------
(* The receivers: process_incoming_packets. *)

TakeFirst(d) ==
  /\ rpc[d] = "idle" /\ q[d] # <<>>
  /\ hold' = [hold EXCEPT ![d] = <<Head(q[d])>>]
  /\ rpc' = [rpc EXCEPT ![d] =
               IF pool[Head(q[d])].kind = "pair" THEN "shadow" ELSE "use"]
  /\ q' = [q EXCEPT ![d] = Tail(@)]
  /\ UNCHANGED <<of, pool, sender>>

TakeShadow(d) ==
  /\ rpc[d] = "shadow" /\ q[d] # <<>>
  /\ hold' = [hold EXCEPT ![d] = Append(@, Head(q[d]))]
  /\ rpc' = [rpc EXCEPT ![d] = "use"]
  /\ q' = [q EXCEPT ![d] = Tail(@)]
  /\ UNCHANGED <<of, pool, sender>>

(* Mutant: the packet is not marked. *)
MarkNone(d) ==
  /\ rpc[d] = "use" /\ of.released
  /\ hold' = [hold EXCEPT ![d] = <<>>]
  /\ rpc' = [rpc EXCEPT ![d] = "idle"]
  /\ UNCHANGED <<of, pool, sender, q>>

(* "mark packet consumed": the first packet only. *)
MarkConsumed(d) ==
  /\ rpc[d] = "use" /\ of.released
  /\ pool' = [pool EXCEPT ![hold[d][1]].ptr = FALSE]
  /\ hold' = [hold EXCEPT ![d] = <<>>]
  /\ rpc' = [rpc EXCEPT ![d] = "idle"]
  /\ UNCHANGED <<of, sender, q>>

(* busy_wait is done with a packet of the commit process. *)
DoneWithAlloc(d) ==
  /\ rpc[d] = "use" /\ ~of.released
  /\ hold' = [hold EXCEPT ![d] = <<>>]
  /\ rpc' = [rpc EXCEPT ![d] = "idle"]
  /\ UNCHANGED <<of, pool, sender, q>>

Receiver(d) ==
  TakeFirst(d) \/ TakeShadow(d) \/ MarkConsumed(d) \/ DoneWithAlloc(d)

Next == BeginMessage \/ GetAvailablePacket \/ \E d \in Dest : Receiver(d)

Spec == Init /\ [][Next]_vars

(* A worker that sends goes on until the message is sent, and receivers    *)
(* poll their queues.                                                      *)
FairSpec ==
  Spec /\ WF_vars(GetAvailablePacket) /\ \A d \in Dest : WF_vars(Receiver(d))

-----------------------------------------------------------------------------
TypeOK ==
  /\ pool \in [Index -> [ptr : BOOLEAN, kind : Kind]]
  /\ next \in Index /\ cur \in Index
  /\ of \in Pools /\ sent \in 0 .. of.most
  /\ todo \in {<<>>, <<"shadow">>} \cup of.messages
  /\ dest \in Dest
  /\ q \in [Dest -> Seq(Index)]
  /\ rpc \in [Dest -> {"idle", "shadow", "use"}]
  /\ hold \in [Dest -> Seq(Index)]

(* All packets that destination d has not released, oldest first *)
InFlight(d) == hold[d] \o q[d]

(* A packet that is in a queue, or that a receiver still reads, is not     *)
(* handed out again: no packet is twice in flight.  It is the size of the  *)
(* pool that sees to it for packets with a null ptr.                       *)
NoReuseInFlight ==
  \A d, e \in Dest : \A i \in 1 .. Len(InFlight(d)), j \in 1 .. Len(InFlight(e)) :
    InFlight(d)[i] = InFlight(e)[j] => d = e /\ i = j

(* The packet a receiver takes as the second of a pair was sent as one,    *)
(* and the packet it takes first was not, also when the sender has written *)
(* to other packets of the pool in between.                                *)
PairsIntact ==
  \A d \in Dest :
    /\ hold[d] # <<>> => pool[hold[d][1]].kind # "shadow"
    /\ Len(hold[d]) = 2 => pool[hold[d][2]].kind = "shadow"

(* No packet is lost to a pool whose packets are released: one that        *)
(* get_available_packet would pass over is in a queue or with a receiver,  *)
(* which will release it, whatever else it is mixed with and wherever the  *)
(* search stands.                                                          *)
NoPacketLost ==
  of.released =>
    \A n \in Index : ~IsAvailable(n) =>
      \E d \in Dest : \E k \in 1 .. Len(InFlight(d)) : n = InFlight(d)[k]

(* In a pool of more than MostInFlight packets that are released the       *)
(* search of get_available_packet ends with the packet it begins with,     *)
(* though receivers release packets in an order of their own: packets come *)
(* back before the sender has been round the pool.                         *)
FoundAtOnce ==
  of.released /\ of.size > MostInFlight /\ todo # <<>> => IsAvailable(cur)

(* The search for a packet ends: every message is sent, though the packets *)
(* of the pool are released in no particular order, or, in busy_wait, not  *)
(* at all.                                                                 *)
MessageSent == (todo # <<>>) ~> (todo = <<>>)
=============================================================================
