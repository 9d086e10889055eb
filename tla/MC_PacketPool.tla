---------------------------- MODULE MC_PacketPool ---------------------------
(* Two destinations whose queues hold two packets each: up to              *)
(* NumDest * (Window + 2) = 8 packets are in flight, the two a receiver    *)
(* has taken included.  The first pool has one packet more; the second has *)
(* fewer, and the worker sends no pairs; the third is the commit process's *)
(* and has just enough packets for what is sent from it.                   *)
EXTENDS PacketPool
Single == <<"single">>
Pair == <<"pair", "shadow">>
ThreePools ==
  {[size |-> 9, messages |-> {Single, Pair}, released |-> TRUE, most |-> 0],
   [size |-> 4, messages |-> {Single}, released |-> TRUE, most |-> 0],
   [size |-> 6, messages |-> {Single}, released |-> FALSE, most |-> 3]}
=============================================================================
