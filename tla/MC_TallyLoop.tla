---------------------------- MODULE MC_TallyLoop ----------------------------
(* Four processes of which one is auxiliary: three workers, and 4 in place *)
(* of 3/2 for NUM_WORKERS/NUM_WORKERS_PER_HEAP.  Eight heaps give four     *)
(* iterations, a jump of two stages and two read-only pages.  Ints have    *)
(* four bits, so that a tally below zero counts down to -8 and on from 7.  *)
EXTENDS TallyLoop

SomeInts == {-3, 0, 5}
=============================================================================
