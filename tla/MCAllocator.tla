---------------------------- MODULE MCAllocator ----------------------------
(* A pool of sixteen units: the default 4 MB pool at a scale of one unit   *)
(* for 256 kB, with the scratchpad and the seeds in the same proportions.  *)
EXTENDS Allocator

MCSize == [l \in Levels |-> 2^l]
MCRequests == {1, 3, 4}
MCAligns == {0, 2, 4}
=============================================================================
