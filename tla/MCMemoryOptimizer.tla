------------------------- MODULE MCMemoryOptimizer -------------------------
(* Three static buffers for two and one at once, so that two frees that    *)
(* time out exhaust them; three template pools, whose requests reach one   *)
(* of them twice, overflow another into the heap, and exceed them all.     *)
EXTENDS MemoryOptimizer

MCsizes == <<4, 8, 16>>
MCpool_counts == <<1, 2, 1>>
MCRequests == <<4, 7, 4, 20>>

MCAligned == <<[size |-> 8, alignment |-> 4], [size |-> 16, alignment |-> 16]>>
MCPatterns == <<[size |-> 4, alignment |-> 8], [size |-> 16, alignment |-> 16]>>
MCBenchmark == [size |-> 4, alignment |-> 8]

(* malloc returns multiples of the word.                                   *)
MCHeapAddresses == {16, 20, 28}
=============================================================================
