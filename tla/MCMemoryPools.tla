--------------------------- MODULE MCMemoryPools ---------------------------
(* Two pools, of two blocks and of one block.                              *)
EXTENDS MemoryPools

MCBlockCount == <<2, 1>>
=============================================================================
