--------------------------- MODULE MCEventBarrier ---------------------------
(* Three workers, one of which counts the cycles.                          *)
EXTENDS EventBarrier

CONSTANTS w0, w1, w2

MCWorkers == {w0, w1, w2}

=============================================================================
