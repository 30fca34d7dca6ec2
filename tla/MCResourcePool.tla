--------------------------- MODULE MCResourcePool ---------------------------
(* Three resources, of which two are in the pool at first, two producers   *)
(* and a greedy producer that wants two tokens at once.                    *)
EXTENDS ResourcePool, TLC

CONSTANTS r1, r2, r3, p1, p2

MCResources == {r1, r2, r3}
MCProducers == {p1, p2}

(* Resources and regular producers are interchangeable.                    *)
MCSymmetry == Permutations(MCResources) \cup Permutations(MCProducers)

=============================================================================
