---------------------------- MODULE MCHeapTracker ----------------------------
(* A task of every kind but the simplest, which does nothing that a batch  *)
(* does not do; the table is too short for all blocks, and so is the heap. *)
EXTENDS HeapTracker, TLC

CONSTANTS a1, a2, a3

MCCallers == {"batch", "slab", "large"}
MCKind == [t \in MCCallers |-> t]
MCCalls == [t \in MCCallers |-> IF t = "slab" THEN 3 ELSE 2]
MCSize == [t \in MCCallers |-> IF t = "large" THEN 2 ELSE 1]
MCAddresses == {a1, a2, a3}

(* Addresses are interchangeable.                                          *)
MCSymmetry == Permutations(MCAddresses)

=============================================================================
