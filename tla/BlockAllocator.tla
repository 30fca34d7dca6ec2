--------------------------- MODULE BlockAllocator ---------------------------
(***************************************************************************)
(* What the pools of lab07/memory_pools promise their callers: a block is  *)
(* free or belongs to one task, a task gets only free blocks, and a block  *)
(* becomes free again only by its owner's free.  A block whose address its *)
(* owner has overwritten stays with that owner for ever.                   *)
(***************************************************************************)
CONSTANTS Blocks, Tasks, NoOne

VARIABLE owner     \* owner[b]: the task block b belongs to, or NoOne

Init == owner = [b \in Blocks |-> NoOne]

Get(t, b) == /\ owner[b] = NoOne
             /\ owner' = [owner EXCEPT ![b] = t]

Put(t, b) == /\ owner[b] = t
             /\ owner' = [owner EXCEPT ![b] = NoOne]

Next == \E t \in Tasks, b \in Blocks : Get(t, b) \/ Put(t, b)

Spec == Init /\ [][Next]_owner
=============================================================================
