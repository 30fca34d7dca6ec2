----------------------------- MODULE HeapTracker -----------------------------
(***************************************************************************)
(* The tracked heap of lab07/heap_management: tracked_malloc takes a block *)
(* from the heap and then enters it in a table, tracked_free strikes it    *)
(* out and then gives it back; the table has a mutex of its own, for which *)
(* both wait 100 ms at most and otherwise go on without it.                *)
(*                                                                         *)
(* What a task does inside the mutex takes a few milliseconds and is one   *)
(* step; only the monitor, which prints the whole table, holds the mutex   *)
(* long enough for others to give up.  Left out: the items of the slab     *)
(* pool and the shared status, which have locks of their own and touch     *)
(* neither heap nor table, LEDs, and figures that are only printed.        *)
(***************************************************************************)
EXTENDS Naturals, FiniteSets, FiniteSetsExt

CONSTANTS Callers,
          Kind,       \* Kind[t]: "test", "batch", "slab" or "large"
          Calls,      \* Calls[t]: how often a round calls tracked_malloc
          Size,       \* Size[t]: bytes of a block of the task
          Addresses,  \* where the heap can put a block
          MAX_ALLOCATIONS,  \* length of the table
          MaxMissed,  \* bound: entries missed at one address
          NIL

Index == 1..MAX_ALLOCATIONS
Entry == [ptr : Addresses, size : {Size[t] : t \in Callers}]

ASSUME TrackerAssumption ==
    /\ IsFiniteSet(Addresses) /\ NIL \notin Addresses /\ NIL \notin Entry
    /\ Kind \in [Callers -> {"test", "batch", "slab", "large"}]
    /\ Calls \in [Callers -> Nat \ {0}] /\ Size \in [Callers -> Nat]
    /\ MAX_ALLOCATIONS \in Nat /\ MaxMissed \in Nat

VARIABLES
    allocated,    \* heap: the addresses in use
    allocations,  \* the table: an entry or, if it is not active, NIL
    current_allocations,
    usage,        \* total_bytes_allocated - total_bytes_deallocated
    monitoring,   \* the monitor holds memory_mutex
    at,           \* where each task is
    ptr,          \* the block it allocates or frees
    calls,        \* the calls of tracked_malloc its round has still to make
    held,         \* the blocks it keeps
    untracked,    \* history: blocks in use that were never entered
    missed        \* history: how often a free at an address was not entered

tableVars == <<allocations, current_allocations, usage>>
trackerVars == <<allocated, tableVars, monitoring, at, ptr, calls, held,
                 untracked, missed>>

TrackerInit ==
    /\ allocated = {}
    /\ allocations = [s \in Index |-> NIL]
    /\ current_allocations = 0 /\ usage = 0
    /\ monitoring = FALSE
    /\ at = [t \in Callers |-> "ready"]
    /\ ptr = [t \in Callers |-> NIL]
    /\ calls = Calls
    /\ held = [t \in Callers |-> {}]
    /\ untracked = {}
    /\ missed = [a \in Addresses |-> 0]

Entries(a) == {s \in Index : allocations[s] # NIL /\ allocations[s].ptr = a}
FreeEntries == {s \in Index : allocations[s] = NIL}
Active == {s \in Index : allocations[s] # NIL}

-----------------------------------------------------------------------------
(* tracked_malloc                                                          *)

(* The heap gives any free block, or none.                                 *)
Malloc(t) ==
    /\ at[t] = "ready" /\ calls[t] > 0
    /\ \E a \in (Addresses \ allocated) \cup {NIL} :
          /\ ptr' = [ptr EXCEPT ![t] = a]
          /\ allocated' = allocated \cup ({a} \cap Addresses)
    /\ calls' = [calls EXCEPT ![t] = @ - 1]
    /\ at' = [at EXCEPT ![t] = "enter"]
    /\ UNCHANGED <<tableVars, monitoring, held, untracked, missed>>

(* The caller gets the block, or none.  Without the structure that comes   *)
(* first, batch and slab are given up; one large block is enough.          *)
Return(t) ==
    /\ held' = [held EXCEPT ![t] = @ \cup ({ptr[t]} \cap Addresses)]
    /\ calls' = [calls EXCEPT ![t] =
                    IF \/ Kind[t] = "large" /\ ptr[t] # NIL
                       \/ Kind[t] \in {"batch", "slab"} /\ held'[t] = {}
                    THEN 0 ELSE @]
    /\ ptr' = [ptr EXCEPT ![t] = NIL]
    /\ at' = [at EXCEPT ![t] = "ready"]

Written(s, t) ==
    /\ allocations' = [allocations EXCEPT ![s] =
                          [ptr |-> ptr[t], size |-> Size[t]]]
    /\ current_allocations' = current_allocations + 1
    /\ usage' = usage + Size[t]

(* The block goes to the first free entry, if there is one.                *)
Enter(t) ==
    /\ at[t] = "enter" /\ ~monitoring
    /\ IF ptr[t] = NIL THEN UNCHANGED <<tableVars, untracked>>
       ELSE IF FreeEntries = {}
       THEN /\ untracked' = untracked \cup {ptr[t]}
            /\ UNCHANGED tableVars
       ELSE /\ Written(Min(FreeEntries), t)
            /\ UNCHANGED untracked
    /\ Return(t)
    /\ UNCHANGED <<allocated, monitoring, missed>>

(* The mutex cannot be had: the block is used without an entry.            *)
EnterTimeout(t) ==
    /\ at[t] = "enter" /\ monitoring
    /\ untracked' = untracked \cup ({ptr[t]} \cap Addresses)
    /\ Return(t)
    /\ UNCHANGED <<allocated, tableVars, monitoring, missed>>

-----------------------------------------------------------------------------
(* tracked_free                                                            *)

(* The slab pool has all its parts and stays.                              *)
PoolStays(t) == Kind[t] = "slab" /\ Cardinality(held[t]) = Calls[t]

(* Variant: the block goes back to the heap before it is struck out.       *)
FreeAtOnce(t) ==
    /\ at[t] = "ready" /\ calls[t] = 0 /\ ~PoolStays(t)
    /\ \E a \in held[t] : /\ ptr' = [ptr EXCEPT ![t] = a]
                          /\ held' = [held EXCEPT ![t] = @ \ {a}]
                          /\ allocated' = allocated \ {a}
    /\ at' = [at EXCEPT ![t] = "strike"]
    /\ UNCHANGED <<tableVars, monitoring, calls, untracked, missed>>

(* Variant: of what is left of a slab pool, only one part is given back.   *)
FreeOne(t) ==
    /\ at[t] = "ready" /\ calls[t] = 0 /\ ~PoolStays(t)
    /\ \E a \in held[t] : /\ ptr' = [ptr EXCEPT ![t] = a]
                          /\ held' = [held EXCEPT ![t] =
                                          IF Kind[t] = "slab" THEN {} ELSE @ \ {a}]
    /\ at' = [at EXCEPT ![t] = "strike"]
    /\ UNCHANGED <<allocated, tableVars, monitoring, calls, untracked, missed>>

(* At the end of its round a task frees what it got, in any order.         *)
FreeBlock(t) ==
    /\ at[t] = "ready" /\ calls[t] = 0 /\ ~PoolStays(t)
    /\ \E a \in held[t] : /\ ptr' = [ptr EXCEPT ![t] = a]
                          /\ held' = [held EXCEPT ![t] = @ \ {a}]
    /\ at' = [at EXCEPT ![t] = "strike"]
    /\ UNCHANGED <<allocated, tableVars, monitoring, calls, untracked, missed>>

(* The first active entry with this address is struck out, if any.         *)
Strike(t) ==
    /\ at[t] = "strike" /\ ~monitoring
    /\ IF Entries(ptr[t]) = {} THEN UNCHANGED tableVars
       ELSE LET s == Min(Entries(ptr[t]))
            IN  /\ allocations' = [allocations EXCEPT ![s] = NIL]
                /\ current_allocations' = current_allocations - 1
                /\ usage' = usage - allocations[s].size
    /\ at' = [at EXCEPT ![t] = "free"]
    /\ UNCHANGED <<allocated, monitoring, ptr, calls, held, untracked, missed>>

(* The mutex cannot be had: the entry stays, of a block that is gone.      *)
StrikeTimeout(t) ==
    /\ at[t] = "strike" /\ monitoring
    /\ missed[ptr[t]] < MaxMissed
    /\ missed' = [missed EXCEPT ![ptr[t]] = @ + 1]
    /\ at' = [at EXCEPT ![t] = "free"]
    /\ UNCHANGED <<allocated, tableVars, monitoring, ptr, calls, held,
                   untracked>>

HeapFree(t) ==
    /\ at[t] = "free"
    /\ allocated' = allocated \ {ptr[t]}
    /\ untracked' = untracked \ {ptr[t]}
    /\ ptr' = [ptr EXCEPT ![t] = NIL]
    /\ at' = [at EXCEPT ![t] = "ready"]
    /\ UNCHANGED <<tableVars, monitoring, calls, held, missed>>

(* A slab pool that cannot be made is not tried again.                     *)
NextRound(t) ==
    /\ at[t] = "ready" /\ calls[t] = 0 /\ held[t] = {}
    /\ Kind[t] # "slab"
    /\ calls' = [calls EXCEPT ![t] = Calls[t]]
    /\ UNCHANGED <<allocated, tableVars, monitoring, at, ptr, held, untracked,
                   missed>>

Task(t) ==
    \/ Malloc(t) \/ Enter(t) \/ EnterTimeout(t)
    \/ FreeBlock(t) \/ Strike(t) \/ StrikeTimeout(t) \/ HeapFree(t)
    \/ NextRound(t)

-----------------------------------------------------------------------------

(* The monitor takes the mutex to print, to sum up, to look for leaks.     *)
MonitorTakes ==
    /\ ~monitoring
    /\ monitoring' = TRUE
    /\ UNCHANGED <<allocated, tableVars, at, ptr, calls, held, untracked,
                   missed>>
MonitorGives ==
    /\ monitoring
    /\ monitoring' = FALSE
    /\ UNCHANGED <<allocated, tableVars, at, ptr, calls, held, untracked,
                   missed>>
memory_monitor_task == MonitorTakes \/ MonitorGives

TrackerNext ==
    \/ \E t \in Callers : Task(t)
    \/ memory_monitor_task

TrackerSpec == TrackerInit /\ [][TrackerNext]_trackerVars

-----------------------------------------------------------------------------

TrackerTypeOK ==
    /\ allocated \subseteq Addresses
    /\ allocations \in [Index -> Entry \cup {NIL}]
    /\ {current_allocations, usage} \subseteq Nat
    /\ monitoring \in BOOLEAN
    /\ at \in [Callers -> {"ready", "enter", "strike", "free"}]
    /\ ptr \in [Callers -> Addresses \cup {NIL}]
    /\ calls \in [Callers -> Nat]
    /\ \A t \in Callers : calls[t] <= Calls[t]
    /\ held \in [Callers -> SUBSET Addresses]
    /\ untracked \subseteq Addresses
    /\ missed \in [Addresses -> 0..MaxMissed]

(* The blocks whose entry is to be in the table: those a task keeps, from  *)
(* the end of tracked_malloc until tracked_free has got past the mutex.    *)
Tracked(t) == held[t] \cup (IF at[t] = "strike" THEN {ptr[t]} ELSE {})
InUse(a) == \E t \in Callers : a \in Tracked(t)
Owned(t) == held[t] \cup ({ptr[t]} \cap Addresses)

(* The bytes the entries stand for, one by one.                            *)
Bytes == UNION {{s} \X (1..allocations[s].size) : s \in Active}

(* The table tells the truth about the heap as far as it can: a block that *)
(* could be entered has an entry as long as it is used, and an address has *)
(* no second entry, nor one while it is free or on its way, but for those  *)
(* of frees that were not entered.  Addresses come back at once, so this   *)
(* hangs on the order of heap and table in both functions.  The counters   *)
(* agree with the table whatever was missed, so they never go below zero:  *)
(* a free takes from them what its entry had added.                        *)
TableMatchesHeap ==
    /\ TrackerTypeOK
    /\ \A a \in Addresses :
          /\ InUse(a) /\ a \notin untracked => Entries(a) # {}
          /\ Cardinality(Entries(a)) <= missed[a] + IF InUse(a) THEN 1 ELSE 0
    /\ current_allocations = Cardinality(Active)
    /\ usage = Cardinality(Bytes)

(* Every block in use belongs to exactly one task, which will free it or   *)
(* needs it for its pool; also when only a part of what a task wanted      *)
(* could be allocated.                                                     *)
NothingForgotten ==
    /\ allocated = UNION {Owned(t) : t \in Callers}
    /\ \A t, u \in Callers : t # u => Owned(t) \cap Owned(u) = {}
    /\ \A t \in Callers : ptr[t] \notin held[t]
=============================================================================
