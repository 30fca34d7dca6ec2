---------------------------- MODULE MemoryPools ----------------------------
(***************************************************************************)
(* The block pools of lab07/memory_pools.  Each pool has a linked free     *)
(* list, a usage bitmap and a mutex; a request goes to the smallest pool   *)
(* that fits, on to the larger ones and at last to the heap.  A mutex that *)
(* cannot be had within 100 ms counts as a failure of that pool.           *)
(*                                                                         *)
(* pool_malloc and pool_free each take two steps under the mutex, so what  *)
(* they do is only safe because the mutex is held.  Left out: the sizes    *)
(* and the contents of blocks, the times, the counters that are only       *)
(* printed, and what happens to memory that came from the heap.            *)
(***************************************************************************)
EXTENDS Naturals, FiniteSets

CONSTANTS
    POOL_COUNT,    \* pools, from the smallest blocks to the largest
    BlockCount,    \* BlockCount[p]: number of blocks of pool p
    Clients,       \* tasks that keep a set of pointers (stress, performance)
    MaxHeld,       \* pool blocks a client keeps at most
    Pattern,       \* the pattern test task
    NTests,        \* length of its array of pointers (50)
    Monitor,       \* the monitor task
    NULL,          \* the null pointer, also: no task
    HEAP           \* a pointer that came from the heap

Pools == 1..POOL_COUNT
Users == Clients \cup {Pattern}
Tasks == Users \cup {Monitor}

(* A block is named by its pool and its index in the pool's memory.        *)
Block == UNION {{p} \X (0..(BlockCount[p] - 1)) : p \in Pools}

(* The pool_id in the header, written once by init_memory_pool.            *)
PoolOf(b) == b[1]

ASSUME PoolsAssumption ==
    /\ POOL_COUNT \in Nat \ {0}
    /\ BlockCount \in [Pools -> Nat \ {0}]
    /\ NTests \in Nat /\ MaxHeld \in Nat
    /\ Pattern \notin Clients /\ Monitor \notin Users
    /\ NULL \notin Tasks \cup Block /\ HEAP \notin Block \cup {NULL}

VARIABLES
    free_list,         \* pools[p].free_list
    next,              \* next pointers in the headers
    magic,             \* magic numbers in the headers: "FREE" or "ALLOC"
    usage_bitmap,      \* pools[p].usage_bitmap: the blocks whose bit is set
    allocated_blocks,  \* pools[p].allocated_blocks
    mutex,             \* holder of pools[p].mutex, or NULL
    pc,                \* where each task is
    pool,              \* the pool the task is working on
    block,             \* the block it has in its hands, between two calls' steps
    held,              \* the pool blocks a client keeps pointers to
    tests, i,          \* the pattern test's pointers and loop index,
    test_count,        \* its number of successful allocations
    draining,          \* and which of its two loops it is in
    alarm,             \* check_pool_integrity has found a corruption
    lost,              \* history: blocks whose only pointer was overwritten
    misfreed           \* pool blocks given to heap_caps_free

listVars == <<free_list, next, magic, usage_bitmap, allocated_blocks>>
userVars == <<held, tests, i, test_count, draining, lost>>
vars == <<listVars, mutex, pc, pool, block, userVars, alarm, misfreed>>

(* init_memory_pool pushes the blocks in the order of their index.         *)
Init ==
    /\ free_list = [p \in Pools |-> <<p, BlockCount[p] - 1>>]
    /\ next = [b \in Block |-> IF b[2] = 0 THEN NULL ELSE <<b[1], b[2] - 1>>]
    /\ magic = [b \in Block |-> "FREE"]
    /\ usage_bitmap = [p \in Pools |-> {}]
    /\ allocated_blocks = [p \in Pools |-> 0]
    /\ mutex = [p \in Pools |-> NULL]
    /\ pc = [t \in Tasks |-> "idle"]
    /\ pool = [t \in Tasks |-> 1]
    /\ block = [t \in Tasks |-> NULL]
    /\ held = [c \in Clients |-> {}]
    /\ tests = [k \in 1..NTests |-> NULL]
    /\ i = 1
    /\ test_count = 0
    /\ draining = FALSE
    /\ alarm = FALSE
    /\ lost = {}
    /\ misfreed = {}

-----------------------------------------------------------------------------

GoTo(t, phase) == pc' = [pc EXCEPT ![t] = phase]

(* Variant: the result of the take is not looked at.                       *)
TakeAnyway(t) == mutex' = [mutex EXCEPT ![pool[t]] = t]

(* xSemaphoreTake and xSemaphoreGive on the mutex of the task's pool.      *)
Take(t) == /\ mutex[pool[t]] = NULL
           /\ mutex' = [mutex EXCEPT ![pool[t]] = t]

Give(t) == mutex' = [mutex EXCEPT ![pool[t]] = NULL]

(* The value a call of smart_pool_malloc returns goes to the caller: the   *)
(* pattern test stores it at its index whatever it is, the others keep a   *)
(* pointer to a pool block.                                                *)
Return(t, x) ==
    /\ GoTo(t, "idle")
    /\ IF t = Pattern
       THEN /\ tests' = [tests EXCEPT ![i] = x]
            /\ lost' = lost \cup ({tests[i]} \cap Block)
            /\ test_count' = IF x = NULL THEN test_count ELSE test_count + 1
            /\ i' = i + 1
            /\ UNCHANGED <<held, draining>>
       ELSE /\ held' = IF x \in Block THEN [held EXCEPT ![t] = @ \cup {x}]
                                      ELSE held
            /\ UNCHANGED <<tests, i, test_count, draining, lost>>

-----------------------------------------------------------------------------
(* smart_pool_malloc and pool_malloc                                       *)

(* A request whose size first fits pool p.                                 *)
Request(t) ==
    /\ pc[t] = "idle"
    /\ IF t = Pattern THEN ~draining /\ i <= NTests
                      ELSE t \in Clients /\ Cardinality(held[t]) < MaxHeld
    /\ \E p \in Pools : pool' = [pool EXCEPT ![t] = p]
    /\ GoTo(t, "malloc")
    /\ UNCHANGED <<listVars, mutex, block, userVars, alarm, misfreed>>

MallocTake(t) ==
    /\ pc[t] = "malloc"
    /\ Take(t)
    /\ GoTo(t, "pop")
    /\ UNCHANGED <<listVars, pool, block, userVars, alarm, misfreed>>

(* pool_malloc has returned NULL: the next larger pool, or the heap.       *)
TryNext(t) ==
    IF pool[t] < POOL_COUNT
    THEN pool' = [pool EXCEPT ![t] = @ + 1] /\ GoTo(t, "malloc")
    ELSE UNCHANGED pool /\ GoTo(t, "heap")

MallocTimeout(t) ==
    /\ pc[t] = "malloc"
    /\ mutex[pool[t]] # NULL
    /\ TryNext(t)
    /\ UNCHANGED <<listVars, mutex, block, userVars, alarm, misfreed>>

(* Unlink the head of the list; a head that is not marked free is dropped. *)
Pop(t) ==
    LET head == free_list[pool[t]]
    IN  /\ pc[t] = "pop"
        /\ IF head = NULL
           THEN TryNext(t) /\ Give(t) /\ UNCHANGED <<free_list, block>>
           ELSE /\ free_list' = [free_list EXCEPT ![pool[t]] = next[head]]
                /\ IF magic[head] # "FREE"
                   THEN TryNext(t) /\ Give(t) /\ UNCHANGED block
                   ELSE /\ block' = [block EXCEPT ![t] = head]
                        /\ GoTo(t, "mark")
                        /\ UNCHANGED <<mutex, pool>>
        /\ UNCHANGED <<next, magic, usage_bitmap, allocated_blocks, userVars,
                       alarm, misfreed>>

(* Mark the block allocated, count it and return it.                       *)
Mark(t) ==
    LET p == pool[t]
        b == block[t]
    IN  /\ pc[t] = "mark"
        /\ magic' = [magic EXCEPT ![b] = "ALLOC"]
        /\ next' = [next EXCEPT ![b] = NULL]
        /\ allocated_blocks' = [allocated_blocks EXCEPT ![p] = @ + 1]
        /\ usage_bitmap' = [usage_bitmap EXCEPT ![p] = @ \cup {b}]
        /\ block' = [block EXCEPT ![t] = NULL]
        /\ Give(t)
        /\ Return(t, b)
        /\ UNCHANGED <<free_list, pool, alarm, misfreed>>

(* No pool could serve the request; the heap can or cannot.                *)
HeapMalloc(t) ==
    /\ pc[t] = "heap"
    /\ \E x \in {HEAP, NULL} : Return(t, x)
    /\ UNCHANGED <<listVars, mutex, pool, block, alarm, misfreed>>

-----------------------------------------------------------------------------
(* smart_pool_free and pool_free                                           *)

(* Task t passes block b to smart_pool_free, which reads the header with   *)
(* no lock and finds the pool from it.                                     *)
Free(t, b) ==
    /\ block' = [block EXCEPT ![t] = b]
    /\ pool' = [pool EXCEPT ![t] = PoolOf(b)]
    /\ GoTo(t, IF magic[b] = "ALLOC" THEN "free" ELSE "heapfree")

(* A client frees any of its pointers.                                     *)
ClientFree(c) ==
    /\ pc[c] = "idle"
    /\ \E b \in held[c] : /\ Free(c, b)
                          /\ held' = [held EXCEPT ![c] = @ \ {b}]
    /\ UNCHANGED <<listVars, mutex, tests, i, test_count, draining, lost,
                   alarm, misfreed>>

FreeTake(t) ==
    /\ pc[t] = "free"
    /\ Take(t)
    /\ GoTo(t, "push")
    /\ UNCHANGED <<listVars, pool, block, userVars, alarm, misfreed>>

(* The mutex cannot be had: pool_free fails, and the block goes on to the  *)
(* heap, which does not know it.                                           *)
FreeTimeout(t) ==
    /\ pc[t] = "free"
    /\ mutex[pool[t]] # NULL
    /\ GoTo(t, "heapfree")
    /\ UNCHANGED <<listVars, mutex, pool, block, userVars, alarm, misfreed>>

(* Variant: the block is not pointed to the rest of the list.              *)
PushForgetsNext(t) ==
    LET b == block[t]
    IN  /\ pc[t] = "push"
        /\ magic[b] = "ALLOC"
        /\ usage_bitmap' = [usage_bitmap EXCEPT ![pool[t]] = @ \ {b}]
        /\ magic' = [magic EXCEPT ![b] = "FREE"]
        /\ GoTo(t, "link")
        /\ UNCHANGED <<free_list, next, allocated_blocks, mutex, pool, block,
                       userVars, alarm, misfreed>>

(* Mark the block free and point it to the head of the list ...            *)
Push(t) ==
    LET p == pool[t]
        b == block[t]
    IN  /\ pc[t] = "push"
        /\ IF magic[b] # "ALLOC"
           THEN /\ Give(t)
                /\ GoTo(t, "heapfree")
                /\ UNCHANGED <<next, magic, usage_bitmap>>
           ELSE /\ usage_bitmap' = [usage_bitmap EXCEPT ![p] = @ \ {b}]
                /\ magic' = [magic EXCEPT ![b] = "FREE"]
                /\ next' = [next EXCEPT ![b] = free_list[p]]
                /\ GoTo(t, "link")
                /\ UNCHANGED mutex
        /\ UNCHANGED <<free_list, allocated_blocks, pool, block, userVars,
                       alarm, misfreed>>

(* ... and make it the head.                                               *)
Link(t) ==
    LET p == pool[t]
    IN  /\ pc[t] = "link"
        /\ free_list' = [free_list EXCEPT ![p] = block[t]]
        /\ allocated_blocks' = [allocated_blocks EXCEPT ![p] = @ - 1]
        /\ block' = [block EXCEPT ![t] = NULL]
        /\ Give(t)
        /\ GoTo(t, "idle")
        /\ UNCHANGED <<next, magic, usage_bitmap, pool, userVars, alarm, misfreed>>

(* heap_caps_free on an address inside a pool's memory: the heap's own     *)
(* data is damaged or its assertion stops the program; nothing after this  *)
(* step is modelled.                                                       *)
HeapFree(t) ==
    /\ pc[t] = "heapfree"
    /\ misfreed' = misfreed \cup {block[t]}
    /\ UNCHANGED <<listVars, mutex, pc, pool, block, userVars, alarm>>

-----------------------------------------------------------------------------
(* pool_pattern_test_task                                                  *)

(* All entries are filled and verified: free the first test_count ones.    *)
StartDraining ==
    /\ pc[Pattern] = "idle" /\ ~draining /\ i > NTests
    /\ draining' = TRUE
    /\ i' = 1
    /\ UNCHANGED <<listVars, mutex, pc, pool, block, held, tests, test_count,
                   alarm, lost, misfreed>>

PatternFree ==
    /\ pc[Pattern] = "idle" /\ draining /\ i <= test_count
    /\ IF tests[i] \in Block THEN Free(Pattern, tests[i])
                             ELSE UNCHANGED <<block, pool, pc>>
    /\ tests' = [tests EXCEPT ![i] = NULL]
    /\ i' = i + 1
    /\ UNCHANGED <<listVars, mutex, held, test_count, draining, alarm, lost,
                   misfreed>>

(* The next round starts with no entry counted, whatever is left in them.  *)
NextRound ==
    /\ pc[Pattern] = "idle" /\ draining /\ i > test_count
    /\ draining' = FALSE
    /\ i' = 1
    /\ test_count' = 0
    /\ UNCHANGED <<listVars, mutex, pc, pool, block, held, tests, alarm, lost,
                   misfreed>>

-----------------------------------------------------------------------------
(* pool_monitor_task                                                       *)

(* The n-th block of pool p's free list, NULL after its end.               *)
ListEntry(p) ==
    LET entry[n \in Nat] == IF n = 0 THEN free_list[p]
                            ELSE IF entry[n - 1] = NULL THEN NULL
                            ELSE next[entry[n - 1]]
    IN  entry

(* check_pool_integrity: the walk ends within block_count blocks and meets *)
(* only blocks of the pool that are marked free.                           *)
ListIsSound(p) ==
    /\ \A n \in 0..BlockCount[p] :
          ListEntry(p)[n] # NULL =>
              /\ magic[ListEntry(p)[n]] = "FREE"
              /\ PoolOf(ListEntry(p)[n]) = p
    /\ ListEntry(p)[BlockCount[p]] = NULL

(* Each of the monitor's functions takes the mutex of one pool after the   *)
(* other, or skips a pool when it cannot have it.                          *)
MonitorTake ==
    /\ pc[Monitor] = "idle"
    /\ \E p \in Pools :
          /\ mutex[p] = NULL
          /\ mutex' = [mutex EXCEPT ![p] = Monitor]
          /\ pool' = [pool EXCEPT ![Monitor] = p]
    /\ GoTo(Monitor, "checking")
    /\ UNCHANGED <<listVars, block, userVars, alarm, misfreed>>

MonitorCheck ==
    /\ pc[Monitor] = "checking"
    /\ alarm' = (alarm \/ ~ListIsSound(pool[Monitor]))
    /\ Give(Monitor)
    /\ GoTo(Monitor, "idle")
    /\ UNCHANGED <<listVars, pool, block, userVars, misfreed>>

-----------------------------------------------------------------------------

User(t) ==
    \/ Request(t) \/ MallocTake(t) \/ MallocTimeout(t) \/ Pop(t) \/ Mark(t)
    \/ HeapMalloc(t) \/ FreeTake(t) \/ FreeTimeout(t) \/ Push(t) \/ Link(t)
    \/ HeapFree(t)

Next ==
    /\ misfreed = {}
    /\ \/ \E t \in Users : User(t)
       \/ \E c \in Clients : ClientFree(c)
       \/ StartDraining \/ PatternFree \/ NextRound
       \/ MonitorTake \/ MonitorCheck

Spec == Init /\ [][Next]_vars

-----------------------------------------------------------------------------

Phase == {"idle", "malloc", "pop", "mark", "heap", "free", "push", "link",
          "heapfree", "checking"}

TypeOK ==
    /\ free_list \in [Pools -> Block \cup {NULL}]
    /\ next \in [Block -> Block \cup {NULL}]
    /\ magic \in [Block -> {"FREE", "ALLOC"}]
    /\ usage_bitmap \in [Pools -> SUBSET Block]
    /\ allocated_blocks \in [Pools -> Nat]
    /\ mutex \in [Pools -> Tasks \cup {NULL}]
    /\ pc \in [Tasks -> Phase]
    /\ pool \in [Tasks -> Pools]
    /\ block \in [Tasks -> Block \cup {NULL}]
    /\ held \in [Clients -> SUBSET Block]
    /\ tests \in [1..NTests -> Block \cup {NULL, HEAP}]
    /\ i \in 1..(NTests + 1)
    /\ test_count \in 0..NTests
    /\ draining \in BOOLEAN
    /\ alarm \in BOOLEAN
    /\ lost \subseteq Block
    /\ misfreed \subseteq Block

(* The blocks a task has a claim to: the one in its hands, those it keeps  *)
(* a pointer to and, for the pattern test, those it has forgotten.         *)
Kept(t) == IF t = Pattern THEN {tests[k] : k \in 1..NTests} \cap Block
           ELSE IF t \in Clients THEN held[t] ELSE {}
Owned(t) == Kept(t) \cup ({block[t]} \cap Block)
                    \cup (IF t = Pattern THEN lost ELSE {})

(* No block is handed out twice: two tasks never own the same block, no    *)
(* task owns one twice, and the head of a list belongs to nobody.          *)
NoSharedBlock ==
    /\ \A t, u \in Tasks : t # u => Owned(t) \cap Owned(u) = {}
    /\ \A t \in Tasks : block[t] # NULL => block[t] \notin Kept(t)
    /\ \A k, l \in 1..NTests :
          tests[k] \in Block /\ tests[k] = tests[l] => k = l
    /\ \A k \in 1..NTests : tests[k] \notin lost
    /\ \A p \in Pools, t \in Tasks : free_list[p] \notin Owned(t)

(* Nothing falls out of a pool and its books are right: while its mutex is *)
(* free, the blocks on the free list are exactly those marked free, and    *)
(* bitmap and counter agree with the headers.  And the integrity check,    *)
(* which runs between any two steps of the others, has never reported a    *)
(* corruption.                                                             *)
FreeListComplete ==
    /\ TypeOK
    /\ \A p \in Pools : mutex[p] = NULL =>
          /\ {ListEntry(p)[n] : n \in 0..BlockCount[p]} \ {NULL}
                 = {b \in Block : PoolOf(b) = p /\ magic[b] = "FREE"}
          /\ usage_bitmap[p] = {b \in Block : PoolOf(b) = p /\ magic[b] = "ALLOC"}
          /\ allocated_blocks[p] = Cardinality(usage_bitmap[p])
    /\ ~alarm

(* The linked lists implement the abstract allocator; a block changes      *)
(* hands when it is unlinked from its list and when it is linked again.    *)
OwnerOf(b) == IF \E t \in Tasks : b \in Owned(t)
              THEN CHOOSE t \in Tasks : b \in Owned(t)
              ELSE NULL
Allocator == INSTANCE BlockAllocator
                 WITH Blocks <- Block, Tasks <- Users, NoOne <- NULL,
                      owner <- [b \in Block |-> OwnerOf(b)]
ImplementsAllocator == Allocator!Spec
=============================================================================
