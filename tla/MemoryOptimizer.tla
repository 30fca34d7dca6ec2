-------------------------- MODULE MemoryOptimizer --------------------------
(***************************************************************************)
(* lab07/memory_optimization: two tasks share a handful of static buffers  *)
(* under a mutex with a waiting time, one of them uses pools of blocks of  *)
(* fixed sizes, both make aligned allocations out of larger ones of the    *)
(* heap, and a monitor lights an LED when memory has been saved.           *)
(*                                                                         *)
(* The pools' mutex is left out: only one task calls them, and never       *)
(* waits.  A free list is the sequence of its blocks.  Left out: contents, *)
(* times, the count of each kind of allocation and what is only printed;   *)
(* the heap gives out any address or none.                                 *)
(***************************************************************************)
EXTENDS Integers, Sequences, FiniteSets, FiniteSetsExt

CONSTANTS
    STATIC_BUFFER_COUNT,
    NBuffers,      \* static buffers the usage test holds at once
    sizes,         \* sizes[p]: block size of template pool p, increasing
    pool_counts,   \* pool_counts[p]: its number of blocks
    Requests,      \* sizes the usage test asks the template pools for
    Aligned,       \* [size, alignment] of the usage test's allocations
    Patterns,      \* the same of the access-pattern test
    Benchmark,     \* and that of the benchmark's allocation
    POINTER,       \* sizeof(void* )
    HeapAddresses, \* what malloc may return
    BadSize, GoodSize, \* bytes of an array of either struct
    Threshold,     \* bytes saved above which the LED is lit
    Word,          \* size_t counts modulo this
    MaxDemos,      \* bound on runs of the struct demonstration
    NULL, HEAP     \* no address, and one that is in no pool

Buffer == 1..STATIC_BUFFER_COUNT
Pool == 1..Len(sizes)
Block == UNION {{p} \X (1..pool_counts[p]) : p \in Pool}
OptTest == "OptTest"
MemUsage == "MemUsage"
Tasks == {OptTest, MemUsage}
AlignedRequest == [size : Nat, alignment : Nat \ {0}]

ASSUME OptimizerAssumption ==
    /\ {STATIC_BUFFER_COUNT, NBuffers, POINTER, Word} \subseteq Nat \ {0}
    /\ sizes \in Seq(Nat) /\ pool_counts \in Seq(Nat)
    /\ Len(pool_counts) = Len(sizes)
    /\ \A p, q \in Pool : p < q => sizes[p] < sizes[q]
    /\ Requests \in Seq(Nat) /\ Requests # <<>>
    /\ Aligned \in Seq(AlignedRequest) /\ Aligned # <<>>
    /\ {Benchmark, Patterns[1], Patterns[2]} \subseteq AlignedRequest
    /\ HeapAddresses \subseteq Nat
    /\ {BadSize, GoodSize, Threshold, MaxDemos} \subseteq Nat
    /\ BadSize <= GoodSize
    /\ MaxDemos > 0 /\ MaxDemos * (GoodSize - BadSize) + Threshold < Word
    /\ NULL \notin Buffer \cup Block \cup Tasks
    /\ HEAP \notin Block \cup {NULL}

VARIABLES
    static_buffer_used,   \* the buffers marked used
    static_buffer_mutex,  \* its holder, or NULL
    led_static,           \* LED_STATIC_ALLOC
    buffers,              \* buffers[t][k]: static buffers task t holds
    lost,                 \* history: buffers whose free timed out
    pools,                \* the template pools whose memory could be had
    free_list, usage_counts,
    t_ptr,                \* t_ptr[k]: block for Requests[k]
    aligned,              \* aligned[t][k]: live aligned allocations
    demos,                \* history: runs of the struct demonstration
    memory_saved_bytes,
    led_saving,           \* LED_MEMORY_SAVING
    pc, k                 \* where each task is, and its loop counter

staticVars == <<static_buffer_used, static_buffer_mutex, led_static, buffers,
                lost>>
templateVars == <<pools, free_list, usage_counts, t_ptr>>
savingVars == <<demos, memory_saved_bytes, led_saving>>
vars == <<staticVars, templateVars, aligned, savingVars, pc, k>>

(* Static buffers a task holds at once.                                    *)
Slots(t) == IF t = MemUsage THEN 1..NBuffers ELSE {1}

(* Aligned allocations a task makes before it frees them.                  *)
AlignedSlots(t) == IF t = MemUsage THEN 1..Len(Aligned) ELSE {1}

(* Variant: the difference is taken the other way round.                   *)
SavedSwapped(bytes) == (bytes + GoodSize - BadSize) % Word

(* The struct demonstration: the sizes are subtracted the wrong way round  *)
(* for a difference of two size_t, as the packed struct is the smaller.    *)
Saved(bytes) == (bytes + BadSize - GoodSize) % Word

(* template_pool_init chains the blocks of each pool for which the heap has*)
(* memory, if they are large enough for the chain.                         *)
template_pool_init ==
    /\ pools \in SUBSET {p \in Pool : sizes[p] >= POINTER}
    /\ free_list = [p \in Pool |-> IF p \in pools
                                   THEN [b \in 1..pool_counts[p] |-> <<p, b>>]
                                   ELSE <<>>]
    /\ usage_counts = [p \in Pool |-> 0]

(* app_main: the demonstration has run once, the tasks are at the start of *)
(* their loops.                                                            *)
Init ==
    /\ static_buffer_used = {}
    /\ static_buffer_mutex = NULL
    /\ led_static = FALSE
    /\ buffers = [t \in Tasks |-> [s \in Slots(t) |-> NULL]]
    /\ lost = [t \in Tasks |-> {}]
    /\ template_pool_init
    /\ t_ptr = [r \in 1..Len(Requests) |-> NULL]
    /\ aligned = [t \in Tasks |-> [s \in AlignedSlots(t) |-> NULL]]
    /\ demos = 1
    /\ memory_saved_bytes = Saved(0)
    /\ led_saving = FALSE
    /\ pc = [t \in Tasks |-> IF t = OptTest THEN "demo" ELSE "allocate"]
    /\ k = [t \in Tasks |-> 1]

At(t, label) == pc[t] = label

GoTo(t, label, n) == /\ pc' = [pc EXCEPT ![t] = label]
                     /\ k' = [k EXCEPT ![t] = n]

-----------------------------------------------------------------------------
(* The static buffers                                                      *)

(* After the k-th buffer the task asks for the next, or goes on to free    *)
(* them; in the end it goes on with something else.                        *)
NextBuffer(t, label, end) ==
    IF k[t] < Cardinality(Slots(t)) THEN GoTo(t, label, k[t] + 1)
                                    ELSE GoTo(t, end, 1)

AfterFrees(t) == IF t = OptTest THEN "bench" ELSE "align"

(* Variant: the first buffer, used or not.                                 *)
AllocateUnchecked(t) ==
    /\ At(t, "allocate") /\ static_buffer_mutex = NULL
    /\ static_buffer_used' = static_buffer_used \cup {1}
    /\ buffers' = [buffers EXCEPT ![t][k[t]] = 1]
    /\ led_static' = TRUE
    /\ static_buffer_mutex' = t
    /\ GoTo(t, "allocated", k[t])
    /\ UNCHANGED <<lost, templateVars, aligned, savingVars>>

(* allocate_static_buffer: the first unused one, under the mutex ...       *)
Allocate(t) ==
    /\ At(t, "allocate") /\ static_buffer_mutex = NULL
    /\ IF Buffer \subseteq static_buffer_used
       THEN UNCHANGED <<static_buffer_used, led_static, buffers>>
       ELSE LET b == Min(Buffer \ static_buffer_used)
            IN  /\ static_buffer_used' = static_buffer_used \cup {b}
                /\ buffers' = [buffers EXCEPT ![t][k[t]] = b]
                /\ led_static' = TRUE
    /\ static_buffer_mutex' = t
    /\ GoTo(t, "allocated", k[t])
    /\ UNCHANGED <<lost, templateVars, aligned, savingVars>>

AllocateGive(t) ==
    /\ At(t, "allocated")
    /\ static_buffer_mutex' = NULL
    /\ NextBuffer(t, "allocate", "free")
    /\ UNCHANGED <<static_buffer_used, led_static, buffers, lost, templateVars,
                   aligned, savingVars>>

(* ... or none, when the mutex cannot be had within 100 ms.                *)
AllocateTimeout(t) ==
    /\ At(t, "allocate") /\ static_buffer_mutex # NULL
    /\ NextBuffer(t, "allocate", "free")
    /\ UNCHANGED <<staticVars, templateVars, aligned, savingVars>>

(* Variant: the LED goes out with every buffer.                            *)
FreeAlwaysDark(t) ==
    /\ At(t, "free") /\ static_buffer_mutex = NULL
    /\ buffers[t][k[t]] # NULL
    /\ static_buffer_used' = static_buffer_used \ {buffers[t][k[t]]}
    /\ buffers' = [buffers EXCEPT ![t][k[t]] = NULL]
    /\ led_static' = FALSE
    /\ static_buffer_mutex' = t
    /\ GoTo(t, "freed", k[t])
    /\ UNCHANGED <<lost, templateVars, aligned, savingVars>>

(* free_static_buffer: under the mutex, with the LED off after the last ...*)
Free(t) ==
    /\ At(t, "free") /\ static_buffer_mutex = NULL
    /\ buffers[t][k[t]] # NULL
    /\ static_buffer_used' = static_buffer_used \ {buffers[t][k[t]]}
    /\ buffers' = [buffers EXCEPT ![t][k[t]] = NULL]
    /\ led_static' = (static_buffer_used' # {})
    /\ static_buffer_mutex' = t
    /\ GoTo(t, "freed", k[t])
    /\ UNCHANGED <<lost, templateVars, aligned, savingVars>>

FreeGive(t) ==
    /\ At(t, "freed")
    /\ static_buffer_mutex' = NULL
    /\ NextBuffer(t, "free", AfterFrees(t))
    /\ UNCHANGED <<static_buffer_used, led_static, buffers, lost, templateVars,
                   aligned, savingVars>>

(* ... or not at all: the caller forgets the buffer all the same.          *)
FreeTimeout(t) ==
    /\ At(t, "free") /\ static_buffer_mutex # NULL
    /\ buffers[t][k[t]] # NULL
    /\ lost' = [lost EXCEPT ![t] = @ \cup {buffers[t][k[t]]}]
    /\ buffers' = [buffers EXCEPT ![t][k[t]] = NULL]
    /\ NextBuffer(t, "free", AfterFrees(t))
    /\ UNCHANGED <<static_buffer_used, static_buffer_mutex, led_static,
                   templateVars, aligned, savingVars>>

(* The callers free only what they got.                                    *)
FreeNothing(t) ==
    /\ At(t, "free") /\ buffers[t][k[t]] = NULL
    /\ NextBuffer(t, "free", AfterFrees(t))
    /\ UNCHANGED <<staticVars, templateVars, aligned, savingVars>>

-----------------------------------------------------------------------------
(* Aligned allocations                                                     *)

(* ALIGN_UP for a power of two.                                            *)
AlignUp(n, alignment) == ((n + alignment - 1) \div alignment) * alignment

(* Variant: the address is rounded up without room for the pointer.        *)
PlaceNoPointer(raw, r) ==
    [raw |-> raw, total |-> r.size + r.alignment + POINTER, size |-> r.size,
     alignment |-> r.alignment, addr |-> AlignUp(raw, r.alignment)]

(* aligned_malloc: where the aligned block lies in the allocated one; the  *)
(* word before it keeps the address to free.                               *)
Place(raw, r) ==
    [raw |-> raw, total |-> r.size + r.alignment + POINTER, size |-> r.size,
     alignment |-> r.alignment, addr |-> AlignUp(raw + POINTER, r.alignment)]

AlignedMalloc(t, r) ==
    aligned' \in {[aligned EXCEPT ![t][k[t]] = NULL]} \cup
                 {[aligned EXCEPT ![t][k[t]] = Place(raw, r)] :
                     raw \in HeapAddresses}

AlignedFree(t) == aligned' = [aligned EXCEPT ![t][k[t]] = NULL]

(* memory_usage_test_task makes all its allocations and frees them.        *)
UsageAlign ==
    /\ At(MemUsage, "align")
    /\ AlignedMalloc(MemUsage, Aligned[k[MemUsage]])
    /\ IF k[MemUsage] < Len(Aligned)
       THEN GoTo(MemUsage, "align", k[MemUsage] + 1)
       ELSE GoTo(MemUsage, "unalign", 1)
    /\ UNCHANGED <<staticVars, templateVars, savingVars>>

UsageUnalign ==
    /\ At(MemUsage, "unalign")
    /\ AlignedFree(MemUsage)
    /\ IF k[MemUsage] < Len(Aligned)
       THEN GoTo(MemUsage, "unalign", k[MemUsage] + 1)
       ELSE GoTo(MemUsage, "template", 1)
    /\ UNCHANGED <<staticVars, templateVars, savingVars>>

-----------------------------------------------------------------------------
(* The template pools                                                      *)

(* The smallest pool whose blocks are large enough, 0 if there is none.    *)
BestFit(size) ==
    LET fit == {p \in Pool : size <= sizes[p]}
    IN  IF fit = {} THEN 0 ELSE Min(fit)

(* template_malloc: a block of that pool, or else the heap's, if any.      *)
UsageTemplate ==
    /\ At(MemUsage, "template")
    /\ LET n == k[MemUsage]
           p == BestFit(Requests[n])
       IN  /\ IF p # 0 /\ free_list[p] # <<>>
              THEN /\ t_ptr' = [t_ptr EXCEPT ![n] = Head(free_list[p])]
                   /\ free_list' = [free_list EXCEPT ![p] = Tail(@)]
                   /\ usage_counts' = [usage_counts EXCEPT ![p] = @ + 1]
              ELSE /\ \E ptr \in {HEAP, NULL} : t_ptr' = [t_ptr EXCEPT ![n] = ptr]
                   /\ UNCHANGED <<free_list, usage_counts>>
           /\ IF n < Len(Requests) THEN GoTo(MemUsage, "template", n + 1)
                                   ELSE GoTo(MemUsage, "untemplate", 1)
    /\ UNCHANGED <<staticVars, pools, aligned, savingVars>>

(* The pool a block's address lies in.                                     *)
PoolOf(ptr) == ptr[1]

(* Variant: the pool is found by the size that was asked for.              *)
UsageUntemplateBySize ==
    /\ At(MemUsage, "untemplate")
    /\ LET n == k[MemUsage]
           p == BestFit(Requests[n])
       IN  /\ IF t_ptr[n] # NULL /\ p # 0
              THEN /\ free_list' = [free_list EXCEPT ![p] = <<t_ptr[n]>> \o @]
                   /\ usage_counts' = [usage_counts EXCEPT ![p] = @ - 1]
              ELSE UNCHANGED <<free_list, usage_counts>>
           /\ t_ptr' = [t_ptr EXCEPT ![n] = NULL]
           /\ IF n < Len(Requests) THEN GoTo(MemUsage, "untemplate", n + 1)
                                   ELSE GoTo(MemUsage, "allocate", 1)
    /\ UNCHANGED <<staticVars, pools, aligned, savingVars>>

(* template_free: back to the pool whose memory the address lies in, or to *)
(* the heap.                                                               *)
UsageUntemplate ==
    /\ At(MemUsage, "untemplate")
    /\ LET n == k[MemUsage]
       IN  /\ IF t_ptr[n] \notin {NULL, HEAP}
              THEN LET p == PoolOf(t_ptr[n])
                   IN  /\ free_list' = [free_list EXCEPT ![p] = <<t_ptr[n]>> \o @]
                       /\ usage_counts' = [usage_counts EXCEPT ![p] = @ - 1]
              ELSE UNCHANGED <<free_list, usage_counts>>
           /\ t_ptr' = [t_ptr EXCEPT ![n] = NULL]
           /\ IF n < Len(Requests) THEN GoTo(MemUsage, "untemplate", n + 1)
                                   ELSE GoTo(MemUsage, "allocate", 1)
    /\ UNCHANGED <<staticVars, pools, aligned, savingVars>>

-----------------------------------------------------------------------------
(* optimization_test_task and the monitor                                  *)

(* demonstrate_struct_optimization; the region analysis only prints.       *)
Demonstrate ==
    /\ At(OptTest, "demo")
    /\ IF demos < MaxDemos
       THEN /\ demos' = demos + 1
            /\ memory_saved_bytes' = Saved(memory_saved_bytes)
       ELSE UNCHANGED <<demos, memory_saved_bytes>>
    /\ GoTo(OptTest, "pattern", 1)
    /\ UNCHANGED <<staticVars, templateVars, aligned, led_saving>>

(* optimize_memory_access_patterns: an array, and a matrix if the array    *)
(* could be had.                                                           *)
PatternMalloc ==
    /\ At(OptTest, "pattern")
    /\ AlignedMalloc(OptTest, Patterns[1])
    /\ IF aligned'[OptTest][1] = NULL THEN GoTo(OptTest, "bench", 1)
                                      ELSE GoTo(OptTest, "patternFree", 1)
    /\ UNCHANGED <<staticVars, templateVars, savingVars>>

PatternFree ==
    /\ At(OptTest, "patternFree")
    /\ AlignedFree(OptTest)
    /\ GoTo(OptTest, "matrix", 1)
    /\ UNCHANGED <<staticVars, templateVars, savingVars>>

MatrixMalloc ==
    /\ At(OptTest, "matrix")
    /\ AlignedMalloc(OptTest, Patterns[2])
    /\ GoTo(OptTest, "matrixFree", 1)
    /\ UNCHANGED <<staticVars, templateVars, savingVars>>

MatrixFree ==
    /\ At(OptTest, "matrixFree")
    /\ AlignedFree(OptTest)
    /\ GoTo(OptTest, "bench", 1)
    /\ UNCHANGED <<staticVars, templateVars, savingVars>>

(* benchmark_allocation_strategies: a static buffer and back, then an      *)
(* aligned block and back, each any number of times.                       *)
BenchLoop ==
    /\ At(OptTest, "bench")
    /\ \E label \in {"allocate", "benchAlign"} : GoTo(OptTest, label, 1)
    /\ UNCHANGED <<staticVars, templateVars, aligned, savingVars>>

BenchMalloc ==
    /\ At(OptTest, "benchAlign")
    /\ AlignedMalloc(OptTest, Benchmark)
    /\ GoTo(OptTest, "benchFree", 1)
    /\ UNCHANGED <<staticVars, templateVars, savingVars>>

BenchFree ==
    /\ At(OptTest, "benchFree")
    /\ AlignedFree(OptTest)
    /\ \E label \in {"benchAlign", "demo"} : GoTo(OptTest, label, 1)
    /\ UNCHANGED <<staticVars, templateVars, savingVars>>

(* optimization_monitor_task; the calculation before it only prints.       *)
Monitor ==
    /\ led_saving' = (memory_saved_bytes > Threshold)
    /\ UNCHANGED <<staticVars, templateVars, aligned, demos,
                   memory_saved_bytes, pc, k>>

-----------------------------------------------------------------------------

Next ==
    \/ \E t \in Tasks :
          \/ Allocate(t) \/ AllocateGive(t) \/ AllocateTimeout(t)
          \/ Free(t) \/ FreeGive(t) \/ FreeTimeout(t) \/ FreeNothing(t)
    \/ UsageAlign \/ UsageUnalign \/ UsageTemplate \/ UsageUntemplate
    \/ Demonstrate \/ PatternMalloc \/ PatternFree \/ MatrixMalloc \/ MatrixFree
    \/ BenchLoop \/ BenchMalloc \/ BenchFree
    \/ Monitor

Spec == Init /\ [][Next]_vars

-----------------------------------------------------------------------------

Held(t) == {buffers[t][s] : s \in Slots(t)} \ {NULL}

TypeOK ==
    /\ static_buffer_used \subseteq Buffer
    /\ static_buffer_mutex \in Tasks \cup {NULL}
    /\ led_static \in BOOLEAN /\ led_saving \in BOOLEAN
    /\ \A t \in Tasks : /\ buffers[t] \in [Slots(t) -> Buffer \cup {NULL}]
                        /\ lost[t] \subseteq Buffer
                        /\ k[t] \in Nat \ {0}
    /\ pools \subseteq Pool
    /\ \A p \in Pool : free_list[p] \in Seq(Block)
    /\ usage_counts \in [Pool -> Nat]
    /\ t_ptr \in [1..Len(Requests) -> Block \cup {NULL, HEAP}]
    /\ demos \in 1..MaxDemos
    /\ memory_saved_bytes \in 0..(Word - 1)

(* The LED of the static buffers tells at any time, whichever task came    *)
(* last, whether one of them is in use, and those in use are the ones some *)
(* task holds or has failed to give back: a free that times out (267) says *)
(* nothing to its caller, and its buffer is used for ever.                 *)
LedTellsUse ==
    /\ static_buffer_used = UNION {Held(t) \cup lost[t] : t \in Tasks}
    /\ led_static = (static_buffer_used # {})

(* Each static buffer has one owner at a time: the tasks, the mutex and    *)
(* the timeouts together are no more than an allocator of blocks, where a  *)
(* buffer whose free timed out stays with the one that had it.             *)
owner == [b \in Buffer |->
            IF \E t \in Tasks : b \in Held(t) \cup lost[t]
            THEN CHOOSE t \in Tasks : b \in Held(t) \cup lost[t] ELSE NULL]

Allocator == INSTANCE BlockAllocator WITH Blocks <- Buffer, NoOne <- NULL

ImplementsAllocator == Allocator!Spec

(* An aligned block lies inside the larger one it was made from, with the  *)
(* word that leads back to it (314), for every alignment and address.      *)
AlignedInside ==
    \A t \in Tasks : \A s \in AlignedSlots(t) :
        LET a == aligned[t][s]
        IN  a # NULL => /\ a.addr % a.alignment = 0
                        /\ a.addr - POINTER >= a.raw
                        /\ a.addr + a.size <= a.raw + a.total

(* Every block of a pool that exists is in its pool's list or with the     *)
(* the task, once, and the use count says how many are out: a pointer is   *)
(* given back by where it lies, not by what was asked for (219).  Every    *)
(* value has its type.                                                     *)
Listed(p) == {free_list[p][n] : n \in 1..Len(free_list[p])}

Out(p) == {r \in 1..Len(Requests) : t_ptr[r] \notin {NULL, HEAP} /\ t_ptr[r][1] = p}

TemplateListsWhole ==
    /\ TypeOK
    /\ \A p \in pools :
          /\ Listed(p) \cup {t_ptr[r] : r \in Out(p)} = {<<p, b>> : b \in 1..pool_counts[p]}
          /\ Len(free_list[p]) + Cardinality(Out(p)) = pool_counts[p]
          /\ usage_counts[p] = Cardinality(Out(p))

(* LED_MEMORY_SAVING is lit only by a number that has wrapped: the packed  *)
(* struct is the smaller one, so nothing is ever saved (371).              *)
SavingLedIsWrapped == led_saving => demos * (GoodSize - BadSize) + memory_saved_bytes >= Word

=============================================================================
