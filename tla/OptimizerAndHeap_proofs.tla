---------------------- MODULE OptimizerAndHeap_proofs -----------------------
(***************************************************************************)
(* Proofs about the memory of lab07.  MemoryOptimizer, for every number of *)
(* static buffers, every table of template pools, all requests and all     *)
(* addresses: types, who has which static buffer and what the LED tells,   *)
(* where an aligned block lies, that no block of a template pool is lost,  *)
(* and the LED that only a wrapped number lights.  HeapTracker, for all    *)
(* tasks, tables and heaps: the table and the counters against the heap,   *)
(* and that every block has an owner.                                      *)
(***************************************************************************)
EXTENDS MemoryOptimizer, HeapTracker, FiniteSetTheorems,
        WellFoundedInduction, NaturalsInduction, TLAPS

(* Where a task is: the labels of its loop, and how far its counter goes.  *)
Locked == {"allocate", "allocated", "free", "freed"}

Control ==
    /\ pc = [t \in Tasks |-> pc[t]] /\ k \in [Tasks -> Nat \ {0}]
    /\ pc[OptTest] \in Locked \cup {"demo", "pattern", "patternFree", "matrix",
                                    "matrixFree", "bench", "benchAlign", "benchFree"}
    /\ pc[MemUsage] \in Locked \cup {"align", "unalign", "template", "untemplate"}
    /\ k[OptTest] = 1
    /\ pc[MemUsage] \in Locked => k[MemUsage] <= NBuffers
    /\ pc[MemUsage] \in {"align", "unalign"} => k[MemUsage] <= Len(Aligned)
    /\ pc[MemUsage] \in {"template", "untemplate"} => k[MemUsage] <= Len(Requests)

-----------------------------------------------------------------------------
(* Static buffers                                                          *)

BufferTypes ==
    /\ static_buffer_used \subseteq Buffer
    /\ static_buffer_mutex \in Tasks \cup {NULL}
    /\ buffers = [t \in Tasks |-> buffers[t]]
    /\ lost \in [Tasks -> SUBSET Buffer]
    /\ \A t \in Tasks : buffers[t] \in [Slots(t) -> Buffer \cup {NULL}]

(* A task claims the buffers it has and those it failed to give back.      *)
Claims(t, b) ==
    b \in lost[t] \/ (b # NULL /\ \E s \in Slots(t) : buffers[t][s] = b)

(* The claims are the buffers in use; no two claim the same one.           *)
Claimed ==
    /\ \A b \in Buffer : b \in static_buffer_used <=> \E t \in Tasks : Claims(t, b)
    /\ led_static = (static_buffer_used # {})
    /\ \A t, u \in Tasks : \A b \in Buffer : Claims(t, b) /\ Claims(u, b) => t = u
    /\ \A t \in Tasks : \A s \in Slots(t) :
          /\ buffers[t][s] \notin lost[t]
          /\ \A r \in Slots(t) :
                buffers[t][s] = buffers[t][r] /\ buffers[t][s] # NULL => s = r

(* A slot is filled only from the turn that allocates for it to the turn   *)
(* that frees it: no buffer is overwritten.                                *)
Filled ==
    \A t \in Tasks : \A s \in Slots(t) :
        buffers[t][s] # NULL =>
            \/ pc[t] = "allocate" /\ s < k[t]
            \/ pc[t] = "allocated" /\ s <= k[t]
            \/ pc[t] = "free" /\ s >= k[t]
            \/ pc[t] = "freed" /\ s > k[t]

StaticInv == BufferTypes /\ Claimed /\ Filled

-----------------------------------------------------------------------------
(* Lemmas                                                                  *)

(* A set of numbers has a smallest one.                                    *)
LEMMA Smallest ==
    ASSUME NEW S \in SUBSET Nat, S # {}
    PROVE  Min(S) \in S /\ \A x \in S : Min(S) <= x
<1>1. PICK m \in S : \A x \in S : ~(<<x, m>> \in OpToRel(<, Nat))
  BY NatLessThanWellFounded, WFMin, Zenon
<1>2. \A x \in S : ~(x < m)
  BY <1>1 DEF OpToRel
<1>3. \A x \in S : m <= x
  BY <1>2
<1> QED BY <1>3 DEF Min

(* An assignment to one cell of one task.                                  *)
LEMMA CellSet ==
    ASSUME NEW f, f = [u \in Tasks |-> f[u]], NEW t \in Tasks,
           NEW D, NEW R, f[t] \in [D -> R], NEW s \in D, NEW v \in R
    PROVE  LET g == [f EXCEPT ![t][s] = v]
           IN  /\ g = [u \in Tasks |-> g[u]]
               /\ g[t] \in [D -> R]
               /\ g[t][s] = v
               /\ \A r \in D : r # s => g[t][r] = f[t][r]
               /\ \A u \in Tasks : u # t => g[u] = f[u]
OBVIOUS

LEMMA SlotCount ==
    ASSUME NEW t \in Tasks
    PROVE  /\ Cardinality(Slots(t)) \in Nat \ {0}
           /\ Slots(t) = 1..Cardinality(Slots(t))
<1>1. OptTest # MemUsage /\ NBuffers \in Nat \ {0}
  BY OptimizerAssumption DEF OptTest, MemUsage
<1>2. CASE t = MemUsage
  <2>1. Slots(t) = 1..NBuffers
    BY <1>2 DEF Slots
  <2>2. 1 \in Int /\ NBuffers \in Int /\ ~(1 > NBuffers) /\ NBuffers - 1 + 1 = NBuffers
    BY <1>1
  <2>3. Cardinality(1..NBuffers) = NBuffers
    BY <2>2, FS_Interval
  <2> QED BY <1>1, <2>1, <2>3
<1>3. CASE t # MemUsage
  <2>1. Slots(t) = {1} /\ {1} = 1..1
    BY <1>3 DEF Slots
  <2>2. Cardinality({1}) = 1
    BY FS_Singleton
  <2> QED BY <2>1, <2>2
<1> QED BY <1>2, <1>3

-----------------------------------------------------------------------------
(* Control                                                                 *)

(* What NextBuffer does: one more buffer or on with something else.        *)
LEMMA Turns ==
    ASSUME NEW t \in Tasks, NEW label, NEW end, Control, pc[t] \in Locked,
           NextBuffer(t, label, end)
    PROVE  /\ k[t] \in Slots(t)
           /\ \/ /\ k[t] + 1 \in Slots(t)
                 /\ GoTo(t, label, k[t] + 1)
              \/ /\ \A s \in Slots(t) : s <= k[t]
                 /\ GoTo(t, end, 1)
<1>1. OptTest # MemUsage /\ NBuffers \in Nat \ {0}
  BY OptimizerAssumption DEF OptTest, MemUsage
<1>2. k[t] \in Nat \ {0} /\ k[t] \in Slots(t)
  BY <1>1 DEF Control, Slots, Tasks
<1>3. /\ Cardinality(Slots(t)) \in Nat \ {0}
      /\ Slots(t) = 1..Cardinality(Slots(t))
  BY SlotCount
<1>4. CASE k[t] < Cardinality(Slots(t))
  BY <1>2, <1>3, <1>4 DEF NextBuffer
<1>5. CASE ~(k[t] < Cardinality(Slots(t)))
  BY <1>2, <1>3, <1>5 DEF NextBuffer
<1> QED BY <1>4, <1>5

LEMMA ControlGoes ==
    ASSUME Control, NEW t \in Tasks, NEW label, NEW n \in Nat \ {0},
           GoTo(t, label, n),
           IF t = OptTest
           THEN /\ n = 1
                /\ label \in Locked \cup {"demo", "pattern", "patternFree",
                                 "matrix", "matrixFree", "bench", "benchAlign",
                                 "benchFree"}
           ELSE /\ label \in Locked \cup {"align", "unalign", "template",
                                          "untemplate"}
                /\ label \in Locked => n <= NBuffers
                /\ label \in {"align", "unalign"} => n <= Len(Aligned)
                /\ label \in {"template", "untemplate"} => n <= Len(Requests)
    PROVE  Control'
<1>1. OptTest # MemUsage /\ Tasks = {OptTest, MemUsage}
  BY DEF OptTest, MemUsage, Tasks
<1>2. /\ pc' = [u \in Tasks |-> pc'[u]] /\ k' \in [Tasks -> Nat \ {0}]
      /\ pc'[t] = label /\ k'[t] = n
      /\ \A u \in Tasks : u # t => pc'[u] = pc[u] /\ k'[u] = k[u]
  BY DEF Control, GoTo
<1>3. CASE t = OptTest
  BY <1>1, <1>2, <1>3 DEF Control, Locked
<1>4. CASE t = MemUsage
  BY <1>1, <1>2, <1>4 DEF Control, Locked
<1> QED BY <1>1, <1>3, <1>4

(* The steps of the static buffers.                                        *)
Statics(t) ==
    \/ Allocate(t) \/ AllocateGive(t) \/ AllocateTimeout(t)
    \/ Free(t) \/ FreeGive(t) \/ FreeTimeout(t) \/ FreeNothing(t)

(* The steps of the usage test that are not, and those of the other task.  *)
UsageSteps == UsageAlign \/ UsageUnalign \/ UsageTemplate \/ UsageUntemplate
TestSteps ==
    \/ Demonstrate \/ PatternMalloc \/ PatternFree \/ MatrixMalloc \/ MatrixFree
    \/ BenchLoop \/ BenchMalloc \/ BenchFree

LEMMA Lengths ==
    /\ NBuffers \in Nat \ {0}
    /\ Len(Aligned) \in Nat \ {0}
    /\ Len(Requests) \in Nat \ {0}
BY OptimizerAssumption

LEMMA ControlStep ==
    ASSUME Control, [Next]_vars
    PROVE  Control'
<1>1. ASSUME NEW t \in Tasks, Statics(t)
      PROVE  Control'
  <2>1. k[t] \in Nat \ {0} /\ Cardinality(Slots(t)) \in Nat \ {0}
    BY SlotCount DEF Control
  <2>2. /\ pc[t] \in Locked
        /\ \/ \E label \in {"allocated", "freed"} : GoTo(t, label, k[t])
           \/ \E label \in {"allocate", "free"}, end \in {"free", AfterFrees(t)} :
                 NextBuffer(t, label, end)
    BY <1>1, Zenon DEF Statics, Allocate, AllocateGive, AllocateTimeout, Free,
       FreeGive, FreeTimeout, FreeNothing, At, Locked
  <2>3. CASE \E label \in {"allocated", "freed"} : GoTo(t, label, k[t])
    <3>1. PICK label \in {"allocated", "freed"} : GoTo(t, label, k[t])
      BY <2>3
    <3>2. IF t = OptTest THEN k[t] = 1 ELSE k[t] <= NBuffers
      BY <2>2 DEF Control, Tasks
    <3> QED BY <2>1, <3>1, <3>2, ControlGoes DEF Locked
  <2>4. CASE \E label \in {"allocate", "free"}, end \in {"free", AfterFrees(t)} :
                NextBuffer(t, label, end)
    <3>1. PICK label \in {"allocate", "free"}, end \in {"free", AfterFrees(t)} :
                NextBuffer(t, label, end)
      BY <2>4
    <3>2. CASE k[t] + 1 \in Slots(t) /\ GoTo(t, label, k[t] + 1)
      <4>1. IF t = OptTest THEN k[t] + 1 = 1 ELSE k[t] + 1 <= NBuffers
        BY <3>2, Lengths DEF Slots, Tasks, OptTest, MemUsage
      <4>2. k[t] + 1 \in Nat \ {0}
        BY <2>1
      <4> QED BY <3>1, <3>2, <4>1, <4>2, ControlGoes DEF Locked
    <3>3. CASE GoTo(t, end, 1)
      <4>1. IF t = OptTest THEN end \in {"free", "bench"}
                           ELSE end \in {"free", "align"}
        BY <3>1 DEF AfterFrees
      <4> QED BY <3>3, <4>1, Lengths, ControlGoes DEF Locked
    <3> QED BY <2>2, <3>1, <3>2, <3>3, Turns
  <2> QED BY <2>2, <2>3, <2>4
<1>2. CASE UsageSteps
  <2>1. k[MemUsage] \in Nat \ {0} /\ MemUsage \in Tasks /\ MemUsage # OptTest
    BY DEF Control, Tasks, OptTest, MemUsage
  <2>2. \E label \in {"align", "unalign", "template", "untemplate", "allocate"},
           n \in {1, k[MemUsage] + 1} :
              /\ GoTo(MemUsage, label, n)
              /\ n = 1 \/ /\ label = pc[MemUsage] /\ label \in {"align", "unalign"}
                          /\ k[MemUsage] < Len(Aligned)
                       \/ /\ label = pc[MemUsage]
                          /\ label \in {"template", "untemplate"}
                          /\ k[MemUsage] < Len(Requests)
    BY <1>2, Zenon DEF UsageSteps, UsageAlign, UsageUnalign, UsageTemplate,
       UsageUntemplate, At
  <2>3. PICK label \in {"align", "unalign", "template", "untemplate", "allocate"},
             n \in {1, k[MemUsage] + 1} :
              /\ GoTo(MemUsage, label, n)
              /\ n = 1 \/ /\ label = pc[MemUsage] /\ label \in {"align", "unalign"}
                          /\ k[MemUsage] < Len(Aligned)
                       \/ /\ label = pc[MemUsage]
                          /\ label \in {"template", "untemplate"}
                          /\ k[MemUsage] < Len(Requests)
    BY <2>2
  <2>4. n \in Nat \ {0}
        /\ (label \in {"align", "unalign"} => n <= Len(Aligned))
        /\ (label \in {"template", "untemplate"} => n <= Len(Requests))
        /\ (label = "allocate" => n <= NBuffers)
    BY <2>1, <2>3, Lengths
  <2> QED BY <2>1, <2>3, <2>4, ControlGoes DEF Locked
<1>3. CASE TestSteps
  <2>1. \E label \in {"demo", "pattern", "patternFree", "matrix", "matrixFree",
                      "bench", "allocate", "benchAlign", "benchFree"} :
            GoTo(OptTest, label, 1)
    BY <1>3 DEF TestSteps, Demonstrate, PatternMalloc, PatternFree,
       MatrixMalloc, MatrixFree, BenchLoop, BenchMalloc, BenchFree
  <2> QED BY <2>1, ControlGoes DEF Locked, Tasks
<1>4. CASE Monitor \/ UNCHANGED vars
  BY <1>4 DEF Monitor, vars, Control
<1> QED BY <1>1, <1>2, <1>3, <1>4 DEF Next, Statics, UsageSteps, TestSteps

-----------------------------------------------------------------------------
(* Who has which static buffer                                             *)

LEMMA NoBufferIsNull ==
    /\ NULL \notin Buffer /\ NULL \notin Tasks
    /\ Buffer \subseteq Nat
BY OptimizerAssumption DEF Buffer

(* What a call does to the cell it works on: the buffer is allocated, is   *)
(* given back, or is forgotten.                                            *)
Takes(t, b) ==
    /\ buffers[t][k[t]] = NULL
    /\ buffers' = [buffers EXCEPT ![t][k[t]] = b]
    /\ UNCHANGED lost

Gives(t) ==
    /\ buffers[t][k[t]] # NULL
    /\ buffers' = [buffers EXCEPT ![t][k[t]] = NULL]
    /\ UNCHANGED lost

Forgets(t) ==
    /\ buffers[t][k[t]] # NULL
    /\ lost' = [lost EXCEPT ![t] = @ \cup {buffers[t][k[t]]}]
    /\ buffers' = [buffers EXCEPT ![t][k[t]] = NULL]

(* The cells afterwards.                                                   *)
LEMMA CellAfter ==
    ASSUME BufferTypes, NEW t \in Tasks, k[t] \in Slots(t),
           NEW v \in Buffer \cup {NULL},
           buffers' = [buffers EXCEPT ![t][k[t]] = v]
    PROVE  /\ buffers' = [u \in Tasks |-> buffers'[u]]
           /\ \A u \in Tasks : buffers'[u] \in [Slots(u) -> Buffer \cup {NULL}]
           /\ buffers'[t][k[t]] = v
           /\ \A r \in Slots(t) : r # k[t] => buffers'[t][r] = buffers[t][r]
           /\ \A u \in Tasks : u # t => buffers'[u] = buffers[u]
<1>1. /\ buffers = [u \in Tasks |-> buffers[u]]
      /\ buffers[t] \in [Slots(t) -> Buffer \cup {NULL}]
      /\ \A u \in Tasks : buffers[u] \in [Slots(u) -> Buffer \cup {NULL}]
  BY DEF BufferTypes
<1>2. /\ buffers' = [u \in Tasks |-> buffers'[u]]
      /\ buffers'[t] \in [Slots(t) -> Buffer \cup {NULL}]
      /\ buffers'[t][k[t]] = v
      /\ \A r \in Slots(t) : r # k[t] => buffers'[t][r] = buffers[t][r]
      /\ \A u \in Tasks : u # t => buffers'[u] = buffers[u]
  BY <1>1, CellSet
<1> QED BY <1>1, <1>2

LEMMA TakesTypes ==
    ASSUME BufferTypes, NEW t \in Tasks, k[t] \in Slots(t), NEW b \in Buffer,
           Takes(t, b)
    PROVE  /\ \A u \in Tasks : \A c \in Buffer :
                 Claims(u, c)' <=> Claims(u, c) \/ (u = t /\ c = b)
           /\ lost' \in [Tasks -> SUBSET Buffer]
<1>1. /\ buffers'[t][k[t]] = b /\ buffers[t][k[t]] = NULL
      /\ \A r \in Slots(t) : r # k[t] => buffers'[t][r] = buffers[t][r]
      /\ \A u \in Tasks : u # t => buffers'[u] = buffers[u]
      /\ lost' = lost
  BY CellAfter DEF Takes
<1>2. ASSUME NEW c \in Buffer
      PROVE  Claims(t, c)' <=> Claims(t, c) \/ c = b
  BY <1>1, NoBufferIsNull DEF Claims
<1>3. ASSUME NEW u \in Tasks, u # t, NEW c \in Buffer
      PROVE  Claims(u, c)' <=> Claims(u, c)
  BY <1>1, <1>3 DEF Claims
<1> QED BY <1>1, <1>2, <1>3 DEF BufferTypes

LEMMA GivesTypes ==
    ASSUME BufferTypes, Claimed, NEW t \in Tasks, k[t] \in Slots(t), Gives(t)
    PROVE  /\ \A u \in Tasks : \A c \in Buffer :
                 Claims(u, c)' <=> Claims(u, c) /\ ~(u = t /\ c = buffers[t][k[t]])
           /\ lost' \in [Tasks -> SUBSET Buffer]
           /\ buffers[t][k[t]] \in Buffer /\ Claims(t, buffers[t][k[t]])
<1>1. /\ buffers'[t][k[t]] = NULL /\ buffers[t][k[t]] # NULL
      /\ \A r \in Slots(t) : r # k[t] => buffers'[t][r] = buffers[t][r]
      /\ \A u \in Tasks : u # t => buffers'[u] = buffers[u]
      /\ lost' = lost
  BY CellAfter DEF Gives
<1>2. buffers[t][k[t]] \in Buffer
  BY <1>1 DEF BufferTypes
<1>3. ASSUME NEW c \in Buffer
      PROVE  Claims(t, c)' <=> Claims(t, c) /\ c # buffers[t][k[t]]
  <2>1. \A r \in Slots(t) : buffers[t][r] = buffers[t][k[t]] => r = k[t]
    BY <1>1 DEF Claimed
  <2>2. buffers[t][k[t]] \notin lost[t]
    BY DEF Claimed
  <2> QED BY <1>1, <2>1, <2>2, NoBufferIsNull DEF Claims
<1>4. ASSUME NEW u \in Tasks, u # t, NEW c \in Buffer
      PROVE  Claims(u, c)' <=> Claims(u, c)
  BY <1>1, <1>4 DEF Claims
<1>5. Claims(t, buffers[t][k[t]])
  BY <1>1 DEF Claims
<1> QED BY <1>1, <1>2, <1>3, <1>4, <1>5 DEF BufferTypes

LEMMA ForgetsTypes ==
    ASSUME BufferTypes, NEW t \in Tasks, k[t] \in Slots(t), Forgets(t)
    PROVE  /\ \A u \in Tasks : \A c \in Buffer : Claims(u, c)' <=> Claims(u, c)
           /\ lost' \in [Tasks -> SUBSET Buffer]
           /\ lost'[t] = lost[t] \cup {buffers[t][k[t]]}
           /\ \A u \in Tasks : u # t => lost'[u] = lost[u]
<1>1. /\ buffers'[t][k[t]] = NULL /\ buffers[t][k[t]] # NULL
      /\ \A r \in Slots(t) : r # k[t] => buffers'[t][r] = buffers[t][r]
      /\ \A u \in Tasks : u # t => buffers'[u] = buffers[u]
  BY CellAfter DEF Forgets
<1>2. buffers[t][k[t]] \in Buffer
  BY <1>1 DEF BufferTypes
<1>3. /\ lost' \in [Tasks -> SUBSET Buffer]
      /\ lost'[t] = lost[t] \cup {buffers[t][k[t]]}
      /\ \A u \in Tasks : u # t => lost'[u] = lost[u]
  BY <1>2 DEF Forgets, BufferTypes
<1>4. ASSUME NEW c \in Buffer
      PROVE  Claims(t, c)' <=> Claims(t, c)
  BY <1>1, <1>3, NoBufferIsNull DEF Claims
<1>5. ASSUME NEW u \in Tasks, u # t, NEW c \in Buffer
      PROVE  Claims(u, c)' <=> Claims(u, c)
  BY <1>1, <1>3, <1>5 DEF Claims
<1> QED BY <1>3, <1>4, <1>5

(* The static buffers' part of a step.                                     *)
TakesFirst(t) ==
    /\ pc[t] = "allocate" /\ pc' = [pc EXCEPT ![t] = "allocated"] /\ k' = k
    /\ \E b \in Buffer \ static_buffer_used :
          /\ Takes(t, b)
          /\ static_buffer_used' = static_buffer_used \cup {b} /\ led_static' = TRUE
          /\ static_buffer_mutex' = t

GivesBack(t) ==
    /\ pc[t] = "free" /\ pc' = [pc EXCEPT ![t] = "freed"] /\ k' = k
    /\ Gives(t)
    /\ static_buffer_used' = static_buffer_used \ {buffers[t][k[t]]}
    /\ led_static' = (static_buffer_used' # {})
    /\ static_buffer_mutex' = t

GivesUp(t) ==
    /\ pc[t] = "free" /\ NextBuffer(t, "free", AfterFrees(t))
    /\ Forgets(t)
    /\ UNCHANGED <<static_buffer_used, static_buffer_mutex, led_static>>

Keeps ==
    /\ UNCHANGED <<static_buffer_used, led_static, buffers, lost>>
    /\ static_buffer_mutex' \in Tasks \cup {NULL}

LEMMA FirstIsFree ==
    ASSUME BufferTypes, ~(Buffer \subseteq static_buffer_used)
    PROVE  Min(Buffer \ static_buffer_used) \in Buffer \ static_buffer_used
BY Smallest, NoBufferIsNull

LEMMA StaticEffects ==
    ASSUME Control, BufferTypes, Filled, [Next]_vars
    PROVE  Keeps \/ \E t \in Tasks : TakesFirst(t) \/ GivesBack(t) \/ GivesUp(t)
<1>1. ASSUME NEW t \in Tasks, Allocate(t)
      PROVE  Keeps \/ TakesFirst(t)
  <2>1. CASE Buffer \subseteq static_buffer_used
    BY <1>1, <2>1 DEF Allocate, Keeps
  <2>2. CASE ~(Buffer \subseteq static_buffer_used)
    <3> DEFINE b == Min(Buffer \ static_buffer_used)
    <3>1. b \in Buffer \ static_buffer_used
      BY <2>2, FirstIsFree
    <3>2. k[t] \in Slots(t) /\ pc[t] = "allocate" /\ k[t] \in Nat
      <4>1. pc[t] = "allocate"
        BY <1>1 DEF Allocate, At
      <4> QED BY <4>1, Lengths DEF Control, Slots, Locked, Tasks
    <3>3. buffers[t][k[t]] = NULL
      BY <3>2 DEF Filled
    <3>4. /\ static_buffer_used' = static_buffer_used \cup {b}
          /\ buffers' = [buffers EXCEPT ![t][k[t]] = b]
          /\ led_static' = TRUE /\ static_buffer_mutex' = t /\ lost' = lost
      BY <1>1, <2>2 DEF Allocate
    <3>5. pc' = [pc EXCEPT ![t] = "allocated"] /\ k' = k
      BY <1>1 DEF Allocate, GoTo, Control
    <3> QED BY <3>1, <3>2, <3>3, <3>4, <3>5 DEF TakesFirst, Takes
  <2> QED BY <2>1, <2>2
<1>2. ASSUME NEW t \in Tasks, Free(t)
      PROVE  GivesBack(t)
  BY <1>2 DEF Free, GivesBack, Gives, GoTo, At, Control
<1>3. ASSUME NEW t \in Tasks, FreeTimeout(t)
      PROVE  GivesUp(t)
  BY <1>3 DEF FreeTimeout, GivesUp, Forgets, At
<1>4. ASSUME NEW t \in Tasks,
             AllocateGive(t) \/ AllocateTimeout(t) \/ FreeGive(t) \/ FreeNothing(t)
      PROVE  Keeps
  BY <1>4 DEF AllocateGive, AllocateTimeout, FreeGive, FreeNothing, Keeps,
     staticVars, BufferTypes
<1>5. CASE UsageSteps
  BY <1>5 DEF UsageSteps, UsageAlign, UsageUnalign, UsageTemplate,
     UsageUntemplate, Keeps, staticVars, BufferTypes
<1>6. CASE TestSteps
  BY <1>6 DEF TestSteps, Demonstrate, PatternMalloc, PatternFree, MatrixMalloc,
     MatrixFree, BenchLoop, BenchMalloc, BenchFree, Keeps, staticVars, BufferTypes
<1>7. CASE Monitor \/ UNCHANGED vars
  BY <1>7 DEF Monitor, vars, Keeps, staticVars, BufferTypes
<1> QED BY <1>1, <1>2, <1>3, <1>4, <1>5, <1>6, <1>7 DEF Next, UsageSteps, TestSteps

LEMMA ClaimedStep ==
    ASSUME Control, StaticInv, [Next]_vars
    PROVE  BufferTypes' /\ Claimed'
<1>1. BufferTypes /\ Claimed /\ Filled
  BY DEF StaticInv
<1>2. CASE Keeps
  BY <1>1, <1>2 DEF Keeps, BufferTypes, Claimed, Claims
<1>3. ASSUME NEW t \in Tasks, pc[t] \in Locked
      PROVE  k[t] \in Slots(t)
  BY <1>3, Lengths DEF Control, Slots, Locked, Tasks
<1>4. ASSUME NEW t \in Tasks, TakesFirst(t)
      PROVE  BufferTypes' /\ Claimed'
  <2>1. k[t] \in Slots(t)
    BY <1>3, <1>4 DEF TakesFirst, Locked
  <2>2. PICK b \in Buffer \ static_buffer_used :
           /\ Takes(t, b)
           /\ static_buffer_used' = static_buffer_used \cup {b}
           /\ led_static' = TRUE /\ static_buffer_mutex' = t
    BY <1>4 DEF TakesFirst
  <2>3. /\ \A u \in Tasks : \A c \in Buffer :
              Claims(u, c)' <=> Claims(u, c) \/ (u = t /\ c = b)
        /\ lost' \in [Tasks -> SUBSET Buffer] /\ lost' = lost
    BY <1>1, <2>1, <2>2, TakesTypes DEF Takes
  <2>4. /\ buffers' = [u \in Tasks |-> buffers'[u]]
        /\ \A u \in Tasks : buffers'[u] \in [Slots(u) -> Buffer \cup {NULL}]
        /\ buffers'[t][k[t]] = b
        /\ \A r \in Slots(t) : r # k[t] => buffers'[t][r] = buffers[t][r]
        /\ \A u \in Tasks : u # t => buffers'[u] = buffers[u]
    BY <1>1, <2>1, <2>2, CellAfter DEF Takes
  <2>5. \A u \in Tasks : ~Claims(u, b)
    BY <1>1, <2>2 DEF Claimed
  <2>6. b \notin lost[t] /\ \A r \in Slots(t) : buffers[t][r] # b
    BY <2>2, <2>5, NoBufferIsNull DEF Claims
  <2>7. BufferTypes'
    BY <1>1, <2>2, <2>3, <2>4 DEF BufferTypes
  <2>8. \A c \in Buffer : c \in static_buffer_used' <=> \E u \in Tasks : Claims(u, c)'
    BY <1>1, <2>2, <2>3 DEF Claimed
  <2>9. \A u, v \in Tasks : \A c \in Buffer : Claims(u, c)' /\ Claims(v, c)' => u = v
    BY <1>1, <2>3, <2>5 DEF Claimed
  <2>10. led_static' = (static_buffer_used' # {})
    BY <2>2
  <2>11. ASSUME NEW u \in Tasks, NEW s \in Slots(u)
         PROVE  /\ buffers'[u][s] \notin lost'[u]
                /\ \A r \in Slots(u) :
                      buffers'[u][s] = buffers'[u][r] /\ buffers'[u][s] # NULL => s = r
    <3>1. CASE u = t
      BY <1>1, <2>3, <2>4, <2>6, <3>1 DEF Claimed
    <3>2. CASE u # t
      BY <1>1, <2>3, <2>4, <3>2 DEF Claimed
    <3> QED BY <3>1, <3>2
  <2> QED BY <2>7, <2>8, <2>9, <2>10, <2>11 DEF Claimed
<1>5. ASSUME NEW t \in Tasks, GivesBack(t)
      PROVE  BufferTypes' /\ Claimed'
  <2>1. k[t] \in Slots(t)
    BY <1>3, <1>5 DEF GivesBack, Locked
  <2> DEFINE b == buffers[t][k[t]]
  <2>2. /\ Gives(t) /\ lost' = lost /\ static_buffer_mutex' = t
        /\ static_buffer_used' = static_buffer_used \ {b}
        /\ led_static' = (static_buffer_used' # {})
    BY <1>5 DEF GivesBack, Gives
  <2>3. /\ \A u \in Tasks : \A c \in Buffer :
              Claims(u, c)' <=> Claims(u, c) /\ ~(u = t /\ c = b)
        /\ lost' \in [Tasks -> SUBSET Buffer] /\ b \in Buffer /\ Claims(t, b)
    BY <1>1, <2>1, <2>2, GivesTypes
  <2>4. /\ buffers' = [u \in Tasks |-> buffers'[u]]
        /\ \A u \in Tasks : buffers'[u] \in [Slots(u) -> Buffer \cup {NULL}]
        /\ buffers'[t][k[t]] = NULL
        /\ \A r \in Slots(t) : r # k[t] => buffers'[t][r] = buffers[t][r]
        /\ \A u \in Tasks : u # t => buffers'[u] = buffers[u]
    BY <1>1, <2>1, <2>2, CellAfter DEF Gives
  <2>5. BufferTypes'
    BY <1>1, <2>2, <2>3, <2>4 DEF BufferTypes
  <2>6. \A c \in Buffer : c \in static_buffer_used' <=> \E u \in Tasks : Claims(u, c)'
    BY <1>1, <2>2, <2>3 DEF Claimed
  <2>7. \A u, v \in Tasks : \A c \in Buffer : Claims(u, c)' /\ Claims(v, c)' => u = v
    BY <1>1, <2>3 DEF Claimed
  <2>8. ASSUME NEW u \in Tasks, NEW s \in Slots(u)
        PROVE  /\ buffers'[u][s] \notin lost'[u]
               /\ \A r \in Slots(u) :
                     buffers'[u][s] = buffers'[u][r] /\ buffers'[u][s] # NULL => s = r
    <3>1. NULL \notin lost[u]
      BY <1>1, NoBufferIsNull DEF BufferTypes
    <3>2. CASE u = t
      BY <1>1, <2>2, <2>4, <3>1, <3>2 DEF Claimed
    <3>3. CASE u # t
      BY <1>1, <2>2, <2>4, <3>3 DEF Claimed
    <3> QED BY <3>2, <3>3
  <2> QED BY <2>2, <2>5, <2>6, <2>7, <2>8 DEF Claimed
<1>6. ASSUME NEW t \in Tasks, GivesUp(t)
      PROVE  BufferTypes' /\ Claimed'
  <2>1. k[t] \in Slots(t)
    BY <1>3, <1>6 DEF GivesUp, Locked
  <2>2. Forgets(t) /\ UNCHANGED <<static_buffer_used, static_buffer_mutex, led_static>>
    BY <1>6 DEF GivesUp
  <2>3. /\ \A u \in Tasks : \A c \in Buffer : Claims(u, c)' <=> Claims(u, c)
        /\ lost' \in [Tasks -> SUBSET Buffer]
        /\ lost'[t] = lost[t] \cup {buffers[t][k[t]]}
        /\ \A u \in Tasks : u # t => lost'[u] = lost[u]
    BY <1>1, <2>1, <2>2, ForgetsTypes
  <2>4. /\ buffers' = [u \in Tasks |-> buffers'[u]]
        /\ \A u \in Tasks : buffers'[u] \in [Slots(u) -> Buffer \cup {NULL}]
        /\ buffers'[t][k[t]] = NULL
        /\ \A r \in Slots(t) : r # k[t] => buffers'[t][r] = buffers[t][r]
        /\ \A u \in Tasks : u # t => buffers'[u] = buffers[u]
    BY <1>1, <2>1, <2>2, CellAfter DEF Forgets
  <2>5. BufferTypes'
    BY <1>1, <2>2, <2>3, <2>4 DEF BufferTypes
  <2>6. /\ \A c \in Buffer : c \in static_buffer_used' <=> \E u \in Tasks : Claims(u, c)'
        /\ \A u, v \in Tasks : \A c \in Buffer : Claims(u, c)' /\ Claims(v, c)' => u = v
        /\ led_static' = (static_buffer_used' # {})
    BY <1>1, <2>2, <2>3 DEF Claimed
  <2>7. ASSUME NEW u \in Tasks, NEW s \in Slots(u)
        PROVE  /\ buffers'[u][s] \notin lost'[u]
               /\ \A r \in Slots(u) :
                     buffers'[u][s] = buffers'[u][r] /\ buffers'[u][s] # NULL => s = r
    <3>1. NULL \notin lost[u]
      BY <1>1, NoBufferIsNull DEF BufferTypes
    <3>2. buffers[t][k[t]] # NULL
          /\ \A r \in Slots(t) : buffers[t][r] = buffers[t][k[t]] => r = k[t]
      BY <1>1, <2>1, <2>2 DEF Claimed, Forgets
    <3>3. CASE u = t
      BY <1>1, <2>3, <2>4, <3>1, <3>2, <3>3 DEF Claimed
    <3>4. CASE u # t
      BY <1>1, <2>3, <2>4, <3>4 DEF Claimed
    <3> QED BY <3>3, <3>4
  <2> QED BY <2>5, <2>6, <2>7 DEF Claimed
<1> QED BY <1>1, <1>2, <1>4, <1>5, <1>6, StaticEffects

LEMMA FilledStep ==
    ASSUME Control, StaticInv, [Next]_vars
    PROVE  Filled'
<1>1. BufferTypes /\ Claimed /\ Filled
  BY DEF StaticInv
<1>2. \A t \in Tasks : Slots(t) \subseteq Nat \ {0} /\ k[t] \in Nat \ {0}
  BY SlotCount DEF Control
<1>3. ASSUME NEW t \in Tasks, NEW label, NEW n, GoTo(t, label, n),
             \A u \in Tasks : u # t => buffers'[u] = buffers[u],
             \A s \in Slots(t) : buffers'[t][s] # NULL =>
                 \/ label = "allocate" /\ s < n
                 \/ label = "allocated" /\ s <= n
                 \/ label = "free" /\ s >= n
                 \/ label = "freed" /\ s > n
      PROVE  Filled'
  <2>1. /\ pc'[t] = label /\ k'[t] = n
        /\ \A u \in Tasks : u # t => pc'[u] = pc[u] /\ k'[u] = k[u]
    BY <1>3 DEF GoTo, Control
  <2> QED BY <1>1, <1>3, <2>1 DEF Filled
<1>4. ASSUME NEW t \in Tasks, NEW label, NEW end, label \in {"allocate", "free"},
             pc[t] \in Locked, NextBuffer(t, label, end),
             \A u \in Tasks : u # t => buffers'[u] = buffers[u],
             \A s \in Slots(t) : buffers'[t][s] # NULL =>
                 IF label = "allocate" THEN s <= k[t] /\ end = "free" ELSE s > k[t]
      PROVE  Filled'
  <2>1. CASE GoTo(t, label, k[t] + 1)
    BY <1>2, <1>3, <1>4, <2>1
  <2>2. CASE (\A s \in Slots(t) : s <= k[t]) /\ GoTo(t, end, 1)
    <3>1. \A s \in Slots(t) : s >= 1 /\ ~(s > k[t])
      BY <1>2, <2>2
    <3>2. \A s \in Slots(t) : buffers'[t][s] # NULL => end = "free" /\ s >= 1
      BY <1>4, <3>1
    <3> QED BY <1>3, <1>4, <2>2, <3>2
  <2> QED BY <1>4, <2>1, <2>2, Turns
<1>5. ASSUME NEW t \in Tasks, Allocate(t)
      PROVE  Filled'
  <2>1. /\ pc[t] = "allocate" /\ GoTo(t, "allocated", k[t])
        /\ \E v \in Buffer \cup {NULL} :
              buffers' = [buffers EXCEPT ![t][k[t]] = v] \/ buffers' = buffers
    <3>1. ~(Buffer \subseteq static_buffer_used) =>
             Min(Buffer \ static_buffer_used) \in Buffer
      BY <1>1, FirstIsFree
    <3> QED BY <1>5, <3>1 DEF Allocate, At
  <2>2. k[t] \in Slots(t)
    BY <2>1, Lengths DEF Control, Slots, Locked, Tasks
  <2>3. /\ \A u \in Tasks : u # t => buffers'[u] = buffers[u]
        /\ \A s \in Slots(t) : s # k[t] => buffers'[t][s] = buffers[t][s]
    BY <1>1, <2>1, <2>2, CellAfter
  <2>4. \A s \in Slots(t) : buffers'[t][s] # NULL => s <= k[t]
    BY <1>1, <1>2, <2>1, <2>3 DEF Filled
  <2> QED BY <1>3, <2>1, <2>3, <2>4
<1>6. ASSUME NEW t \in Tasks, AllocateGive(t) \/ AllocateTimeout(t)
      PROVE  Filled'
  <2>1. /\ pc[t] \in {"allocate", "allocated"} /\ NextBuffer(t, "allocate", "free")
        /\ buffers' = buffers
    BY <1>6 DEF AllocateGive, AllocateTimeout, At, staticVars
  <2>2. \A s \in Slots(t) : buffers[t][s] # NULL => s <= k[t]
    BY <1>1, <1>2, <2>1 DEF Filled
  <2> QED BY <1>4, <2>1, <2>2 DEF Locked
<1>7. ASSUME NEW t \in Tasks, Free(t)
      PROVE  Filled'
  <2>1. /\ pc[t] = "free" /\ GoTo(t, "freed", k[t])
        /\ buffers' = [buffers EXCEPT ![t][k[t]] = NULL]
    BY <1>7 DEF Free, At
  <2>2. k[t] \in Slots(t)
    BY <2>1, Lengths DEF Control, Slots, Locked, Tasks
  <2>3. /\ \A u \in Tasks : u # t => buffers'[u] = buffers[u]
        /\ buffers'[t][k[t]] = NULL
        /\ \A s \in Slots(t) : s # k[t] => buffers'[t][s] = buffers[t][s]
    BY <1>1, <2>1, <2>2, CellAfter
  <2>4. \A s \in Slots(t) : buffers'[t][s] # NULL => s > k[t]
    BY <1>1, <1>2, <2>1, <2>3 DEF Filled
  <2> QED BY <1>3, <2>1, <2>3, <2>4
<1>8. ASSUME NEW t \in Tasks, FreeGive(t) \/ FreeNothing(t)
      PROVE  Filled'
  <2>1. /\ pc[t] \in {"free", "freed"} /\ NextBuffer(t, "free", AfterFrees(t))
        /\ buffers' = buffers /\ (pc[t] = "free" => buffers[t][k[t]] = NULL)
    BY <1>8 DEF FreeGive, FreeNothing, At, staticVars
  <2>2. \A s \in Slots(t) : buffers[t][s] # NULL => s > k[t]
    BY <1>1, <1>2, <2>1 DEF Filled
  <2> QED BY <1>4, <2>1, <2>2 DEF Locked
<1>9. ASSUME NEW t \in Tasks, FreeTimeout(t)
      PROVE  Filled'
  <2>1. /\ pc[t] = "free" /\ NextBuffer(t, "free", AfterFrees(t))
        /\ buffers' = [buffers EXCEPT ![t][k[t]] = NULL]
    BY <1>9 DEF FreeTimeout, At
  <2>2. k[t] \in Slots(t)
    BY <2>1, Lengths DEF Control, Slots, Locked, Tasks
  <2>3. /\ \A u \in Tasks : u # t => buffers'[u] = buffers[u]
        /\ buffers'[t][k[t]] = NULL
        /\ \A s \in Slots(t) : s # k[t] => buffers'[t][s] = buffers[t][s]
    BY <1>1, <2>1, <2>2, CellAfter
  <2>4. \A s \in Slots(t) : buffers'[t][s] # NULL => s > k[t]
    BY <1>1, <1>2, <2>1, <2>3 DEF Filled
  <2> QED BY <1>4, <2>1, <2>3, <2>4 DEF Locked
<1>10. ASSUME NEW t \in Tasks, pc[t] \notin Locked, NEW label, NEW n,
              GoTo(t, label, n), UNCHANGED buffers
       PROVE  Filled'
  <2>1. \A s \in Slots(t) : buffers[t][s] = NULL
    BY <1>1, <1>10 DEF Filled, Locked
  <2> QED BY <1>3, <1>10, <2>1
<1>11. CASE UsageSteps
  <2>1. pc[MemUsage] \notin Locked /\ UNCHANGED buffers /\ MemUsage \in Tasks
    BY <1>11 DEF UsageSteps, UsageAlign, UsageUnalign, UsageTemplate,
       UsageUntemplate, staticVars, At, Locked, Tasks
  <2>2. \E label, n : GoTo(MemUsage, label, n)
    BY <1>11, Zenon DEF UsageSteps, UsageAlign, UsageUnalign, UsageTemplate,
       UsageUntemplate
  <2> QED BY <1>10, <2>1, <2>2
<1>12. CASE TestSteps
  <2>1. pc[OptTest] \notin Locked /\ UNCHANGED buffers /\ OptTest \in Tasks
    BY <1>12 DEF TestSteps, Demonstrate, PatternMalloc, PatternFree,
       MatrixMalloc, MatrixFree, BenchLoop, BenchMalloc, BenchFree, staticVars,
       At, Locked, Tasks
  <2>2. \E label, n : GoTo(OptTest, label, n)
    BY <1>12, Zenon DEF TestSteps, Demonstrate, PatternMalloc, PatternFree,
       MatrixMalloc, MatrixFree, BenchLoop, BenchMalloc, BenchFree
  <2> QED BY <1>10, <2>1, <2>2
<1>13. CASE Monitor \/ UNCHANGED vars
  BY <1>1, <1>13 DEF Monitor, vars, staticVars, Filled
<1> QED BY <1>5, <1>6, <1>7, <1>8, <1>9, <1>11, <1>12, <1>13 DEF Next,
           UsageSteps, TestSteps

-----------------------------------------------------------------------------
(* Aligned blocks                                                          *)

(* An aligned block is what Place made of an address of the heap.          *)
Placed == {Place(raw, r) : raw \in HeapAddresses, r \in AlignedRequest}

AlignedInv ==
    /\ aligned = [t \in Tasks |-> aligned[t]]
    /\ \A t \in Tasks : aligned[t] \in [AlignedSlots(t) -> {NULL} \cup Placed]

LEMMA RoundUp ==
    ASSUME NEW n \in Nat, NEW a \in Nat \ {0}
    PROVE  /\ AlignUp(n, a) \in Nat /\ AlignUp(n, a) % a = 0
           /\ n <= AlignUp(n, a) /\ AlignUp(n, a) <= n + a - 1
<1> DEFINE m == n + a - 1
           q == m \div a
<1>1. m \in Nat /\ q \in Nat /\ m = a * q + (m % a) /\ m % a \in 0..(a - 1)
  OBVIOUS
<1>2. q * a \in Nat /\ q * a = a * q
  BY <1>1
<1>3. (q * a) % a = 0
  BY <1>1
<1>4. q * a <= m /\ m - (a - 1) <= q * a
  BY <1>1, <1>2
<1> QED BY <1>2, <1>3, <1>4 DEF AlignUp

LEMMA AlignedStep ==
    ASSUME Control, AlignedInv, [Next]_vars
    PROVE  AlignedInv'
<1>1. ASSUME NEW t \in Tasks, k[t] \in AlignedSlots(t), NEW v \in {NULL} \cup Placed,
             aligned' = [aligned EXCEPT ![t][k[t]] = v]
      PROVE  AlignedInv'
  <2>1. /\ aligned = [u \in Tasks |-> aligned[u]]
        /\ aligned[t] \in [AlignedSlots(t) -> {NULL} \cup Placed]
        /\ \A u \in Tasks : aligned[u] \in [AlignedSlots(u) -> {NULL} \cup Placed]
    BY DEF AlignedInv
  <2>2. /\ aligned' = [u \in Tasks |-> aligned'[u]]
        /\ aligned'[t] \in [AlignedSlots(t) -> {NULL} \cup Placed]
        /\ \A u \in Tasks : u # t => aligned'[u] = aligned[u]
    BY <1>1, <2>1, CellSet
  <2> QED BY <2>1, <2>2 DEF AlignedInv
<1>2. ASSUME NEW t \in Tasks, k[t] \in AlignedSlots(t), NEW r \in AlignedRequest,
             AlignedMalloc(t, r)
      PROVE  AlignedInv'
  <2>1. \A raw \in HeapAddresses : Place(raw, r) \in Placed
    BY DEF Placed
  <2> QED BY <1>1, <1>2, <2>1 DEF AlignedMalloc
<1>3. ASSUME NEW t \in Tasks, k[t] \in AlignedSlots(t), AlignedFree(t)
      PROVE  AlignedInv'
  BY <1>1, <1>3 DEF AlignedFree
<1>4. /\ k[OptTest] \in AlignedSlots(OptTest) /\ OptTest \in Tasks /\ MemUsage \in Tasks
      /\ {Benchmark, Patterns[1], Patterns[2]} \subseteq AlignedRequest
  BY OptimizerAssumption DEF Control, AlignedSlots, Tasks, OptTest, MemUsage
<1>5. CASE UsageAlign \/ UsageUnalign
  <2>1. k[MemUsage] \in AlignedSlots(MemUsage) /\ k[MemUsage] \in 1..Len(Aligned)
    BY <1>4, <1>5, Lengths DEF UsageAlign, UsageUnalign, At, Control, AlignedSlots
  <2>2. Aligned[k[MemUsage]] \in AlignedRequest
    BY <2>1, OptimizerAssumption
  <2> QED BY <1>2, <1>3, <1>4, <1>5, <2>1, <2>2 DEF UsageAlign, UsageUnalign
<1>6. CASE TestSteps
  <2>1. CASE PatternMalloc \/ MatrixMalloc \/ BenchMalloc
    BY <1>2, <1>4, <2>1 DEF PatternMalloc, MatrixMalloc, BenchMalloc
  <2>2. CASE PatternFree \/ MatrixFree \/ BenchFree
    BY <1>3, <1>4, <2>2 DEF PatternFree, MatrixFree, BenchFree
  <2>3. CASE Demonstrate \/ BenchLoop
    BY <2>3 DEF Demonstrate, BenchLoop, AlignedInv
  <2> QED BY <1>6, <2>1, <2>2, <2>3 DEF TestSteps
<1>7. CASE \/ UsageTemplate \/ UsageUntemplate \/ Monitor \/ UNCHANGED vars
           \/ \E t \in Tasks : Statics(t)
  <2>1. UNCHANGED aligned
    BY <1>7 DEF UsageTemplate, UsageUntemplate, Monitor, vars, Statics, Allocate,
       AllocateGive, AllocateTimeout, Free, FreeGive, FreeTimeout, FreeNothing
  <2> QED BY <2>1 DEF AlignedInv
<1> QED BY <1>5, <1>6, <1>7 DEF Next, TestSteps, Statics

LEMMA PlacedInside ==
    ASSUME NEW a \in Placed
    PROVE  /\ a.addr % a.alignment = 0
           /\ a.addr - POINTER >= a.raw
           /\ a.addr + a.size <= a.raw + a.total
<1>1. PICK raw \in HeapAddresses, r \in AlignedRequest : a = Place(raw, r)
  BY DEF Placed
<1>2. /\ raw \in Nat /\ POINTER \in Nat /\ r.size \in Nat /\ r.alignment \in Nat \ {0}
  BY OptimizerAssumption DEF AlignedRequest
<1> DEFINE up == AlignUp(raw + POINTER, r.alignment)
<1>3. /\ a.raw = raw /\ a.total = r.size + r.alignment + POINTER
      /\ a.size = r.size /\ a.alignment = r.alignment /\ a.addr = up
  BY <1>1 DEF Place
<1>4. /\ up \in Nat /\ up % r.alignment = 0
      /\ raw + POINTER <= up /\ up <= raw + POINTER + r.alignment - 1
  <2>1. raw + POINTER \in Nat /\ r.alignment \in Nat \ {0}
    BY <1>2
  <2> QED BY <2>1, RoundUp
<1> HIDE DEF up
<1> QED BY <1>2, <1>3, <1>4

-----------------------------------------------------------------------------
(* What the struct demonstration saves                                     *)

Difference == GoodSize - BadSize

SavingInv ==
    /\ demos \in 1..MaxDemos
    /\ led_saving \in BOOLEAN
    /\ memory_saved_bytes = IF Difference = 0 THEN 0
                                              ELSE Word - demos * Difference
    /\ led_saving => Difference > 0

LEMMA DifferenceBounds ==
    ASSUME NEW n \in 1..MaxDemos
    PROVE  /\ Difference \in Nat /\ Word \in Nat \ {0} /\ Threshold \in Nat
           /\ n * Difference \in Nat /\ (n + 1) * Difference = n * Difference + Difference
           /\ n * Difference < Word
           /\ Difference > 0 => n * Difference > 0
<1>1. /\ Difference \in Nat /\ Word \in Nat \ {0} /\ Threshold \in Nat
      /\ MaxDemos \in Nat /\ MaxDemos * Difference + Threshold < Word
  BY OptimizerAssumption DEF Difference
<1>2. ASSUME NEW a \in Nat, NEW b \in Nat, NEW d \in Nat, a <= b
      PROVE  /\ a * d \in Nat /\ b * d \in Nat /\ a * d <= b * d
             /\ (a + 1) * d = a * d + d
             /\ a > 0 /\ d > 0 => a * d > 0
  <2>1. a * d <= b * d
    BY <1>2
  <2>2. a * d \in Nat /\ b * d \in Nat /\ (a + 1) * d = a * d + d
    OBVIOUS
  <2>3. a > 0 /\ d > 0 => a * d > 0
    OBVIOUS
  <2> QED BY <2>1, <2>2, <2>3
<1>3. n \in Nat /\ n > 0 /\ n <= MaxDemos
  BY <1>1
<1>4. /\ n * Difference \in Nat /\ MaxDemos * Difference \in Nat
      /\ n * Difference <= MaxDemos * Difference
      /\ (n + 1) * Difference = n * Difference + Difference
      /\ Difference > 0 => n * Difference > 0
  BY <1>1, <1>2, <1>3
<1> QED BY <1>1, <1>4

LEMMA Wraps ==
    ASSUME NEW w \in Nat \ {0}, NEW x \in Int, -w <= x, x < 0
    PROVE  x % w = x + w
OBVIOUS

LEMMA Stays ==
    ASSUME NEW w \in Nat \ {0}, NEW x \in Nat, x < w
    PROVE  x % w = x
OBVIOUS

LEMMA SavedOnce == Difference > 0 => Saved(0) = Word - Difference
<1> SUFFICES ASSUME Difference > 0 PROVE Saved(0) = Word - Difference
  OBVIOUS
<1>1. Difference \in Nat /\ Word \in Nat \ {0} /\ 1 * Difference < Word
  BY DifferenceBounds, OptimizerAssumption
<1>2. 0 + BadSize - GoodSize = -Difference /\ Difference < Word
  BY <1>1, OptimizerAssumption DEF Difference
<1>3. -Difference \in Int /\ -Word <= -Difference /\ -Difference < 0
  BY <1>1, <1>2
<1>4. (-Difference) % Word = -Difference + Word
  BY <1>1, <1>3, Wraps
<1> QED BY <1>1, <1>2, <1>4 DEF Saved

LEMMA SavingStep ==
    ASSUME SavingInv, [Next]_vars
    PROVE  SavingInv'
<1>1. CASE Demonstrate
  <2>1. CASE demos < MaxDemos
    <3>1. demos' = demos + 1 /\ led_saving' = led_saving
          /\ memory_saved_bytes' = Saved(memory_saved_bytes)
      BY <1>1, <2>1 DEF Demonstrate
    <3>2. demos \in Nat /\ demos' \in 1..MaxDemos /\ MaxDemos \in Nat
      BY <2>1, <3>1, OptimizerAssumption DEF SavingInv
    <3>3. /\ Difference \in Nat /\ Word \in Nat \ {0}
          /\ demos * Difference \in Nat
          /\ demos' * Difference = demos * Difference + Difference
          /\ demos' * Difference < Word
      BY <3>1, <3>2, DifferenceBounds DEF SavingInv
    <3>4. GoodSize \in Nat /\ BadSize \in Nat /\ Difference = GoodSize - BadSize
      BY OptimizerAssumption DEF Difference
    <3>5. CASE Difference = 0
      <4>1. memory_saved_bytes = 0 /\ 0 + BadSize - GoodSize = 0
        BY <3>4, <3>5 DEF SavingInv
      <4>2. 0 % Word = 0
        BY <3>3, Stays
      <4>3. memory_saved_bytes' = 0
        BY <3>1, <4>1, <4>2 DEF Saved
      <4> QED BY <3>1, <3>2, <3>5, <4>3 DEF SavingInv
    <3>6. CASE Difference > 0
      <4> DEFINE x == memory_saved_bytes + BadSize - GoodSize
      <4>1. x = Word - demos' * Difference
        BY <3>3, <3>4, <3>6 DEF SavingInv
      <4>2. x \in Nat /\ x < Word
        BY <3>3, <3>6, <4>1
      <4>3. x % Word = x
        BY <3>3, <4>2, Stays
      <4>4. memory_saved_bytes' = Word - demos' * Difference
        BY <3>1, <4>1, <4>3 DEF Saved
      <4> QED BY <3>1, <3>2, <3>6, <4>4 DEF SavingInv
    <3> QED BY <3>3, <3>5, <3>6
  <2>2. CASE ~(demos < MaxDemos)
    BY <1>1, <2>2 DEF Demonstrate, SavingInv
  <2> QED BY <2>1, <2>2
<1>2. CASE Monitor
  <2>1. UNCHANGED <<demos, memory_saved_bytes>>
        /\ led_saving' = (memory_saved_bytes > Threshold)
    BY <1>2 DEF Monitor
  <2>2. Difference \in Nat /\ Threshold \in Nat
    BY OptimizerAssumption DEF Difference
  <2>3. led_saving' => Difference > 0
    BY <2>1, <2>2 DEF SavingInv
  <2> QED BY <2>1, <2>3 DEF SavingInv
<1>3. CASE UNCHANGED savingVars
  BY <1>3 DEF savingVars, SavingInv
<1>4. CASE TestSteps /\ ~Demonstrate
  BY <1>3, <1>4 DEF TestSteps, PatternMalloc, PatternFree, MatrixMalloc,
     MatrixFree, BenchLoop, BenchMalloc, BenchFree
<1>5. CASE UsageSteps \/ UNCHANGED vars \/ \E t \in Tasks : Statics(t)
  BY <1>3, <1>5 DEF UsageSteps, UsageAlign, UsageUnalign, UsageTemplate,
     UsageUntemplate, vars, Statics, Allocate, AllocateGive, AllocateTimeout,
     Free, FreeGive, FreeTimeout, FreeNothing
<1> QED BY <1>1, <1>2, <1>4, <1>5 DEF Next, TestSteps, UsageSteps, Statics

-----------------------------------------------------------------------------
(* The template pools                                                      *)

Templates ==
    /\ pools \subseteq Pool
    /\ free_list \in [Pool -> Seq(Block)]
    /\ usage_counts \in [Pool -> Nat]
    /\ t_ptr \in [1..Len(Requests) -> Block \cup {NULL, HEAP}]

(* The blocks of a pool and how many there are; a pool that could not be   *)
(* made has none.                                                          *)
BlocksOf(p) == IF p \in pools THEN {<<p, b>> : b \in 1..pool_counts[p]} ELSE {}

CountOf(p) == IF p \in pools THEN pool_counts[p] ELSE 0

Whole ==
    \A p \in Pool :
        /\ Listed(p) \cup {t_ptr[r] : r \in Out(p)} = BlocksOf(p)
        /\ Len(free_list[p]) + Cardinality(Out(p)) = CountOf(p)
        /\ usage_counts[p] = Cardinality(Out(p))

(* The task's pointers are set one after the other and cleared in the same *)
(* order.                                                                  *)
Pointers ==
    \A r \in 1..Len(Requests) :
        t_ptr[r] # NULL =>
            \/ pc[MemUsage] = "template" /\ r < k[MemUsage]
            \/ pc[MemUsage] = "untemplate" /\ r >= k[MemUsage]

TemplateInv == Templates /\ Whole /\ Pointers

Given(p) == {t_ptr[r] : r \in Out(p)}

LEMMA BlockFacts ==
    /\ Len(sizes) \in Nat /\ Pool \subseteq Nat
    /\ NULL \notin Block /\ HEAP \notin Block
    /\ \A b \in Block : b[1] \in Pool /\ pool_counts[b[1]] \in Nat
    /\ \A p \in Pool : p # 0 /\ pool_counts[p] \in Nat
    /\ \A p \in Pool : \A b \in 1..pool_counts[p] : <<p, b>> \in Block
<1>1. Len(sizes) \in Nat /\ pool_counts \in Seq(Nat) /\ Len(pool_counts) = Len(sizes)
  BY OptimizerAssumption
<1>2. \A p \in Pool : p \in Nat /\ p # 0 /\ pool_counts[p] \in Nat
  BY <1>1 DEF Pool
<1>3. \A b \in Block : b[1] \in Pool
  BY DEF Block
<1>4. \A p \in Pool : \A b \in 1..pool_counts[p] : <<p, b>> \in Block
  BY DEF Block
<1> QED BY <1>1, <1>2, <1>3, <1>4, OptimizerAssumption

LEMMA BestFits ==
    ASSUME NEW size \in Nat
    PROVE  BestFit(size) \in Pool \cup {0}
<1> DEFINE fit == {p \in Pool : size <= sizes[p]}
<1>1. fit \in SUBSET Nat /\ fit \subseteq Pool
  BY BlockFacts
<1>2. fit # {} => Min(fit) \in fit
  BY <1>1, Smallest
<1> QED BY <1>1, <1>2 DEF BestFit

LEMMA OutsFinite ==
    ASSUME NEW p
    PROVE  IsFiniteSet(Out(p)) /\ Cardinality(Out(p)) \in Nat
<1>1. Out(p) \in SUBSET (1..Len(Requests))
  BY DEF Out
<1>2. IsFiniteSet(1..Len(Requests))
  <2>1. 1 \in Int /\ Len(Requests) \in Int
    BY Lengths
  <2> QED BY <2>1, FS_Interval
<1> QED BY <1>1, <1>2, FS_Subset, FS_CardinalityType

(* The blocks of a list without its first, and with one more in front.     *)
LEMMA ListWithout ==
    ASSUME NEW s \in Seq(Block), s # <<>>
    PROVE  /\ Head(s) \in Block /\ Tail(s) \in Seq(Block)
           /\ Len(s) \in Nat /\ Len(Tail(s)) = Len(s) - 1
           /\ {s[n] : n \in 1..Len(s)} =
                 {Tail(s)[n] : n \in 1..Len(Tail(s))} \cup {Head(s)}
<1>1. /\ Len(s) \in Nat \ {0} /\ Tail(s) \in Seq(Block)
      /\ Head(s) = s[1] /\ Len(Tail(s)) = Len(s) - 1
      /\ \A n \in 1..(Len(s) - 1) : Tail(s)[n] = s[n + 1]
  OBVIOUS
<1>2. s[1] \in Block
  BY <1>1
<1>3. ASSUME NEW n \in 1..Len(s)
      PROVE  s[n] \in {Tail(s)[i] : i \in 1..Len(Tail(s))} \cup {Head(s)}
  <2>1. CASE n = 1
    BY <1>1, <2>1
  <2>2. CASE n # 1
    <3>1. n - 1 \in 1..Len(Tail(s)) /\ Tail(s)[n - 1] = s[n]
      BY <1>1, <2>2
    <3> QED BY <3>1
  <2> QED BY <2>1, <2>2
<1>4. ASSUME NEW n \in 1..Len(Tail(s))
      PROVE  Tail(s)[n] \in {s[i] : i \in 1..Len(s)}
  <2>1. n + 1 \in 1..Len(s) /\ Tail(s)[n] = s[n + 1]
    BY <1>1
  <2> QED BY <2>1
<1>5. Head(s) \in {s[i] : i \in 1..Len(s)}
  BY <1>1
<1> QED BY <1>1, <1>2, <1>3, <1>4, <1>5

LEMMA ListWith ==
    ASSUME NEW s \in Seq(Block), NEW b \in Block
    PROVE  /\ <<b>> \o s \in Seq(Block)
           /\ Len(s) \in Nat /\ Len(<<b>> \o s) = Len(s) + 1
           /\ {(<<b>> \o s)[n] : n \in 1..Len(<<b>> \o s)} =
                 {s[n] : n \in 1..Len(s)} \cup {b}
<1> DEFINE w == <<b>> \o s
<1>1. /\ Len(s) \in Nat /\ w \in Seq(Block) /\ Len(w) = Len(s) + 1
      /\ w[1] = b /\ \A n \in 1..Len(s) : w[n + 1] = s[n]
  OBVIOUS
<1>2. ASSUME NEW n \in 1..Len(w)
      PROVE  w[n] \in {s[i] : i \in 1..Len(s)} \cup {b}
  <2>1. CASE n = 1
    BY <1>1, <2>1
  <2>2. CASE n # 1
    <3>1. n - 1 \in 1..Len(s) /\ w[n] = s[n - 1]
      BY <1>1, <2>2
    <3> QED BY <3>1
  <2> QED BY <2>1, <2>2
<1>3. ASSUME NEW n \in 1..Len(s)
      PROVE  s[n] \in {w[i] : i \in 1..Len(w)}
  <2>1. n + 1 \in 1..Len(w) /\ w[n + 1] = s[n]
    BY <1>1
  <2> QED BY <2>1
<1>4. b \in {w[i] : i \in 1..Len(w)}
  BY <1>1
<1> HIDE DEF w
<1>5. {w[n] : n \in 1..Len(w)} = {s[n] : n \in 1..Len(s)} \cup {b}
  BY <1>2, <1>3, <1>4
<1> QED BY <1>1, <1>5 DEF w

(* A pool that has lost a block to the task, or got one back from it.      *)
LEMMA PointerSet ==
    ASSUME Templates, NEW n \in 1..Len(Requests), t_ptr[n] = NULL,
           NEW p \in Pool, NEW b \in Block, b[1] = p,
           t_ptr' = [t_ptr EXCEPT ![n] = b]
    PROVE  /\ t_ptr' \in [1..Len(Requests) -> Block \cup {NULL, HEAP}]
           /\ Given(p)' = Given(p) \cup {b}
           /\ Cardinality(Out(p))' = Cardinality(Out(p)) + 1
           /\ \A q \in Pool : q # p => Given(q)' = Given(q) /\ Out(q)' = Out(q)
<1>1. /\ t_ptr \in [1..Len(Requests) -> Block \cup {NULL, HEAP}]
      /\ t_ptr' \in [1..Len(Requests) -> Block \cup {NULL, HEAP}]
      /\ t_ptr'[n] = b
      /\ \A r \in 1..Len(Requests) : r # n => t_ptr'[r] = t_ptr[r]
      /\ b # NULL /\ b # HEAP
  BY BlockFacts DEF Templates
<1>2. n \notin Out(p) /\ Out(p)' = Out(p) \cup {n}
  BY <1>1 DEF Out
<1>3. ASSUME NEW q \in Pool, q # p
      PROVE  Out(q)' = Out(q)
  BY <1>1, <1>3 DEF Out
<1>4. Given(p)' = Given(p) \cup {b}
  <2>1. \A r \in Out(p) : r # n /\ r \in 1..Len(Requests)
    BY <1>2 DEF Out
  <2> QED BY <1>1, <1>2, <2>1 DEF Given
<1>5. ASSUME NEW q \in Pool, q # p
      PROVE  Given(q)' = Given(q)
  <2>1. \A r \in Out(q) : r # n /\ r \in 1..Len(Requests)
    BY DEF Out
  <2> QED BY <1>1, <1>3, <1>5, <2>1 DEF Given
<1>6. Cardinality(Out(p))' = Cardinality(Out(p)) + 1
  BY <1>2, OutsFinite, FS_AddElement
<1> QED BY <1>1, <1>3, <1>4, <1>5, <1>6

LEMMA PointerCleared ==
    ASSUME Templates, NEW n \in 1..Len(Requests), t_ptr[n] \in Block,
           NEW p \in Pool, t_ptr[n][1] = p,
           t_ptr' = [t_ptr EXCEPT ![n] = NULL]
    PROVE  /\ t_ptr' \in [1..Len(Requests) -> Block \cup {NULL, HEAP}]
           /\ Given(p) = Given(p)' \cup {t_ptr[n]}
           /\ Cardinality(Out(p))' = Cardinality(Out(p)) - 1
           /\ n \in Out(p)
           /\ \A q \in Pool : q # p => Given(q)' = Given(q) /\ Out(q)' = Out(q)
<1>1. /\ t_ptr \in [1..Len(Requests) -> Block \cup {NULL, HEAP}]
      /\ t_ptr' \in [1..Len(Requests) -> Block \cup {NULL, HEAP}]
      /\ t_ptr'[n] = NULL /\ t_ptr[n] # NULL /\ t_ptr[n] # HEAP
      /\ \A r \in 1..Len(Requests) : r # n => t_ptr'[r] = t_ptr[r]
  BY BlockFacts DEF Templates
<1>2. n \in Out(p) /\ Out(p)' = Out(p) \ {n}
  BY <1>1 DEF Out
<1>3. ASSUME NEW q \in Pool, q # p
      PROVE  Out(q)' = Out(q)
  BY <1>1, <1>3 DEF Out
<1>4. Given(p) = Given(p)' \cup {t_ptr[n]}
  <2>1. \A r \in Out(p)' : r # n /\ r \in 1..Len(Requests) /\ t_ptr'[r] = t_ptr[r]
    BY <1>1, <1>2 DEF Out
  <2>2. Given(p)' = {t_ptr[r] : r \in Out(p) \ {n}}
    BY <1>2, <2>1 DEF Given
  <2> QED BY <1>2, <2>2 DEF Given
<1>5. ASSUME NEW q \in Pool, q # p
      PROVE  Given(q)' = Given(q)
  <2>1. \A r \in Out(q) : r # n /\ r \in 1..Len(Requests)
    BY <1>1, <1>5 DEF Out
  <2> QED BY <1>1, <1>3, <1>5, <2>1 DEF Given
<1>6. Cardinality(Out(p))' = Cardinality(Out(p)) - 1
  <2>1. IsFiniteSet(Out(p))
    BY OutsFinite
  <2>2. Cardinality(Out(p) \ {n}) = Cardinality(Out(p)) - 1
    BY <1>2, <2>1, FS_RemoveElement
  <2> QED BY <1>2, <2>2
<1> QED BY <1>1, <1>2, <1>3, <1>4, <1>5, <1>6

LEMMA PointerElsewhere ==
    ASSUME Templates, NEW n \in 1..Len(Requests), t_ptr[n] \in {NULL, HEAP},
           NEW cell \in {NULL, HEAP}, t_ptr' = [t_ptr EXCEPT ![n] = cell]
    PROVE  /\ t_ptr' \in [1..Len(Requests) -> Block \cup {NULL, HEAP}]
           /\ \A q \in Pool : Given(q)' = Given(q) /\ Out(q)' = Out(q)
<1>1. /\ t_ptr \in [1..Len(Requests) -> Block \cup {NULL, HEAP}]
      /\ t_ptr' \in [1..Len(Requests) -> Block \cup {NULL, HEAP}]
      /\ t_ptr'[n] = cell
      /\ \A r \in 1..Len(Requests) : r # n => t_ptr'[r] = t_ptr[r]
  BY DEF Templates
<1>2. ASSUME NEW q \in Pool
      PROVE  Out(q)' = Out(q)
  BY <1>1 DEF Out
<1>3. ASSUME NEW q \in Pool
      PROVE  Given(q)' = Given(q)
  <2>1. \A r \in Out(q) : r # n /\ r \in 1..Len(Requests)
    BY DEF Out
  <2> QED BY <1>1, <1>2, <2>1 DEF Given
<1> QED BY <1>1, <1>2, <1>3

(* A step that leaves lists, counts and the blocks that are out alone.      *)
LEMMA WholeStays ==
    ASSUME Whole, UNCHANGED <<pools, free_list, usage_counts>>,
           \A q \in Pool : Given(q)' = Given(q) /\ Out(q)' = Out(q)
    PROVE  Whole'
<1>1. ASSUME NEW q \in Pool
      PROVE  /\ Listed(q)' \cup Given(q)' = BlocksOf(q)'
             /\ Len(free_list'[q]) + Cardinality(Out(q))' = CountOf(q)'
             /\ usage_counts'[q] = Cardinality(Out(q))'
  <2>1. BlocksOf(q)' = BlocksOf(q) /\ CountOf(q)' = CountOf(q)
    BY DEF BlocksOf, CountOf
  <2>2. Listed(q)' = Listed(q)
    BY DEF Listed
  <2>3. /\ Listed(q) \cup Given(q) = BlocksOf(q)
        /\ Len(free_list[q]) + Cardinality(Out(q)) = CountOf(q)
        /\ usage_counts[q] = Cardinality(Out(q))
    BY DEF Whole, Given
  <2> QED BY <2>1, <2>2, <2>3
<1> QED BY <1>1 DEF Whole, Given

(* Every other step leaves the pools alone.                                *)
LEMMA TemplateStep ==
    ASSUME Control, TemplateInv, [Next]_vars
    PROVE  TemplateInv'
<1> DEFINE n == k[MemUsage]
<1>0. Templates /\ Whole /\ Pointers /\ MemUsage \in Tasks
  BY DEF TemplateInv, Tasks
<1>1. ASSUME UNCHANGED templateVars,
             UNCHANGED <<pc[MemUsage], k[MemUsage]>>
               \/ (pc[MemUsage] \notin {"template", "untemplate"})
      PROVE  TemplateInv'
  <2>1. UNCHANGED <<pools, free_list, usage_counts, t_ptr>>
    BY <1>1 DEF templateVars
  <2>2. Templates' /\ Whole'
    <3>1. \A q \in Pool : Given(q)' = Given(q) /\ Out(q)' = Out(q)
      BY <2>1 DEF Given, Out
    <3> QED BY <1>0, <2>1, <3>1, WholeStays DEF Templates
  <2>3. Pointers'
    BY <1>0, <1>1, <2>1 DEF Pointers
  <2> QED BY <2>2, <2>3 DEF TemplateInv
<1>2. CASE UsageTemplate
  <2>1. /\ pc[MemUsage] = "template" /\ n \in 1..Len(Requests)
        /\ Requests[n] \in Nat /\ pools' = pools
    <3>1. pc[MemUsage] = "template" /\ pools' = pools
      BY <1>2 DEF UsageTemplate, At
    <3>2. n \in 1..Len(Requests)
      BY <1>0, <3>1, Lengths DEF Control
    <3>3. Requests \in Seq(Nat)
      BY OptimizerAssumption
    <3>4. Requests[n] \in Nat
      BY <3>2, <3>3
    <3> QED BY <3>1, <3>2, <3>4
  <2>2. t_ptr[n] = NULL
    BY <1>0, <2>1 DEF Pointers
  <2>3. PICK p \in Pool \cup {0} : p = BestFit(Requests[n])
    BY <2>1, BestFits
  <2>4. IF n < Len(Requests) THEN GoTo(MemUsage, "template", n + 1)
                             ELSE GoTo(MemUsage, "untemplate", 1)
    BY <1>2 DEF UsageTemplate
  <2>5. \A r \in 1..Len(Requests) : r # n => t_ptr'[r] = t_ptr[r]
    BY <1>0, <1>2, <2>1 DEF UsageTemplate, Templates
  <2>6. Pointers'
    <3>1. \A r \in 1..Len(Requests) : t_ptr'[r] # NULL => r <= n
      BY <1>0, <2>1, <2>5 DEF Pointers
    <3>2. CASE n < Len(Requests)
      <4>1. pc'[MemUsage] = "template" /\ k'[MemUsage] = n + 1
        BY <1>0, <2>4, <3>2 DEF GoTo, Control
      <4> QED BY <2>1, <3>1, <4>1 DEF Pointers
    <3>3. CASE ~(n < Len(Requests))
      <4>1. pc'[MemUsage] = "untemplate" /\ k'[MemUsage] = 1
        BY <1>0, <2>4, <3>3 DEF GoTo, Control
      <4> QED BY <2>1, <4>1 DEF Pointers
    <3> QED BY <3>2, <3>3
  <2>7. CASE p # 0 /\ free_list[p] # <<>>
    <3>1. p \in Pool
      BY <2>3, <2>7
    <3>2. /\ t_ptr' = [t_ptr EXCEPT ![n] = Head(free_list[p])]
          /\ free_list' = [free_list EXCEPT ![p] = Tail(free_list[p])]
          /\ usage_counts' = [usage_counts EXCEPT ![p] = usage_counts[p] + 1]
      BY <1>2, <2>3, <2>7 DEF UsageTemplate
    <3>3. PICK b \in Block : b = Head(free_list[p])
      BY <1>0, <2>7, <3>1, ListWithout DEF Templates
    <3>4. /\ Tail(free_list[p]) \in Seq(Block)
          /\ Len(free_list[p]) \in Nat
          /\ Len(Tail(free_list[p])) = Len(free_list[p]) - 1
          /\ Listed(p) = {Tail(free_list[p])[i] : i \in 1..Len(Tail(free_list[p]))} \cup {b}
      BY <1>0, <2>7, <3>1, <3>3, ListWithout DEF Templates, Listed
    <3>5. b[1] = p
      <4>1. b \in BlocksOf(p)
        BY <1>0, <3>1, <3>4 DEF Whole
      <4> QED BY <4>1 DEF BlocksOf
    <3>6. /\ t_ptr' \in [1..Len(Requests) -> Block \cup {NULL, HEAP}]
          /\ Given(p)' = Given(p) \cup {b}
          /\ Cardinality(Out(p))' = Cardinality(Out(p)) + 1
          /\ \A q \in Pool : q # p => Given(q)' = Given(q) /\ Out(q)' = Out(q)
      BY <1>0, <2>1, <2>2, <3>1, <3>2, <3>3, <3>5, PointerSet
    <3>7. /\ free_list' \in [Pool -> Seq(Block)] /\ free_list'[p] = Tail(free_list[p])
          /\ usage_counts' \in [Pool -> Nat] /\ usage_counts'[p] = usage_counts[p] + 1
          /\ \A q \in Pool : q # p => /\ free_list'[q] = free_list[q]
                                      /\ usage_counts'[q] = usage_counts[q]
      BY <1>0, <3>1, <3>2, <3>4 DEF Templates
    <3>8. Templates'
      BY <1>0, <2>1, <3>6, <3>7 DEF Templates
    <3>9. Listed(p) = Listed(p)' \cup {b}
      BY <3>4, <3>7 DEF Listed
    <3>10. Len(free_list'[p]) = Len(free_list[p]) - 1
      BY <3>4, <3>7
    <3> HIDE <3>2
    <3>11. ASSUME NEW q \in Pool
           PROVE  /\ Listed(q)' \cup Given(q)' = BlocksOf(q)'
                  /\ Len(free_list'[q]) + Cardinality(Out(q))' = CountOf(q)'
                  /\ usage_counts'[q] = Cardinality(Out(q))'
      <4>1. BlocksOf(q)' = BlocksOf(q) /\ CountOf(q)' = CountOf(q)
        BY <2>1 DEF BlocksOf, CountOf
      <4>2. /\ Listed(q) \cup Given(q) = BlocksOf(q)
            /\ Len(free_list[q]) + Cardinality(Out(q)) = CountOf(q)
            /\ usage_counts[q] = Cardinality(Out(q))
        BY <1>0 DEF Whole, Given
      <4>3. CASE q = p
        <5>1. Cardinality(Out(p)) \in Nat
          BY OutsFinite
        <5>2. Listed(p)' \cup Given(p)' = BlocksOf(p)
          BY <3>6, <3>9, <4>2, <4>3
        <5>3. /\ Len(free_list'[p]) + Cardinality(Out(p))' = CountOf(p)
              /\ usage_counts'[p] = Cardinality(Out(p))'
          BY <3>4, <3>6, <3>7, <3>10, <4>2, <4>3, <5>1
        <5> QED BY <4>1, <4>3, <5>2, <5>3
      <4>4. CASE q # p
        BY <3>6, <3>7, <4>1, <4>2, <4>4 DEF Listed
      <4> QED BY <4>3, <4>4
    <3>12. Whole'
      BY <3>11 DEF Whole, Given
    <3> QED BY <2>6, <3>8, <3>12 DEF TemplateInv
  <2>8. CASE ~(p # 0 /\ free_list[p] # <<>>)
    <3>1. PICK cell \in {HEAP, NULL} : t_ptr' = [t_ptr EXCEPT ![n] = cell]
      BY <1>2, <2>3, <2>8 DEF UsageTemplate
    <3>2. UNCHANGED <<free_list, usage_counts>>
      BY <1>2, <2>3, <2>8 DEF UsageTemplate
    <3>3. /\ t_ptr' \in [1..Len(Requests) -> Block \cup {NULL, HEAP}]
          /\ \A q \in Pool : Given(q)' = Given(q) /\ Out(q)' = Out(q)
      BY <1>0, <2>1, <2>2, <3>1, PointerElsewhere
    <3>4. Templates'
      BY <1>0, <2>1, <3>2, <3>3 DEF Templates
    <3>5. Whole'
      BY <1>0, <2>1, <3>2, <3>3, WholeStays
    <3> QED BY <2>6, <3>4, <3>5 DEF TemplateInv
  <2> QED BY <2>7, <2>8
<1>3. CASE UsageUntemplate
  <2>1. pc[MemUsage] = "untemplate" /\ n \in 1..Len(Requests) /\ pools' = pools
    <3>1. pc[MemUsage] = "untemplate" /\ pools' = pools
      BY <1>3 DEF UsageUntemplate, At
    <3>2. n \in 1..Len(Requests)
      BY <1>0, <3>1, Lengths DEF Control
    <3> QED BY <3>1, <3>2
  <2>2. /\ t_ptr' = [t_ptr EXCEPT ![n] = NULL]
        /\ IF n < Len(Requests) THEN GoTo(MemUsage, "untemplate", n + 1)
                                ELSE GoTo(MemUsage, "allocate", 1)
    BY <1>3 DEF UsageUntemplate
  <2>3. t_ptr'[n] = NULL /\ \A r \in 1..Len(Requests) : r # n => t_ptr'[r] = t_ptr[r]
    BY <1>0, <2>1, <2>2 DEF Templates
  <2>4. Pointers'
    <3>1. \A r \in 1..Len(Requests) : t_ptr'[r] # NULL => r > n
      BY <1>0, <2>1, <2>3 DEF Pointers
    <3>2. CASE n < Len(Requests)
      <4>1. pc'[MemUsage] = "untemplate" /\ k'[MemUsage] = n + 1
        BY <1>0, <2>2, <3>2 DEF GoTo, Control
      <4> QED BY <2>1, <3>1, <4>1 DEF Pointers
    <3>3. CASE ~(n < Len(Requests))
      BY <2>1, <3>1, <3>3, Lengths DEF Pointers
    <3> QED BY <3>2, <3>3
  <2>5. CASE t_ptr[n] \notin {NULL, HEAP}
    <3>1. t_ptr[n] \in Block
      BY <1>0, <2>1, <2>5 DEF Templates
    <3>2. PICK b \in Block, p \in Pool : b = t_ptr[n] /\ p = b[1]
      BY <3>1, BlockFacts
    <3>3. /\ free_list' = [free_list EXCEPT ![p] = <<b>> \o free_list[p]]
          /\ usage_counts' = [usage_counts EXCEPT ![p] = usage_counts[p] - 1]
      BY <1>3, <2>5, <3>2 DEF UsageUntemplate, PoolOf
    <3>4. /\ t_ptr' \in [1..Len(Requests) -> Block \cup {NULL, HEAP}]
          /\ Given(p) = Given(p)' \cup {b}
          /\ Cardinality(Out(p))' = Cardinality(Out(p)) - 1
          /\ n \in Out(p)
          /\ \A q \in Pool : q # p => Given(q)' = Given(q) /\ Out(q)' = Out(q)
      BY <1>0, <2>1, <2>2, <3>2, PointerCleared
    <3>5. /\ free_list[p] \in Seq(Block) /\ <<b>> \o free_list[p] \in Seq(Block)
          /\ Len(free_list[p]) \in Nat
          /\ Len(<<b>> \o free_list[p]) = Len(free_list[p]) + 1
          /\ {(<<b>> \o free_list[p])[i] : i \in 1..Len(<<b>> \o free_list[p])} =
                Listed(p) \cup {b}
      <4>1. free_list[p] \in Seq(Block)
        BY <1>0 DEF Templates
      <4> HIDE DEF Block, Pool
      <4> QED BY <4>1, ListWith DEF Listed
    <3>6. /\ Cardinality(Out(p)) \in Nat \ {0}
          /\ usage_counts[p] = Cardinality(Out(p))
      <4>1. Cardinality(Out(p)) \in Nat /\ Cardinality(Out(p)) # 0
        BY <3>4, OutsFinite, FS_EmptySet
      <4> QED BY <1>0, <4>1 DEF Whole
    <3>7. /\ free_list' \in [Pool -> Seq(Block)]
          /\ free_list'[p] = <<b>> \o free_list[p]
          /\ usage_counts' \in [Pool -> Nat] /\ usage_counts'[p] = usage_counts[p] - 1
          /\ \A q \in Pool : q # p => /\ free_list'[q] = free_list[q]
                                      /\ usage_counts'[q] = usage_counts[q]
      BY <1>0, <3>3, <3>5, <3>6 DEF Templates
    <3>8. Templates'
      BY <1>0, <2>1, <3>4, <3>7 DEF Templates
    <3>9. Listed(p)' = Listed(p) \cup {b}
      BY <3>5, <3>7 DEF Listed
    <3>10. Len(free_list'[p]) = Len(free_list[p]) + 1
      BY <3>5, <3>7
    <3>11. ASSUME NEW q \in Pool
           PROVE  /\ Listed(q)' \cup Given(q)' = BlocksOf(q)'
                  /\ Len(free_list'[q]) + Cardinality(Out(q))' = CountOf(q)'
                  /\ usage_counts'[q] = Cardinality(Out(q))'
      <4>1. BlocksOf(q)' = BlocksOf(q) /\ CountOf(q)' = CountOf(q)
        BY <2>1 DEF BlocksOf, CountOf
      <4>2. /\ Listed(q) \cup Given(q) = BlocksOf(q)
            /\ Len(free_list[q]) + Cardinality(Out(q)) = CountOf(q)
            /\ usage_counts[q] = Cardinality(Out(q))
        BY <1>0 DEF Whole, Given
      <4>3. CASE q = p
        <5>1. Listed(p)' \cup Given(p)' = BlocksOf(p)
          BY <3>4, <3>9, <4>2, <4>3
        <5>2. /\ Len(free_list'[p]) + Cardinality(Out(p))' = CountOf(p)
              /\ usage_counts'[p] = Cardinality(Out(p))'
          BY <3>4, <3>5, <3>6, <3>7, <3>10, <4>2, <4>3
        <5> QED BY <4>1, <4>3, <5>1, <5>2
      <4>4. CASE q # p
        BY <3>4, <3>7, <4>1, <4>2, <4>4 DEF Listed
      <4> QED BY <4>3, <4>4
    <3>12. Whole'
      BY <3>11 DEF Whole, Given
    <3> QED BY <2>4, <3>8, <3>12 DEF TemplateInv
  <2>6. CASE t_ptr[n] \in {NULL, HEAP}
    <3>1. UNCHANGED <<free_list, usage_counts>>
      BY <1>3, <2>6 DEF UsageUntemplate
    <3>2. /\ t_ptr' \in [1..Len(Requests) -> Block \cup {NULL, HEAP}]
          /\ \A q \in Pool : Given(q)' = Given(q) /\ Out(q)' = Out(q)
      BY <1>0, <2>1, <2>2, <2>6, PointerElsewhere
    <3>3. Templates'
      BY <1>0, <2>1, <3>1, <3>2 DEF Templates
    <3>4. Whole'
      BY <1>0, <2>1, <3>1, <3>2, WholeStays
    <3> QED BY <2>4, <3>3, <3>4 DEF TemplateInv
  <2> QED BY <2>5, <2>6
<1>4. ASSUME NEW t \in Tasks, Statics(t)
      PROVE  TemplateInv'
  <2>1. UNCHANGED templateVars /\ pc[t] \in Locked
    BY <1>4 DEF Statics, Allocate, AllocateGive, AllocateTimeout, Free, FreeGive,
       FreeTimeout, FreeNothing, At, Locked
  <2>2. \E label, m : GoTo(t, label, m)
    BY <1>4, Zenon DEF Statics, Allocate, AllocateGive, AllocateTimeout, Free,
       FreeGive, FreeTimeout, FreeNothing, NextBuffer
  <2>3. t # MemUsage => UNCHANGED <<pc[MemUsage], k[MemUsage]>>
    BY <1>0, <2>2 DEF GoTo, Control
  <2> QED BY <1>1, <2>1, <2>3 DEF Locked
<1>5. CASE UsageAlign \/ UsageUnalign
  BY <1>1, <1>5 DEF UsageAlign, UsageUnalign, At
<1>6. CASE TestSteps
  <2>1. \E label, m : GoTo(OptTest, label, m)
    BY <1>6, Zenon DEF TestSteps, Demonstrate, PatternMalloc, PatternFree,
       MatrixMalloc, MatrixFree, BenchLoop, BenchMalloc, BenchFree
  <2>2. UNCHANGED <<pc[MemUsage], k[MemUsage]>>
    BY <1>0, <2>1 DEF GoTo, Control, Tasks, OptTest, MemUsage
  <2>3. UNCHANGED templateVars
    BY <1>6 DEF TestSteps, Demonstrate, PatternMalloc, PatternFree,
       MatrixMalloc, MatrixFree, BenchLoop, BenchMalloc, BenchFree
  <2> QED BY <1>1, <2>2, <2>3
<1>7. CASE Monitor \/ UNCHANGED vars
  BY <1>1, <1>7 DEF Monitor, vars
<1> QED BY <1>2, <1>3, <1>4, <1>5, <1>6, <1>7 DEF Next, Statics, TestSteps

-----------------------------------------------------------------------------
(* The theorems                                                            *)

Inv == Control /\ StaticInv /\ AlignedInv /\ TemplateInv /\ SavingInv

LEMMA InitStatic ==
    ASSUME Init
    PROVE  Control /\ StaticInv /\ AlignedInv
<1>1. Control
  BY Lengths DEF Init, Control, Locked, Tasks, OptTest, MemUsage
<1>2. /\ \A t \in Tasks : buffers[t] = [s \in Slots(t) |-> NULL] /\ lost[t] = {}
      /\ \A t \in Tasks : \A b : ~Claims(t, b)
  BY DEF Init, Claims
<1>3. BufferTypes
  BY <1>2 DEF Init, BufferTypes
<1>4. Claimed
  BY <1>2 DEF Init, Claimed
<1>5. Filled
  BY <1>2 DEF Filled
<1>6. AlignedInv
  BY DEF Init, AlignedInv
<1> QED BY <1>1, <1>3, <1>4, <1>5, <1>6 DEF StaticInv

LEMMA InitTemplate ==
    ASSUME Init
    PROVE  TemplateInv
<1>1. /\ pools \subseteq Pool
      /\ free_list = [p \in Pool |-> IF p \in pools
                                   THEN [b \in 1..pool_counts[p] |-> <<p, b>>]
                                   ELSE <<>>]
      /\ usage_counts = [p \in Pool |-> 0]
      /\ t_ptr = [r \in 1..Len(Requests) |-> NULL]
  BY DEF Init, template_pool_init
<1>2. ASSUME NEW p \in Pool
      PROVE  /\ free_list[p] \in Seq(Block)
             /\ Listed(p) = BlocksOf(p)
             /\ Len(free_list[p]) = CountOf(p) /\ CountOf(p) \in Nat
  <2>1. CASE p \in pools
    <3>1. pool_counts[p] \in Nat /\ \A b \in 1..pool_counts[p] : <<p, b>> \in Block
      BY BlockFacts
    <3>2. free_list[p] = [b \in 1..pool_counts[p] |-> <<p, b>>]
      BY <1>1, <2>1
    <3>3. free_list[p] \in Seq(Block) /\ Len(free_list[p]) = pool_counts[p]
      BY <3>1, <3>2
    <3>4. Listed(p) = {<<p, b>> : b \in 1..pool_counts[p]}
      BY <3>2, <3>3 DEF Listed
    <3> QED BY <2>1, <3>1, <3>3, <3>4 DEF BlocksOf, CountOf
  <2>2. CASE p \notin pools
    <3>1. free_list[p] = <<>>
      BY <1>1, <2>2
    <3> QED BY <2>2, <3>1 DEF BlocksOf, CountOf, Listed
  <2> QED BY <2>1, <2>2
<1>3. Templates
  BY <1>1, <1>2 DEF Templates
<1>4. ASSUME NEW p \in Pool
      PROVE  Out(p) = {} /\ Given(p) = {}
  BY <1>1 DEF Out, Given
<1>5. Cardinality({}) = 0
  BY FS_EmptySet
<1>6. Whole
  <2>1. ASSUME NEW p \in Pool
        PROVE  /\ Listed(p) \cup Given(p) = BlocksOf(p)
               /\ Len(free_list[p]) + Cardinality(Out(p)) = CountOf(p)
               /\ usage_counts[p] = Cardinality(Out(p))
    <3>1. Cardinality(Out(p)) = 0 /\ usage_counts[p] = 0
      BY <1>1, <1>4, <1>5
    <3> QED BY <1>2, <1>4, <3>1
  <2> QED BY <2>1 DEF Whole, Given
<1>7. Pointers
  BY <1>1 DEF Pointers
<1> QED BY <1>3, <1>6, <1>7 DEF TemplateInv

LEMMA InitSaving ==
    ASSUME Init
    PROVE  SavingInv
<1>1. /\ demos = 1 /\ led_saving = FALSE /\ memory_saved_bytes = Saved(0)
      /\ MaxDemos \in Nat /\ MaxDemos > 0
  BY OptimizerAssumption DEF Init
<1>2. 1 \in 1..MaxDemos
  BY <1>1
<1>3. Difference \in Nat /\ Word \in Nat \ {0} /\ 1 * Difference = Difference
  BY <1>2, DifferenceBounds
<1>4. Difference = 0 => Saved(0) = 0
  <2>1. GoodSize \in Nat /\ BadSize \in Nat
    BY OptimizerAssumption
  <2>2. Difference = 0 => 0 + BadSize - GoodSize = 0
    BY <2>1 DEF Difference
  <2>3. 0 % Word = 0
    BY <1>3, Stays
  <2> QED BY <2>2, <2>3 DEF Saved
<1>5. Difference # 0 => Saved(0) = Word - 1 * Difference
  BY <1>3, SavedOnce
<1> QED BY <1>1, <1>2, <1>4, <1>5 DEF SavingInv

LEMMA Invariance == Spec => []Inv
<1>1. Init => Inv
  BY InitStatic, InitTemplate, InitSaving DEF Inv
<1>2. Inv /\ [Next]_vars => Inv'
  <2> SUFFICES ASSUME Inv, [Next]_vars PROVE Inv'
    OBVIOUS
  <2>1. Control /\ StaticInv /\ AlignedInv /\ TemplateInv /\ SavingInv
    BY DEF Inv
  <2>2. Control'
    BY <2>1, ControlStep
  <2>3. StaticInv'
    BY <2>1, ClaimedStep, FilledStep DEF StaticInv
  <2>4. AlignedInv'
    BY <2>1, AlignedStep
  <2>5. TemplateInv'
    BY <2>1, TemplateStep
  <2>6. SavingInv'
    BY <2>1, SavingStep
  <2> QED BY <2>2, <2>3, <2>4, <2>5, <2>6 DEF Inv
<1> QED BY <1>1, <1>2, PTL DEF Spec

(* What the tasks hold or have failed to give back is what they claim.     *)
LEMMA HeldOrLost ==
    ASSUME NEW t \in Tasks, NEW b \in Buffer
    PROVE  b \in Held(t) \cup lost[t] <=> Claims(t, b)
BY NoBufferIsNull DEF Held, Claims

(* Whichever task called allocate_static_buffer or free_static_buffer      *)
(* last, the LED is lit just when a buffer is in use, and the buffers in   *)
(* use are those the tasks hold and those whose free timed out (267).      *)
THEOREM LedTells == Spec => []LedTellsUse
<1>1. ASSUME Inv
      PROVE  LedTellsUse
  <2>1. BufferTypes /\ Claimed
    BY <1>1 DEF Inv, StaticInv
  <2>2. \A t \in Tasks : Held(t) \cup lost[t] \subseteq Buffer
    BY <2>1 DEF BufferTypes, Held
  <2>3. \A b \in Buffer : b \in static_buffer_used <=>
                          \E t \in Tasks : b \in Held(t) \cup lost[t]
    BY <2>1, HeldOrLost DEF Claimed
  <2>4. static_buffer_used = UNION {Held(t) \cup lost[t] : t \in Tasks}
    BY <2>1, <2>2, <2>3 DEF BufferTypes
  <2>5. led_static = (static_buffer_used # {})
    BY <2>1 DEF Claimed
  <2> QED BY <2>4, <2>5 DEF LedTellsUse
<1> QED BY <1>1, Invariance, PTL

(* aligned_malloc: at every address and for every size and alignment the   *)
(* block lies inside the one the heap gave, behind the pointer to it       *)
(* (300..314).                                                             *)
THEOREM AlignedBlocksFit == Spec => []AlignedInside
<1>1. ASSUME Inv
      PROVE  AlignedInside
  <2>1. ASSUME NEW t \in Tasks, NEW s \in AlignedSlots(t), aligned[t][s] # NULL
        PROVE  aligned[t][s] \in Placed
    BY <1>1, <2>1 DEF Inv, AlignedInv
  <2>2. ASSUME NEW t \in Tasks, NEW s \in AlignedSlots(t), aligned[t][s] # NULL
        PROVE  /\ aligned[t][s].addr % aligned[t][s].alignment = 0
               /\ aligned[t][s].addr - POINTER >= aligned[t][s].raw
               /\ aligned[t][s].addr + aligned[t][s].size
                      <= aligned[t][s].raw + aligned[t][s].total
    BY <2>1, <2>2, PlacedInside
  <2> QED BY <2>2 DEF AlignedInside
<1> QED BY <1>1, Invariance, PTL

(* template_malloc and template_free: for every table of pools each block  *)
(* is in its pool's list or with the task, and the use counts say how many *)
(* are out; every value has its type.                                      *)
THEOREM TemplatePoolsAreWhole == Spec => []TemplateListsWhole
<1>1. ASSUME Inv
      PROVE  TemplateListsWhole
  <2>1. BufferTypes /\ Claimed /\ Control /\ Templates /\ Whole /\ SavingInv
    BY <1>1 DEF Inv, StaticInv, TemplateInv
  <2>2. memory_saved_bytes \in 0..(Word - 1) /\ demos \in 1..MaxDemos
    <3>1. demos \in 1..MaxDemos
      BY <2>1 DEF SavingInv
    <3>2. /\ Difference \in Nat /\ Word \in Nat \ {0}
          /\ demos * Difference \in Nat /\ demos * Difference < Word
          /\ Difference > 0 => demos * Difference > 0
      BY <3>1, DifferenceBounds
    <3>3. memory_saved_bytes = IF Difference = 0 THEN 0
                                                 ELSE Word - demos * Difference
      BY <2>1 DEF SavingInv
    <3> HIDE DEF Difference
    <3> QED BY <3>1, <3>2, <3>3
  <2>3. TypeOK
    <3>1. /\ static_buffer_used \subseteq Buffer
          /\ static_buffer_mutex \in Tasks \cup {NULL}
          /\ \A t \in Tasks : /\ buffers[t] \in [Slots(t) -> Buffer \cup {NULL}]
                              /\ lost[t] \subseteq Buffer
      BY <2>1 DEF BufferTypes
    <3>2. led_static \in BOOLEAN /\ led_saving \in BOOLEAN
      BY <2>1 DEF Claimed, SavingInv
    <3>3. \A t \in Tasks : k[t] \in Nat \ {0}
      BY <2>1 DEF Control
    <3>4. /\ pools \subseteq Pool /\ \A p \in Pool : free_list[p] \in Seq(Block)
          /\ usage_counts \in [Pool -> Nat]
          /\ t_ptr \in [1..Len(Requests) -> Block \cup {NULL, HEAP}]
      BY <2>1 DEF Templates
    <3> QED BY <2>2, <3>1, <3>2, <3>3, <3>4 DEF TypeOK
  <2>4. ASSUME NEW p \in pools
        PROVE  /\ Listed(p) \cup {t_ptr[r] : r \in Out(p)}
                      = {<<p, b>> : b \in 1..pool_counts[p]}
               /\ Len(free_list[p]) + Cardinality(Out(p)) = pool_counts[p]
               /\ usage_counts[p] = Cardinality(Out(p))
    <3>1. p \in Pool /\ CountOf(p) = pool_counts[p]
          /\ BlocksOf(p) = {<<p, b>> : b \in 1..pool_counts[p]}
      BY <2>1 DEF Templates, CountOf, BlocksOf
    <3>2. /\ Listed(p) \cup {t_ptr[r] : r \in Out(p)} = BlocksOf(p)
          /\ Len(free_list[p]) + Cardinality(Out(p)) = CountOf(p)
          /\ usage_counts[p] = Cardinality(Out(p))
      BY <2>1, <3>1 DEF Whole
    <3> QED BY <3>1, <3>2
  <2> QED BY <2>3, <2>4 DEF TemplateListsWhole
<1> QED BY <1>1, Invariance, PTL

(* demonstrate_struct_optimization: the LED is lit only by a difference    *)
(* that has wrapped (371), never because memory was saved.                 *)
THEOREM NothingIsSaved == Spec => []SavingLedIsWrapped
<1>1. ASSUME Inv
      PROVE  SavingLedIsWrapped
  <2>1. demos \in 1..MaxDemos /\ (led_saving => Difference > 0)
        /\ memory_saved_bytes = IF Difference = 0 THEN 0
                                                  ELSE Word - demos * Difference
    BY <1>1 DEF Inv, SavingInv
  <2>2. Difference \in Nat /\ Word \in Nat \ {0} /\ demos * Difference \in Nat
    BY <2>1, DifferenceBounds
  <2>3. led_saving => demos * Difference + memory_saved_bytes >= Word
    <3> HIDE DEF Difference
    <3> QED BY <2>1, <2>2
  <2> QED BY <2>3 DEF SavingLedIsWrapped, Difference
<1> QED BY <1>1, Invariance, PTL

(* owner names the task that claims a buffer, if there is one.             *)
OwnersRight ==
    \A b \in Buffer : /\ \A t \in Tasks : Claims(t, b) => owner[b] = t
                      /\ (\A t \in Tasks : ~Claims(t, b)) => owner[b] = NULL

LEMMA OwnerIs ==
    ASSUME StaticInv
    PROVE  OwnersRight
<1>1. ASSUME NEW b \in Buffer, NEW t \in Tasks, Claims(t, b)
      PROVE  owner[b] = t
  <2>1. \A u \in Tasks : b \in Held(u) \cup lost[u] <=> u = t
    BY <1>1, HeldOrLost DEF StaticInv, Claimed
  <2>2. owner[b] = CHOOSE u \in Tasks : b \in Held(u) \cup lost[u]
    BY <2>1 DEF owner
  <2> QED BY <2>1, <2>2
<1>2. ASSUME NEW b \in Buffer, \A t \in Tasks : ~Claims(t, b)
      PROVE  owner[b] = NULL
  BY <1>2, HeldOrLost DEF owner
<1> QED BY <1>1, <1>2 DEF OwnersRight

(* The claims change for one task and one buffer at a time.                *)
LEMMA ClaimsStep ==
    ASSUME Inv, [Next]_vars
    PROVE  \/ \A u \in Tasks : \A c \in Buffer : Claims(u, c)' <=> Claims(u, c)
           \/ \E t \in Tasks : \E b \in Buffer :
                 /\ \A u \in Tasks : ~Claims(u, b)
                 /\ \A u \in Tasks : \A c \in Buffer :
                       Claims(u, c)' <=> Claims(u, c) \/ (u = t /\ c = b)
           \/ \E t \in Tasks : \E b \in Buffer :
                 /\ Claims(t, b)
                 /\ \A u \in Tasks : \A c \in Buffer :
                       Claims(u, c)' <=> Claims(u, c) /\ ~(u = t /\ c = b)
<1>1. Control /\ BufferTypes /\ Claimed /\ Filled
  BY DEF Inv, StaticInv
<1>2. ASSUME NEW t \in Tasks, pc[t] \in Locked
      PROVE  k[t] \in Slots(t)
  BY <1>1, <1>2, Lengths DEF Control, Slots, Locked, Tasks
<1>3. CASE Keeps
  BY <1>3 DEF Keeps, Claims
<1>4. ASSUME NEW t \in Tasks, TakesFirst(t)
      PROVE  \E b \in Buffer :
                 /\ \A u \in Tasks : ~Claims(u, b)
                 /\ \A u \in Tasks : \A c \in Buffer :
                       Claims(u, c)' <=> Claims(u, c) \/ (u = t /\ c = b)
  <2>1. PICK b \in Buffer \ static_buffer_used : Takes(t, b)
    BY <1>4 DEF TakesFirst
  <2>2. k[t] \in Slots(t)
    BY <1>2, <1>4 DEF TakesFirst, Locked
  <2>3. \A u \in Tasks : ~Claims(u, b)
    BY <1>1, <2>1 DEF Claimed
  <2>4. \A u \in Tasks : \A c \in Buffer :
           Claims(u, c)' <=> Claims(u, c) \/ (u = t /\ c = b)
    BY <1>1, <2>1, <2>2, TakesTypes
  <2> QED BY <2>1, <2>3, <2>4
<1>5. ASSUME NEW t \in Tasks, GivesBack(t)
      PROVE  \E b \in Buffer :
                 /\ Claims(t, b)
                 /\ \A u \in Tasks : \A c \in Buffer :
                       Claims(u, c)' <=> Claims(u, c) /\ ~(u = t /\ c = b)
  <2>1. Gives(t) /\ k[t] \in Slots(t)
    BY <1>2, <1>5 DEF GivesBack, Locked
  <2> QED BY <1>1, <2>1, GivesTypes
<1>6. ASSUME NEW t \in Tasks, GivesUp(t)
      PROVE  \A u \in Tasks : \A c \in Buffer : Claims(u, c)' <=> Claims(u, c)
  <2>1. Forgets(t) /\ k[t] \in Slots(t)
    BY <1>2, <1>6 DEF GivesUp, Locked
  <2> QED BY <1>1, <2>1, ForgetsTypes
<1> QED BY <1>1, <1>3, <1>4, <1>5, <1>6, StaticEffects

(* The static buffers implement the allocator: a task gets only a buffer   *)
(* nobody has, only its owner gives it back, and a free that times out     *)
(* changes nothing (allocate_static_buffer, free_static_buffer).           *)
THEOREM BuffersImplementAllocator == Spec => ImplementsAllocator
<1>1. Init => Allocator!Init
  <2> SUFFICES ASSUME Init PROVE owner = [b \in Buffer |-> NULL]
    BY DEF Allocator!Init
  <2>1. StaticInv /\ \A t \in Tasks : \A b \in Buffer : ~Claims(t, b)
    BY InitStatic, NoBufferIsNull DEF Init, Claims
  <2>2. \A b \in Buffer : owner[b] = NULL
    BY <2>1, OwnerIs DEF OwnersRight
  <2> QED BY <2>2 DEF owner
<1>2. Inv => OwnersRight
  BY OwnerIs DEF Inv
<1>3. Inv /\ OwnersRight /\ OwnersRight' /\ [Next]_vars => [Allocator!Next]_owner
  <2> SUFFICES ASSUME Inv, OwnersRight, OwnersRight', [Next]_vars
               PROVE  [Allocator!Next]_owner
    OBVIOUS
  <2>1. owner = [b \in Buffer |-> owner[b]] /\ owner' = [b \in Buffer |-> owner'[b]]
    BY DEF owner
  <2>2. \A t, u \in Tasks : \A b \in Buffer : Claims(t, b) /\ Claims(u, b) => t = u
    BY DEF Inv, StaticInv, Claimed
  <2>3. CASE \A u \in Tasks : \A c \in Buffer : Claims(u, c)' <=> Claims(u, c)
    <3>1. \A c \in Buffer : owner'[c] = owner[c]
      BY <2>3 DEF OwnersRight
    <3> QED BY <2>1, <3>1
  <2>4. ASSUME NEW t \in Tasks, NEW b \in Buffer,
               \A u \in Tasks : ~Claims(u, b),
               \A u \in Tasks : \A c \in Buffer :
                  Claims(u, c)' <=> Claims(u, c) \/ (u = t /\ c = b)
        PROVE  Allocator!Next
    <3>1. owner[b] = NULL /\ owner'[b] = t
      BY <2>4 DEF OwnersRight
    <3>2. \A c \in Buffer : c # b => owner'[c] = owner[c]
      BY <2>4 DEF OwnersRight
    <3>3. owner' = [owner EXCEPT ![b] = t]
      BY <2>1, <3>1, <3>2
    <3> QED BY <3>1, <3>3 DEF Allocator!Next, Allocator!Get
  <2>5. ASSUME NEW t \in Tasks, NEW b \in Buffer, Claims(t, b),
               \A u \in Tasks : \A c \in Buffer :
                  Claims(u, c)' <=> Claims(u, c) /\ ~(u = t /\ c = b)
        PROVE  Allocator!Next
    <3>1. \A u \in Tasks : ~Claims(u, b)'
      BY <2>2, <2>5
    <3>2. owner[b] = t /\ owner'[b] = NULL
      BY <2>5, <3>1 DEF OwnersRight
    <3>3. \A c \in Buffer : c # b => owner'[c] = owner[c]
      BY <2>5 DEF OwnersRight
    <3>4. owner' = [owner EXCEPT ![b] = NULL]
      BY <2>1, <3>2, <3>3
    <3> QED BY <3>2, <3>4 DEF Allocator!Next, Allocator!Put
  <2> QED BY <2>3, <2>4, <2>5, ClaimsStep
<1> QED
  BY <1>1, <1>2, <1>3, Invariance, PTL DEF Spec, ImplementsAllocator, Allocator!Spec

-----------------------------------------------------------------------------
(* HeapTracker                                                             *)

(* A task that allocates or frees holds a block or, if the heap had none,  *)
(* NIL; one that does neither has no block in hand.                        *)
InHand ==
    \A t \in Callers :
        /\ at[t] = "ready" => ptr[t] = NIL
        /\ at[t] \in {"strike", "free"} => ptr[t] \in Addresses

(* What TableMatchesHeap says of one address, and of the counters.         *)
Matches(a) ==
    /\ InUse(a) /\ a \notin untracked => Entries(a) # {}
    /\ Cardinality(Entries(a)) <= missed[a] + IF InUse(a) THEN 1 ELSE 0
Counted ==
    /\ current_allocations = Cardinality(Active)
    /\ usage = Cardinality(Bytes)
    /\ IsFiniteSet(Bytes)

TrackerInv ==
    /\ TrackerTypeOK
    /\ NothingForgotten /\ InHand
    /\ \A a \in Addresses : Matches(a)
    /\ Counted

(* What a step may change of the tasks' side, types only.                  *)
Hands ==
    /\ at \in [Callers -> {"ready", "enter", "strike", "free"}]
    /\ ptr \in [Callers -> Addresses \cup {NIL}]
    /\ held \in [Callers -> SUBSET Addresses]
Rounds ==
    /\ calls \in [Callers -> Nat]
    /\ \A t \in Callers : calls[t] <= Calls[t]
Table ==
    /\ allocations \in [Index -> Entry \cup {NIL}]
    /\ {current_allocations, usage} \subseteq Nat

LEMMA TrackerTypes ==
    TrackerTypeOK <=>
    /\ allocated \subseteq Addresses /\ untracked \subseteq Addresses
    /\ Table /\ Hands /\ Rounds
    /\ monitoring \in BOOLEAN
    /\ missed \in [Addresses -> 0..MaxMissed]
BY DEF TrackerTypeOK, Table, Hands, Rounds

LEMMA TrackerTypesNext ==
    TrackerTypeOK' <=>
    /\ allocated' \subseteq Addresses /\ untracked' \subseteq Addresses
    /\ Table' /\ Hands' /\ Rounds'
    /\ monitoring' \in BOOLEAN
    /\ missed' \in [Addresses -> 0..MaxMissed]
BY DEF TrackerTypeOK, Table, Hands, Rounds

-----------------------------------------------------------------------------
(* Entries and counters                                                    *)

LEMMA EntriesFinite ==
    /\ IsFiniteSet(Index) /\ Index \subseteq Nat
    /\ IsFiniteSet(Active) /\ Cardinality(Active) \in Nat
    /\ \A a : IsFiniteSet(Entries(a)) /\ Cardinality(Entries(a)) \in Nat
<1>1. IsFiniteSet(Index) /\ Index \subseteq Nat
  BY TrackerAssumption, FS_Interval DEF TrackerAssumption, Index
<1>2. Active \subseteq Index /\ \A a : Entries(a) \subseteq Index
  BY DEF Active, Entries
<1> QED
  BY <1>1, <1>2, FS_Subset, FS_CardinalityType

LEMMA BytesAre ==
    \A x : x \in Bytes <=>
        \E s \in Active : \E n \in 1..allocations[s].size : x = <<s, n>>
BY DEF Bytes

LEMMA BytesNext ==
    \A x : x \in Bytes' <=>
        \E s \in Active' : \E n \in 1..allocations'[s].size : x = <<s, n>>
BY DEF Bytes

(* The bytes of one entry.                                                 *)
LEMMA EntryBytes ==
    ASSUME NEW s, NEW n \in Nat
    PROVE  /\ IsFiniteSet({s} \X (1..n))
           /\ Cardinality({s} \X (1..n)) = n
<1>1. IsFiniteSet({s}) /\ Cardinality({s}) = 1
  BY FS_Singleton
<1>2. IsFiniteSet(1..n) /\ Cardinality(1..n) = n
  BY FS_Interval
<1>3. /\ IsFiniteSet({s} \X (1..n))
      /\ Cardinality({s} \X (1..n)) = Cardinality({s}) * Cardinality(1..n)
  BY <1>1, <1>2, FS_Product
<1>4. 1 * n = n
  OBVIOUS
<1> QED
  BY <1>1, <1>2, <1>3, <1>4

(* A new entry adds its bytes to those there are.                          *)
LEMMA BytesAdded ==
    ASSUME Table, Counted, NEW s \in FreeEntries, NEW e \in Entry,
           e.size \in Nat,
           allocations' = [allocations EXCEPT ![s] = e],
           current_allocations' = current_allocations + 1,
           usage' = usage + e.size
    PROVE  Counted' /\ Table'
<1>1. /\ s \in Index /\ allocations[s] = NIL /\ e # NIL
      /\ allocations' \in [Index -> Entry \cup {NIL}]
      /\ \A r \in Index : allocations'[r] = IF r = s THEN e ELSE allocations[r]
  BY TrackerAssumption DEF FreeEntries, Table, TrackerAssumption
<1>2. Active' = Active \cup {s} /\ s \notin Active
  BY <1>1 DEF Active
<1>3. Cardinality(Active') = Cardinality(Active) + 1
  BY <1>2, EntriesFinite, FS_AddElement
<1> DEFINE new == {s} \X (1..e.size)
<1>4. Bytes' = Bytes \cup new
  <2>1. ASSUME NEW x \in Bytes' PROVE x \in Bytes \cup new
    <3>1. PICK r \in Active' : \E n \in 1..allocations'[r].size : x = <<r, n>>
      BY BytesNext
    <3>2. CASE r = s
      BY <1>1, <3>1, <3>2
    <3>3. CASE r # s
      BY <1>1, <1>2, <3>1, <3>3, BytesAre DEF Active
    <3> QED
      BY <3>2, <3>3
  <2>2. ASSUME NEW x \in Bytes PROVE x \in Bytes'
    <3>1. PICK r \in Active : \E n \in 1..allocations[r].size : x = <<r, n>>
      BY BytesAre
    <3> QED
      BY <1>1, <1>2, <3>1, BytesNext DEF Active
  <2>3. ASSUME NEW x \in new PROVE x \in Bytes'
    <3>1. PICK n \in 1..e.size : x = <<s, n>>
      OBVIOUS
    <3> QED
      BY <1>1, <1>2, <3>1, BytesNext
  <2> QED
    BY <2>1, <2>2, <2>3
<1>5. Bytes \cap new = {}
  <2>1. ASSUME NEW x \in Bytes, x \in new PROVE FALSE
    <3>1. PICK r \in Active : \E n \in 1..allocations[r].size : x = <<r, n>>
      BY BytesAre
    <3>2. PICK m \in 1..e.size : x = <<s, m>>
      BY <2>1
    <3> QED
      BY <1>2, <3>1, <3>2
  <2> QED
    BY <2>1
<1>6. IsFiniteSet(new) /\ Cardinality(new) = e.size
  BY EntryBytes
<1>7. Cardinality(Bytes) \in Nat /\ IsFiniteSet(Bytes)
  BY FS_CardinalityType DEF Counted
<1>8. IsFiniteSet({}) /\ Cardinality({}) = 0
  BY FS_EmptySet
<1> HIDE DEF new
<1>9. IsFiniteSet(Bytes') /\ Cardinality(Bytes') = Cardinality(Bytes) + e.size
  <2>1. /\ IsFiniteSet(Bytes \cup new)
        /\ Cardinality(Bytes \cup new) =
              Cardinality(Bytes) + Cardinality(new) - Cardinality(Bytes \cap new)
    BY <1>6, <1>7, FS_Union
  <2>2. /\ Bytes' = Bytes \cup new /\ Cardinality(Bytes \cap new) = 0
        /\ Cardinality(new) = e.size
    BY <1>4, <1>5, <1>6, <1>8
  <2> QED
    BY <1>7, <2>1, <2>2
<1> QED
  BY <1>1, <1>3, <1>7, <1>9, EntriesFinite DEF Counted, Table

(* Striking out an entry takes from usage what it had added.               *)
LEMMA BytesRemoved ==
    ASSUME Table, Counted, NEW s \in Active, allocations[s].size \in Nat,
           allocations' = [allocations EXCEPT ![s] = NIL],
           current_allocations' = current_allocations - 1,
           usage' = usage - allocations[s].size
    PROVE  Counted' /\ Table'
<1>1. /\ s \in Index
      /\ allocations' \in [Index -> Entry \cup {NIL}]
      /\ \A r \in Index : allocations'[r] = IF r = s THEN NIL
                                                     ELSE allocations[r]
  BY DEF Active, Table
<1>2. Active' = Active \ {s}
  BY <1>1 DEF Active
<1>3. Cardinality(Active') = Cardinality(Active) - 1
  BY <1>2, EntriesFinite, FS_RemoveElement
<1> DEFINE old == {s} \X (1..allocations[s].size)
<1>4. Bytes' = Bytes \ old
  <2>1. ASSUME NEW x \in Bytes' PROVE x \in Bytes \ old
    <3>1. PICK r \in Active' : \E n \in 1..allocations'[r].size : x = <<r, n>>
      BY BytesNext
    <3>2. r \in Active /\ r # s /\ allocations'[r] = allocations[r]
      BY <1>1, <1>2 DEF Active
    <3> QED
      BY <3>1, <3>2, BytesAre
  <2>2. ASSUME NEW x \in Bytes, x \notin old PROVE x \in Bytes'
    <3>1. PICK r \in Active : \E n \in 1..allocations[r].size : x = <<r, n>>
      BY BytesAre
    <3>2. r # s
      BY <2>2, <3>1
    <3>3. r \in Active' /\ allocations'[r] = allocations[r]
      BY <1>1, <1>2, <3>2 DEF Active
    <3> QED
      BY <3>1, <3>3, BytesNext
  <2> QED
    BY <2>1, <2>2
<1>5. old \subseteq Bytes
  BY BytesAre
<1>6. IsFiniteSet(old) /\ Cardinality(old) = allocations[s].size
  BY EntryBytes
<1>7. Cardinality(Bytes) \in Nat /\ IsFiniteSet(Bytes)
  BY FS_CardinalityType DEF Counted
<1> HIDE DEF old
<1>8. /\ IsFiniteSet(Bytes')
      /\ Cardinality(Bytes') = Cardinality(Bytes) - allocations[s].size
  <2>1. Bytes \cap old = old
    BY <1>5
  <2>2. /\ IsFiniteSet(Bytes \ old)
        /\ Cardinality(Bytes \ old) =
              Cardinality(Bytes) - Cardinality(Bytes \cap old)
    BY <1>7, FS_Difference
  <2> QED
    BY <1>4, <1>6, <2>1, <2>2
<1>9. Cardinality(Bytes') \in Nat /\ Cardinality(Active') \in Nat
  BY <1>2, <1>8, EntriesFinite, FS_CardinalityType, FS_RemoveElement
<1> QED
  BY <1>1, <1>3, <1>8, <1>9 DEF Counted, Table

LEMMA TableKept ==
    ASSUME UNCHANGED tableVars
    PROVE  /\ Table => Table'
           /\ Counted => Counted'
           /\ \A a : Entries(a)' = Entries(a)
BY DEF tableVars, Table, Counted, Active, Bytes, Entries

-----------------------------------------------------------------------------
(* Who has a block                                                         *)

(* A block in hand that has no entry yet, or none any more, is in use by   *)
(* nobody.                                                                 *)
LEMMA NotInUse ==
    ASSUME NothingForgotten, NEW t \in Callers, ptr[t] \in Addresses,
           at[t] # "strike"
    PROVE  ~InUse(ptr[t])
BY DEF NothingForgotten, InUse, Tracked, Owned

LEMMA StrikeInUse ==
    ASSUME NEW t \in Callers, at[t] = "strike"
    PROVE  InUse(ptr[t])
BY DEF InUse, Tracked

(* The blocks of the tasks stay as they are.                               *)
LEMMA NothingMoves ==
    ASSUME NothingForgotten, allocated' = allocated,
           \A t \in Callers : Owned(t)' = Owned(t),
           \A t \in Callers : ptr'[t] \notin held'[t]
    PROVE  NothingForgotten'
BY DEF NothingForgotten

(* Return: the block in hand becomes one the task keeps.                   *)
LEMMA ReturnMoves ==
    ASSUME TrackerTypeOK, NothingForgotten, InHand, NEW t \in Callers,
           at[t] = "enter", Return(t), allocated' = allocated
    PROVE  /\ Hands' /\ Rounds' /\ InHand' /\ NothingForgotten'
           /\ \A a \in Addresses : InUse(a)' <=> InUse(a) \/ a = ptr[t]
<1>1. Hands /\ Rounds
  BY TrackerTypes
<1>2. /\ at' = [at EXCEPT ![t] = "ready"] /\ ptr' = [ptr EXCEPT ![t] = NIL]
      /\ held' = [held EXCEPT ![t] = @ \cup ({ptr[t]} \cap Addresses)]
  BY DEF Return
<1>3. Hands'
  BY <1>1, <1>2 DEF Hands
<1>4. Rounds'
  <2>1. PICK n \in {0, calls[t]} : calls' = [calls EXCEPT ![t] = n]
    BY <1>1 DEF Return, Rounds
  <2>2. Calls[t] \in Nat
    BY TrackerAssumption DEF TrackerAssumption
  <2> QED
    BY <1>1, <2>1, <2>2 DEF Rounds
<1>5. InHand'
  BY <1>1, <1>2 DEF InHand, Hands
<1>6. NIL \notin Addresses
  BY TrackerAssumption DEF TrackerAssumption
<1>7. \A u \in Callers : Owned(u)' = Owned(u) /\ ptr'[u] \notin held'[u]
  BY <1>1, <1>2, <1>6 DEF Owned, Hands, NothingForgotten
<1>8. NothingForgotten'
  BY <1>7, NothingMoves
<1>9. \A a \in Addresses, u \in Callers :
          a \in Tracked(u)' <=> a \in Tracked(u) \/ (u = t /\ a = ptr[t])
  BY <1>1, <1>2 DEF Tracked, Hands
<1> QED
  BY <1>3, <1>4, <1>5, <1>8, <1>9 DEF InUse

(* Past the mutex the block is not in use any more.                        *)
LEMMA StrikeMoves ==
    ASSUME TrackerTypeOK, NothingForgotten, InHand, NEW t \in Callers,
           at[t] = "strike", at' = [at EXCEPT ![t] = "free"],
           UNCHANGED <<allocated, ptr, held>>
    PROVE  /\ Hands' /\ InHand' /\ NothingForgotten'
           /\ \A a \in Addresses : InUse(a)' <=> InUse(a) /\ a # ptr[t]
<1>1. Hands /\ ptr[t] \in Addresses
  BY TrackerTypes DEF InHand
<1>2. Hands' /\ InHand'
  BY <1>1 DEF Hands, InHand
<1>3. NothingForgotten'
  BY DEF NothingForgotten, Owned
<1>4. \A u \in Callers : u # t => Tracked(u)' = Tracked(u)
  BY <1>1 DEF Tracked, Hands
<1>5. Tracked(t)' = held[t] /\ Tracked(t) = held[t] \cup {ptr[t]}
  BY <1>1 DEF Tracked, Hands
<1>6. ptr[t] \notin held[t] /\ \A u \in Callers : u # t => ptr[t] \notin Tracked(u)
  BY <1>1 DEF NothingForgotten, Owned, Tracked
<1> QED
  BY <1>2, <1>3, <1>4, <1>5, <1>6 DEF InUse

-----------------------------------------------------------------------------
(* The table as it is, while blocks come and go                            *)

LEMMA SameMatches ==
    ASSUME UNCHANGED <<tableVars, missed>>,
           NEW a \in Addresses, Matches(a), InUse(a)' <=> InUse(a),
           a \in untracked => a \in untracked' \/ ~InUse(a)
    PROVE  Matches(a)'
BY TableKept DEF Matches

LEMMA TrackerInvInit ==
    ASSUME TrackerInit PROVE TrackerInv
<1>1. /\ at = [t \in Callers |-> "ready"] /\ ptr = [t \in Callers |-> NIL]
      /\ held = [t \in Callers |-> {}] /\ calls = Calls
      /\ allocated = {} /\ untracked = {} /\ monitoring = FALSE
      /\ allocations = [s \in Index |-> NIL]
      /\ current_allocations = 0 /\ usage = 0
      /\ missed = [a \in Addresses |-> 0]
  BY DEF TrackerInit
<1>2. Hands /\ Table
  BY <1>1 DEF Hands, Table
<1>3. Rounds
  BY <1>1, TrackerAssumption DEF Rounds, TrackerAssumption
<1>4. missed \in [Addresses -> 0..MaxMissed]
  BY <1>1, TrackerAssumption DEF TrackerAssumption
<1>5. TrackerTypeOK
  BY <1>1, <1>2, <1>3, <1>4, TrackerTypes
<1>6. NIL \notin Addresses
  BY TrackerAssumption DEF TrackerAssumption
<1>7. \A t \in Callers : Owned(t) = {} /\ Tracked(t) = {}
  BY <1>1, <1>6 DEF Owned, Tracked
<1>8. NothingForgotten /\ InHand
  BY <1>1, <1>7 DEF NothingForgotten, InHand
<1>9. IsFiniteSet({}) /\ Cardinality({}) = 0
  BY FS_EmptySet
<1>10. \A a \in Addresses : Matches(a)
  <2>1. \A a : Entries(a) = {}
    BY <1>1 DEF Entries
  <2>2. \A a : ~InUse(a)
    BY <1>7 DEF InUse
  <2> QED
    BY <1>1, <1>9, <2>1, <2>2 DEF Matches
<1>11. Counted
  <2>1. Active = {}
    BY <1>1 DEF Active
  <2>2. Bytes = {}
    BY <2>1 DEF Bytes
  <2> QED
    BY <1>1, <1>9, <2>1, <2>2 DEF Counted
<1> QED
  BY <1>5, <1>8, <1>10, <1>11 DEF TrackerInv

-----------------------------------------------------------------------------
(* tracked_malloc                                                          *)

(* The heap gives a block nobody has.                                      *)
LEMMA MallocStep ==
    ASSUME TrackerInv, NEW t \in Callers, Malloc(t) PROVE TrackerInv'
<1>1. /\ TrackerTypeOK /\ NothingForgotten /\ InHand /\ Counted
      /\ Table /\ Hands /\ Rounds
      /\ allocated \subseteq Addresses
  BY TrackerTypes DEF TrackerInv
<1>2. PICK a \in (Addresses \ allocated) \cup {NIL} :
          /\ ptr' = [ptr EXCEPT ![t] = a]
          /\ allocated' = allocated \cup ({a} \cap Addresses)
  BY DEF Malloc
<1>3. /\ at[t] = "ready" /\ calls[t] > 0
      /\ calls' = [calls EXCEPT ![t] = @ - 1]
      /\ at' = [at EXCEPT ![t] = "enter"]
      /\ UNCHANGED <<tableVars, monitoring, held, untracked, missed>>
  BY DEF Malloc
<1>4. NIL \notin Addresses /\ ptr[t] = NIL
  BY <1>1, <1>3, TrackerAssumption DEF InHand, TrackerAssumption
<1>5. Hands' /\ InHand'
  BY <1>1, <1>2, <1>3 DEF Hands, InHand
<1>6. Rounds'
  <2>1. calls[t] \in Nat /\ calls[t] <= Calls[t] /\ Calls[t] \in Nat
    BY <1>1, TrackerAssumption DEF Rounds, TrackerAssumption
  <2>2. calls[t] - 1 \in Nat /\ calls[t] - 1 <= Calls[t]
    BY <1>3, <2>1
  <2> QED
    BY <1>1, <1>3, <2>2 DEF Rounds
<1>7. /\ \A u \in Callers : u # t => Owned(u)' = Owned(u)
      /\ Owned(t)' = Owned(t) \cup ({a} \cap Addresses)
  BY <1>1, <1>2, <1>3, <1>4 DEF Owned, Hands
<1>8. ASSUME NEW u \in Callers, a \in Addresses PROVE a \notin Owned(u)
  <2>1. allocated = UNION {Owned(v) : v \in Callers}
    BY <1>1 DEF NothingForgotten
  <2>2. Owned(u) \in {Owned(v) : v \in Callers}
    OBVIOUS
  <2>3. a \notin allocated
    BY <1>2, <1>4, <1>8
  <2> QED
    BY <2>1, <2>2, <2>3
<1>9. \A u \in Callers : ptr'[u] \notin held'[u]
  <2>1. a \notin held[t]
    BY <1>1, <1>2, <1>4, <1>8 DEF Owned, Hands
  <2> QED
    BY <1>1, <1>2, <1>3, <2>1 DEF NothingForgotten, Hands
<1>10. NothingForgotten'
  <2>1. allocated' = UNION {Owned(u)' : u \in Callers}
    BY <1>1, <1>2, <1>7 DEF NothingForgotten
  <2>2. \A u, v \in Callers : u # v => Owned(u)' \cap Owned(v)' = {}
    BY <1>1, <1>7, <1>8 DEF NothingForgotten
  <2> QED
    BY <1>9, <2>1, <2>2 DEF NothingForgotten
<1>11. \A b : InUse(b)' <=> InUse(b)
  <2>1. \A u \in Callers : Tracked(u)' = Tracked(u)
    BY <1>1, <1>2, <1>3 DEF Tracked, Hands
  <2> QED
    BY <2>1 DEF InUse
<1>12. \A b \in Addresses : Matches(b)'
  BY <1>3, <1>11, SameMatches DEF TrackerInv
<1>13. Table' /\ Counted'
  BY <1>1, <1>3, TableKept
<1>14. TrackerTypeOK'
  BY <1>1, <1>2, <1>3, <1>5, <1>6, <1>13, TrackerTypes, TrackerTypesNext
<1> QED
  BY <1>5, <1>10, <1>12, <1>13, <1>14 DEF TrackerInv

(* An entry for a block that nobody used until now.                        *)
LEMMA WrittenMatches ==
    ASSUME TrackerTypeOK, NEW t \in Callers, NEW s \in FreeEntries,
           ptr[t] \in Addresses, Written(s, t), missed' = missed,
           untracked' = untracked, ~InUse(ptr[t]),
           \A a \in Addresses : InUse(a)' <=> InUse(a) \/ a = ptr[t],
           NEW a \in Addresses, Matches(a)
    PROVE  Matches(a)'
<1> DEFINE e == [ptr |-> ptr[t], size |-> Size[t]]
<1>1. s \in Index /\ allocations[s] = NIL /\ Table
  BY TrackerTypes DEF FreeEntries
<1>2. e \in Entry /\ e # NIL /\ e.ptr = ptr[t]
  BY TrackerAssumption DEF Entry, TrackerAssumption
<1>3. \A r \in Index : allocations'[r] = IF r = s THEN e ELSE allocations[r]
  BY <1>1 DEF Written, Table
<1> HIDE DEF e
<1>4. CASE a = ptr[t]
  <2>1. Entries(a)' = Entries(a) \cup {s} /\ s \notin Entries(a)
    BY <1>1, <1>2, <1>3, <1>4 DEF Entries
  <2>2. Cardinality(Entries(a)') = Cardinality(Entries(a)) + 1
    BY <2>1, EntriesFinite, FS_AddElement
  <2>3. missed[a] \in Nat /\ Cardinality(Entries(a)) \in Nat
    BY EntriesFinite, TrackerTypes
  <2>4. Cardinality(Entries(a)) <= missed[a]
    BY <1>4, <2>3 DEF Matches
  <2> QED
    BY <1>4, <2>1, <2>2, <2>3, <2>4 DEF Matches
<1>5. CASE a # ptr[t]
  <2>1. Entries(a)' = Entries(a)
    BY <1>1, <1>2, <1>3, <1>5 DEF Entries
  <2> QED
    BY <1>5, <2>1 DEF Matches
<1> QED
  BY <1>4, <1>5

LEMMA EnterStep ==
    ASSUME TrackerInv, NEW t \in Callers, Enter(t) \/ EnterTimeout(t)
    PROVE  TrackerInv'
<1>1. /\ TrackerTypeOK /\ NothingForgotten /\ InHand /\ Counted
      /\ Table /\ Hands /\ allocated \subseteq Addresses
      /\ untracked \subseteq Addresses
  BY TrackerTypes DEF TrackerInv
<1>2. /\ at[t] = "enter" /\ Return(t)
      /\ UNCHANGED <<allocated, monitoring, missed>>
  BY DEF Enter, EnterTimeout
<1>3. /\ Hands' /\ Rounds' /\ InHand' /\ NothingForgotten'
      /\ \A a \in Addresses : InUse(a)' <=> InUse(a) \/ a = ptr[t]
  BY <1>1, <1>2, ReturnMoves
<1>4. ptr[t] \in Addresses \cup {NIL} /\ NIL \notin Addresses
  BY <1>1, TrackerAssumption DEF Hands, TrackerAssumption
<1>5. untracked' \subseteq Addresses
  BY <1>1, <1>4 DEF Enter, EnterTimeout
<1>6. ASSUME Table' PROVE TrackerTypeOK'
  BY <1>1, <1>2, <1>3, <1>5, <1>6, TrackerTypes, TrackerTypesNext
<1>7. CASE ptr[t] = NIL
  <2>1. UNCHANGED <<tableVars, untracked>>
    BY <1>4, <1>7 DEF Enter, EnterTimeout
  <2>2. \A a \in Addresses : InUse(a)' <=> InUse(a)
    BY <1>3, <1>4, <1>7
  <2>3. \A a \in Addresses : Matches(a)'
    BY <1>2, <2>1, <2>2, SameMatches DEF TrackerInv
  <2> QED
    BY <1>1, <1>3, <1>6, <2>1, <2>3, TableKept DEF TrackerInv
<1>8. CASE ptr[t] \in Addresses
  <2>1. ~InUse(ptr[t])
    BY <1>1, <1>2, <1>8, NotInUse
  <2>2. CASE UNCHANGED tableVars /\ untracked' = untracked \cup {ptr[t]}
    <3>1. \A a \in Addresses : Entries(a)' = Entries(a)
      BY <2>2, TableKept
    <3>2. \A a \in Addresses :
              /\ missed[a] \in Nat
              /\ Cardinality(Entries(a)) \in Nat
      BY <1>1, EntriesFinite, TrackerTypes
    <3>3. \A a \in Addresses : Matches(a)'
      BY <1>2, <1>3, <2>2, <3>1, <3>2 DEF Matches, TrackerInv
    <3> QED
      BY <1>1, <1>3, <1>6, <2>2, <3>3, TableKept DEF TrackerInv
  <2>3. CASE /\ FreeEntries # {} /\ Written(Min(FreeEntries), t)
             /\ untracked' = untracked
    <3> DEFINE s == Min(FreeEntries)
               e == [ptr |-> ptr[t], size |-> Size[t]]
    <3>1. s \in FreeEntries
      <4>1. FreeEntries \in SUBSET Nat
        BY EntriesFinite DEF FreeEntries
      <4> QED
        BY <2>3, <4>1, Smallest
    <3> HIDE DEF s
    <3>2. Written(s, t)
      BY <2>3 DEF s
    <3>3. \A a \in Addresses : Matches(a)'
      BY <1>1, <1>2, <1>3, <1>8, <2>1, <2>3, <3>1, <3>2, WrittenMatches
      DEF TrackerInv
    <3>4. e \in Entry /\ e.size = Size[t] /\ e.size \in Nat
      BY <1>8, TrackerAssumption DEF Entry, TrackerAssumption
    <3>5. /\ allocations' = [allocations EXCEPT ![s] = e]
          /\ current_allocations' = current_allocations + 1
          /\ usage' = usage + Size[t]
      BY <3>2 DEF Written
    <3> HIDE DEF e
    <3>6. Table' /\ Counted'
      BY <1>1, <3>1, <3>4, <3>5, BytesAdded
    <3> QED
      BY <1>3, <1>6, <3>3, <3>6 DEF TrackerInv
  <2>4. \/ UNCHANGED tableVars /\ untracked' = untracked \cup {ptr[t]}
        \/ /\ FreeEntries # {} /\ Written(Min(FreeEntries), t)
           /\ untracked' = untracked
    BY <1>4, <1>8 DEF Enter, EnterTimeout
  <2> QED
    BY <2>2, <2>3, <2>4
<1> QED
  BY <1>4, <1>7, <1>8

-----------------------------------------------------------------------------
(* tracked_free                                                            *)

LEMMA FreeBlockStep ==
    ASSUME TrackerInv, NEW t \in Callers, FreeBlock(t) PROVE TrackerInv'
<1>1. /\ TrackerTypeOK /\ NothingForgotten /\ InHand /\ Counted
      /\ Table /\ Hands /\ Rounds
  BY TrackerTypes DEF TrackerInv
<1>2. PICK a \in held[t] : /\ ptr' = [ptr EXCEPT ![t] = a]
                           /\ held' = [held EXCEPT ![t] = @ \ {a}]
  BY DEF FreeBlock
<1>3. /\ at[t] = "ready" /\ at' = [at EXCEPT ![t] = "strike"]
      /\ UNCHANGED <<allocated, tableVars, monitoring, calls, untracked, missed>>
  BY DEF FreeBlock
<1>4. /\ ptr[t] = NIL /\ NIL \notin Addresses /\ a \in Addresses
      /\ held[t] \subseteq Addresses
  BY <1>1, <1>2, <1>3, TrackerAssumption DEF InHand, Hands, TrackerAssumption
<1>5. Hands' /\ InHand'
  BY <1>1, <1>2, <1>3, <1>4 DEF Hands, InHand
<1>6. \A u \in Callers : Owned(u)' = Owned(u)
  BY <1>1, <1>2, <1>3, <1>4 DEF Owned, Hands
<1>7. \A u \in Callers : ptr'[u] \notin held'[u]
  BY <1>1, <1>2, <1>3 DEF NothingForgotten, Hands
<1>8. NothingForgotten'
  BY <1>1, <1>3, <1>6, <1>7, NothingMoves
<1>9. \A u \in Callers : Tracked(u)' = Tracked(u)
  BY <1>1, <1>2, <1>3 DEF Tracked, Hands
<1>10. \A b : InUse(b)' <=> InUse(b)
  BY <1>9 DEF InUse
<1>11. \A b \in Addresses : Matches(b)'
  BY <1>3, <1>10, SameMatches DEF TrackerInv
<1>12. Table' /\ Counted' /\ Rounds'
  BY <1>1, <1>3, TableKept DEF Rounds
<1>13. TrackerTypeOK'
  BY <1>1, <1>3, <1>5, <1>12, TrackerTypes, TrackerTypesNext
<1> QED
  BY <1>5, <1>8, <1>11, <1>12, <1>13 DEF TrackerInv

(* The entry goes when the block is not in use any more.                   *)
LEMMA StrikeStep ==
    ASSUME TrackerInv, NEW t \in Callers, Strike(t) PROVE TrackerInv'
<1>1. /\ TrackerTypeOK /\ NothingForgotten /\ InHand /\ Counted
      /\ Table /\ Hands /\ Rounds /\ missed \in [Addresses -> 0..MaxMissed]
  BY TrackerTypes DEF TrackerInv
<1>2. /\ at[t] = "strike" /\ at' = [at EXCEPT ![t] = "free"]
      /\ UNCHANGED <<allocated, monitoring, ptr, calls, held, untracked, missed>>
  BY DEF Strike
<1>3. /\ Hands' /\ InHand' /\ NothingForgotten'
      /\ \A a \in Addresses : InUse(a)' <=> InUse(a) /\ a # ptr[t]
  BY <1>1, <1>2, StrikeMoves
<1>4. ptr[t] \in Addresses /\ Rounds'
  BY <1>1, <1>2 DEF InHand, Rounds
<1>5. ASSUME Table' PROVE TrackerTypeOK'
  BY <1>1, <1>2, <1>3, <1>4, <1>5, TrackerTypes, TrackerTypesNext
<1>6. \A a \in Addresses : missed[a] \in Nat /\ Cardinality(Entries(a)) \in Nat
  BY <1>1, EntriesFinite
<1>7. InUse(ptr[t])
  BY <1>2, StrikeInUse
<1>8. CASE Entries(ptr[t]) = {}
  <2>1. UNCHANGED tableVars
    BY <1>8 DEF Strike
  <2>2. \A a \in Addresses : Entries(a)' = Entries(a)
    BY <2>1, TableKept
  <2>3. Cardinality(Entries(ptr[t])) = 0
    BY <1>8, FS_EmptySet
  <2>4. \A a \in Addresses : Matches(a)'
    BY <1>2, <1>3, <1>6, <2>2, <2>3 DEF Matches, TrackerInv
  <2> QED
    BY <1>1, <1>3, <1>5, <2>1, <2>4, TableKept DEF TrackerInv
<1>9. CASE Entries(ptr[t]) # {}
  <2> DEFINE s == Min(Entries(ptr[t]))
  <2>1. /\ allocations' = [allocations EXCEPT ![s] = NIL]
        /\ current_allocations' = current_allocations - 1
        /\ usage' = usage - allocations[s].size
    BY <1>9 DEF Strike
  <2>2. s \in Entries(ptr[t])
    <3>1. Entries(ptr[t]) \in SUBSET Nat
      BY EntriesFinite DEF Entries
    <3> QED
      BY <1>9, <3>1, Smallest
  <2> HIDE DEF s
  <2>3. /\ s \in Active /\ s \in Index /\ allocations[s].ptr = ptr[t]
        /\ allocations[s] \in Entry
    BY <1>1, <2>2 DEF Entries, Active, Table
  <2>4. allocations[s].size \in Nat
    BY <2>3, TrackerAssumption DEF Entry, TrackerAssumption
  <2>5. Table' /\ Counted'
    BY <1>1, <2>1, <2>3, <2>4, BytesRemoved
  <2>6. \A r \in Index : allocations'[r] = IF r = s THEN NIL
                                                    ELSE allocations[r]
    BY <1>1, <2>1, <2>3 DEF Table
  <2>7. ASSUME NEW a \in Addresses, a # ptr[t] PROVE Matches(a)'
    <3>1. Entries(a)' = Entries(a)
      BY <2>3, <2>6, <2>7 DEF Entries
    <3> QED
      BY <1>2, <1>3, <2>7, <3>1 DEF Matches, TrackerInv
  <2>8. Matches(ptr[t])'
    <3>1. Entries(ptr[t])' = Entries(ptr[t]) \ {s}
      BY <1>2, <2>3, <2>6 DEF Entries
    <3>2. Cardinality(Entries(ptr[t])') = Cardinality(Entries(ptr[t])) - 1
      BY <2>2, <3>1, EntriesFinite, FS_RemoveElement
    <3>3. Cardinality(Entries(ptr[t])) <= missed[ptr[t]] + 1
      BY <1>4, <1>7 DEF Matches, TrackerInv
    <3>4. ~InUse(ptr[t])' /\ missed'[ptr[t]] = missed[ptr[t]]
      BY <1>2, <1>3, <1>4
    <3> QED
      BY <1>2, <1>4, <1>6, <3>2, <3>3, <3>4 DEF Matches
  <2> QED
    BY <1>2, <1>3, <1>5, <2>5, <2>7, <2>8 DEF TrackerInv
<1> QED
  BY <1>8, <1>9

LEMMA StrikeTimeoutStep ==
    ASSUME TrackerInv, NEW t \in Callers, StrikeTimeout(t) PROVE TrackerInv'
<1>1. /\ TrackerTypeOK /\ NothingForgotten /\ InHand /\ Counted
      /\ Table /\ Hands /\ Rounds /\ missed \in [Addresses -> 0..MaxMissed]
  BY TrackerTypes DEF TrackerInv
<1>2. /\ at[t] = "strike" /\ at' = [at EXCEPT ![t] = "free"]
      /\ missed[ptr[t]] < MaxMissed
      /\ missed' = [missed EXCEPT ![ptr[t]] = @ + 1]
      /\ UNCHANGED <<allocated, tableVars, monitoring, ptr, calls, held,
                     untracked>>
  BY DEF StrikeTimeout
<1>3. /\ Hands' /\ InHand' /\ NothingForgotten'
      /\ \A a \in Addresses : InUse(a)' <=> InUse(a) /\ a # ptr[t]
  BY <1>1, <1>2, StrikeMoves
<1>4. ptr[t] \in Addresses /\ Rounds' /\ Table' /\ Counted'
  BY <1>1, <1>2, TableKept DEF InHand, Rounds
<1>5. MaxMissed \in Nat
  BY TrackerAssumption DEF TrackerAssumption
<1>6. missed' \in [Addresses -> 0..MaxMissed]
  <2>1. missed[ptr[t]] + 1 \in 0..MaxMissed
    BY <1>1, <1>2, <1>4, <1>5
  <2> QED
    BY <1>1, <1>2, <2>1
<1>7. TrackerTypeOK'
  BY <1>1, <1>2, <1>3, <1>4, <1>6, TrackerTypes, TrackerTypesNext
<1>8. \A a \in Addresses : /\ missed[a] \in Nat /\ Entries(a)' = Entries(a)
                           /\ Cardinality(Entries(a)) \in Nat
  BY <1>1, <1>2, EntriesFinite, TableKept
<1>9. ASSUME NEW a \in Addresses, a # ptr[t] PROVE Matches(a)'
  BY <1>1, <1>2, <1>3, <1>8, <1>9 DEF Matches, TrackerInv
<1>10. Matches(ptr[t])'
  <2>1. Cardinality(Entries(ptr[t])) <= missed[ptr[t]] + 1
    BY <1>2, <1>4, StrikeInUse DEF Matches, TrackerInv
  <2>2. missed'[ptr[t]] = missed[ptr[t]] + 1 /\ ~InUse(ptr[t])'
    BY <1>1, <1>2, <1>3, <1>4
  <2> QED
    BY <1>2, <1>4, <1>8, <2>1, <2>2 DEF Matches
<1> QED
  BY <1>2, <1>3, <1>4, <1>7, <1>9, <1>10 DEF TrackerInv

(* Only now can the heap give the block to another task.                   *)
LEMMA HeapFreeStep ==
    ASSUME TrackerInv, NEW t \in Callers, HeapFree(t) PROVE TrackerInv'
<1>1. /\ TrackerTypeOK /\ NothingForgotten /\ InHand /\ Counted
      /\ Table /\ Hands /\ Rounds
      /\ allocated \subseteq Addresses /\ untracked \subseteq Addresses
  BY TrackerTypes DEF TrackerInv
<1>2. /\ at[t] = "free" /\ at' = [at EXCEPT ![t] = "ready"]
      /\ allocated' = allocated \ {ptr[t]} /\ untracked' = untracked \ {ptr[t]}
      /\ ptr' = [ptr EXCEPT ![t] = NIL]
      /\ UNCHANGED <<tableVars, monitoring, calls, held, missed>>
  BY DEF HeapFree
<1>3. ptr[t] \in Addresses /\ NIL \notin Addresses
  BY <1>1, <1>2, TrackerAssumption DEF InHand, TrackerAssumption
<1>4. Hands' /\ InHand'
  BY <1>1, <1>2 DEF Hands, InHand
<1>5. /\ \A u \in Callers : u # t => Owned(u)' = Owned(u)
      /\ Owned(t) = held[t] \cup {ptr[t]} /\ Owned(t)' = held[t]
  BY <1>1, <1>2, <1>3 DEF Owned, Hands
<1>6. /\ ptr[t] \notin held[t]
      /\ \A u \in Callers : u # t => ptr[t] \notin Owned(u)
  BY <1>1, <1>5 DEF NothingForgotten
<1>7. NothingForgotten'
  <2>1. allocated' = UNION {Owned(u)' : u \in Callers}
    BY <1>1, <1>2, <1>5, <1>6 DEF NothingForgotten
  <2>2. \A u, v \in Callers : u # v => Owned(u)' \cap Owned(v)' = {}
    BY <1>1, <1>5 DEF NothingForgotten
  <2>3. \A u \in Callers : ptr'[u] \notin held'[u]
    BY <1>1, <1>2, <1>3 DEF NothingForgotten, Hands
  <2> QED
    BY <2>1, <2>2, <2>3 DEF NothingForgotten
<1>8. \A u \in Callers : Tracked(u)' = Tracked(u)
  BY <1>1, <1>2 DEF Tracked, Hands
<1>9. \A b : InUse(b)' <=> InUse(b)
  BY <1>8 DEF InUse
<1>10. ~InUse(ptr[t])
  BY <1>1, <1>2, <1>3, NotInUse
<1>11. \A b \in Addresses : Matches(b)'
  BY <1>2, <1>9, <1>10, SameMatches DEF TrackerInv
<1>12. Table' /\ Counted' /\ Rounds'
  BY <1>1, <1>2, TableKept DEF Rounds
<1>13. TrackerTypeOK'
  BY <1>1, <1>2, <1>4, <1>12, TrackerTypes, TrackerTypesNext
<1> QED
  BY <1>4, <1>7, <1>11, <1>12, <1>13 DEF TrackerInv

-----------------------------------------------------------------------------

(* The steps that touch neither blocks nor table.                          *)
LEMMA OtherStep ==
    ASSUME TrackerInv, Rounds', monitoring' \in BOOLEAN,
           UNCHANGED <<allocated, tableVars, at, ptr, held, untracked, missed>>
    PROVE  TrackerInv'
<1>1. /\ TrackerTypeOK /\ NothingForgotten /\ InHand /\ Counted
      /\ Table /\ Hands
  BY TrackerTypes DEF TrackerInv
<1>2. Hands' /\ InHand' /\ NothingForgotten'
  BY <1>1 DEF Hands, InHand, NothingForgotten, Owned
<1>3. \A b : InUse(b)' <=> InUse(b)
  BY DEF InUse, Tracked
<1>4. \A b \in Addresses : Matches(b)'
  BY <1>3, SameMatches DEF TrackerInv
<1>5. Table' /\ Counted'
  BY <1>1, TableKept
<1>6. TrackerTypeOK'
  BY <1>1, <1>2, <1>5, TrackerTypes, TrackerTypesNext
<1> QED
  BY <1>2, <1>4, <1>5, <1>6 DEF TrackerInv

LEMMA TrackerInvStep ==
    ASSUME TrackerInv, [TrackerNext]_trackerVars PROVE TrackerInv'
<1>1. Rounds /\ monitoring \in BOOLEAN
  BY TrackerTypes DEF TrackerInv
<1>2. CASE UNCHANGED trackerVars
  BY <1>1, <1>2, OtherStep DEF trackerVars, Rounds
<1>3. CASE memory_monitor_task
  BY <1>1, <1>3, OtherStep
  DEF memory_monitor_task, MonitorTakes, MonitorGives, Rounds
<1>4. ASSUME NEW t \in Callers, NextRound(t) PROVE TrackerInv'
  <2>1. Calls[t] \in Nat
    BY TrackerAssumption DEF TrackerAssumption
  <2>2. Rounds'
    BY <1>1, <1>4, <2>1 DEF NextRound, Rounds
  <2> QED
    BY <1>1, <1>4, <2>2, OtherStep DEF NextRound
<1>5. ASSUME NEW t \in Callers, Task(t) PROVE TrackerInv'
  BY <1>4, <1>5, MallocStep, EnterStep, FreeBlockStep, StrikeStep,
     StrikeTimeoutStep, HeapFreeStep DEF Task
<1> QED
  BY <1>2, <1>3, <1>5 DEF TrackerNext

LEMMA TrackerAlways == TrackerSpec => []TrackerInv
BY TrackerInvInit, TrackerInvStep, PTL DEF TrackerSpec

(* TableMatchesHeap, for any tasks, table and heap: tracked_malloc and     *)
(* tracked_free keep the table true to the heap, and the counters to the   *)
(* table, whatever could not be entered or struck out in time.             *)
THEOREM TableIsTrue == TrackerSpec => []TableMatchesHeap
<1>1. TrackerInv => TableMatchesHeap
  BY DEF TrackerInv, TableMatchesHeap, Matches, Counted
<1> QED
  BY <1>1, TrackerAlways, PTL

(* NothingForgotten, for any tasks: each block of the heap belongs to the  *)
(* one task that is to free it.                                            *)
THEOREM BlocksHaveOwners == TrackerSpec => []NothingForgotten
<1>1. TrackerInv => NothingForgotten
  BY DEF TrackerInv
<1> QED
  BY <1>1, TrackerAlways, PTL

=============================================================================
