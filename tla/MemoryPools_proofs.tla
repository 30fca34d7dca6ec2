------------------------- MODULE MemoryPools_proofs -------------------------
(***************************************************************************)
(* Proofs about MemoryPools for every number of pools, blocks and clients. *)
(***************************************************************************)
EXTENDS MemoryPools, FiniteSetTheorems, TLAPS

(* Where a task holds the mutex of its pool, and where a block.            *)
Critical(t) == pc[t] \in {"pop", "mark", "push", "link", "checking"}
Handling(t) == pc[t] \in {"mark", "free", "push", "link", "heapfree"}

(* A mutex is held by the task that works on its pool under it.            *)
MutexHeld ==
    \A t \in Tasks, p \in Pools : mutex[p] = t <=> Critical(t) /\ pool[t] = p

(* A block in hand belongs to the task's pool; what it is marked follows   *)
(* from where the task is.                                                 *)
InHand ==
    \A t \in Tasks :
        /\ block[t] # NULL <=> Handling(t)
        /\ Handling(t) => PoolOf(block[t]) = pool[t]
        /\ pc[t] \in {"mark", "link"} => magic[block[t]] = "FREE"
        /\ pc[t] \in {"free", "push", "heapfree"} => magic[block[t]] = "ALLOC"

(* Who is where: the monitor does nothing else than check, and the pattern *)
(* test asks for memory in one of its loops and gives it back in the other.*)
Roles ==
    /\ pc[Monitor] \in {"idle", "checking"}
    /\ \A t \in Users : pc[t] # "checking"
    /\ pc[Pattern] \in {"malloc", "pop", "mark", "heap"} =>
          ~draining /\ i <= NTests
    /\ IF draining THEN i <= test_count + 1 ELSE test_count < i

(* Blocks with a pointer to them, or forgotten, are marked allocated.      *)
KeptAreMarked ==
    /\ \A c \in Clients : \A b \in held[c] : magic[b] = "ALLOC"
    /\ \A k \in 1..NTests : tests[k] \in Block => magic[tests[k]] = "ALLOC"
    /\ \A b \in lost : magic[b] = "ALLOC"

(* No two claims to the same block: in hand, held, in the array, forgotten.*)
Apart ==
    /\ \A t, u \in Tasks : t # u /\ block[t] # NULL => block[t] # block[u]
    /\ \A t \in Tasks : block[t] # NULL =>
          /\ \A c \in Clients : block[t] \notin held[c]
          /\ \A k \in 1..NTests : tests[k] # block[t]
          /\ block[t] \notin lost
    /\ \A c, d \in Clients : c # d => held[c] \cap held[d] = {}
    /\ \A c \in Clients : held[c] \cap lost = {}
    /\ \A k \in 1..NTests :
          /\ \A c \in Clients : tests[k] \notin held[c]
          /\ tests[k] \notin lost
          /\ \A l \in 1..NTests : tests[k] \in Block /\ tests[k] = tests[l] => k = l

(* The blocks that should be on a pool's list: marked free, and not taken  *)
(* off it or on their way back.                                            *)
Unlinked(b) == \E t \in Tasks : pc[t] \in {"mark", "link"} /\ block[t] = b
Listed(p) ==
    {b \in Block : PoolOf(b) = p /\ magic[b] = "FREE" /\ ~Unlinked(b)}

(* s is the list of pool p, of length n.                                   *)
IsList(p, n, s) ==
    /\ s \in [1..n -> Block]
    /\ free_list[p] = IF n = 0 THEN NULL ELSE s[1]
    /\ \A k \in 1..n : next[s[k]] = IF k = n THEN NULL ELSE s[k + 1]
    /\ \A k, l \in 1..n : s[k] = s[l] => k = l
    /\ \A k \in 1..n : s[k] \in Listed(p)
    /\ \A b \in Listed(p) : \E k \in 1..n : s[k] = b

HasList(p) == \E n \in Nat : \E s \in [1..n -> Block] : IsList(p, n, s)
Lists == \A p \in Pools : HasList(p)

(* A block about to be linked already points to the list.                  *)
Pointed ==
    \A t \in Tasks : pc[t] = "link" => next[block[t]] = free_list[pool[t]]

(* Bitmap and counter; the counter lags behind while a block is linked.    *)
Linking(p) == \E t \in Tasks : pc[t] = "link" /\ pool[t] = p
Allocated(p) == {b \in Block : PoolOf(b) = p /\ magic[b] = "ALLOC"}
Books ==
    \A p \in Pools :
        /\ usage_bitmap[p] = Allocated(p)
        /\ allocated_blocks[p]
              = Cardinality(usage_bitmap[p]) + IF Linking(p) THEN 1 ELSE 0

Inv == /\ TypeOK /\ MutexHeld /\ InHand /\ Roles /\ KeptAreMarked /\ Apart
       /\ Lists /\ Pointed /\ Books /\ ~alarm
-----------------------------------------------------------------------------
(* Blocks and tasks                                                        *)

LEMMA Blocks ==
    /\ \A p \in Pools : BlockCount[p] \in Nat \ {0}
    /\ \A b \in Block : /\ PoolOf(b) \in Pools
                        /\ b[2] \in 0..(BlockCount[PoolOf(b)] - 1)
                        /\ b = <<PoolOf(b), b[2]>>
    /\ \A p \in Pools, j \in Nat :
          j < BlockCount[p] => <<p, j>> \in Block /\ PoolOf(<<p, j>>) = p
    /\ NULL \notin Block /\ HEAP \notin Block /\ HEAP # NULL
<1>1. \A p \in Pools : BlockCount[p] \in Nat \ {0}
  BY PoolsAssumption
<1>2. ASSUME NEW b \in Block
      PROVE  /\ PoolOf(b) \in Pools
             /\ b[2] \in 0..(BlockCount[PoolOf(b)] - 1)
             /\ b = <<PoolOf(b), b[2]>>
  <2>1. PICK p \in Pools : b \in {p} \X (0..(BlockCount[p] - 1))
    BY DEF Block
  <2>2. PICK j \in 0..(BlockCount[p] - 1) : b = <<p, j>>
    BY <2>1
  <2> QED BY <2>2 DEF PoolOf
<1>3. ASSUME NEW p \in Pools, NEW j \in Nat, j < BlockCount[p]
      PROVE  <<p, j>> \in Block /\ PoolOf(<<p, j>>) = p
  <2>1. <<p, j>> \in {p} \X (0..(BlockCount[p] - 1))
    BY <1>1, <1>3
  <2> QED BY <2>1 DEF Block, PoolOf
<1> QED BY <1>1, <1>2, <1>3, PoolsAssumption

LEMMA PoolIsFinite ==
    ASSUME NEW p \in Pools, NEW S, \A b \in S : b \in Block /\ PoolOf(b) = p
    PROVE  IsFiniteSet(S) /\ Cardinality(S) \in Nat
<1>1. IsFiniteSet({p} \X (0..(BlockCount[p] - 1)))
  <2>1. IsFiniteSet(0..(BlockCount[p] - 1))
    <3>1. BlockCount[p] - 1 \in Int
      BY Blocks
    <3> QED BY <3>1, FS_Interval
  <2>2. IsFiniteSet({p})
    BY FS_Singleton
  <2> QED BY <2>1, <2>2, FS_Product
<1>2. S \subseteq {p} \X (0..(BlockCount[p] - 1))
  BY Blocks
<1> QED BY <1>1, <1>2, FS_Subset, FS_CardinalityType

LEMMA Who ==
    /\ Users = Clients \cup {Pattern} /\ Tasks = Users \cup {Monitor}
    /\ Pattern \notin Clients /\ Monitor \notin Users
    /\ NULL \notin Tasks
BY PoolsAssumption DEF Users, Tasks

(* What a call of the allocator does with its result.                      *)
LEMMA Returns ==
    ASSUME TypeOK, NEW t \in Users, NEW x \in Block \cup {NULL, HEAP}, Return(t, x),
           t = Pattern => i <= NTests /\ test_count < i
    PROVE  /\ held' \in [Clients -> SUBSET Block]
           /\ tests' \in [1..NTests -> Block \cup {NULL, HEAP}]
           /\ i' \in 1..(NTests + 1) /\ test_count' \in 0..NTests
           /\ draining' = draining /\ lost' \subseteq Block
           /\ pc' = [pc EXCEPT ![t] = "idle"]
<1>1. /\ NTests \in Nat /\ i \in 1..(NTests + 1) /\ test_count \in 0..NTests
      /\ held \in [Clients -> SUBSET Block] /\ lost \subseteq Block
      /\ tests \in [1..NTests -> Block \cup {NULL, HEAP}]
      /\ pc' = [pc EXCEPT ![t] = "idle"]
  BY PoolsAssumption DEF TypeOK, Return, GoTo
<1>2. CASE t = Pattern
  <2>1. /\ tests' = [tests EXCEPT ![i] = x]
        /\ lost' = lost \cup ({tests[i]} \cap Block)
        /\ test_count' = IF x = NULL THEN test_count ELSE test_count + 1
        /\ i' = i + 1 /\ held' = held /\ draining' = draining
    BY <1>2 DEF Return
  <2>2. i \in 1..NTests /\ test_count + 1 \in 0..NTests
    BY <1>1, <1>2
  <2> QED BY <1>1, <2>1, <2>2
<1>3. CASE t # Pattern
  <2>1. /\ held' = IF x \in Block THEN [held EXCEPT ![t] = @ \cup {x}] ELSE held
        /\ tests' = tests /\ i' = i /\ test_count' = test_count
        /\ draining' = draining /\ lost' = lost
    BY <1>3 DEF Return
  <2>2. t \in Clients
    BY <1>3, Who
  <2> QED BY <1>1, <2>1, <2>2
<1> QED BY <1>2, <1>3

(* Every value keeps its type.                                             *)
LEMMA TypeStep ==
    ASSUME TypeOK, InHand, Roles, Books, [Next]_vars
    PROVE  TypeOK'
<1> USE Blocks, Who DEF GoTo, Take, Give, TryNext, listVars, userVars, Phase
<1>t. /\ pc \in [Tasks -> Phase]
      /\ pool \in [Tasks -> Pools] /\ block \in [Tasks -> Block \cup {NULL}]
      /\ mutex \in [Pools -> Tasks \cup {NULL}]
  BY DEF TypeOK
<1>1. ASSUME NEW t \in Users,
             Request(t) \/ MallocTake(t) \/ MallocTimeout(t) \/ FreeTake(t) \/ FreeTimeout(t)
      PROVE  TypeOK'
  <2>1. pc' \in [Tasks -> Phase]
    BY <1>t, <1>1 DEF Request, MallocTake, MallocTimeout, FreeTake, FreeTimeout
  <2>2. pool' \in [Tasks -> Pools]
    <3>1. pool[t] < POOL_COUNT => pool[t] + 1 \in Pools
      BY <1>t, PoolsAssumption DEF Pools
    <3> QED BY <1>t, <1>1, <3>1 DEF Request, MallocTake, MallocTimeout, FreeTake, FreeTimeout
  <2>3. mutex' \in [Pools -> Tasks \cup {NULL}]
    BY <1>t, <1>1 DEF Request, MallocTake, MallocTimeout, FreeTake, FreeTimeout
  <2>4. UNCHANGED <<listVars, block, userVars, alarm, misfreed>>
    BY <1>1 DEF Request, MallocTake, MallocTimeout, FreeTake, FreeTimeout
  <2> QED BY <2>1, <2>2, <2>3, <2>4 DEF TypeOK
<1>2. ASSUME NEW t \in Users, Pop(t)
      PROVE  TypeOK'
  <2>1. pool[t] < POOL_COUNT => pool[t] + 1 \in Pools
    BY <1>t, PoolsAssumption DEF Pools
  <2>2. free_list \in [Pools -> Block \cup {NULL}] /\ next \in [Block -> Block \cup {NULL}]
    BY DEF TypeOK
  <2>3. UNCHANGED <<next, magic, usage_bitmap, allocated_blocks, userVars, alarm, misfreed>>
    BY <1>2 DEF Pop
  <2>4. /\ free_list' \in [Pools -> Block \cup {NULL}]
        /\ block' \in [Tasks -> Block \cup {NULL}]
    BY <1>2, <1>t, <2>2 DEF Pop
  <2>5. mutex' \in [Pools -> Tasks \cup {NULL}] /\ pool' \in [Tasks -> Pools]
    BY <1>2, <1>t, <2>1 DEF Pop
  <2>6. pc' \in [Tasks -> Phase]
    BY <1>2, <1>t DEF Pop
  <2> QED BY <2>3, <2>4, <2>5, <2>6 DEF TypeOK
<1>3. ASSUME NEW t \in Users, Mark(t)
      PROVE  TypeOK'
  <2>1. block[t] \in Block /\ (t = Pattern => i <= NTests /\ test_count < i)
    BY <1>3, <1>t DEF Mark, InHand, Handling, Roles
  <2>2. /\ held' \in [Clients -> SUBSET Block]
        /\ tests' \in [1..NTests -> Block \cup {NULL, HEAP}]
        /\ i' \in 1..(NTests + 1) /\ test_count' \in 0..NTests
        /\ draining' = draining /\ lost' \subseteq Block
        /\ pc' = [pc EXCEPT ![t] = "idle"]
    BY <1>3, <2>1, Returns DEF Mark
  <2>3. /\ free_list' = free_list /\ pool' = pool /\ alarm' = alarm /\ misfreed' = misfreed
        /\ mutex' = [mutex EXCEPT ![pool[t]] = NULL]
        /\ block' = [block EXCEPT ![t] = NULL]
        /\ magic' = [magic EXCEPT ![block[t]] = "ALLOC"]
        /\ next' = [next EXCEPT ![block[t]] = NULL]
        /\ allocated_blocks' = [allocated_blocks EXCEPT ![pool[t]] = @ + 1]
        /\ usage_bitmap' = [usage_bitmap EXCEPT ![pool[t]] = @ \cup {block[t]}]
    BY <1>3 DEF Mark
  <2> QED BY <1>t, <2>1, <2>2, <2>3 DEF TypeOK
<1>4. ASSUME NEW t \in Users, HeapMalloc(t)
      PROVE  TypeOK'
  <2>1. PICK x \in {HEAP, NULL} : Return(t, x)
    BY <1>4 DEF HeapMalloc
  <2>2. t = Pattern => i <= NTests /\ test_count < i
    BY <1>4, <1>t DEF HeapMalloc, Roles
  <2>3. /\ held' \in [Clients -> SUBSET Block]
        /\ tests' \in [1..NTests -> Block \cup {NULL, HEAP}]
        /\ i' \in 1..(NTests + 1) /\ test_count' \in 0..NTests
        /\ draining' = draining /\ lost' \subseteq Block
        /\ pc' = [pc EXCEPT ![t] = "idle"]
    BY <2>1, <2>2, Returns
  <2> QED BY <1>t, <1>4, <2>3 DEF HeapMalloc, TypeOK
<1>5. ASSUME NEW t \in Users, Push(t)
      PROVE  TypeOK'
  <2>1. block[t] \in Block
    BY <1>5, <1>t DEF Push, InHand, Handling
  <2>2. UNCHANGED <<free_list, allocated_blocks, pool, block, userVars, alarm, misfreed>>
    BY <1>5 DEF Push
  <2>3. /\ usage_bitmap' \in [Pools -> SUBSET Block]
        /\ magic' \in [Block -> {"FREE", "ALLOC"}]
        /\ next' \in [Block -> Block \cup {NULL}]
    <3>1. /\ usage_bitmap \in [Pools -> SUBSET Block]
          /\ magic \in [Block -> {"FREE", "ALLOC"}]
          /\ next \in [Block -> Block \cup {NULL}]
          /\ free_list \in [Pools -> Block \cup {NULL}]
      BY DEF TypeOK
    <3>2. CASE magic[block[t]] # "ALLOC"
      BY <1>5, <3>1, <3>2 DEF Push
    <3>3. CASE magic[block[t]] = "ALLOC"
      <4>1. /\ usage_bitmap' = [usage_bitmap EXCEPT ![pool[t]] = @ \ {block[t]}]
            /\ magic' = [magic EXCEPT ![block[t]] = "FREE"]
            /\ next' = [next EXCEPT ![block[t]] = free_list[pool[t]]]
        BY <1>5, <3>3 DEF Push
      <4> QED BY <1>t, <2>1, <3>1, <4>1
    <3> QED BY <3>2, <3>3
  <2>4. mutex' \in [Pools -> Tasks \cup {NULL}]
    BY <1>5, <1>t DEF Push
  <2>5. pc' \in [Tasks -> Phase]
    BY <1>5, <1>t DEF Push
  <2> QED BY <2>2, <2>3, <2>4, <2>5 DEF TypeOK
<1>6. ASSUME NEW t \in Users, Link(t)
      PROVE  TypeOK'
  <2>1. block[t] \in Block
    BY <1>6, <1>t DEF Link, InHand, Handling
  <2>2. allocated_blocks[pool[t]] - 1 \in Nat
    <3>1. Linking(pool[t])
      BY <1>6, <1>t DEF Link, Linking
    <3>2. Cardinality(usage_bitmap[pool[t]]) \in Nat
      BY <1>t, PoolIsFinite DEF Books, Allocated
    <3> QED BY <1>t, <3>1, <3>2 DEF Books
  <2>3. allocated_blocks' \in [Pools -> Nat]
    BY <1>6, <1>t, <2>2 DEF Link, TypeOK
  <2> QED BY <1>6, <1>t, <2>1, <2>3 DEF Link, TypeOK
<1>7. ASSUME NEW t \in Users, HeapFree(t)
      PROVE  TypeOK'
  <2>1. block[t] \in Block
    BY <1>7, <1>t DEF HeapFree, InHand, Handling
  <2> QED BY <1>7, <1>t, <2>1 DEF HeapFree, TypeOK
<1>8. ASSUME NEW c \in Clients, ClientFree(c)
      PROVE  TypeOK'
  BY <1>8, <1>t DEF ClientFree, Free, TypeOK
<1>9. CASE PatternFree
  <2>1. i \in 1..NTests /\ i + 1 \in 1..(NTests + 1)
    BY <1>9, PoolsAssumption DEF PatternFree, TypeOK
  <2>2. UNCHANGED <<listVars, mutex, held, test_count, draining, alarm, lost, misfreed>>
    BY <1>9 DEF PatternFree
  <2>3. tests' \in [1..NTests -> Block \cup {NULL, HEAP}] /\ i' = i + 1
    BY <1>9, <2>1 DEF PatternFree, TypeOK
  <2>4. block' \in [Tasks -> Block \cup {NULL}] /\ pool' \in [Tasks -> Pools]
    BY <1>9, <1>t DEF PatternFree, Free
  <2>5. pc' \in [Tasks -> Phase]
    BY <1>9, <1>t DEF PatternFree, Free
  <2> QED BY <2>1, <2>2, <2>3, <2>4, <2>5 DEF TypeOK
<1>10. CASE StartDraining \/ NextRound
  <2>0. NTests \in Nat /\ test_count \in 0..NTests
    BY PoolsAssumption DEF TypeOK
  <2>1. i' \in 1..(NTests + 1) /\ test_count' \in 0..NTests
    BY <1>10, <2>0 DEF StartDraining, NextRound
  <2>3. draining' \in BOOLEAN
    BY <1>10 DEF StartDraining, NextRound
  <2>2. UNCHANGED <<listVars, mutex, pc, pool, block, held, tests, alarm, lost, misfreed>>
    BY <1>10 DEF StartDraining, NextRound
  <2> QED BY <2>1, <2>2, <2>3 DEF TypeOK
<1>11. CASE MonitorTake \/ MonitorCheck
  <2>1. mutex' \in [Pools -> Tasks \cup {NULL}] /\ pool' \in [Tasks -> Pools]
    BY <1>11, <1>t DEF MonitorTake, MonitorCheck
  <2>2. pc' \in [Tasks -> Phase]
    BY <1>11, <1>t DEF MonitorTake, MonitorCheck
  <2>3. alarm' \in BOOLEAN
    <3>1. (alarm \/ ~ListIsSound(pool[Monitor])) \in BOOLEAN
      OBVIOUS
    <3>2. alarm \in BOOLEAN
      BY DEF TypeOK
    <3> QED BY <1>11, <3>1, <3>2 DEF MonitorTake, MonitorCheck
  <2>4. UNCHANGED <<listVars, block, userVars, misfreed>>
    BY <1>11 DEF MonitorTake, MonitorCheck
  <2> QED BY <2>1, <2>2, <2>3, <2>4 DEF TypeOK
<1>12. CASE UNCHANGED vars
  BY <1>12 DEF vars, TypeOK
<1> QED
  BY <1>1, <1>2, <1>3, <1>4, <1>5, <1>6, <1>7, <1>8, <1>9, <1>10, <1>11, <1>12
     DEF Next, User

(* The head of a list is one of the pool's free blocks.                    *)
LEMMA Heads ==
    ASSUME Lists, NEW p \in Pools, free_list[p] # NULL
    PROVE  free_list[p] \in Listed(p)
<1>1. PICK n \in Nat : \E s \in [1..n -> Block] : IsList(p, n, s)
  BY DEF Lists, HasList
<1>2. PICK s \in [1..n -> Block] : IsList(p, n, s)
  BY <1>1
<1>3. n # 0 /\ free_list[p] = s[1]
  BY <1>2 DEF IsList
<1> QED BY <1>2, <1>3 DEF IsList

(* A mutex stays with the task that works under it.                        *)
LEMMA MutexStep ==
    ASSUME TypeOK, MutexHeld, Roles, [Next]_vars
    PROVE  MutexHeld'
<1> USE Who DEF GoTo, Take, Give, TryNext, Critical, MutexHeld, listVars
<1>t. /\ pc \in [Tasks -> Phase] /\ pool \in [Tasks -> Pools]
      /\ mutex \in [Pools -> Tasks \cup {NULL}]
  BY DEF TypeOK
<1>1. ASSUME NEW t \in Users, Request(t)
      PROVE  MutexHeld'
  BY <1>t, <1>1 DEF Request
<1>2. ASSUME NEW t \in Users, MallocTake(t) \/ FreeTake(t)
      PROVE  MutexHeld'
  BY <1>t, <1>2 DEF MallocTake, FreeTake
<1>3. ASSUME NEW t \in Users, MallocTimeout(t)
      PROVE  MutexHeld'
  BY <1>t, <1>3 DEF MallocTimeout
<1>4. ASSUME NEW t \in Users, FreeTimeout(t) \/ HeapFree(t)
      PROVE  MutexHeld'
  BY <1>t, <1>4 DEF FreeTimeout, HeapFree
<1>5. ASSUME NEW t \in Users, Pop(t)
      PROVE  MutexHeld'
  <2>1. CASE UNCHANGED <<mutex, pool>> /\ GoTo(t, "mark")
    BY <1>t, <1>5, <2>1 DEF Pop
  <2>2. CASE TryNext(t) /\ Give(t)
    BY <1>t, <1>5, <2>2 DEF Pop
  <2> QED BY <1>5, <2>1, <2>2 DEF Pop
<1>6. ASSUME NEW t \in Users, Mark(t) \/ HeapMalloc(t)
      PROVE  MutexHeld'
  <2>1. pc' = [pc EXCEPT ![t] = "idle"]
    BY <1>6 DEF Mark, HeapMalloc, Return
  <2> QED BY <1>t, <1>6, <2>1 DEF Mark, HeapMalloc
<1>7. ASSUME NEW t \in Users, Push(t)
      PROVE  MutexHeld'
  <2>1. CASE UNCHANGED mutex /\ GoTo(t, "link")
    BY <1>t, <1>7, <2>1 DEF Push
  <2>2. CASE Give(t) /\ GoTo(t, "heapfree")
    BY <1>t, <1>7, <2>2 DEF Push
  <2> QED BY <1>7, <2>1, <2>2 DEF Push
<1>8. ASSUME NEW t \in Users, Link(t)
      PROVE  MutexHeld'
  BY <1>t, <1>8 DEF Link
<1>9. ASSUME NEW c \in Clients, ClientFree(c)
      PROVE  MutexHeld'
  BY <1>t, <1>9 DEF ClientFree, Free
<1>10. CASE PatternFree
  BY <1>t, <1>10 DEF PatternFree, Free
<1>11. CASE MonitorTake
  BY <1>t, <1>11 DEF MonitorTake
<1>12. CASE MonitorCheck
  BY <1>t, <1>12 DEF MonitorCheck
<1>13. CASE StartDraining \/ NextRound \/ UNCHANGED vars
  BY <1>13 DEF StartDraining, NextRound, vars
<1> QED
  BY <1>1, <1>2, <1>3, <1>4, <1>5, <1>6, <1>7, <1>8, <1>9, <1>10, <1>11, <1>12,
     <1>13 DEF Next, User

(* The pattern test keeps count and index in step.                         *)
LEMMA RoleStep ==
    ASSUME TypeOK, Roles, [Next]_vars
    PROVE  Roles'
<1> USE Who DEF GoTo, TryNext, Roles, userVars
<1>t. /\ pc \in [Tasks -> Phase] /\ i \in Nat \ {0} /\ test_count \in Nat /\ NTests \in Nat
      /\ draining \in BOOLEAN
  BY PoolsAssumption DEF TypeOK
<1>1. ASSUME NEW t \in Users,
             \/ Request(t) \/ MallocTake(t) \/ FreeTake(t) \/ MallocTimeout(t)
             \/ FreeTimeout(t) \/ HeapFree(t) \/ Pop(t) \/ Push(t) \/ Link(t)
      PROVE  Roles'
  <2>1. UNCHANGED <<i, test_count, draining>>
    BY <1>1 DEF Request, MallocTake, FreeTake, MallocTimeout, FreeTimeout,
       HeapFree, Pop, Push, Link
  <2>2. /\ \A u \in Tasks : u # t => pc'[u] = pc[u]
        /\ pc'[t] # "checking"
    BY <1>t, <1>1 DEF Request, MallocTake, FreeTake, MallocTimeout, FreeTimeout,
       HeapFree, Pop, Push, Link
  <2>3. t = Pattern /\ pc'[t] \in {"malloc", "pop", "mark", "heap"} => ~draining /\ i <= NTests
    BY <1>t, <1>1 DEF Request, MallocTake, FreeTake, MallocTimeout, FreeTimeout,
       HeapFree, Pop, Push, Link
  <2> QED BY <2>1, <2>2, <2>3
<1>2. ASSUME NEW t \in Users, Mark(t) \/ HeapMalloc(t)
      PROVE  Roles'
  <2>1. PICK x : Return(t, x) /\ pc[t] \in {"mark", "heap"}
    BY <1>2 DEF Mark, HeapMalloc
  <2>2. CASE t = Pattern
    <3>1. /\ i' = i + 1 /\ draining' = draining /\ test_count' \in {test_count, test_count + 1}
      BY <2>1, <2>2 DEF Return
    <3>2. ~draining /\ test_count < i
      BY <2>1, <2>2
    <3>3. ~draining' /\ test_count' < i'
      BY <1>t, <3>1, <3>2
    <3>4. pc' = [pc EXCEPT ![t] = "idle"]
      BY <2>1 DEF Return
    <3> QED BY <1>t, <2>2, <3>3, <3>4
  <2>3. CASE t # Pattern
    BY <1>t, <2>1, <2>3 DEF Return
  <2> QED BY <2>2, <2>3
<1>3. ASSUME NEW c \in Clients, ClientFree(c)
      PROVE  Roles'
  BY <1>t, <1>3 DEF ClientFree, Free
<1>4. CASE PatternFree
  BY <1>t, <1>4 DEF PatternFree, Free
<1>5. CASE StartDraining
  BY <1>t, <1>5 DEF StartDraining
<1>6. CASE NextRound
  BY <1>t, <1>6 DEF NextRound
<1>7. CASE MonitorTake \/ MonitorCheck
  BY <1>t, <1>7 DEF MonitorTake, MonitorCheck
<1>8. CASE UNCHANGED vars
  BY <1>8 DEF vars
<1> QED
  BY <1>1, <1>2, <1>3, <1>4, <1>5, <1>6, <1>7, <1>8 DEF Next, User

(* What each task has in hand stays what it should be.                     *)
LEMMA HandStep ==
    ASSUME TypeOK, InHand, KeptAreMarked, Apart, Lists, [Next]_vars
    PROVE  InHand'
<1> USE Who, Blocks DEF GoTo, Take, Give, TryNext, Handling, listVars, userVars
<1>t. /\ pc \in [Tasks -> Phase] /\ pool \in [Tasks -> Pools]
      /\ block \in [Tasks -> Block \cup {NULL}]
      /\ magic \in [Block -> {"FREE", "ALLOC"}]
  BY DEF TypeOK
<1>1. ASSUME NEW t \in Users,
             \/ Request(t) \/ MallocTake(t) \/ FreeTake(t) \/ MallocTimeout(t)
             \/ FreeTimeout(t) \/ HeapFree(t)
      PROVE  InHand'
  <2>1. UNCHANGED <<block, magic>>
    BY <1>1 DEF Request, MallocTake, FreeTake, MallocTimeout, FreeTimeout, HeapFree
  <2>2. \A u \in Tasks : u # t => pc'[u] = pc[u] /\ pool'[u] = pool[u]
    BY <1>t, <1>1 DEF Request, MallocTake, FreeTake, MallocTimeout, FreeTimeout, HeapFree
  <2>3. \/ ~Handling(t) /\ pc'[t] \in {"malloc", "pop", "heap"}
        \/ /\ pc[t] \in {"free", "heapfree"} /\ pc'[t] \in {"push", "heapfree"}
           /\ pool'[t] = pool[t]
    BY <1>t, <1>1 DEF Request, MallocTake, FreeTake, MallocTimeout, FreeTimeout, HeapFree
  <2> QED BY <2>1, <2>2, <2>3 DEF InHand
<1>2. ASSUME NEW t \in Users, Pop(t)
      PROVE  InHand'
  <2>1. CASE UNCHANGED block /\ TryNext(t)
    <3>1. pc'[t] \in {"malloc", "heap"} /\ ~Handling(t)
      BY <1>t, <1>2, <2>1 DEF Pop
    <3>2. \A u \in Tasks : u # t => pc'[u] = pc[u] /\ pool'[u] = pool[u]
      BY <1>t, <2>1
    <3> QED BY <1>2, <2>1, <3>1, <3>2 DEF Pop, InHand
  <2>2. CASE /\ free_list[pool[t]] # NULL
             /\ block' = [block EXCEPT ![t] = free_list[pool[t]]]
             /\ GoTo(t, "mark") /\ UNCHANGED pool
    <3>1. free_list[pool[t]] \in Listed(pool[t])
      BY <1>t, <2>2, Heads
    <3>2. magic' = magic
      BY <1>2 DEF Pop
    <3> QED BY <1>t, <2>2, <3>1, <3>2 DEF InHand, Listed
  <2> QED BY <1>2, <2>1, <2>2 DEF Pop
<1>3. ASSUME NEW t \in Users, Mark(t)
      PROVE  InHand'
  <2>1. block[t] \in Block
    BY <1>t, <1>3 DEF Mark, InHand
  <2>2. /\ pc' = [pc EXCEPT ![t] = "idle"] /\ block' = [block EXCEPT ![t] = NULL]
        /\ pool' = pool /\ magic' = [magic EXCEPT ![block[t]] = "ALLOC"]
    BY <1>3 DEF Mark, Return
  <2> QED BY <1>t, <2>1, <2>2 DEF InHand, Apart
<1>4. ASSUME NEW t \in Users, HeapMalloc(t)
      PROVE  InHand'
  <2>1. pc' = [pc EXCEPT ![t] = "idle"] /\ UNCHANGED <<block, pool, magic>> /\ ~Handling(t)
    BY <1>4 DEF HeapMalloc, Return
  <2> QED BY <1>t, <2>1 DEF InHand
<1>5. ASSUME NEW t \in Users, Push(t)
      PROVE  InHand'
  <2>1. block[t] \in Block /\ magic[block[t]] = "ALLOC"
    BY <1>t, <1>5 DEF Push, InHand
  <2>2. /\ pc' = [pc EXCEPT ![t] = "link"] /\ UNCHANGED <<block, pool>>
        /\ magic' = [magic EXCEPT ![block[t]] = "FREE"] /\ pc[t] = "push"
    BY <1>5, <2>1 DEF Push
  <2> QED BY <1>t, <2>1, <2>2 DEF InHand, Apart
<1>6. ASSUME NEW t \in Users, Link(t)
      PROVE  InHand'
  BY <1>t, <1>6 DEF Link, InHand
<1>7. ASSUME NEW c \in Clients, ClientFree(c)
      PROVE  InHand'
  <2>1. PICK b \in held[c] : Free(c, b)
    BY <1>7 DEF ClientFree
  <2>2. b \in Block /\ magic[b] = "ALLOC"
    BY <1>t DEF TypeOK, KeptAreMarked
  <2>3. magic' = magic
    BY <1>7 DEF ClientFree
  <2> QED BY <1>t, <2>1, <2>2, <2>3 DEF Free, InHand
<1>8. CASE PatternFree
  <2>1. magic' = magic /\ i \in 1..NTests
    BY <1>8, PoolsAssumption DEF PatternFree, TypeOK
  <2>2. CASE UNCHANGED <<block, pool, pc>>
    BY <2>1, <2>2 DEF InHand
  <2>3. CASE tests[i] \in Block /\ Free(Pattern, tests[i])
    <3>1. magic[tests[i]] = "ALLOC"
      BY <2>1, <2>3 DEF KeptAreMarked
    <3> QED BY <1>t, <2>1, <2>3, <3>1 DEF Free, InHand
  <2> QED BY <1>8, <2>2, <2>3 DEF PatternFree
<1>9. CASE MonitorTake \/ MonitorCheck
  <2>1. UNCHANGED <<block, magic>> /\ ~Handling(Monitor)
    BY <1>9 DEF MonitorTake, MonitorCheck
  <2>2. /\ \A u \in Tasks : u # Monitor => pc'[u] = pc[u] /\ pool'[u] = pool[u]
        /\ pc'[Monitor] \in {"idle", "checking"}
    BY <1>t, <1>9 DEF MonitorTake, MonitorCheck
  <2> QED BY <2>1, <2>2 DEF InHand
<1>10. CASE StartDraining \/ NextRound \/ UNCHANGED vars
  BY <1>10 DEF StartDraining, NextRound, vars, InHand
<1> QED
  BY <1>1, <1>2, <1>3, <1>4, <1>5, <1>6, <1>7, <1>8, <1>9, <1>10 DEF Next, User

(* A claim to a block goes with the mark ALLOC.                            *)
LEMMA KeptStep ==
    ASSUME TypeOK, InHand, Roles, KeptAreMarked, Apart, [Next]_vars
    PROVE  KeptAreMarked'
<1> USE Who, Blocks DEF listVars, userVars
<1>t. /\ pc \in [Tasks -> Phase] /\ block \in [Tasks -> Block \cup {NULL}]
      /\ magic \in [Block -> {"FREE", "ALLOC"}]
      /\ held \in [Clients -> SUBSET Block]
      /\ tests \in [1..NTests -> Block \cup {NULL, HEAP}] /\ lost \subseteq Block
      /\ i \in Nat \ {0} /\ NTests \in Nat
  BY PoolsAssumption DEF TypeOK
<1>1. ASSUME UNCHANGED <<magic, held, tests, lost>>
      PROVE  KeptAreMarked'
  BY <1>1 DEF KeptAreMarked
<1>2. ASSUME NEW t \in Users, NEW x \in Block \cup {NULL, HEAP}, Return(t, x),
             pc[t] \in {"mark", "heap"},
             \A b \in Block : magic'[b] = "ALLOC" <=> magic[b] = "ALLOC" \/ b = x
      PROVE  KeptAreMarked'
  <2>1. CASE t = Pattern
    <3>1. /\ held' = held /\ tests' = [tests EXCEPT ![i] = x]
          /\ lost' = lost \cup ({tests[i]} \cap Block)
      BY <1>2, <2>1 DEF Return
    <3>2. i \in 1..NTests
      BY <1>t, <1>2, <2>1 DEF Roles
    <3> QED BY <1>t, <1>2, <3>1, <3>2 DEF KeptAreMarked
  <2>2. CASE t # Pattern
    <3>1. /\ held' = IF x \in Block THEN [held EXCEPT ![t] = @ \cup {x}] ELSE held
          /\ UNCHANGED <<tests, lost>>
      BY <1>2, <2>2 DEF Return
    <3> QED BY <1>t, <1>2, <3>1 DEF KeptAreMarked
  <2> QED BY <2>1, <2>2
<1>3. ASSUME NEW t \in Users, Mark(t)
      PROVE  KeptAreMarked'
  <2>1. /\ block[t] \in Block /\ Return(t, block[t]) /\ pc[t] = "mark"
        /\ magic' = [magic EXCEPT ![block[t]] = "ALLOC"]
    BY <1>t, <1>3 DEF Mark, InHand, Handling
  <2> QED BY <1>t, <1>2, <2>1
<1>4. ASSUME NEW t \in Users, HeapMalloc(t)
      PROVE  KeptAreMarked'
  <2>1. magic' = magic /\ pc[t] = "heap"
    BY <1>4 DEF HeapMalloc
  <2>2. PICK x \in {HEAP, NULL} : Return(t, x)
    BY <1>4 DEF HeapMalloc
  <2> QED BY <1>t, <1>2, <2>1, <2>2
<1>5. ASSUME NEW t \in Users, Push(t)
      PROVE  KeptAreMarked'
  <2>1. block[t] \in Block /\ magic[block[t]] = "ALLOC"
    BY <1>t, <1>5 DEF Push, InHand, Handling
  <2>2. magic' = [magic EXCEPT ![block[t]] = "FREE"] /\ UNCHANGED <<held, tests, lost>>
    BY <1>5, <2>1 DEF Push
  <2>3. \A x \in Block : x # block[t] => magic'[x] = magic[x]
    BY <1>t, <2>2
  <2>4. /\ \A c \in Clients : block[t] \notin held[c]
        /\ \A k \in 1..NTests : tests[k] # block[t]
        /\ block[t] \notin lost
    BY <2>1 DEF Apart
  <2> QED BY <1>t, <2>2, <2>3, <2>4 DEF KeptAreMarked
<1>6. ASSUME NEW c \in Clients, ClientFree(c)
      PROVE  KeptAreMarked'
  BY <1>t, <1>6 DEF ClientFree, KeptAreMarked
<1>7. CASE PatternFree
  BY <1>t, <1>7 DEF PatternFree, KeptAreMarked
<1> QED
  BY <1>1, <1>3, <1>4, <1>5, <1>6, <1>7 DEF Next, User, Request, MallocTake,
     MallocTimeout, Pop, FreeTake, FreeTimeout, Link, HeapFree, StartDraining,
     NextRound, MonitorTake, MonitorCheck, vars

(* No step makes a second claim to a block.                                *)
LEMMA ApartStep ==
    ASSUME TypeOK, InHand, Roles, KeptAreMarked, Apart, Lists, [Next]_vars
    PROVE  Apart'
<1> USE Who, Blocks DEF listVars, userVars
<1>t. /\ pc \in [Tasks -> Phase] /\ pool \in [Tasks -> Pools]
      /\ block \in [Tasks -> Block \cup {NULL}]
      /\ held \in [Clients -> SUBSET Block]
      /\ tests \in [1..NTests -> Block \cup {NULL, HEAP}] /\ lost \subseteq Block
      /\ i \in Nat \ {0} /\ NTests \in Nat
  BY PoolsAssumption DEF TypeOK
<1>1. ASSUME UNCHANGED <<block, held, tests, lost>>
      PROVE  Apart'
  BY <1>1 DEF Apart
<1>2. ASSUME NEW t \in Tasks, NEW b \in Block, block' = [block EXCEPT ![t] = b],
             \A u \in Tasks : u # t => block[u] # b,
             \A c \in Clients : held'[c] \subseteq held[c] /\ b \notin held'[c],
             \A k \in 1..NTests : tests'[k] \in {tests[k], NULL} /\ tests'[k] # b,
             lost' = lost, b \notin lost
      PROVE  Apart'
  <2>1. \A u \in Tasks : block'[u] = IF u = t THEN b ELSE block[u]
    BY <1>t, <1>2
  <2>2. \A u, v \in Tasks : u # v /\ block'[u] # NULL => block'[u] # block'[v]
    BY <1>2, <2>1 DEF Apart
  <2>3. \A u \in Tasks : block'[u] # NULL =>
          /\ \A c \in Clients : block'[u] \notin held'[c]
          /\ \A k \in 1..NTests : tests'[k] # block'[u]
          /\ block'[u] \notin lost'
    BY <1>2, <2>1 DEF Apart
  <2>4. /\ \A c, d \in Clients : c # d => held'[c] \cap held'[d] = {}
        /\ \A c \in Clients : held'[c] \cap lost' = {}
    BY <1>2 DEF Apart
  <2>5. \A k \in 1..NTests : /\ \A c \in Clients : tests'[k] \notin held'[c]
                             /\ tests'[k] \notin lost'
    <3>1. NULL \notin lost /\ \A c \in Clients : NULL \notin held[c]
      BY <1>t
    <3>2. \A k \in 1..NTests, c \in Clients : tests[k] \notin held[c] /\ tests[k] \notin lost
      BY DEF Apart
    <3>3. \A k \in 1..NTests : tests[k] \notin lost
      BY DEF Apart
    <3>4. ASSUME NEW k \in 1..NTests, NEW c \in Clients
          PROVE  tests'[k] \notin held'[c]
      BY <1>2, <3>1, <3>2
    <3> QED BY <1>2, <3>1, <3>3, <3>4
  <2>6. \A k, l \in 1..NTests : tests'[k] \in Block /\ tests'[k] = tests'[l] => k = l
    BY <1>2 DEF Apart
  <2> QED BY <2>2, <2>3, <2>4, <2>5, <2>6 DEF Apart
<1>3. ASSUME NEW t \in Users, Pop(t)
      PROVE  Apart'
  <2>1. UNCHANGED <<held, tests, lost>>
    BY <1>3 DEF Pop
  <2>2. CASE UNCHANGED block
    BY <1>1, <2>1, <2>2
  <2>3. CASE /\ free_list[pool[t]] # NULL
             /\ block' = [block EXCEPT ![t] = free_list[pool[t]]]
    <3> DEFINE b == free_list[pool[t]]
    <3>1. b \in Block /\ magic[b] = "FREE" /\ ~Unlinked(b)
      BY <1>t, <2>3, Heads DEF Listed
    <3>2. ASSUME NEW u \in Tasks
          PROVE  block[u] # b
      BY <3>1, <1>t DEF Unlinked, InHand, Handling
    <3>3. /\ \A c \in Clients : b \notin held[c]
          /\ \A k \in 1..NTests : tests[k] # b
          /\ b \notin lost
      BY <3>1 DEF KeptAreMarked
    <3>4. /\ \A c \in Clients : held'[c] \subseteq held[c] /\ b \notin held'[c]
          /\ \A k \in 1..NTests : tests'[k] \in {tests[k], NULL} /\ tests'[k] # b
          /\ lost' = lost /\ block' = [block EXCEPT ![t] = b]
      BY <2>1, <2>3, <3>3
    <3> HIDE DEF b
    <3> QED BY <1>2, <3>1, <3>2, <3>3, <3>4
  <2> QED BY <1>3, <2>2, <2>3 DEF Pop
<1>4. ASSUME NEW t \in Users, NEW x \in Block \cup {NULL, HEAP}, Return(t, x),
             pc[t] \in {"mark", "heap"},
             \A u \in Tasks : /\ block'[u] \in {block[u], NULL}
                              /\ block'[u] # NULL => block'[u] # x,
             x \in Block => block[t] = x
      PROVE  Apart'
  <2>0. x \in Block => /\ \A c \in Clients : x \notin held[c]
                       /\ \A k \in 1..NTests : tests[k] # x
                       /\ x \notin lost
    BY <1>4 DEF Apart
  <2>1. CASE t = Pattern
    <3>1. /\ held' = held /\ tests' = [tests EXCEPT ![i] = x]
          /\ lost' = lost \cup ({tests[i]} \cap Block)
      BY <1>4, <2>1 DEF Return
    <3>2. i \in 1..NTests
      BY <1>t, <1>4, <2>1 DEF Roles
    <3>3. \A k \in 1..NTests : tests'[k] = IF k = i THEN x ELSE tests[k]
      BY <1>t, <3>1, <3>2
    <3>4. \A k \in 1..NTests : tests'[k] \notin lost'
      BY <1>t, <2>0, <3>1, <3>2, <3>3 DEF Apart
    <3>5. \A u \in Tasks : block'[u] # NULL => block'[u] \notin lost'
      BY <1>t, <1>4, <3>1, <3>2 DEF Apart
    <3>6. \A c \in Clients : held'[c] \cap lost' = {}
      BY <1>t, <3>1, <3>2 DEF Apart
    <3>7. \A k, l \in 1..NTests : tests'[k] \in Block /\ tests'[k] = tests'[l] => k = l
      BY <1>t, <2>0, <3>3 DEF Apart
    <3>8. \A k \in 1..NTests, c \in Clients : tests'[k] \notin held'[c]
      BY <1>t, <2>0, <3>1, <3>3 DEF Apart
    <3>9. \A u \in Tasks, k \in 1..NTests : block'[u] # NULL => tests'[k] # block'[u]
      BY <1>t, <1>4, <3>3 DEF Apart
    <3> QED BY <1>4, <3>1, <3>4, <3>5, <3>6, <3>7, <3>8, <3>9 DEF Apart
  <2>2. CASE t # Pattern
    <3>1. /\ held' = IF x \in Block THEN [held EXCEPT ![t] = @ \cup {x}] ELSE held
          /\ UNCHANGED <<tests, lost>>
      BY <1>4, <2>2 DEF Return
    <3>2. \A c \in Clients : held'[c] = IF c = t /\ x \in Block THEN held[c] \cup {x}
                                                               ELSE held[c]
      BY <1>t, <3>1
    <3> QED BY <1>t, <1>4, <2>0, <3>1, <3>2 DEF Apart
  <2> QED BY <2>1, <2>2
<1>5. ASSUME NEW t \in Users, Mark(t)
      PROVE  Apart'
  <2>1. /\ block[t] \in Block /\ Return(t, block[t]) /\ pc[t] = "mark"
        /\ block' = [block EXCEPT ![t] = NULL]
    BY <1>t, <1>5 DEF Mark, InHand, Handling
  <2>2. \A u \in Tasks : block'[u] \in {block[u], NULL} /\ block'[u] # block[t]
    BY <1>t, <2>1 DEF Apart
  <2> QED BY <1>4, <2>1, <2>2
<1>6. ASSUME NEW t \in Users, HeapMalloc(t)
      PROVE  Apart'
  <2>1. block' = block /\ pc[t] = "heap" /\ misfreed' = misfreed
    BY <1>6 DEF HeapMalloc
  <2>2. PICK x \in {HEAP, NULL} : Return(t, x)
    BY <1>6 DEF HeapMalloc
  <2>3. \A u \in Tasks : block'[u] = block[u] /\ (block[u] # NULL => block[u] # x)
    BY <1>t, <2>1, <2>2
  <2> QED BY <1>4, <2>1, <2>2, <2>3
<1>7. ASSUME NEW t \in Users, Link(t)
      PROVE  Apart'
  <2>1. block' = [block EXCEPT ![t] = NULL] /\ UNCHANGED <<held, tests, lost>>
    BY <1>7 DEF Link
  <2>2. \A u \in Tasks : block'[u] = IF u = t THEN NULL ELSE block[u]
    BY <1>t, <2>1
  <2> QED BY <2>1, <2>2 DEF Apart
<1>8. ASSUME NEW c \in Clients, ClientFree(c)
      PROVE  Apart'
  <2>1. PICK b \in held[c] : Free(c, b) /\ held' = [held EXCEPT ![c] = @ \ {b}]
    BY <1>8 DEF ClientFree
  <2>2. b \in Block /\ UNCHANGED <<tests, lost>>
    BY <1>t, <1>8 DEF ClientFree
  <2>3. \A d \in Clients : held'[d] \subseteq held[d] /\ b \notin held'[d]
    BY <1>t, <2>1 DEF Apart
  <2>4. block' = [block EXCEPT ![c] = b] /\ lost' = lost
    BY <2>1, <2>2 DEF Free
  <2>5. (\A u \in Tasks : u # c => block[u] # b) /\ b \notin lost
    BY <2>1, <2>2 DEF Apart
  <2>6. \A k \in 1..NTests : tests'[k] \in {tests[k], NULL} /\ tests'[k] # b
    BY <2>1, <2>2 DEF Apart
  <2>7. c \in Tasks /\ b \in Block /\ b \notin lost
    BY <2>2, <2>5
  <2>8. \A u \in Tasks : u # c => block[u] # b
    BY <2>5
  <2> QED BY ONLY <1>2, <2>3, <2>4, <2>6, <2>7, <2>8
<1>9. CASE PatternFree
  <2>1. /\ i \in 1..NTests /\ tests' = [tests EXCEPT ![i] = NULL]
        /\ UNCHANGED <<held, lost>>
    BY <1>9, PoolsAssumption DEF PatternFree, TypeOK
  <2>2. \A k \in 1..NTests : tests'[k] = IF k = i THEN NULL ELSE tests[k]
    BY <1>t, <2>1
  <2>3. CASE block' = block
    BY <1>t, <2>1, <2>2, <2>3 DEF Apart
  <2>4. CASE tests[i] \in Block /\ Free(Pattern, tests[i])
    <3>1. \A u \in Tasks : u # Pattern => block[u] # tests[i]
      BY <1>t, <2>1, <2>4 DEF Apart
    <3>2. \A c \in Clients : held'[c] \subseteq held[c] /\ tests[i] \notin held'[c]
      BY <2>1 DEF Apart
    <3>3. \A k \in 1..NTests : tests'[k] \in {tests[k], NULL} /\ tests'[k] # tests[i]
      BY <2>1, <2>2, <2>4 DEF Apart
    <3>4. lost' = lost /\ tests[i] \notin lost
      BY <2>1 DEF Apart
    <3> DEFINE b == tests[i]
    <3>5. /\ Pattern \in Tasks /\ b \in Block
          /\ block' = [block EXCEPT ![Pattern] = b]
      BY <2>4 DEF Free
    <3>6. /\ \A u \in Tasks : u # Pattern => block[u] # b
          /\ \A c \in Clients : held'[c] \subseteq held[c] /\ b \notin held'[c]
          /\ \A k \in 1..NTests : tests'[k] \in {tests[k], NULL} /\ tests'[k] # b
          /\ lost' = lost /\ b \notin lost
      BY <3>1, <3>2, <3>3, <3>4
    <3> HIDE DEF b
    <3> QED BY <1>2, <3>5, <3>6
  <2> QED BY <1>9, <2>3, <2>4 DEF PatternFree
<1> QED
  BY <1>1, <1>3, <1>5, <1>6, <1>7, <1>8, <1>9 DEF Next, User, Request, MallocTake,
     MallocTimeout, FreeTake, FreeTimeout, Push, HeapFree, StartDraining,
     NextRound, MonitorTake, MonitorCheck, vars

-----------------------------------------------------------------------------
(* The lists                                                               *)

(* A list nobody touches.                                                  *)
LEMMA SameList ==
    ASSUME NEW p \in Pools, HasList(p), free_list'[p] = free_list[p],
           \A b \in Block : b \in Listed(p)' <=> b \in Listed(p),
           \A b \in Listed(p) : next'[b] = next[b]
    PROVE  HasList(p)'
<1>1. PICK n \in Nat : \E s \in [1..n -> Block] : IsList(p, n, s)
  BY DEF HasList
<1>2. PICK s \in [1..n -> Block] : IsList(p, n, s)
  BY <1>1
<1>3. \A k \in 1..n : s[k] \in Listed(p)' /\ next'[s[k]] = next[s[k]]
  BY <1>2 DEF IsList
<1>4. \A b \in Listed(p)' : b \in Listed(p)
  BY DEF Listed
<1>5. IsList(p, n, s)'
  BY <1>2, <1>3, <1>4 DEF IsList
<1> QED BY <1>1, <1>5 DEF HasList

(* Without its head the list is its tail.                                  *)
LEMMA TailList ==
    ASSUME NEW p \in Pools, HasList(p), free_list[p] # NULL,
           free_list'[p] = next[free_list[p]], next' = next,
           \A b \in Block : b \in Listed(p)' <=> b \in Listed(p) /\ b # free_list[p]
    PROVE  HasList(p)'
<1>1. PICK n \in Nat : \E s \in [1..n -> Block] : IsList(p, n, s)
  BY DEF HasList
<1>2. PICK s \in [1..n -> Block] : IsList(p, n, s)
  BY <1>1
<1> DEFINE m == n - 1
           r == [k \in 1..m |-> s[k + 1]]
<1>3. /\ n # 0 /\ m \in Nat /\ free_list[p] = s[1]
      /\ \A k \in 1..m : k + 1 \in 1..n /\ r[k] = s[k + 1]
  BY <1>2 DEF IsList
<1>4. r \in [1..m -> Block]
  BY <1>3
<1>5. free_list'[p] = IF m = 0 THEN NULL ELSE r[1]
  BY <1>2, <1>3 DEF IsList
<1>6. \A k \in 1..m : next'[r[k]] = IF k = m THEN NULL ELSE r[k + 1]
  BY <1>2, <1>3 DEF IsList
<1>7. \A k, l \in 1..m : r[k] = r[l] => k = l
  BY <1>2, <1>3 DEF IsList
<1>8. \A k \in 1..m : r[k] \in Listed(p)'
  BY <1>2, <1>3, <1>4 DEF IsList
<1>9. ASSUME NEW b \in Listed(p)'
      PROVE  \E k \in 1..m : r[k] = b
  <2>1. b \in Listed(p) /\ b # s[1]
    BY <1>3, <1>9 DEF Listed
  <2>2. PICK k \in 1..n : s[k] = b
    BY <1>2, <2>1 DEF IsList
  <2>3. k - 1 \in 1..m /\ r[k - 1] = s[k]
    BY <1>3, <2>1, <2>2
  <2> QED BY <2>2, <2>3
<1>10. IsList(p, m, r)'
  <2> HIDE DEF m, r
  <2> QED BY <1>4, <1>5, <1>6, <1>7, <1>8, <1>9 DEF IsList
<1> QED BY <1>3, <1>4, <1>10 DEF HasList

(* With a new head that points to the old one.                             *)
LEMMA ConsList ==
    ASSUME NEW p \in Pools, HasList(p), NEW b \in Block, b \notin Listed(p),
           next[b] = free_list[p], free_list'[p] = b, next' = next,
           \A c \in Block : c \in Listed(p)' <=> c \in Listed(p) \/ c = b
    PROVE  HasList(p)'
<1>1. PICK n \in Nat : \E s \in [1..n -> Block] : IsList(p, n, s)
  BY DEF HasList
<1>2. PICK s \in [1..n -> Block] : IsList(p, n, s)
  BY <1>1
<1> DEFINE m == n + 1
           r == [k \in 1..m |-> IF k = 1 THEN b ELSE s[k - 1]]
<1>3. /\ m \in Nat \ {0} /\ r[1] = b
      /\ \A k \in 1..m : k # 1 => k - 1 \in 1..n /\ r[k] = s[k - 1]
  OBVIOUS
<1>4. r \in [1..m -> Block]
  BY <1>3
<1>5. free_list'[p] = IF m = 0 THEN NULL ELSE r[1]
  BY <1>3
<1>6. \A k \in 1..m : next'[r[k]] = IF k = m THEN NULL ELSE r[k + 1]
  <2>1. next'[r[1]] = IF 1 = m THEN NULL ELSE r[2]
    BY <1>2, <1>3 DEF IsList
  <2>2. ASSUME NEW k \in 1..m, k # 1
        PROVE  next'[r[k]] = IF k = m THEN NULL ELSE r[k + 1]
    BY <1>2, <1>3, <2>2 DEF IsList
  <2> QED BY <2>1, <2>2
<1>7. \A k, l \in 1..m : r[k] = r[l] => k = l
  BY <1>2, <1>3 DEF IsList
<1>8. \A k \in 1..m : r[k] \in Listed(p)'
  BY <1>2, <1>3, <1>4 DEF IsList
<1>9. ASSUME NEW c \in Listed(p)'
      PROVE  \E k \in 1..m : r[k] = c
  <2>1. c \in Listed(p) \/ c = b
    BY <1>9 DEF Listed
  <2>2. CASE c \in Listed(p)
    <3>1. PICK k \in 1..n : s[k] = c
      BY <1>2, <2>2 DEF IsList
    <3>2. k + 1 \in 1..m /\ r[k + 1] = s[k]
      OBVIOUS
    <3> QED BY <3>1, <3>2
  <2> QED BY <1>3, <2>1, <2>2
<1>10. IsList(p, m, r)'
  <2> HIDE DEF m, r
  <2> QED BY <1>4, <1>5, <1>6, <1>7, <1>8, <1>9 DEF IsList
<1> QED BY <1>3, <1>4, <1>10 DEF HasList

(* Which blocks are off their list, when one task moves.                   *)
LEMMA UnlinkedStep ==
    ASSUME NEW t \in Tasks, NEW b,
           \A u \in Tasks : u # t => pc'[u] = pc[u] /\ block'[u] = block[u],
           ~(pc[t] \in {"mark", "link"} /\ block[t] = b)
    PROVE  Unlinked(b)' <=> Unlinked(b) \/ (pc'[t] \in {"mark", "link"} /\ block'[t] = b)
BY DEF Unlinked

(* Two tasks never work on one pool at a time.                             *)
LEMMA OneWorks ==
    ASSUME MutexHeld, TypeOK, NEW t \in Tasks, NEW u \in Tasks, Critical(t), Critical(u),
           pool[t] = pool[u]
    PROVE  t = u
BY DEF MutexHeld, TypeOK

LEMMA PointedStep ==
    ASSUME TypeOK, MutexHeld, InHand, Apart, Pointed, [Next]_vars
    PROVE  Pointed'
<1> USE Who, Blocks DEF GoTo, Take, Give, TryNext, listVars, userVars
<1>t. /\ pc \in [Tasks -> Phase] /\ pool \in [Tasks -> Pools]
      /\ block \in [Tasks -> Block \cup {NULL}]
      /\ next \in [Block -> Block \cup {NULL}]
      /\ free_list \in [Pools -> Block \cup {NULL}]
  BY DEF TypeOK
<1>0. ASSUME NEW t \in Tasks, NEW u \in Tasks, pc[u] = "link", u # t
      PROVE  /\ block[u] # block[t]
             /\ Critical(t) => pool[u] # pool[t]
  BY <1>0, OneWorks DEF Apart, InHand, Handling, Critical
<1>1. ASSUME NEW t \in Tasks, UNCHANGED <<next, free_list>>,
             \A u \in Tasks : u # t => /\ pc'[u] = pc[u] /\ pool'[u] = pool[u]
                                       /\ block'[u] = block[u],
             pc'[t] # "link"
      PROVE  Pointed'
  BY <1>1 DEF Pointed
<1>2. ASSUME NEW t \in Users,
             \/ Request(t) \/ MallocTake(t) \/ FreeTake(t) \/ MallocTimeout(t)
             \/ FreeTimeout(t)
      PROVE  Pointed'
  <2>1. UNCHANGED <<next, free_list, block>>
    BY <1>2 DEF Request, MallocTake, FreeTake, MallocTimeout, FreeTimeout
  <2>2. \A u \in Tasks : u # t => pc'[u] = pc[u] /\ pool'[u] = pool[u]
    BY <1>t, <1>2 DEF Request, MallocTake, FreeTake, MallocTimeout, FreeTimeout
  <2>3. pc'[t] # "link"
    BY <1>t, <1>2 DEF Request, MallocTake, FreeTake, MallocTimeout, FreeTimeout
  <2> QED BY <1>1, <2>1, <2>2, <2>3
<1>3. ASSUME NEW t \in Users, Pop(t)
      PROVE  Pointed'
  <2>1. next' = next /\ Critical(t) /\ pc[t] # "link"
    BY <1>3 DEF Pop, Critical
  <2>2. pc'[t] # "link"
    BY <1>t, <1>3 DEF Pop
  <2>3. /\ \A u \in Tasks : u # t => pc'[u] = pc[u] /\ pool'[u] = pool[u]
        /\ \A u \in Tasks : u # t => block'[u] = block[u]
    BY <1>t, <1>3 DEF Pop
  <2>4. \A q \in Pools : q # pool[t] => free_list'[q] = free_list[q]
    BY <1>t, <1>3 DEF Pop
  <2> QED BY <1>t, <1>0, <2>1, <2>2, <2>3, <2>4 DEF Pointed
<1>4. ASSUME NEW t \in Users, Mark(t)
      PROVE  Pointed'
  <2>1. /\ pc' = [pc EXCEPT ![t] = "idle"] /\ block' = [block EXCEPT ![t] = NULL]
        /\ UNCHANGED <<pool, free_list>> /\ next' = [next EXCEPT ![block[t]] = NULL]
    BY <1>4 DEF Mark, Return
  <2>2. \A u \in Tasks : u # t /\ pc[u] = "link" => next'[block[u]] = next[block[u]]
    BY <1>t, <1>0, <2>1 DEF InHand, Handling
  <2> QED BY <1>t, <2>1, <2>2 DEF Pointed
<1>5. ASSUME NEW t \in Users, HeapMalloc(t) \/ HeapFree(t)
      PROVE  Pointed'
  <2>1. /\ UNCHANGED <<next, free_list, pool, block>> /\ pc[t] # "link"
        /\ pc' = [pc EXCEPT ![t] = "idle"] \/ pc' = pc
    BY <1>5 DEF HeapMalloc, HeapFree, Return
  <2>2. pc'[t] # "link" /\ \A u \in Tasks : u # t => pc'[u] = pc[u]
    BY <1>t, <2>1
  <2> QED BY <1>1, <2>1, <2>2
<1>6. ASSUME NEW t \in Users, Push(t)
      PROVE  Pointed'
  <2>1. block[t] \in Block /\ magic[block[t]] = "ALLOC"
    BY <1>t, <1>6 DEF Push, InHand, Handling
  <2>2. /\ pc' = [pc EXCEPT ![t] = "link"] /\ UNCHANGED <<block, pool, free_list>>
        /\ next' = [next EXCEPT ![block[t]] = free_list[pool[t]]]
    BY <1>6, <2>1 DEF Push
  <2>3. \A u \in Tasks : u # t /\ pc[u] = "link" => next'[block[u]] = next[block[u]]
    BY <1>t, <1>0, <2>1, <2>2 DEF InHand, Handling
  <2> QED BY <1>t, <2>1, <2>2, <2>3 DEF Pointed
<1>7. ASSUME NEW t \in Users, Link(t)
      PROVE  Pointed'
  <2>1. \A q \in Pools : q # pool[t] => free_list'[q] = free_list[q]
    BY <1>t, <1>7 DEF Link
  <2>2. next' = next /\ pool' = pool /\ pc' = [pc EXCEPT ![t] = "idle"] /\ Critical(t)
    BY <1>7 DEF Link, Critical
  <2>3. \A u \in Tasks : u # t => block'[u] = block[u]
    BY <1>t, <1>7 DEF Link
  <2> QED BY <1>t, <1>0, <2>1, <2>2, <2>3 DEF Pointed
<1>8. ASSUME NEW c \in Clients, ClientFree(c)
      PROVE  Pointed'
  <2>1. PICK b \in held[c] : Free(c, b)
    BY <1>8 DEF ClientFree
  <2>2. UNCHANGED <<next, free_list>>
    BY <1>8 DEF ClientFree
  <2> QED BY <1>t, <1>1, <2>1, <2>2 DEF Free
<1>9. CASE PatternFree
  <2>1. UNCHANGED <<next, free_list>>
    BY <1>9 DEF PatternFree
  <2>2. CASE UNCHANGED <<block, pool, pc>>
    BY <2>1, <2>2 DEF Pointed
  <2>3. CASE Free(Pattern, tests[i])
    BY <1>t, <1>1, <2>1, <2>3 DEF Free
  <2> QED BY <1>9, <2>2, <2>3 DEF PatternFree
<1>10. CASE MonitorTake \/ MonitorCheck
  <2>1. UNCHANGED <<next, free_list, block>> /\ pc'[Monitor] # "link"
    BY <1>t, <1>10 DEF MonitorTake, MonitorCheck
  <2>2. \A u \in Tasks : u # Monitor => pc'[u] = pc[u] /\ pool'[u] = pool[u]
    BY <1>t, <1>10 DEF MonitorTake, MonitorCheck
  <2> QED BY <1>1, <2>1, <2>2
<1>11. CASE StartDraining \/ NextRound \/ UNCHANGED vars
  BY <1>11 DEF StartDraining, NextRound, vars, Pointed
<1> QED
  BY <1>2, <1>3, <1>4, <1>5, <1>6, <1>7, <1>8, <1>9, <1>10, <1>11 DEF Next, User

(* The steps that move no block between a list and a hand.                 *)
LEMMA QuietStep ==
    ASSUME TypeOK, Lists, NEW t \in Tasks, UNCHANGED <<next, free_list, magic>>,
           \A u \in Tasks : u # t => pc'[u] = pc[u] /\ block'[u] = block[u],
           pc[t] \notin {"mark", "link"}, pc'[t] \notin {"mark", "link"}
    PROVE  Lists'
<1>1. \A b : Unlinked(b)' <=> Unlinked(b)
  BY UnlinkedStep
<1>2. \A p \in Pools, b \in Block : b \in Listed(p)' <=> b \in Listed(p)
  BY <1>1 DEF Listed
<1> QED BY <1>2, SameList DEF Lists

LEMMA ListStep ==
    ASSUME TypeOK, MutexHeld, InHand, Roles, KeptAreMarked, Apart, Lists, Pointed,
           [Next]_vars
    PROVE  Lists'
<1> USE Who, Blocks DEF GoTo, Take, Give, TryNext, listVars, userVars
<1>t. /\ pc \in [Tasks -> Phase] /\ pool \in [Tasks -> Pools]
      /\ block \in [Tasks -> Block \cup {NULL}]
      /\ magic \in [Block -> {"FREE", "ALLOC"}]
      /\ next \in [Block -> Block \cup {NULL}]
      /\ free_list \in [Pools -> Block \cup {NULL}]
  BY DEF TypeOK
<1>1. ASSUME NEW t \in Users,
             \/ Request(t) \/ MallocTake(t) \/ FreeTake(t) \/ MallocTimeout(t)
             \/ FreeTimeout(t)
      PROVE  Lists'
  <2>1. UNCHANGED <<next, free_list, magic, block>> /\ pc[t] \notin {"mark", "link"}
    BY <1>1 DEF Request, MallocTake, FreeTake, MallocTimeout, FreeTimeout
  <2>2. \A u \in Tasks : u # t => pc'[u] = pc[u]
    BY <1>t, <1>1 DEF Request, MallocTake, FreeTake, MallocTimeout, FreeTimeout
  <2>3. pc'[t] \notin {"mark", "link"}
    BY <1>t, <1>1 DEF Request, MallocTake, FreeTake, MallocTimeout, FreeTimeout
  <2> QED BY <2>1, <2>2, <2>3, QuietStep
<1>2. ASSUME NEW t \in Users, HeapMalloc(t) \/ HeapFree(t)
      PROVE  Lists'
  <2>1. /\ UNCHANGED <<next, free_list, magic, block>> /\ pc[t] \notin {"mark", "link"}
        /\ pc' = [pc EXCEPT ![t] = "idle"] \/ pc' = pc
    BY <1>2 DEF HeapMalloc, HeapFree, Return
  <2>2. pc'[t] \notin {"mark", "link"} /\ \A u \in Tasks : u # t => pc'[u] = pc[u]
    BY <1>t, <2>1
  <2> QED BY <2>1, <2>2, QuietStep
<1>3. ASSUME NEW t \in Users, Pop(t)
      PROVE  Lists'
  <2> DEFINE head == free_list[pool[t]]
  <2>0. pool[t] \in Pools /\ pc[t] = "pop" /\ UNCHANGED <<next, magic>>
    BY <1>t, <1>3 DEF Pop
  <2>1. CASE head = NULL
    <3>1. UNCHANGED <<free_list, block>> /\ pc'[t] \notin {"mark", "link"}
      BY <1>t, <1>3, <2>1 DEF Pop
    <3>2. \A u \in Tasks : u # t => pc'[u] = pc[u]
      BY <1>t, <1>3, <2>1 DEF Pop
    <3> QED BY <2>0, <3>1, <3>2, QuietStep
  <2>2. CASE head # NULL
    <3>1. head \in Listed(pool[t])
      BY <1>t, <2>2, Heads
    <3>2. head \in Block /\ magic[head] = "FREE" /\ PoolOf(head) = pool[t]
      BY <3>1 DEF Listed
    <3>3. /\ free_list' = [free_list EXCEPT ![pool[t]] = next[head]]
          /\ block' = [block EXCEPT ![t] = head] /\ pc' = [pc EXCEPT ![t] = "mark"]
      BY <1>3, <2>2, <3>2 DEF Pop
    <3>4. \A b \in Block : Unlinked(b)' <=> Unlinked(b) \/ b = head
      BY <1>t, <2>0, <3>3, UnlinkedStep
    <3>5. ASSUME NEW p \in Pools
          PROVE  HasList(p)'
      <4>1. CASE p = pool[t]
        <5>1. \A b \in Block : b \in Listed(p)' <=> b \in Listed(p) /\ b # free_list[p]
          BY <2>0, <3>4, <4>1 DEF Listed
        <5>2. HasList(p) /\ free_list'[p] = next[free_list[p]] /\ free_list[p] # NULL
          BY <1>t, <2>2, <3>3, <4>1 DEF Lists
        <5> QED BY <2>0, <5>1, <5>2, TailList
      <4>2. CASE p # pool[t]
        <5>1. \A b \in Block : b \in Listed(p)' <=> b \in Listed(p)
          BY <2>0, <3>2, <3>4, <4>2 DEF Listed
        <5>2. HasList(p) /\ free_list'[p] = free_list[p]
          BY <1>t, <3>3, <4>2 DEF Lists
        <5> QED BY <2>0, <5>1, <5>2, SameList
      <4> QED BY <4>1, <4>2
    <3> QED BY <3>5 DEF Lists
  <2> QED BY <2>1, <2>2
<1>4. ASSUME NEW t \in Users, Mark(t)
      PROVE  Lists'
  <2> DEFINE b == block[t]
  <2>1. /\ pc' = [pc EXCEPT ![t] = "idle"] /\ block' = [block EXCEPT ![t] = NULL]
        /\ free_list' = free_list /\ next' = [next EXCEPT ![b] = NULL]
        /\ magic' = [magic EXCEPT ![b] = "ALLOC"] /\ pc[t] = "mark"
    BY <1>4 DEF Mark, Return
  <2>2. b \in Block /\ Unlinked(b)
    BY <1>t, <2>1 DEF InHand, Handling, Unlinked
  <2>3. \A c \in Block : c # b => (Unlinked(c)' <=> Unlinked(c))
    BY <1>t, <2>1, UnlinkedStep
  <2>4. ASSUME NEW p \in Pools
        PROVE  HasList(p)'
    <3>1. \A c \in Block : c \in Listed(p)' <=> c \in Listed(p)
      BY <1>t, <2>1, <2>2, <2>3 DEF Listed
    <3>2. \A c \in Listed(p) : next'[c] = next[c]
      BY <1>t, <2>1, <2>2 DEF Listed
    <3> QED BY <2>1, <3>1, <3>2, SameList DEF Lists
  <2> QED BY <2>4 DEF Lists
<1>5. ASSUME NEW t \in Users, Push(t)
      PROVE  Lists'
  <2> DEFINE b == block[t]
  <2>1. b \in Block /\ magic[b] = "ALLOC"
    BY <1>t, <1>5 DEF Push, InHand, Handling
  <2>2. /\ pc' = [pc EXCEPT ![t] = "link"] /\ UNCHANGED <<block, free_list>>
        /\ next' = [next EXCEPT ![b] = free_list[pool[t]]]
        /\ magic' = [magic EXCEPT ![b] = "FREE"] /\ pc[t] = "push"
    BY <1>5, <2>1 DEF Push
  <2>3. Unlinked(b)'
    BY <1>t, <2>2 DEF Unlinked
  <2>4. \A c \in Block : c # b => (Unlinked(c)' <=> Unlinked(c))
    BY <1>t, <2>2, UnlinkedStep
  <2>5. ASSUME NEW p \in Pools
        PROVE  HasList(p)'
    <3>1. \A c \in Block : c \in Listed(p)' <=> c \in Listed(p)
      BY <1>t, <2>1, <2>2, <2>3, <2>4 DEF Listed
    <3>2. \A c \in Listed(p) : next'[c] = next[c]
      BY <1>t, <2>1, <2>2 DEF Listed
    <3> QED BY <2>2, <3>1, <3>2, SameList DEF Lists
  <2> QED BY <2>5 DEF Lists
<1>6. ASSUME NEW t \in Users, Link(t)
      PROVE  Lists'
  <2>1. /\ pc' = [pc EXCEPT ![t] = "idle"] /\ block' = [block EXCEPT ![t] = NULL]
        /\ UNCHANGED <<next, magic>> /\ pc[t] = "link"
        /\ free_list' = [free_list EXCEPT ![pool[t]] = block[t]]
    BY <1>6 DEF Link
  <2>2. PICK b \in Block : b = block[t]
    BY <1>t, <2>1 DEF InHand, Handling
  <2>3. /\ magic[b] = "FREE" /\ PoolOf(b) = pool[t] /\ Unlinked(b)
        /\ next[b] = free_list[pool[t]]
    BY <1>t, <2>1, <2>2 DEF InHand, Handling, Unlinked, Pointed
  <2>4. \A c \in Block : Unlinked(c)' <=> Unlinked(c) /\ c # b
    <3>1. ~ Unlinked(b)'
      BY <1>t, <2>1, <2>2 DEF Unlinked, Apart
    <3>2. \A c \in Block : c # b => (Unlinked(c)' <=> Unlinked(c))
      BY <1>t, <2>1, <2>2, UnlinkedStep
    <3> QED BY <3>1, <3>2
  <2>5. ASSUME NEW p \in Pools
        PROVE  HasList(p)'
    <3>1. CASE p = pool[t]
      <4>1. \A c \in Block : c \in Listed(p)' <=> c \in Listed(p) \/ c = b
        BY <2>1, <2>3, <2>4, <3>1 DEF Listed
      <4>2. HasList(p) /\ free_list'[p] = b /\ next[b] = free_list[p] /\ b \notin Listed(p)
        BY <1>t, <2>1, <2>2, <2>3, <3>1 DEF Lists, Listed
      <4> QED BY <2>1, <4>1, <4>2, ConsList
    <3>2. CASE p # pool[t]
      <4>1. \A c \in Block : c \in Listed(p)' <=> c \in Listed(p)
        BY <2>1, <2>3, <2>4, <3>2 DEF Listed
      <4>2. HasList(p) /\ free_list'[p] = free_list[p]
        BY <1>t, <2>1, <3>2 DEF Lists
      <4> QED BY <2>1, <4>1, <4>2, SameList
    <3> QED BY <3>1, <3>2
  <2> QED BY <2>5 DEF Lists
<1>7. ASSUME NEW t \in Users, Free(t, block'[t]), UNCHANGED <<next, free_list, magic>>,
             pc[t] = "idle"
      PROVE  Lists'
  <2>1. \A u \in Tasks : u # t => pc'[u] = pc[u] /\ block'[u] = block[u]
    BY <1>t, <1>7 DEF Free
  <2>2. pc'[t] \notin {"mark", "link"}
    BY <1>t, <1>7 DEF Free
  <2> QED BY <1>7, <2>1, <2>2, QuietStep
<1>8. ASSUME NEW c \in Clients, ClientFree(c)
      PROVE  Lists'
  <2>1. PICK b \in held[c] : Free(c, b)
    BY <1>8 DEF ClientFree
  <2>2. block'[c] = b
    BY <1>t, <2>1 DEF Free
  <2> QED BY <1>7, <1>8, <2>1, <2>2 DEF ClientFree
<1>9. CASE PatternFree
  <2>1. UNCHANGED <<next, free_list, magic>> /\ pc[Pattern] = "idle"
    BY <1>9 DEF PatternFree
  <2>2. CASE UNCHANGED <<block, pool, pc>>
    BY <2>1, <2>2, QuietStep
  <2>3. CASE Free(Pattern, tests[i])
    <3>1. block'[Pattern] = tests[i]
      BY <1>t, <2>3 DEF Free
    <3> QED BY <1>7, <2>1, <2>3, <3>1
  <2> QED BY <1>9, <2>2, <2>3 DEF PatternFree
<1>10. CASE MonitorTake \/ MonitorCheck
  <2>1. /\ UNCHANGED <<next, free_list, magic, block>>
        /\ pc[Monitor] \notin {"mark", "link"} /\ pc'[Monitor] \notin {"mark", "link"}
    BY <1>t, <1>10 DEF MonitorTake, MonitorCheck
  <2>2. \A u \in Tasks : u # Monitor => pc'[u] = pc[u]
    BY <1>t, <1>10 DEF MonitorTake, MonitorCheck
  <2> QED BY <2>1, <2>2, QuietStep
<1>11. CASE StartDraining \/ NextRound \/ UNCHANGED vars
  <2>1. UNCHANGED <<next, free_list, magic, block, pc>> /\ pc[Monitor] \notin {"mark", "link"}
    BY <1>11 DEF StartDraining, NextRound, vars, Roles
  <2> QED BY <2>1, QuietStep
<1> QED
  BY <1>1, <1>2, <1>3, <1>4, <1>5, <1>6, <1>8, <1>9, <1>10, <1>11 DEF Next, User

-----------------------------------------------------------------------------
(* The bitmap and the counter                                              *)

(* The steps that neither mark a block nor start or end a linking.         *)
LEMMA QuietBooks ==
    ASSUME Books, NEW t \in Tasks,
           UNCHANGED <<magic, usage_bitmap, allocated_blocks>>,
           \A u \in Tasks : u # t => pc'[u] = pc[u] /\ pool'[u] = pool[u],
           pc[t] # "link", pc'[t] # "link"
    PROVE  Books'
<1>1. \A p \in Pools : Linking(p)' <=> Linking(p)
  BY DEF Linking
<1>2. \A p \in Pools : Allocated(p)' = Allocated(p)
  BY DEF Allocated
<1> QED BY <1>1, <1>2 DEF Books

(* The books of the pool a task works on and of the others.                *)
LEMMA OneBook ==
    ASSUME TypeOK, MutexHeld, Books, NEW t \in Tasks, Critical(t), pool' = pool,
           NEW p \in Pools, p = pool[t],
           \A u \in Tasks : u # t => pc'[u] = pc[u],
           \A q \in Pools : q # p => usage_bitmap'[q] = usage_bitmap[q],
           \A q \in Pools : q # p => allocated_blocks'[q] = allocated_blocks[q],
           \A q \in Pools : q # p => Allocated(q)' = Allocated(q),
           usage_bitmap'[p] = Allocated(p)',
           pc'[t] = "link" => allocated_blocks'[p] = Cardinality(usage_bitmap'[p]) + 1,
           pc'[t] # "link" => allocated_blocks'[p] = Cardinality(usage_bitmap'[p])
    PROVE  Books'
<1>1. Linking(p)' <=> pc'[t] = "link"
  <2>1. \A u \in Tasks : pc[u] = "link" /\ pool[u] = p => u = t
    BY OneWorks DEF Critical
  <2> QED BY <2>1 DEF Linking
<1>2. ASSUME NEW q \in Pools, q # p
      PROVE  /\ usage_bitmap'[q] = Allocated(q)'
             /\ allocated_blocks'[q]
                   = Cardinality(usage_bitmap'[q]) + IF Linking(q)' THEN 1 ELSE 0
  <2>1. Linking(q)' <=> Linking(q)
    BY <1>2 DEF Linking
  <2> QED BY <1>2, <2>1 DEF Books
<1>3. allocated_blocks'[p]
         = Cardinality(usage_bitmap'[p]) + IF Linking(p)' THEN 1 ELSE 0
  <2>1. Cardinality(usage_bitmap'[p]) \in Nat
    BY PoolIsFinite DEF Allocated
  <2> QED BY <1>1, <2>1
<1>4. ASSUME NEW q \in Pools
      PROVE  /\ usage_bitmap'[q] = Allocated(q)'
             /\ allocated_blocks'[q]
                   = Cardinality(usage_bitmap'[q]) + IF Linking(q)' THEN 1 ELSE 0
  <2>1. CASE q = p
    BY <1>3, <2>1
  <2>2. CASE q # p
    BY <1>2, <2>2
  <2> QED BY <2>1, <2>2
<1> QED BY <1>4 DEF Books

LEMMA BookStep ==
    ASSUME TypeOK, MutexHeld, InHand, Books, [Next]_vars
    PROVE  Books'
<1> USE Who, Blocks DEF GoTo, Take, Give, TryNext, listVars, userVars
<1>t. /\ pc \in [Tasks -> Phase] /\ pool \in [Tasks -> Pools]
      /\ block \in [Tasks -> Block \cup {NULL}]
      /\ magic \in [Block -> {"FREE", "ALLOC"}]
      /\ usage_bitmap \in [Pools -> SUBSET Block]
      /\ allocated_blocks \in [Pools -> Nat]
  BY DEF TypeOK
<1>1. ASSUME NEW t \in Users,
             \/ Request(t) \/ MallocTake(t) \/ FreeTake(t) \/ MallocTimeout(t)
             \/ FreeTimeout(t) \/ Pop(t)
      PROVE  Books'
  <2>1. UNCHANGED <<magic, usage_bitmap, allocated_blocks>> /\ pc[t] # "link"
    BY <1>1 DEF Request, MallocTake, FreeTake, MallocTimeout, FreeTimeout, Pop
  <2>2. \A u \in Tasks : u # t => pc'[u] = pc[u] /\ pool'[u] = pool[u]
    BY <1>t, <1>1 DEF Request, MallocTake, FreeTake, MallocTimeout, FreeTimeout, Pop
  <2>3. pc'[t] # "link"
    BY <1>t, <1>1 DEF Request, MallocTake, FreeTake, MallocTimeout, FreeTimeout, Pop
  <2> QED BY <2>1, <2>2, <2>3, QuietBooks
<1>2. ASSUME NEW t \in Users, HeapMalloc(t) \/ HeapFree(t)
      PROVE  Books'
  <2>1. /\ UNCHANGED <<magic, usage_bitmap, allocated_blocks, pool>> /\ pc[t] # "link"
        /\ pc' = [pc EXCEPT ![t] = "idle"] \/ pc' = pc
    BY <1>2 DEF HeapMalloc, HeapFree, Return
  <2>2. pc'[t] # "link" /\ \A u \in Tasks : u # t => pc'[u] = pc[u]
    BY <1>t, <2>1
  <2> QED BY <2>1, <2>2, QuietBooks
<1>3. ASSUME NEW t \in Users, NEW p \in Pools, p = pool[t]
      PROVE  /\ usage_bitmap[p] = Allocated(p)
             /\ IsFiniteSet(usage_bitmap[p]) /\ Cardinality(usage_bitmap[p]) \in Nat
             /\ Critical(t) => allocated_blocks[p] = Cardinality(usage_bitmap[p])
                                    + IF pc[t] = "link" THEN 1 ELSE 0
  <2>1. usage_bitmap[p] = Allocated(p)
    BY DEF Books
  <2>2. IsFiniteSet(usage_bitmap[p]) /\ Cardinality(usage_bitmap[p]) \in Nat
    BY <2>1, PoolIsFinite DEF Allocated
  <2>3. Critical(t) => (Linking(p) <=> pc[t] = "link")
    BY <1>3, OneWorks DEF Linking, Critical
  <2> QED BY <2>1, <2>2, <2>3 DEF Books
<1>4. ASSUME NEW t \in Users, Mark(t)
      PROVE  Books'
  <2>1. PICK p \in Pools, b \in Block : p = pool[t] /\ b = block[t]
    BY <1>t, <1>4 DEF Mark, InHand, Handling
  <2>2. /\ pc[t] = "mark" /\ pc' = [pc EXCEPT ![t] = "idle"] /\ pool' = pool
        /\ magic' = [magic EXCEPT ![b] = "ALLOC"]
        /\ usage_bitmap' = [usage_bitmap EXCEPT ![p] = @ \cup {b}]
        /\ allocated_blocks' = [allocated_blocks EXCEPT ![p] = @ + 1]
        /\ PoolOf(b) = p /\ magic[b] = "FREE" /\ Critical(t)
    BY <1>4, <2>1 DEF Mark, Return, InHand, Handling, Critical
  <2>0. /\ b \notin usage_bitmap[p] /\ IsFiniteSet(usage_bitmap[p])
        /\ Cardinality(usage_bitmap[p]) \in Nat
        /\ allocated_blocks[p] = Cardinality(usage_bitmap[p])
    BY <1>3, <2>1, <2>2 DEF Allocated
  <2>3. Cardinality(usage_bitmap[p] \cup {b}) = Cardinality(usage_bitmap[p]) + 1
    BY <2>0, FS_AddElement
  <2>4. /\ usage_bitmap'[p] = Allocated(p)'
        /\ usage_bitmap'[p] = usage_bitmap[p] \cup {b}
    BY <1>t, <1>3, <2>1, <2>2 DEF Allocated
  <2>5. allocated_blocks'[p] = Cardinality(usage_bitmap'[p])
    BY <1>t, <2>0, <2>2, <2>3, <2>4
  <2>6. pc'[t] = "idle" /\ \A u \in Tasks : u # t => pc'[u] = pc[u]
    BY <1>t, <2>2
  <2>7. /\ \A q \in Pools : q # p => /\ usage_bitmap'[q] = usage_bitmap[q]
                                     /\ allocated_blocks'[q] = allocated_blocks[q]
                                     /\ Allocated(q)' = Allocated(q)
    BY <1>t, <2>2 DEF Allocated
  <2>8. t \in Tasks /\ pool' = pool /\ Critical(t) /\ p = pool[t]
    BY <2>1, <2>2
  <2>9. pc'[t] # "link" /\ usage_bitmap'[p] = Allocated(p)'
    BY <2>4, <2>6
  <2> QED BY <2>5, <2>6, <2>7, <2>8, <2>9, OneBook
<1>5. ASSUME NEW t \in Users, Push(t)
      PROVE  Books'
  <2>1. PICK p \in Pools, b \in Block : p = pool[t] /\ b = block[t]
    BY <1>t, <1>5 DEF Push, InHand, Handling
  <2>2. PoolOf(b) = p /\ magic[b] = "ALLOC" /\ Critical(t) /\ pc[t] = "push"
    BY <1>5, <2>1 DEF Push, InHand, Handling, Critical
  <2>3. /\ pc' = [pc EXCEPT ![t] = "link"] /\ pool' = pool
        /\ magic' = [magic EXCEPT ![b] = "FREE"]
        /\ usage_bitmap' = [usage_bitmap EXCEPT ![p] = @ \ {b}]
        /\ allocated_blocks' = allocated_blocks
    BY <1>5, <2>1, <2>2 DEF Push
  <2>0. /\ b \in usage_bitmap[p] /\ IsFiniteSet(usage_bitmap[p])
        /\ Cardinality(usage_bitmap[p]) \in Nat
        /\ allocated_blocks[p] = Cardinality(usage_bitmap[p])
    BY <1>3, <2>1, <2>2 DEF Allocated
  <2>4. Cardinality(usage_bitmap[p] \ {b}) = Cardinality(usage_bitmap[p]) - 1
    BY <2>0, FS_RemoveElement
  <2>5. /\ usage_bitmap'[p] = Allocated(p)'
        /\ usage_bitmap'[p] = usage_bitmap[p] \ {b}
    BY <1>t, <1>3, <2>1, <2>2, <2>3 DEF Allocated
  <2>6. allocated_blocks'[p] = Cardinality(usage_bitmap'[p]) + 1
    BY <1>t, <2>0, <2>3, <2>4, <2>5
  <2>7. pc'[t] = "link" /\ \A u \in Tasks : u # t => pc'[u] = pc[u]
    BY <1>t, <2>3
  <2>8. /\ \A q \in Pools : q # p => /\ usage_bitmap'[q] = usage_bitmap[q]
                                     /\ allocated_blocks'[q] = allocated_blocks[q]
                                     /\ Allocated(q)' = Allocated(q)
    BY <1>t, <2>2, <2>3 DEF Allocated
  <2>9. t \in Tasks /\ pool' = pool /\ Critical(t) /\ p = pool[t]
    BY <2>1, <2>2, <2>3
  <2>10. usage_bitmap'[p] = Allocated(p)'
    BY <2>5
  <2> QED BY <2>6, <2>7, <2>8, <2>9, <2>10, OneBook
<1>6. ASSUME NEW t \in Users, Link(t)
      PROVE  Books'
  <2>1. PICK p \in Pools : p = pool[t]
    BY <1>t
  <2>2. /\ pc[t] = "link" /\ pc' = [pc EXCEPT ![t] = "idle"] /\ pool' = pool
        /\ UNCHANGED <<magic, usage_bitmap>> /\ Critical(t)
        /\ allocated_blocks' = [allocated_blocks EXCEPT ![p] = @ - 1]
    BY <1>6, <2>1 DEF Link, Critical
  <2>3. allocated_blocks'[p] = Cardinality(usage_bitmap'[p])
    BY <1>t, <1>3, <2>1, <2>2 DEF Allocated
  <2>4. pc'[t] = "idle" /\ \A u \in Tasks : u # t => pc'[u] = pc[u]
    BY <1>t, <2>2
  <2>5. \A q \in Pools : q # p => allocated_blocks'[q] = allocated_blocks[q]
    BY <1>t, <2>2
  <2>7. usage_bitmap'[p] = Allocated(p)'
    BY <1>3, <2>1, <2>2 DEF Allocated
  <2>9. \A q \in Pools : q # p => usage_bitmap'[q] = usage_bitmap[q]
    BY <2>2
  <2>6. \A q \in Pools : q # p => Allocated(q)' = Allocated(q)
    BY <2>2 DEF Allocated
  <2>8. t \in Tasks /\ pool' = pool /\ Critical(t) /\ p = pool[t]
    BY <2>1, <2>2
  <2> QED BY <2>9, <2>3, <2>4, <2>5, <2>6, <2>7, <2>8, OneBook
<1>7. ASSUME NEW c \in Clients, ClientFree(c)
      PROVE  Books'
  <2>1. UNCHANGED <<magic, usage_bitmap, allocated_blocks>> /\ pc[c] = "idle"
    BY <1>7 DEF ClientFree
  <2>2. \A u \in Tasks : u # c => pc'[u] = pc[u] /\ pool'[u] = pool[u]
    BY <1>t, <1>7 DEF ClientFree, Free
  <2>3. pc'[c] # "link"
    BY <1>t, <1>7 DEF ClientFree, Free
  <2> QED BY <2>1, <2>2, <2>3, QuietBooks
<1>8. CASE PatternFree
  <2>1. UNCHANGED <<magic, usage_bitmap, allocated_blocks>> /\ pc[Pattern] = "idle"
    BY <1>8 DEF PatternFree
  <2>2. \A u \in Tasks : u # Pattern => pc'[u] = pc[u] /\ pool'[u] = pool[u]
    BY <1>t, <1>8 DEF PatternFree, Free
  <2>3. pc'[Pattern] # "link"
    BY <1>t, <1>8 DEF PatternFree, Free
  <2> QED BY <2>1, <2>2, <2>3, QuietBooks
<1>9. CASE MonitorTake \/ MonitorCheck
  <2>1. /\ UNCHANGED <<magic, usage_bitmap, allocated_blocks>>
        /\ pc[Monitor] # "link" /\ pc'[Monitor] # "link"
    BY <1>t, <1>9 DEF MonitorTake, MonitorCheck
  <2>2. \A u \in Tasks : u # Monitor => pc'[u] = pc[u] /\ pool'[u] = pool[u]
    BY <1>t, <1>9 DEF MonitorTake, MonitorCheck
  <2> QED BY <2>1, <2>2, QuietBooks
<1>10. CASE StartDraining \/ NextRound \/ UNCHANGED vars
  BY <1>10 DEF StartDraining, NextRound, vars, Books, Linking, Allocated
<1> QED
  BY <1>1, <1>2, <1>4, <1>5, <1>6, <1>7, <1>8, <1>9, <1>10 DEF Next, User

-----------------------------------------------------------------------------
(* The walk along a list                                                   *)

(* A set of numbers has a smallest one.                                    *)
LEMMA Least ==
    ASSUME NEW S, S \subseteq Nat, S # {}
    PROVE  \E x \in S : \A y \in S : x <= y
<1>1. PICK x \in S : \A y \in S : ~(<<y, x>> \in OpToRel(<, Nat))
  BY NatLessThanWellFounded, WFMin, Zenon
<1>2. \A y \in S : ~(y < x)
  BY <1>1 DEF OpToRel
<1> QED BY <1>2

(* A pool's list is no longer than the pool is large.                      *)
LEMMA ListFits ==
    ASSUME NEW p \in Pools, NEW n \in Nat, NEW s, IsList(p, n, s)
    PROVE  n <= BlockCount[p]
<1> DEFINE S == 1..n
           R == 0..(BlockCount[p] - 1)
           f == [k \in S |-> s[k][2]]
<1>1. \A k \in S : s[k] \in Block /\ PoolOf(s[k]) = p
  BY DEF IsList, Listed
<1>2. \A k \in S : s[k][2] \in R /\ s[k] = <<p, s[k][2]>>
  BY <1>1, Blocks
<1>3. ASSUME NEW k \in S, NEW l \in S, f[k] = f[l]
      PROVE  k = l
  <2>1. s[k] = s[l]
    BY <1>2, <1>3
  <2> QED BY <2>1 DEF IsList
<1>4. f \in Injection(S, R)
  <2>1. f \in [S -> R]
    BY <1>2
  <2>2. \A k, l \in S : f[k] = f[l] => k = l
    BY <1>3
  <2> HIDE DEF f, S, R
  <2> QED BY <2>1, <2>2 DEF Injection, IsInjective
<1>5. BlockCount[p] \in Nat \ {0}
  BY Blocks
<1>6. IsFiniteSet(R) /\ Cardinality(R) = BlockCount[p] /\ Cardinality(S) = n
  <2>1. 0 \in Int /\ 1 \in Int /\ n \in Int /\ BlockCount[p] - 1 \in Int
    BY <1>5
  <2>2. /\ IsFiniteSet(R)
        /\ Cardinality(R) = IF 0 > BlockCount[p] - 1 THEN 0 ELSE BlockCount[p] - 1 - 0 + 1
    BY <2>1, FS_Interval
  <2>3. Cardinality(S) = IF 1 > n THEN 0 ELSE n - 1 + 1
    BY <2>1, FS_Interval
  <2> QED BY <1>5, <2>2, <2>3
<1>7. Cardinality(S) <= Cardinality(R)
  <2> HIDE DEF f, S, R
  <2> QED BY <1>4, <1>6, FS_Injection
<1> QED BY <1>6, <1>7

(* ListEntry walks along the list: the entries before the first difference *)
(* would agree.                                                            *)
LEMMA EntryIs ==
    ASSUME NEW p \in Pools, NEW n \in Nat, NEW s, IsList(p, n, s), TypeOK
    PROVE  \A k \in Nat : ListEntry(p)[k] = IF k < n THEN s[k + 1] ELSE NULL
<1> DEFINE Walks(f) ==
               f = [k \in Nat |-> IF k = 0 THEN free_list[p]
                                  ELSE IF f[k - 1] = NULL THEN NULL
                                  ELSE next[f[k - 1]]]
           w == [k \in Nat |-> IF k < n THEN s[k + 1] ELSE NULL]
<1>1. Walks(w)
  <2>1. w[0] = free_list[p]
    BY DEF IsList
  <2>2. ASSUME NEW k \in Nat, k # 0
        PROVE  w[k] = IF w[k - 1] = NULL THEN NULL ELSE next[w[k - 1]]
    <3>1. k - 1 \in Nat /\ w[k - 1] = IF k - 1 < n THEN s[k] ELSE NULL
      BY <2>2
    <3>2. CASE k - 1 < n
      <4>1. k \in 1..n /\ s[k] # NULL /\ w[k - 1] = s[k]
        BY <2>2, <3>1, <3>2, Blocks DEF IsList
      <4>2. next[s[k]] = IF k = n THEN NULL ELSE s[k + 1]
        BY <4>1 DEF IsList
      <4> QED BY <2>2, <4>1, <4>2
    <3>3. CASE ~(k - 1 < n)
      BY <2>2, <3>1, <3>3
    <3> QED BY <3>2, <3>3
  <2>3. w = [k \in Nat |-> w[k]]
    OBVIOUS
  <2>4. \A k \in Nat : w[k] = IF k = 0 THEN free_list[p]
                              ELSE IF w[k - 1] = NULL THEN NULL ELSE next[w[k - 1]]
    BY <2>1, <2>2
  <2> HIDE DEF w
  <2> QED BY <2>3, <2>4
<1>2. ListEntry(p) = CHOOSE f : Walks(f)
  BY DEF ListEntry
<1>3. Walks(ListEntry(p))
  <2> HIDE DEF Walks
  <2> QED BY <1>1, <1>2
<1> DEFINE e == ListEntry(p)
<1>4. /\ e[0] = free_list[p] /\ w[0] = free_list[p]
      /\ \A k \in Nat : k # 0 => e[k] = IF e[k - 1] = NULL THEN NULL ELSE next[e[k - 1]]
      /\ \A k \in Nat : k # 0 => w[k] = IF w[k - 1] = NULL THEN NULL ELSE next[w[k - 1]]
  <2>1. \A f : Walks(f) =>
           /\ f[0] = free_list[p]
           /\ \A k \in Nat : k # 0 => f[k] = IF f[k - 1] = NULL THEN NULL ELSE next[f[k - 1]]
    OBVIOUS
  <2> HIDE DEF Walks, w, e
  <2> QED BY <1>1, <1>3, <2>1 DEF e
<1>5. \A k \in Nat : e[k] = w[k]
  <2> HIDE DEF e, w
  <2>1. SUFFICES ASSUME {k \in Nat : e[k] # w[k]} # {}
                 PROVE  FALSE
    OBVIOUS
  <2>2. PICK x \in {k \in Nat : e[k] # w[k]} : \A y \in {k \in Nat : e[k] # w[k]} : x <= y
    BY <2>1, Least
  <2>3. x # 0 /\ x - 1 \in Nat /\ e[x - 1] = w[x - 1]
    BY <1>4, <2>2
  <2> QED BY <1>4, <2>2, <2>3
<1> QED BY <1>5

(* The monitor's walk over a list finds nothing wrong, and every block of  *)
(* the list.                                                               *)
LEMMA WalkIsSound ==
    ASSUME TypeOK, Lists, NEW p \in Pools
    PROVE  /\ ListIsSound(p)
           /\ {ListEntry(p)[k] : k \in 0..BlockCount[p]} \ {NULL} = Listed(p)
<1>1. PICK n \in Nat : \E s \in [1..n -> Block] : IsList(p, n, s)
  BY DEF Lists, HasList
<1>2. PICK s \in [1..n -> Block] : IsList(p, n, s)
  BY <1>1
<1>3. BlockCount[p] \in Nat /\ n <= BlockCount[p]
  BY <1>2, ListFits, Blocks
<1>4. \A k \in Nat : ListEntry(p)[k] = IF k < n THEN s[k + 1] ELSE NULL
  BY <1>2, EntryIs
<1>5. \A k \in Nat : k < n => s[k + 1] \in Listed(p)
  BY <1>2 DEF IsList
<1>6. ListIsSound(p)
  <2>1. ListEntry(p)[BlockCount[p]] = NULL
    BY <1>3, <1>4
  <2>2. ASSUME NEW k \in 0..BlockCount[p], ListEntry(p)[k] # NULL
        PROVE  ListEntry(p)[k] \in Listed(p)
    BY <1>3, <1>4, <1>5, <2>2
  <2>3. \A b \in Listed(p) : magic[b] = "FREE" /\ PoolOf(b) = p
    BY DEF Listed
  <2> QED BY <2>1, <2>2, <2>3 DEF ListIsSound
<1>7. ASSUME NEW b \in Listed(p)
      PROVE  b # NULL /\ \E k \in 0..BlockCount[p] : b = ListEntry(p)[k]
  <2>1. PICK k \in 1..n : s[k] = b
    BY <1>2 DEF IsList
  <2>2. k - 1 \in 0..BlockCount[p] /\ ListEntry(p)[k - 1] = s[k]
    BY <1>3, <1>4
  <2> QED BY <2>1, <2>2, Blocks DEF Listed
<1>8. ASSUME NEW k \in 0..BlockCount[p], ListEntry(p)[k] # NULL
      PROVE  ListEntry(p)[k] \in Listed(p)
  BY <1>3, <1>4, <1>5, <1>8
<1>9. {ListEntry(p)[k] : k \in 0..BlockCount[p]} \ {NULL} = Listed(p)
  <2> HIDE DEF Listed
  <2> QED BY <1>7, <1>8
<1> QED BY <1>6, <1>9

LEMMA AlarmStep ==
    ASSUME TypeOK, Lists, ~alarm, [Next]_vars
    PROVE  ~alarm'
<1>1. CASE MonitorCheck
  <2>1. pool[Monitor] \in Pools
    BY Who DEF TypeOK
  <2> QED BY <1>1, <2>1, WalkIsSound DEF MonitorCheck
<1>2. CASE alarm' = alarm
  BY <1>2
<1> QED
  BY <1>1, <1>2 DEF Next, User, Request, MallocTake, MallocTimeout, Pop, Mark,
     HeapMalloc, FreeTake, FreeTimeout, Push, Link, HeapFree, ClientFree,
     StartDraining, PatternFree, NextRound, MonitorTake, vars

-----------------------------------------------------------------------------
(* The invariant                                                           *)

LEMMA InitInv ==
    ASSUME Init
    PROVE  Inv
<1> USE Who, Blocks DEF Init
<1>0. /\ POOL_COUNT \in Nat \ {0} /\ NTests \in Nat
      /\ \A p \in Pools : BlockCount[p] - 1 \in Nat
  BY PoolsAssumption
<1>1. TypeOK
  <2>1. free_list \in [Pools -> Block \cup {NULL}]
    <3>1. \A p \in Pools : <<p, BlockCount[p] - 1>> \in Block
      BY <1>0
    <3> QED BY <3>1
  <2>2. next \in [Block -> Block \cup {NULL}]
    <3>1. ASSUME NEW b \in Block, b[2] # 0
          PROVE  <<b[1], b[2] - 1>> \in Block
      <4>1. /\ PoolOf(b) \in Pools /\ b[1] = PoolOf(b)
            /\ b[2] - 1 \in Nat /\ b[2] - 1 < BlockCount[PoolOf(b)]
        BY <3>1 DEF PoolOf
      <4> QED BY <4>1
    <3> QED BY <3>1
  <2>3. pool \in [Tasks -> Pools] /\ i \in 1..(NTests + 1) /\ test_count \in 0..NTests
    BY <1>0 DEF Pools
  <2> QED BY <2>1, <2>2, <2>3 DEF TypeOK, Phase
<1>2. MutexHeld /\ InHand /\ Roles /\ KeptAreMarked /\ Apart /\ Pointed /\ ~alarm
  BY <1>0 DEF MutexHeld, Critical, InHand, Handling, Roles, KeptAreMarked, Apart, Pointed
<1>3. Books
  <2>1. \A p \in Pools : Allocated(p) = {} /\ ~Linking(p)
    BY DEF Allocated, Linking
  <2> QED BY <2>1, FS_EmptySet DEF Books
<1>4. ASSUME NEW p \in Pools
      PROVE  HasList(p)
  <2> DEFINE n == BlockCount[p]
             s == [k \in 1..n |-> <<p, n - k>>]
  <2>1. n \in Nat \ {0}
    OBVIOUS
  <2>2. s \in [1..n -> Block]
    BY <2>1
  <2>3. free_list[p] = s[1]
    BY <2>1
  <2>4. ASSUME NEW k \in 1..n
        PROVE  next[s[k]] = IF k = n THEN NULL ELSE s[k + 1]
    <3>1. s[k] \in Block /\ s[k][1] = p /\ s[k][2] = n - k
      BY <2>2
    <3>2. next[s[k]] = IF n - k = 0 THEN NULL ELSE <<p, n - k - 1>>
      BY <3>1
    <3>3. k # n => s[k + 1] = <<p, n - k - 1>>
      BY <2>1
    <3>4. CASE k = n
      BY <2>1, <3>2, <3>4
    <3>5. CASE k # n
      <4>1. n - k # 0
        BY <2>1, <3>5
      <4> HIDE DEF s, n
      <4> QED BY <3>2, <3>3, <3>5, <4>1
    <3> QED BY <3>4, <3>5
  <2>5. \A k, l \in 1..n : s[k] = s[l] => k = l
    BY <2>1
  <2>6. \A b \in Block : b \in Listed(p) <=> PoolOf(b) = p
    BY DEF Listed, Unlinked
  <2>7. \A k \in 1..n : s[k] \in Listed(p)
    BY <2>1, <2>2, <2>6
  <2>8. ASSUME NEW b \in Listed(p)
        PROVE  \E k \in 1..n : s[k] = b
    <3>1. b \in Block /\ PoolOf(b) = p
      BY DEF Listed
    <3>2. b[2] \in 0..(n - 1) /\ b = <<p, b[2]>>
      BY <3>1
    <3>3. n - b[2] \in 1..n /\ s[n - b[2]] = b
      BY <2>1, <3>2
    <3> QED BY <3>3
  <2>9. IsList(p, n, s)
    BY <2>1, <2>2, <2>3, <2>4, <2>5, <2>7, <2>8 DEF IsList
  <2> QED BY <2>1, <2>2, <2>9 DEF HasList
<1> QED BY <1>1, <1>2, <1>3, <1>4 DEF Inv, Lists

LEMMA Invariance == Spec => []Inv
<1>1. Init => Inv
  BY InitInv
<1>2. Inv /\ [Next]_vars => Inv'
  BY TypeStep, MutexStep, HandStep, RoleStep, KeptStep, ApartStep, ListStep,
     PointedStep, BookStep, AlarmStep DEF Inv
<1> QED BY <1>1, <1>2, PTL DEF Spec

(* Every variable keeps its type.                                          *)
THEOREM TypeCorrect == Spec => []TypeOK
<1>1. Inv => TypeOK
  BY DEF Inv
<1> QED BY <1>1, Invariance, PTL

-----------------------------------------------------------------------------
(* Who owns a block                                                        *)

LEMMA OwnedIs ==
    ASSUME TypeOK, NEW t \in Tasks
    PROVE  /\ Owned(t) \subseteq Block
           /\ \A b \in Block : b \in Owned(t) <=>
                 \/ block[t] = b
                 \/ t \in Clients /\ b \in held[t]
                 \/ t = Pattern /\ (b \in lost \/ \E k \in 1..NTests : tests[k] = b)
<1>1. /\ block[t] \in Block \cup {NULL} /\ lost \subseteq Block
      /\ t \in Clients => held[t] \subseteq Block
  BY DEF TypeOK
<1> QED BY <1>1, Who DEF Owned, Kept

(* A listed block belongs to nobody.                                       *)
LEMMA ListedIsFree ==
    ASSUME TypeOK, InHand, KeptAreMarked, NEW p \in Pools, NEW b \in Listed(p),
           NEW t \in Tasks
    PROVE  b \notin Owned(t)
<1>1. b \in Block /\ magic[b] = "FREE" /\ ~Unlinked(b)
  BY DEF Listed
<1>2. block[t] # b
  BY <1>1, Blocks DEF Unlinked, InHand, Handling, TypeOK
<1>3. /\ t \in Clients => b \notin held[t]
      /\ b \notin lost /\ \A k \in 1..NTests : tests[k] # b
  BY <1>1 DEF KeptAreMarked
<1> QED BY <1>1, <1>2, <1>3, OwnedIs

LEMMA OneOwner ==
    ASSUME TypeOK, Apart, NEW t \in Tasks, NEW u \in Tasks, t # u
    PROVE  Owned(t) \cap Owned(u) = {}
<1>1. SUFFICES ASSUME NEW b \in Block, b \in Owned(t), b \in Owned(u)
               PROVE  FALSE
  BY OwnedIs
<1>2. /\ block[t] = b \/ (t \in Clients /\ b \in held[t])
         \/ (t = Pattern /\ (b \in lost \/ \E k \in 1..NTests : tests[k] = b))
      /\ block[u] = b \/ (u \in Clients /\ b \in held[u])
         \/ (u = Pattern /\ (b \in lost \/ \E k \in 1..NTests : tests[k] = b))
  BY <1>1, OwnedIs
<1>3. b # NULL
  BY Blocks
<1> QED BY <1>2, <1>3 DEF Apart

(* No block is handed out twice: no two tasks own one, no task twice, and  *)
(* no list begins with a block that is in use (smart_pool_malloc).         *)
THEOREM BlocksAreNotShared == Spec => []NoSharedBlock
<1>1. ASSUME Inv
      PROVE  NoSharedBlock
  <2>0. TypeOK /\ InHand /\ KeptAreMarked /\ Apart /\ Lists
    BY <1>1 DEF Inv
  <2>1. \A t, u \in Tasks : t # u => Owned(t) \cap Owned(u) = {}
    BY <2>0, OneOwner
  <2>2. \A t \in Tasks : block[t] # NULL => block[t] \notin Kept(t)
    BY <2>0 DEF Apart, Kept
  <2>3. /\ \A k, l \in 1..NTests : tests[k] \in Block /\ tests[k] = tests[l] => k = l
        /\ \A k \in 1..NTests : tests[k] \notin lost
    BY <2>0 DEF Apart
  <2>4. ASSUME NEW p \in Pools, NEW t \in Tasks
        PROVE  free_list[p] \notin Owned(t)
    <3>1. CASE free_list[p] = NULL
      BY <2>0, <3>1, OwnedIs, Blocks
    <3>2. CASE free_list[p] # NULL
      BY <2>0, <3>2, Heads, ListedIsFree
    <3> QED BY <3>1, <3>2
  <2> QED BY <2>1, <2>2, <2>3, <2>4 DEF NoSharedBlock
<1> QED BY <1>1, Invariance, PTL

(* Nothing falls out of a pool: while nobody works on it, its list is made *)
(* of exactly its free blocks, bitmap and counter agree, and the monitor   *)
(* never finds a corruption (check_pool_integrity).                        *)
THEOREM ListsAreComplete == Spec => []FreeListComplete
<1>1. ASSUME Inv
      PROVE  FreeListComplete
  <2>0. TypeOK /\ MutexHeld /\ InHand /\ Lists /\ Books /\ ~alarm
    BY <1>1 DEF Inv
  <2>1. ASSUME NEW p \in Pools, mutex[p] = NULL
        PROVE  /\ {ListEntry(p)[n] : n \in 0..BlockCount[p]} \ {NULL}
                      = {b \in Block : PoolOf(b) = p /\ magic[b] = "FREE"}
               /\ usage_bitmap[p] = {b \in Block : PoolOf(b) = p /\ magic[b] = "ALLOC"}
               /\ allocated_blocks[p] = Cardinality(usage_bitmap[p])
    <3>1. \A t \in Tasks : ~(Critical(t) /\ pool[t] = p)
      BY <2>0, <2>1, Who DEF MutexHeld
    <3>2. \A b \in Block : PoolOf(b) = p => ~Unlinked(b)
      BY <2>0, <3>1 DEF Unlinked, InHand, Handling, Critical
    <3>3. Listed(p) = {b \in Block : PoolOf(b) = p /\ magic[b] = "FREE"}
      BY <3>2 DEF Listed
    <3>4. {ListEntry(p)[n] : n \in 0..BlockCount[p]} \ {NULL} = Listed(p)
      BY <2>0, WalkIsSound
    <3>5. ~Linking(p)
      BY <3>1 DEF Linking, Critical
    <3>6. /\ usage_bitmap[p] = Allocated(p)
          /\ allocated_blocks[p] = Cardinality(usage_bitmap[p]) + 0
      BY <2>0, <3>5 DEF Books
    <3>7. Cardinality(usage_bitmap[p]) \in Nat
      BY <3>6, PoolIsFinite DEF Allocated
    <3>8. allocated_blocks[p] = Cardinality(usage_bitmap[p])
      BY <3>6, <3>7
    <3> QED BY <3>3, <3>4, <3>6, <3>8 DEF Allocated
  <2> QED BY <2>0, <2>1 DEF FreeListComplete
<1> QED BY <1>1, Invariance, PTL

-----------------------------------------------------------------------------
(* Blocks change hands when they leave a list and when they come back      *)

Same(t) == Owned(t)' = Owned(t)

LEMMA ReturnKeeps ==
    ASSUME TypeOK, InHand, Roles, NEW t \in Users, NEW x \in Block \cup {NULL, HEAP},
           Return(t, x), pc[t] \in {"mark", "heap"},
           block' = [block EXCEPT ![t] = NULL],
           x \in Block => block[t] = x, x \notin Block => block[t] = NULL
    PROVE  \A u \in Tasks : Same(u)
<1> USE Who, Blocks DEF Owned, Kept, Same
<1>t. /\ block \in [Tasks -> Block \cup {NULL}]
      /\ held \in [Clients -> SUBSET Block]
      /\ tests \in [1..NTests -> Block \cup {NULL, HEAP}] /\ lost \subseteq Block
  BY DEF TypeOK
<1>1. \A u \in Tasks : u # t => block'[u] = block[u]
  BY <1>t
<1>2. block'[t] = NULL /\ {block[t]} \cap Block = {x} \cap Block
  BY <1>t
<1>3. CASE t = Pattern
  <2>1. /\ held' = held /\ tests' = [tests EXCEPT ![i] = x]
        /\ lost' = lost \cup ({tests[i]} \cap Block)
    BY <1>3 DEF Return
  <2>2. i \in 1..NTests
    BY <1>3, PoolsAssumption DEF Roles, TypeOK
  <2>3. \A u \in Tasks : u # t => Same(u)
    BY <1>1, <1>3, <2>1
  <2>4. Owned(Pattern)' = Owned(Pattern)
    <3>1. \A k \in 1..NTests : tests'[k] = IF k = i THEN x ELSE tests[k]
      BY <1>t, <2>1, <2>2
    <3>2. \A b \in Block : (\E k \in 1..NTests : tests'[k] = b) \/ b \in lost'
                      <=> (\E k \in 1..NTests : tests[k] = b) \/ b \in lost \/ b = x
      BY <2>1, <2>2, <3>1
    <3>3. \A b \in Block : b \in Owned(Pattern)' <=> b \in Owned(Pattern)
      BY <1>2, <1>3, <3>2
    <3>4. lost' \subseteq Block
      BY <1>t, <2>1
    <3> QED BY <1>t, <3>3, <3>4
  <2> QED BY <1>3, <2>3, <2>4
<1>4. CASE t # Pattern
  <2>1. /\ held' = IF x \in Block THEN [held EXCEPT ![t] = @ \cup {x}] ELSE held
        /\ UNCHANGED <<tests, lost>>
    BY <1>4 DEF Return
  <2>2. \A c \in Clients : held'[c] = IF c = t THEN held[c] \cup ({x} \cap Block) ELSE held[c]
    <3>1. CASE x \in Block
      <4>1. {x} \cap Block = {x}
        BY <3>1
      <4> QED BY <1>t, <2>1, <3>1, <4>1
    <3>2. CASE x \notin Block
      <4>1. {x} \cap Block = {}
        BY <3>2
      <4> QED BY <1>t, <2>1, <3>2, <4>1
    <3> QED BY <3>1, <3>2
  <2>3. \A u \in Tasks : u # t => Same(u)
    BY <1>1, <2>1, <2>2
  <2>4. t \in Clients /\ Kept(t) = held[t] /\ Kept(t)' = held'[t]
    BY <1>4
  <2>5. Owned(t) = held[t] \cup ({x} \cap Block) /\ Owned(t)' = held'[t]
    BY <1>2, <1>4, <2>4
  <2>6. Same(t)
    BY <2>2, <2>4, <2>5
  <2> QED BY <2>3, <2>6
<1> QED BY <1>3, <1>4

LEMMA FreeKeeps ==
    ASSUME TypeOK, InHand, NEW t \in Users, pc[t] = "idle", NEW b \in Block, Free(t, b),
           lost' = lost,
           \/ t \in Clients /\ b \in held[t] /\ held' = [held EXCEPT ![t] = @ \ {b}]
                            /\ tests' = tests
           \/ t = Pattern /\ held' = held /\ i \in 1..NTests /\ tests[i] = b
                          /\ tests' = [tests EXCEPT ![i] = NULL]
    PROVE  \A u \in Tasks : Same(u)
<1> USE Who, Blocks DEF Owned, Kept, Same
<1>t. /\ block \in [Tasks -> Block \cup {NULL}]
      /\ held \in [Clients -> SUBSET Block]
      /\ tests \in [1..NTests -> Block \cup {NULL, HEAP}]
  BY DEF TypeOK
<1>1. /\ \A u \in Tasks : u # t => block'[u] = block[u]
      /\ block'[t] = b /\ block[t] = NULL
  BY <1>t DEF Free, InHand, Handling
<1>2. CASE t \in Clients
  <2>1. \A c \in Clients : held'[c] = IF c = t THEN held[c] \ {b} ELSE held[c]
    BY <1>t, <1>2
  <2>2. t # Pattern /\ tests' = tests
    BY <1>2
  <2>3. ASSUME NEW u \in Tasks, u # t
        PROVE  Same(u)
    <3>1. block'[u] = block[u] /\ (u \in Clients => held'[u] = held[u])
      BY <1>1, <2>1, <2>3
    <3>2. Kept(u)' = Kept(u)
      BY <2>2, <3>1
    <3> QED BY <3>1, <3>2
  <2>4. Owned(t) = held[t] /\ Owned(t)' = held'[t] \cup {b}
    <3>1. {block[t]} \cap Block = {} /\ {block'[t]} \cap Block = {b}
      BY <1>1
    <3>2. Owned(t) = held[t] \cup ({block[t]} \cap Block)
      BY <1>2, <2>2
    <3>3. Owned(t)' = held'[t] \cup ({block'[t]} \cap Block)
      BY <1>2, <2>2
    <3> QED BY <3>1, <3>2, <3>3
  <2>5. held'[t] \cup {b} = held[t]
    BY <1>2, <2>1, <2>2
  <2>6. Same(t)
    BY <2>4, <2>5
  <2> QED BY <2>3, <2>6
<1>3. CASE t = Pattern
  <2>1. \A k \in 1..NTests : tests'[k] = IF k = i THEN NULL ELSE tests[k]
    BY <1>t, <1>3
  <2>2. \A u \in Tasks : u # t => Same(u)
    BY <1>1, <1>3
  <2>3. \A c \in Block : (\E k \in 1..NTests : tests'[k] = c) \/ c = b
                     <=> (\E k \in 1..NTests : tests[k] = c)
    BY <1>3, <2>1
  <2>4. Owned(Pattern)' = Owned(Pattern)
    <3>1. \A c \in Block : c \in Owned(Pattern)' <=> c \in Owned(Pattern)
      BY <1>1, <1>3, <2>3
    <3>2. lost \subseteq Block
      BY DEF TypeOK
    <3> QED BY <1>3, <3>1, <3>2
  <2> QED BY <1>3, <2>2, <2>4
<1> QED BY <1>2, <1>3

Gains(t, b) == /\ \A u \in Tasks : b \notin Owned(u)
               /\ Owned(t)' = Owned(t) \cup {b}
               /\ \A u \in Tasks : u # t => Same(u)
Loses(t, b) == /\ b \in Owned(t)
               /\ Owned(t)' = Owned(t) \ {b}
               /\ \A u \in Tasks : u # t => Same(u)

LEMMA OwnersStep ==
    ASSUME Inv, [Next]_vars
    PROVE  \/ \A u \in Tasks : Same(u)
           \/ \E t \in Users, b \in Block : Gains(t, b) \/ Loses(t, b)
<1> USE Who, Blocks DEF listVars, userVars
<1>i. TypeOK /\ InHand /\ Roles /\ KeptAreMarked /\ Apart /\ Lists
  BY DEF Inv
<1>t. /\ block \in [Tasks -> Block \cup {NULL}] /\ pool \in [Tasks -> Pools]
  BY <1>i DEF TypeOK
<1>1. ASSUME UNCHANGED <<block, held, tests, lost>>
      PROVE  \A u \in Tasks : Same(u)
  BY <1>1 DEF Same, Owned, Kept
<1>2. ASSUME NEW t \in Users, Pop(t)
      PROVE  (\A u \in Tasks : Same(u)) \/ \E b \in Block : Gains(t, b)
  <2>1. UNCHANGED <<held, tests, lost>>
    BY <1>2 DEF Pop
  <2>2. CASE UNCHANGED block
    BY <1>1, <2>1, <2>2
  <2>3. CASE /\ free_list[pool[t]] # NULL /\ pc[t] = "pop"
             /\ block' = [block EXCEPT ![t] = free_list[pool[t]]]
    <3>1. PICK b \in Listed(pool[t]) : b = free_list[pool[t]]
      BY <1>i, <1>t, <2>3, Heads
    <3>2. b \in Block /\ \A u \in Tasks : b \notin Owned(u)
      BY <1>i, <1>t, ListedIsFree DEF Listed
    <3>3. /\ block[t] = NULL /\ block'[t] = b
          /\ \A u \in Tasks : u # t => block'[u] = block[u]
      BY <1>i, <1>t, <2>3, <3>1 DEF InHand, Handling
    <3>4. \A u \in Tasks : Kept(u)' = Kept(u)
      BY <2>1 DEF Kept
    <3>5. \A u \in Tasks : u # t => Same(u)
      BY <2>1, <3>3, <3>4 DEF Same, Owned
    <3>6. {block[t]} \cap Block = {} /\ {block'[t]} \cap Block = {b}
      BY <3>2, <3>3
    <3>7. Owned(t)' = Owned(t) \cup {b}
      BY <2>1, <3>4, <3>6 DEF Owned
    <3> QED BY <3>2, <3>5, <3>7 DEF Gains
  <2> QED BY <1>2, <2>2, <2>3 DEF Pop
<1>3. ASSUME NEW t \in Users, Link(t)
      PROVE  \E b \in Block : Loses(t, b)
  <2>1. /\ pc[t] = "link" /\ block' = [block EXCEPT ![t] = NULL]
        /\ UNCHANGED <<held, tests, lost>>
    BY <1>3 DEF Link
  <2>2. PICK b \in Block : b = block[t]
    BY <1>i, <1>t, <2>1 DEF InHand, Handling
  <2>3. /\ block'[t] = NULL /\ \A u \in Tasks : u # t => block'[u] = block[u]
    BY <1>t, <2>1
  <2>4. \A u \in Tasks : Kept(u)' = Kept(u)
    BY <2>1 DEF Kept
  <2>5. \A u \in Tasks : u # t => Same(u)
    BY <2>1, <2>3, <2>4 DEF Same, Owned
  <2>6. {block[t]} \cap Block = {b} /\ {block'[t]} \cap Block = {}
    BY <2>2, <2>3
  <2>7. b \notin Kept(t) /\ b \notin lost
    BY <1>i, <2>2 DEF Apart, Kept
  <2>8. b \in Owned(t) /\ Owned(t)' = Owned(t) \ {b}
    BY <2>1, <2>4, <2>6, <2>7 DEF Owned
  <2> QED BY <2>5, <2>8 DEF Loses
<1>4. ASSUME NEW t \in Users, Mark(t)
      PROVE  \A u \in Tasks : Same(u)
  <2>1. /\ block[t] \in Block /\ Return(t, block[t]) /\ pc[t] = "mark"
        /\ block' = [block EXCEPT ![t] = NULL]
    BY <1>i, <1>t, <1>4 DEF Mark, InHand, Handling
  <2> QED BY <1>i, <2>1, ReturnKeeps
<1>5. ASSUME NEW t \in Users, HeapMalloc(t)
      PROVE  \A u \in Tasks : Same(u)
  <2>1. PICK x \in {HEAP, NULL} : Return(t, x)
    BY <1>5 DEF HeapMalloc
  <2>2. pc[t] = "heap" /\ block' = block
    BY <1>5 DEF HeapMalloc
  <2>3. block[t] = NULL
    BY <1>i, <2>2 DEF InHand, Handling
  <2>4. block' = [block EXCEPT ![t] = NULL]
    BY <1>t, <2>2, <2>3
  <2> QED BY <1>i, <2>1, <2>2, <2>3, <2>4, ReturnKeeps
<1>6. ASSUME NEW c \in Clients, ClientFree(c)
      PROVE  \A u \in Tasks : Same(u)
  <2>1. PICK b \in held[c] : Free(c, b) /\ held' = [held EXCEPT ![c] = @ \ {b}]
    BY <1>6 DEF ClientFree
  <2>2. b \in Block /\ UNCHANGED <<tests, lost>> /\ pc[c] = "idle"
    BY <1>i, <1>6 DEF ClientFree, TypeOK
  <2> QED BY <1>i, <2>1, <2>2, FreeKeeps
<1>7. CASE PatternFree
  <2>1. /\ i \in 1..NTests /\ tests' = [tests EXCEPT ![i] = NULL]
        /\ UNCHANGED <<held, lost>> /\ pc[Pattern] = "idle"
    BY <1>i, <1>7, PoolsAssumption DEF PatternFree, TypeOK
  <2>2. CASE tests[i] \in Block /\ Free(Pattern, tests[i])
    BY <1>i, <2>1, <2>2, FreeKeeps
  <2>3. CASE tests[i] \notin Block /\ block' = block
    <3>1. tests \in [1..NTests -> Block \cup {NULL, HEAP}]
      BY <1>i DEF TypeOK
    <3>2. \A k \in 1..NTests : tests'[k] = IF k = i THEN NULL ELSE tests[k]
      BY <2>1, <3>1
    <3>3. {tests'[k] : k \in 1..NTests} \cap Block = {tests[k] : k \in 1..NTests} \cap Block
      BY <2>3, <3>2
    <3>4. \A u \in Tasks : Kept(u)' = Kept(u)
      BY <2>1, <3>3 DEF Kept
    <3> QED BY <2>1, <2>3, <3>4 DEF Same, Owned
  <2> QED BY <1>7, <2>2, <2>3 DEF PatternFree
<1> QED
  BY <1>1, <1>2, <1>3, <1>4, <1>5, <1>6, <1>7 DEF Next, User, Request, MallocTake,
     MallocTimeout, FreeTake, FreeTimeout, Push, HeapFree, StartDraining,
     NextRound, MonitorTake, MonitorCheck, vars

LEMMA OwnerIs ==
    ASSUME TypeOK, Apart, NEW b
    PROVE  /\ \A t \in Tasks : b \in Owned(t) => OwnerOf(b) = t
           /\ (\A t \in Tasks : b \notin Owned(t)) => OwnerOf(b) = NULL
<1>1. ASSUME NEW t \in Tasks, b \in Owned(t)
      PROVE  OwnerOf(b) = t
  <2>1. \A u \in Tasks : b \in Owned(u) <=> u = t
    BY <1>1, OneOwner
  <2>2. OwnerOf(b) = CHOOSE u \in Tasks : b \in Owned(u)
    BY <1>1 DEF OwnerOf
  <2> QED BY <2>1, <2>2
<1> QED BY <1>1 DEF OwnerOf

(* OwnerOf names the owner of every block that has one.                    *)
OwnersRight ==
    \A b \in Block : /\ \A t \in Tasks : b \in Owned(t) => OwnerOf(b) = t
                     /\ (\A t \in Tasks : b \notin Owned(t)) => OwnerOf(b) = NULL

(* The lists implement the allocator: a free block gets an owner when it   *)
(* is unlinked, only its owner gives it back, and nothing else changes who *)
(* owns it (smart_pool_malloc, smart_pool_free).                           *)
THEOREM ListsImplementAllocator == Spec => ImplementsAllocator
<1>1. Init => Allocator!Init
  <2>1. SUFFICES ASSUME Init
                 PROVE  [b \in Block |-> OwnerOf(b)] = [b \in Block |-> NULL]
    BY DEF Allocator!Init
  <2>2. Inv
    BY <2>1, InitInv
  <2>3. \A t \in Tasks : Owned(t) = {}
    BY <2>1, <2>2, Blocks, Who DEF Init, Owned, Kept
  <2>4. \A b \in Block : OwnerOf(b) = NULL
    BY <2>2, <2>3, OwnerIs DEF Inv
  <2> QED BY <2>4
<1>2. Inv => OwnersRight
  BY OwnerIs DEF Inv, OwnersRight
<1>3. ASSUME Inv, OwnersRight, OwnersRight', [Next]_vars
      PROVE  [Allocator!Next]_([b \in Block |-> OwnerOf(b)])
  <2> DEFINE owner == [b \in Block |-> OwnerOf(b)]
  <2>1. owner' = [b \in Block |-> OwnerOf(b)']
    OBVIOUS
  <2>2. CASE \A u \in Tasks : Same(u)
    <3>1. \A b \in Block : OwnerOf(b)' = OwnerOf(b)
      BY <1>3, <2>2 DEF OwnersRight, Same
    <3> QED BY <3>1
  <2>3. ASSUME NEW t \in Users, NEW b \in Block, Gains(t, b)
        PROVE  Allocator!Next
    <3>1. OwnerOf(b) = NULL /\ OwnerOf(b)' = t
      BY <1>3, <2>3, Who DEF OwnersRight, Gains
    <3>2. \A c \in Block : c # b => OwnerOf(c)' = OwnerOf(c)
      <4>1. \A c \in Block, u \in Tasks : c # b => (c \in Owned(u)' <=> c \in Owned(u))
        BY <2>3 DEF Gains, Same
      <4> QED BY <1>3, <4>1 DEF OwnersRight
    <3>3. owner[b] = NULL /\ owner' = [owner EXCEPT ![b] = t]
      BY <2>1, <3>1, <3>2
    <3> QED BY <3>3 DEF Allocator!Next, Allocator!Get
  <2>4. ASSUME NEW t \in Users, NEW b \in Block, Loses(t, b)
        PROVE  Allocator!Next
    <3>1. \A u \in Tasks : u # t => b \notin Owned(u)
      BY <1>3, <2>4, Who, OneOwner DEF Loses, Inv
    <3>2. OwnerOf(b) = t /\ OwnerOf(b)' = NULL
      <4>1. \A u \in Tasks : b \notin Owned(u)'
        BY <2>4, <3>1 DEF Loses, Same
      <4> QED BY <1>3, <2>4, <4>1, Who DEF OwnersRight, Loses
    <3>3. \A c \in Block : c # b => OwnerOf(c)' = OwnerOf(c)
      <4>1. \A c \in Block, u \in Tasks : c # b => (c \in Owned(u)' <=> c \in Owned(u))
        BY <2>4 DEF Loses, Same
      <4> QED BY <1>3, <4>1 DEF OwnersRight
    <3>4. owner[b] = t /\ owner' = [owner EXCEPT ![b] = NULL]
      BY <2>1, <3>2, <3>3
    <3> QED BY <3>4 DEF Allocator!Next, Allocator!Put
  <2> QED BY <1>3, <2>2, <2>3, <2>4, OwnersStep
<1> QED
  BY <1>1, <1>2, <1>3, Invariance, PTL DEF Spec, ImplementsAllocator, Allocator!Spec

=============================================================================
