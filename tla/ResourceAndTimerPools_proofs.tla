-------------------- MODULE ResourceAndTimerPools_proofs --------------------
(***************************************************************************)
(* Proofs about the pool of resources and the pool of timers.              *)
(* ResourcePool, for any number of resources, producers and tokens: types, *)
(* exclusive use, idle broken resources, a token behind every resource in  *)
(* use, which tokens come back, and a resource for every token.  TimerPool, *)
(* for pools and queues of any length and any number of timers and workers: *)
(* an entry has its timer, a deleted timer is done with, and only refused  *)
(* deletions leave timers behind.                                          *)
(***************************************************************************)
EXTENDS ResourcePool, TimerPool, Integers, FiniteSetTheorems,
        WellFoundedInduction, NaturalsInduction, TLAPS

(* A producer has a token from the take to the give, and a resource only   *)
(* while it uses it.                                                       *)
ProducerInv ==
    \A p \in Producers :
        /\ pc[p] \in {"taking", "acquiring", "using", "giving"}
        /\ held[p] = IF pc[p] = "taking" THEN 0 ELSE 1
        /\ pc[p] # "using" => mine[p] = {}
        /\ Cardinality(mine[p]) <= 1

(* The greedy producer counts its tokens, then its searches, and gives     *)
(* back one token per resource: it may keep more tokens than that, never   *)
(* fewer.                                                                  *)
GreedyInv ==
    LET phase == pc[Greedy]
        owns == Cardinality(mine[Greedy])
    IN  /\ phase \in {"taking", "refunding", "acquiring", "releasing", "giving"}
        /\ phase \in {"taking", "refunding"} =>
              mine[Greedy] = {} /\ count < Hoard /\ count <= held[Greedy]
        /\ phase = "refunding" => count > 0
        /\ phase = "acquiring" =>
              owns <= count /\ count < Hoard /\ Hoard <= held[Greedy]
        /\ phase = "releasing" => owns <= held[Greedy] /\ count = 0
        /\ phase = "giving" => owns < held[Greedy] /\ count = 0

(* The manager acts on a size that nobody else changes.                    *)
ManagerInv ==
    /\ pc[Manager] \in {"idle", "growing", "grown", "shrinking", "shrunk"}
    /\ pc[Manager] \in {"growing", "grown"} => pool_size < MaxResources
    /\ pc[Manager] \in {"shrinking", "shrunk"} => pool_size > MinPool

IInv == TypeOK /\ ProducerInv /\ GreedyInv /\ ManagerInv /\ UniqueHolder
               /\ BrokenIdle

(* The tokens some tasks have taken, each as a pair of holder and number.  *)
TokensOut(tasks) == UNION {{t} \X (1..held[t]) : t \in tasks}

(* Every token is in the semaphore or with a holder, and together they are *)
(* the logical size of the pool, but for the one token that the manager    *)
(* has given or taken and not recorded yet.                                *)
Recording(phase) == IF pc[Manager] = phase THEN 1 ELSE 0
TokensAccounted ==
    tokens + Cardinality(TokensOut(Holders)) + Recording("shrunk")
        = pool_size + Recording("grown")

-----------------------------------------------------------------------------

(* What the proofs need of cardinalities.                                  *)
LEMMA OneMore ==
    ASSUME NEW S \in SUBSET Resources, NEW r \in Resources \ S
    PROVE  /\ Cardinality(S) \in Nat
           /\ Cardinality(S \cup {r}) = Cardinality(S) + 1
<1>1. IsFiniteSet(S)
  BY PoolAssumption, FS_Subset
<1> QED BY <1>1, FS_CardinalityType, FS_AddElement

LEMMA OneLess ==
    ASSUME NEW S \in SUBSET Resources, NEW r \in S
    PROVE  /\ Cardinality(S) \in Nat
           /\ Cardinality(S \ {r}) = Cardinality(S) - 1
<1>1. IsFiniteSet(S)
  BY PoolAssumption, FS_Subset
<1> QED BY <1>1, FS_CardinalityType, FS_RemoveElement

LEMMA EmptyCard == Cardinality({}) = 0
  BY FS_EmptySet

(* acquire_resource gives a free resource to one user, so use stays        *)
(* exclusive and broken resources stay idle.                               *)
LEMMA AcquireKeepsUse ==
    ASSUME TypeOK, UniqueHolder, BrokenIdle, NEW t \in Users,
           NEW r \in Free, in_use' = in_use \cup {r}, broken' = broken,
           mine' = [mine EXCEPT ![t] = @ \cup {r}]
    PROVE  UniqueHolder' /\ BrokenIdle'
<1>1. mine \in [Users -> SUBSET Resources] /\ r \notin in_use /\ r \notin broken
  BY DEF TypeOK, Free
<1>2. BrokenIdle'
  BY <1>1 DEF BrokenIdle
<1>3. in_use' = UNION {mine'[u] : u \in Users}
  BY <1>1 DEF UniqueHolder
<1>4. ASSUME NEW u \in Users, NEW v \in Users, u # v
      PROVE  mine'[u] \cap mine'[v] = {}
  BY <1>1, <1>4 DEF UniqueHolder
<1> QED BY <1>2, <1>3, <1>4 DEF UniqueHolder

(* release_resource takes it back from its only user.                      *)
LEMMA ReleaseKeepsUse ==
    ASSUME TypeOK, UniqueHolder, BrokenIdle, NEW t \in Users,
           NEW r \in mine[t], in_use' = in_use \ {r}, broken' = broken,
           mine' = [mine EXCEPT ![t] = @ \ {r}]
    PROVE  UniqueHolder' /\ BrokenIdle'
<1>1. mine \in [Users -> SUBSET Resources]
  BY DEF TypeOK
<1>2. BrokenIdle'
  BY DEF BrokenIdle
<1>3. in_use' = UNION {mine'[u] : u \in Users}
  BY <1>1 DEF UniqueHolder
<1>4. ASSUME NEW u \in Users, NEW v \in Users, u # v
      PROVE  mine'[u] \cap mine'[v] = {}
  BY <1>1, <1>4 DEF UniqueHolder
<1> QED BY <1>2, <1>3, <1>4 DEF UniqueHolder

-----------------------------------------------------------------------------

(* Every step keeps the types; counters stay in their range because of     *)
(* what the tasks know at that point of their loops.                       *)
LEMMA TypeStep ==
    ASSUME IInv, [Next]_vars
    PROVE  TypeOK'
<1> USE PoolAssumption
    DEF IInv, TypeOK, ProducerInv, GreedyInv, ManagerInv, Users, Holders, GoTo
<1>0. MaxResources \in Nat /\ MinPool \in Nat /\ FailLimit \in Nat /\ Hoard \in Nat
  BY FS_CardinalityType
<1>1. CASE UNCHANGED vars
  BY <1>1 DEF vars
<1>2. ASSUME NEW p \in Producers, Produce(p)
      PROVE  TypeOK'
  <2>1. CASE Take(p)
    BY <1>0, <2>1 DEF Take, TakeToken
  <2>2. CASE TakeFails(p)
    BY <1>0, <2>2 DEF TakeFails
  <2>3. CASE Acquire(p)
    BY <1>0, <2>3 DEF Acquire, acquire_resource, Free
  <2>4. CASE Release(p)
    BY <1>0, <2>4 DEF Release, release_resource
  <2>5. CASE Give(p)
    BY <1>0, <2>5 DEF Give, GiveToken
  <2> QED BY <1>2, <2>1, <2>2, <2>3, <2>4, <2>5 DEF Produce
<1>3. CASE GreedyProduce
  <2>1. CASE GreedyTake
    BY <1>0, <2>1 DEF GreedyTake, TakeToken
  <2>2. CASE GreedyTakeFails
    BY <1>0, <2>2 DEF GreedyTakeFails
  <2>3. CASE GreedyRefund
    BY <1>0, <2>3 DEF GreedyRefund, GiveToken
  <2>4. CASE GreedyAcquire
    BY <1>0, <2>4 DEF GreedyAcquire, acquire_resource, Free
  <2>5. CASE GreedyRelease
    BY <1>0, <2>5 DEF GreedyRelease, release_resource
  <2>6. CASE GreedyGive
    <3>1. Cardinality(mine[Greedy]) \in Nat
      BY FS_Subset, FS_CardinalityType
    <3> QED BY <1>0, <2>6, <3>1 DEF GreedyGive, GiveToken
  <2>7. CASE GreedyDone
    BY <1>0, <2>7 DEF GreedyDone
  <2> QED BY <1>3, <2>1, <2>2, <2>3, <2>4, <2>5, <2>6, <2>7 DEF GreedyProduce
<1>4. CASE Break
  BY <1>0, <1>4 DEF Break, Free
<1>5. CASE RemoveToken
  BY <1>0, <1>5 DEF RemoveToken, TakeToken
<1>6. CASE CheckLoad
  BY <1>0, <1>6 DEF CheckLoad
<1>7. CASE Grow \/ CountGrown
  BY <1>0, <1>7 DEF Grow, CountGrown
<1>8. CASE Shrink \/ CountShrunk
  BY <1>0, <1>8 DEF Shrink, CountShrunk
<1> QED
  BY <1>1, <1>2, <1>3, <1>4, <1>5, <1>6, <1>7, <1>8 DEF Next, Manage

(* Use stays exclusive and broken resources idle.                          *)
LEMMA UseStep ==
    ASSUME IInv, [Next]_vars
    PROVE  UniqueHolder' /\ BrokenIdle'
<1> USE DEF IInv, UniqueHolder, BrokenIdle
<1>1. CASE UNCHANGED <<in_use, broken, mine>>
  BY <1>1
<1>2. ASSUME NEW t \in Users, NEW found, NEW none,
             acquire_resource(t, found, none), UNCHANGED broken
      PROVE  UniqueHolder' /\ BrokenIdle'
  <2>1. CASE UNCHANGED <<in_use, mine>>
    BY <1>2, <2>1
  <2>2. ASSUME NEW r \in Free, in_use' = in_use \cup {r},
               mine' = [mine EXCEPT ![t] = @ \cup {r}]
        PROVE  UniqueHolder' /\ BrokenIdle'
    BY <1>2, <2>2, AcquireKeepsUse
  <2> QED BY <1>2, <2>1, <2>2 DEF acquire_resource
<1>3. ASSUME NEW t \in Users, NEW r \in mine[t],
             release_resource(t, r), UNCHANGED broken
      PROVE  UniqueHolder' /\ BrokenIdle'
  BY <1>3, ReleaseKeepsUse DEF release_resource
<1>4. CASE Break
  BY <1>4 DEF Break, Free
<1>5. ASSUME NEW p \in Producers, Produce(p)
      PROVE  UniqueHolder' /\ BrokenIdle'
  <2>1. CASE Acquire(p)
    BY <1>2, <2>1 DEF Acquire, Users
  <2>2. CASE Release(p)
    BY <1>3, <2>2 DEF Release, Users
  <2>3. CASE ~Acquire(p) /\ ~Release(p)
    BY <1>1, <1>5, <2>3 DEF Produce, Take, TakeFails, Give
  <2> QED BY <2>1, <2>2, <2>3
<1>6. CASE GreedyProduce
  <2>1. CASE GreedyAcquire
    BY <1>2, <2>1 DEF GreedyAcquire, Users
  <2>2. CASE GreedyRelease
    BY <1>3, <2>2 DEF GreedyRelease, Users
  <2>3. CASE ~GreedyAcquire /\ ~GreedyRelease
    BY <1>1, <1>6, <2>3 DEF GreedyProduce, GreedyTake, GreedyTakeFails,
       GreedyRefund, GreedyGive, GreedyDone
  <2> QED BY <2>1, <2>2, <2>3
<1>7. CASE RemoveToken \/ Manage \/ UNCHANGED vars
  BY <1>1, <1>7 DEF RemoveToken, Manage, CheckLoad, Grow, CountGrown, Shrink,
     CountShrunk, vars
<1> QED BY <1>4, <1>5, <1>6, <1>7 DEF Next

(* Every step keeps what the tasks know at each point of their loops.  A   *)
(* task changes nobody's place, tokens or resources but its own.           *)
LEMMA LoopStep ==
    ASSUME IInv, [Next]_vars
    PROVE  ProducerInv' /\ GreedyInv' /\ ManagerInv'
<1> USE PoolAssumption DEF TypeOK, Users, Holders, GoTo
<1>0. /\ MaxResources \in Nat /\ MinPool \in Nat /\ Hoard \in Nat /\ FailLimit \in Nat
      /\ TypeOK /\ ProducerInv /\ GreedyInv /\ ManagerInv
      /\ Cardinality({}) = 0
  BY FS_CardinalityType, EmptyCard DEF IInv
<1>1. CASE UNCHANGED vars
  BY <1>0, <1>1 DEF vars, ProducerInv, GreedyInv, ManagerInv
<1>2. ASSUME NEW p \in Producers, Produce(p)
      PROVE  ProducerInv' /\ GreedyInv' /\ ManagerInv'
  <2>1. GreedyInv' /\ ManagerInv'
    BY <1>0, <1>2 DEF GreedyInv, ManagerInv, Produce, Take, TakeFails,
       Acquire, Release, Give, TakeToken, GiveToken, acquire_resource,
       release_resource
  <2>2. ASSUME NEW q \in Producers, q # p
        PROVE  pc'[q] = pc[q] /\ held'[q] = held[q] /\ mine'[q] = mine[q]
    BY <1>0, <1>2, <2>2 DEF Produce, Take, TakeFails, Acquire, Release, Give,
       TakeToken, GiveToken, acquire_resource, release_resource
  <2>3. /\ pc'[p] \in {"taking", "acquiring", "using", "giving"}
        /\ held'[p] = IF pc'[p] = "taking" THEN 0 ELSE 1
        /\ pc'[p] # "using" => mine'[p] = {}
        /\ Cardinality(mine'[p]) <= 1
    <3>1. CASE Take(p)
      BY <1>0, <3>1 DEF ProducerInv, Take, TakeToken
    <3>2. CASE TakeFails(p)
      BY <1>0, <3>2 DEF ProducerInv, TakeFails
    <3>3. CASE Acquire(p)
      <4>1. ASSUME NEW r \in Resources, mine' = [mine EXCEPT ![p] = @ \cup {r}]
            PROVE  Cardinality(mine'[p]) = 1
        <5>1. mine[p] = {} /\ mine'[p] = {} \cup {r}
          BY <1>0, <3>3, <4>1 DEF ProducerInv, Acquire
        <5> QED BY <1>0, <5>1, OneMore
      <4>2. pc[p] = "acquiring" /\ held' = held /\ held[p] = 1 /\ mine[p] = {}
        BY <1>0, <3>3 DEF ProducerInv, Acquire
      <4>3. \/ /\ pc'[p] = "using"
               /\ \E r \in Resources : mine' = [mine EXCEPT ![p] = @ \cup {r}]
            \/ pc'[p] = "giving" /\ mine' = mine
        BY <1>0, <3>3 DEF Acquire, acquire_resource, Free
      <4>4. held'[p] = 1 /\ pc'[p] \in {"using", "giving"}
        BY <4>2, <4>3
      <4>5. CASE pc'[p] = "using"
        <5>1. Cardinality(mine'[p]) = 1
          BY <4>1, <4>3, <4>5
        <5> QED BY <4>4, <4>5, <5>1
      <4>6. CASE pc'[p] = "giving"
        <5>1. mine'[p] = {}
          BY <4>2, <4>3, <4>6
        <5>2. Cardinality(mine'[p]) = 0
          BY <1>0, <5>1
        <5> QED BY <4>4, <4>6, <5>1, <5>2
      <4> QED BY <4>4, <4>5, <4>6
    <3>4. CASE Release(p)
      <4>1. PICK r \in mine[p] : release_resource(p, r)
        BY <3>4 DEF Release
      <4>2. mine'[p] = mine[p] \ {r} /\ mine[p] \in SUBSET Resources
        BY <1>0, <4>1 DEF release_resource
      <4>3. Cardinality(mine'[p]) <= 0 /\ Cardinality(mine'[p]) \in Nat
        <5>1. Cardinality(mine[p]) \in Nat
              /\ Cardinality(mine[p] \ {r}) = Cardinality(mine[p]) - 1
          BY <4>2, OneLess
        <5>2. Cardinality(mine[p]) <= 1
          BY <1>0 DEF ProducerInv
        <5>3. Cardinality(mine'[p]) \in Nat
          BY <4>2, PoolAssumption, FS_Subset, FS_CardinalityType
        <5> QED BY <4>2, <5>1, <5>2, <5>3
      <4>4. mine'[p] = {}
        <5>1. IsFiniteSet(mine'[p])
          BY <4>2, FS_Subset
        <5>2. Cardinality(mine'[p]) = 0
          BY <4>3
        <5> QED BY <5>1, <5>2, FS_EmptySet
      <4> QED BY <1>0, <3>4, <4>4 DEF ProducerInv, Release
    <3>5. CASE Give(p)
      BY <1>0, <3>5 DEF ProducerInv, Give, GiveToken
    <3> QED BY <1>2, <3>1, <3>2, <3>3, <3>4, <3>5 DEF Produce
  <2> QED BY <1>0, <2>1, <2>2, <2>3 DEF ProducerInv
<1>3. CASE GreedyProduce
  <2>1. ProducerInv' /\ ManagerInv'
    BY <1>0, <1>3 DEF ProducerInv, ManagerInv, GreedyProduce, GreedyTake,
       GreedyTakeFails, GreedyRefund, GreedyAcquire, GreedyRelease, GreedyGive,
       GreedyDone, TakeToken, GiveToken, acquire_resource, release_resource
  <2>2. CASE GreedyTake
    <3>1. /\ mine[Greedy] = {} /\ mine'[Greedy] = {}
          /\ Cardinality(mine'[Greedy]) = 0
      BY <1>0, <2>2 DEF GreedyInv, GreedyTake
    <3>2. held'[Greedy] = held[Greedy] + 1
          /\ count \in Nat /\ count < Hoard /\ count <= held[Greedy]
      BY <1>0, <2>2 DEF GreedyInv, GreedyTake, TakeToken
    <3>3. \/ count + 1 = Hoard /\ count' = 0 /\ pc'[Greedy] = "acquiring"
          \/ count + 1 # Hoard /\ count' = count + 1 /\ pc'[Greedy] = "taking"
      BY <1>0, <2>2 DEF GreedyTake
    <3> QED BY <1>0, <2>1, <3>1, <3>2, <3>3 DEF GreedyInv
  <2>3. CASE GreedyTakeFails
    BY <1>0, <2>1, <2>3 DEF GreedyInv, GreedyTakeFails
  <2>4. CASE GreedyRefund
    BY <1>0, <2>1, <2>4 DEF GreedyInv, GreedyRefund, GiveToken
  <2>5. CASE GreedyAcquire
    <3>1. Cardinality(mine[Greedy]) \in Nat
      BY <1>0, FS_Subset, FS_CardinalityType
    <3>2. Cardinality(mine'[Greedy]) <= Cardinality(mine[Greedy]) + 1
          /\ Cardinality(mine'[Greedy]) \in Nat
      <4>1. CASE mine' = mine
        BY <3>1, <4>1
      <4>2. ASSUME NEW r \in Resources, mine' = [mine EXCEPT ![Greedy] = @ \cup {r}]
            PROVE  Cardinality(mine'[Greedy]) <= Cardinality(mine[Greedy]) + 1
                   /\ Cardinality(mine'[Greedy]) \in Nat
        <5>1. mine'[Greedy] = mine[Greedy] \cup {r}
          BY <1>0, <4>2
        <5>2. CASE r \in mine[Greedy]
          <6>1. mine'[Greedy] = mine[Greedy]
            BY <5>1, <5>2
          <6> QED BY <3>1, <6>1
        <5>3. CASE r \notin mine[Greedy]
          BY <1>0, <3>1, <5>1, <5>3, OneMore
        <5> QED BY <5>2, <5>3
      <4> QED BY <2>5, <4>1, <4>2 DEF GreedyAcquire, acquire_resource, Free
    <3> QED BY <1>0, <2>1, <2>5, <3>1, <3>2 DEF GreedyInv, GreedyAcquire,
            acquire_resource
  <2>6. CASE GreedyRelease
    <3>1. PICK r \in mine[Greedy] : release_resource(Greedy, r)
      BY <2>6 DEF GreedyRelease
    <3>2. mine'[Greedy] = mine[Greedy] \ {r}
      BY <1>0, <3>1 DEF release_resource
    <3>3. Cardinality(mine[Greedy]) \in Nat
          /\ Cardinality(mine'[Greedy]) = Cardinality(mine[Greedy]) - 1
      BY <1>0, <3>2, OneLess
    <3> QED BY <1>0, <2>1, <2>6, <3>3 DEF GreedyInv, GreedyRelease
  <2>7. CASE GreedyGive
    <3>1. Cardinality(mine[Greedy]) \in Nat
      BY <1>0, FS_Subset, FS_CardinalityType
    <3> QED BY <1>0, <2>1, <2>7, <3>1 DEF GreedyInv, GreedyGive, GiveToken
  <2>8. CASE GreedyDone
    BY <1>0, <2>1, <2>8 DEF GreedyInv, GreedyDone
  <2> QED BY <1>3, <2>2, <2>3, <2>4, <2>5, <2>6, <2>7, <2>8 DEF GreedyProduce
<1>4. CASE Break \/ RemoveToken
  BY <1>0, <1>4 DEF Break, RemoveToken, TakeToken, ProducerInv, GreedyInv,
     ManagerInv
<1>5. CASE Manage
  BY <1>0, <1>5 DEF Manage, CheckLoad, Grow, CountGrown, Shrink, CountShrunk,
     ProducerInv, GreedyInv, ManagerInv
<1> QED BY <1>1, <1>2, <1>3, <1>4, <1>5 DEF Next

-----------------------------------------------------------------------------

(* The inductive invariant holds in every reachable state.                 *)
THEOREM Invariance == Spec => []IInv
<1>1. Init => IInv
  <2> SUFFICES ASSUME Init PROVE IInv
    OBVIOUS
  <2> USE PoolAssumption DEF Init, Users, Holders
  <2>1. MaxResources \in Nat /\ Hoard \in Nat /\ Cardinality({}) = 0
    BY FS_CardinalityType, EmptyCard
  <2>2. TypeOK
    BY <2>1 DEF TypeOK
  <2>3. ProducerInv
    BY <2>1 DEF ProducerInv
  <2>4. GreedyInv
    BY <2>1 DEF GreedyInv
  <2>5. ManagerInv
    BY DEF ManagerInv
  <2>6. UniqueHolder /\ BrokenIdle
    BY DEF UniqueHolder, BrokenIdle
  <2> QED BY <2>2, <2>3, <2>4, <2>5, <2>6 DEF IInv
<1>2. IInv /\ [Next]_vars => IInv'
  BY TypeStep, LoopStep, UseStep DEF IInv
<1> QED BY <1>1, <1>2, PTL DEF Spec

(* Types, among them the pool's size between its two bounds: the manager   *)
(* decides in one step and resizes in another, but nobody else resizes.    *)
THEOREM TypeCorrect == Spec => []TypeOK
<1>1. IInv => TypeOK
  BY DEF IInv
<1> QED BY <1>1, Invariance, PTL

(* No two users ever hold the same resource.                               *)
THEOREM ExclusiveUse == Spec => []UniqueHolder
<1>1. IInv => UniqueHolder
  BY DEF IInv
<1> QED BY <1>1, Invariance, PTL

(* No broken resource is ever in use.                                      *)
THEOREM BrokenStaysIdle == Spec => []BrokenIdle
<1>1. IInv => BrokenIdle
  BY DEF IInv
<1> QED BY <1>1, Invariance, PTL

(* Behind every resource in use there is a token its user has taken.       *)
THEOREM TokenBehindUse == Spec => []UseNeedsToken
<1>1. ASSUME IInv PROVE UseNeedsToken
  <2> USE PoolAssumption DEF Users, Holders
  <2>1. TypeOK /\ ProducerInv /\ GreedyInv /\ Cardinality({}) = 0 /\ Hoard \in Nat
    BY <1>1, EmptyCard DEF IInv
  <2>2. ASSUME NEW p \in Producers PROVE Cardinality(mine[p]) <= held[p]
    BY <2>1 DEF ProducerInv, TypeOK
  <2>3. Cardinality(mine[Greedy]) <= held[Greedy]
    <3>1. Cardinality(mine[Greedy]) \in Nat
      BY <2>1, FS_Subset, FS_CardinalityType DEF TypeOK
    <3> QED BY <2>1, <3>1 DEF GreedyInv, TypeOK
  <2> QED BY <2>2, <2>3 DEF UseNeedsToken
<1> QED BY <1>1, Invariance, PTL

(* For any number of producers, resources and tokens, every use is         *)
(* exclusive, of a sound resource, and paid for.                           *)
THEOREM SoundUse == Spec => []EveryUseIsSound
<1>1. TypeOK /\ UniqueHolder /\ BrokenIdle /\ UseNeedsToken => EveryUseIsSound
  BY DEF EveryUseIsSound
<1> QED BY <1>1, TypeCorrect, ExclusiveUse, BrokenStaysIdle, TokenBehindUse, PTL
-----------------------------------------------------------------------------
(* The tokens                                                              *)

LEMMA TokensAreFinite ==
    ASSUME TypeOK, NEW S \in SUBSET Holders
    PROVE  IsFiniteSet(TokensOut(S)) /\ Cardinality(TokensOut(S)) \in Nat
<1>1. IsFiniteSet(S)
  BY PoolAssumption, FS_AddElement, FS_Subset DEF Holders, Users
<1>2. IsFiniteSet({{t} \X (1..held[t]) : t \in S})
  <2> DEFINE T == {{t} \X (1..held[t]) : t \in S}
             f == [t \in S |-> {t} \X (1..held[t])]
  <2>1. f \in Surjection(S, T)
    <3>1. f \in [S -> T] /\ \A x \in T : \E t \in S : f[t] = x
      OBVIOUS
    <3> HIDE DEF f, T
    <3> QED BY <3>1 DEF Surjection
  <2> HIDE DEF f, T
  <2>2. IsFiniteSet(T)
    BY <1>1, <2>1, FS_Surjection
  <2> QED BY <2>2 DEF T
<1>3. ASSUME NEW t \in S
      PROVE  IsFiniteSet({t} \X (1..held[t]))
  <2>1. held[t] \in Int /\ 1 \in Int
    BY DEF TypeOK
  <2>2. IsFiniteSet(1..held[t]) /\ IsFiniteSet({t})
    BY <2>1, FS_Interval, FS_Singleton
  <2> QED BY <2>2, FS_Product
<1>4. IsFiniteSet(TokensOut(S))
  <2> DEFINE T == {{t} \X (1..held[t]) : t \in S}
  <2>1. IsFiniteSet(T) /\ \A x \in T : IsFiniteSet(x)
    BY <1>2, <1>3
  <2>2. IsFiniteSet(UNION T)
    <3> HIDE DEF T
    <3> QED BY <2>1, FS_UNION
  <2> QED BY <2>2 DEF TokensOut
<1> QED BY <1>4, FS_CardinalityType

(* A token taken is one more pair, a token given back one less.            *)
LEMMA OneMoreToken ==
    ASSUME TypeOK, NEW t \in Holders, held' = [held EXCEPT ![t] = @ + 1]
    PROVE  Cardinality(TokensOut(Holders))' = Cardinality(TokensOut(Holders)) + 1
<1> DEFINE x == <<t, held[t] + 1>>
<1>1. /\ held \in [Holders -> Nat]
      /\ \A u \in Holders : held'[u] = IF u = t THEN held[u] + 1 ELSE held[u]
  BY DEF TypeOK
<1>2. x \notin TokensOut(Holders)
  BY <1>1 DEF TokensOut
<1>3. TokensOut(Holders)' = TokensOut(Holders) \cup {x}
  <2>1. \A u \in Holders, k \in Nat \ {0} :
           k \in 1..held'[u] <=> k \in 1..held[u] \/ <<u, k>> = x
    BY <1>1
  <2>2. ASSUME NEW y \in TokensOut(Holders)'
        PROVE  y \in TokensOut(Holders) \cup {x}
    <3>1. PICK u \in Holders : y \in {u} \X (1..held'[u])
      BY <2>2 DEF TokensOut
    <3>2. PICK k \in 1..held'[u] : y = <<u, k>>
      BY <3>1
    <3>3. CASE y = x
      BY <3>3
    <3>4. CASE y # x
      <4>1. k \in 1..held[u]
        BY <1>1, <2>1, <3>2, <3>4
      <4>2. y \in {u} \X (1..held[u])
        BY <3>2, <4>1
      <4> QED BY <4>2 DEF TokensOut
    <3> QED BY <3>3, <3>4
  <2>3. ASSUME NEW u \in Holders, NEW k \in 1..held[u]
        PROVE  <<u, k>> \in TokensOut(Holders)'
    <3>1. <<u, k>> \in {u} \X (1..held'[u])
      BY <1>1
    <3> QED BY <3>1 DEF TokensOut
  <2>4. x \in TokensOut(Holders)'
    <3>1. x \in {t} \X (1..held'[t])
      BY <1>1
    <3> QED BY <3>1 DEF TokensOut
  <2>5. ASSUME NEW y \in TokensOut(Holders)
        PROVE  y \in TokensOut(Holders)'
    <3>1. PICK u \in Holders : y \in {u} \X (1..held[u])
      BY <2>5 DEF TokensOut
    <3>2. PICK k \in 1..held[u] : y = <<u, k>>
      BY <3>1
    <3> QED BY <2>3, <3>2
  <2> HIDE DEF x
  <2> QED BY <2>2, <2>4, <2>5
<1>4. IsFiniteSet(TokensOut(Holders))
  BY TokensAreFinite
<1> HIDE DEF x
<1>5. Cardinality(TokensOut(Holders) \cup {x}) = Cardinality(TokensOut(Holders)) + 1
  BY <1>2, <1>4, FS_AddElement
<1> QED BY <1>3, <1>5

LEMMA OneTokenLess ==
    ASSUME TypeOK, NEW t \in Holders, held[t] > 0, held' = [held EXCEPT ![t] = @ - 1]
    PROVE  /\ Cardinality(TokensOut(Holders))' = Cardinality(TokensOut(Holders)) - 1
           /\ Cardinality(TokensOut(Holders)) > 0
<1> DEFINE x == <<t, held[t]>>
<1>1. /\ held \in [Holders -> Nat]
      /\ \A u \in Holders : held'[u] = IF u = t THEN held[u] - 1 ELSE held[u]
  BY DEF TypeOK
<1>2. x \in TokensOut(Holders)
  <2>1. x \in {t} \X (1..held[t])
    BY <1>1
  <2> QED BY <2>1 DEF TokensOut
<1>3. TokensOut(Holders)' = TokensOut(Holders) \ {x}
  <2>1. \A u \in Holders, k \in Nat \ {0} :
           k \in 1..held'[u] <=> k \in 1..held[u] /\ <<u, k>> # x
    BY <1>1
  <2>2. ASSUME NEW y \in TokensOut(Holders)'
        PROVE  y \in TokensOut(Holders) \ {x}
    <3>1. PICK u \in Holders : y \in {u} \X (1..held'[u])
      BY <2>2 DEF TokensOut
    <3>2. PICK k \in 1..held'[u] : y = <<u, k>>
      BY <3>1
    <3>3. k \in 1..held[u] /\ y # x
      BY <1>1, <2>1, <3>2
    <3>4. y \in {u} \X (1..held[u])
      BY <3>2, <3>3
    <3> QED BY <3>3, <3>4 DEF TokensOut
  <2>3. ASSUME NEW y \in TokensOut(Holders), y # x
        PROVE  y \in TokensOut(Holders)'
    <3>1. PICK u \in Holders : y \in {u} \X (1..held[u])
      BY <2>3 DEF TokensOut
    <3>2. PICK k \in 1..held[u] : y = <<u, k>>
      BY <3>1
    <3>3. k \in 1..held'[u]
      BY <1>1, <2>1, <2>3, <3>2
    <3>4. y \in {u} \X (1..held'[u])
      BY <3>2, <3>3
    <3> QED BY <3>4 DEF TokensOut
  <2> HIDE DEF x
  <2> QED BY <2>2, <2>3
<1>4. IsFiniteSet(TokensOut(Holders)) /\ Cardinality(TokensOut(Holders)) \in Nat
  BY TokensAreFinite
<1> HIDE DEF x
<1>5. Cardinality(TokensOut(Holders) \ {x}) = Cardinality(TokensOut(Holders)) - 1
  BY <1>2, <1>4, FS_RemoveElement
<1>6. Cardinality(TokensOut(Holders)) # 0
  BY <1>2, <1>4, FS_EmptySet
<1> QED BY <1>3, <1>4, <1>5, <1>6

(* The size of the pool and the place of the manager are its own.          *)
LEMMA OthersElsewhere ==
    ASSUME TypeOK,
           \/ \E p \in Producers : Produce(p)
           \/ GreedyProduce \/ Break \/ RemoveToken \/ UNCHANGED vars
    PROVE  pool_size' = pool_size /\ pc'[Manager] = pc[Manager]
<1>1. /\ \A t \in Holders : t # Manager
      /\ Producers \subseteq Holders /\ Greedy \in Holders /\ Chaos \in Holders
  BY PoolAssumption DEF Holders, Users
<1>2. \A t \in Holders : \A phase : GoTo(t, phase) => pc'[Manager] = pc[Manager]
  BY <1>1 DEF GoTo, TypeOK
<1>3. ASSUME NEW p \in Producers, Produce(p)
      PROVE  pool_size' = pool_size /\ pc'[Manager] = pc[Manager]
  BY <1>1, <1>2, <1>3 DEF Produce, Take, TakeFails, Acquire, Release, Give,
     acquire_resource
<1>4. CASE GreedyProduce
  BY <1>1, <1>2, <1>4 DEF GreedyProduce, GreedyTake, GreedyTakeFails,
     GreedyRefund, GreedyAcquire, GreedyRelease, GreedyGive, GreedyDone,
     acquire_resource
<1>5. CASE Break \/ RemoveToken \/ UNCHANGED vars
  BY <1>1, <1>2, <1>5 DEF Break, RemoveToken, vars
<1> QED BY <1>3, <1>4, <1>5

(* Whoever is about to give a token has one.                               *)
LEMMA GiversHaveTokens ==
    ASSUME IInv, NEW u \in Users, pc[u] \in {"giving", "refunding"}
    PROVE  held[u] > 0
<1>1. CASE u \in Producers
  BY <1>1 DEF IInv, ProducerInv
<1>2. CASE u = Greedy
  <2>1. /\ Cardinality(mine[Greedy]) \in Nat
        /\ held[Greedy] \in Nat /\ count \in Nat
    BY PoolAssumption, FS_Subset, FS_CardinalityType
       DEF IInv, TypeOK, Users, Holders
  <2> QED BY <1>2, <2>1 DEF IInv, GreedyInv
<1> QED BY <1>1, <1>2 DEF Users

(* There are never more tokens than the semaphore can count, and fewer     *)
(* when the manager is about to give one.                                  *)
LEMMA TokensFit ==
    ASSUME IInv, TokensAccounted
    PROVE  /\ tokens + Cardinality(TokensOut(Holders)) <= MaxResources
           /\ pc[Manager] = "growing" => tokens < MaxResources
<1> DEFINE out == Cardinality(TokensOut(Holders))
<1>1. /\ MaxResources \in Nat /\ MinPool \in Nat /\ out \in Nat /\ tokens \in Nat
      /\ pool_size \in Nat /\ pool_size <= MaxResources
      /\ pc[Manager] \in {"growing", "grown"} => pool_size < MaxResources
      /\ tokens + out + Recording("shrunk") = pool_size + Recording("grown")
  BY TokensAreFinite, PoolAssumption, FS_CardinalityType
     DEF IInv, ManagerInv, TypeOK, TokensAccounted
<1> HIDE DEF out
<1>2. tokens + out <= MaxResources
  BY <1>1 DEF Recording
<1>3. pc[Manager] = "growing" => tokens < MaxResources
  BY <1>1 DEF Recording
<1> QED BY <1>2, <1>3 DEF out

(* No step loses or makes a token.  Nobody but the manager changes the     *)
(* size of the pool or has a token to record.                              *)
LEMMA TokenStep ==
    ASSUME IInv, TokensAccounted, [Next]_vars
    PROVE  TokensAccounted'
<1> DEFINE out == Cardinality(TokensOut(Holders))
<1>0. /\ TypeOK /\ MaxResources \in Nat /\ out \in Nat
      /\ tokens + out + Recording("shrunk") = pool_size + Recording("grown")
      /\ tokens \in Nat /\ pool_size \in Nat /\ pool_size <= MaxResources
      /\ held \in [Holders -> Nat] /\ tokens + out <= MaxResources
  <2>1. TypeOK /\ MaxResources \in Nat /\ MinPool \in Nat
    BY PoolAssumption, FS_CardinalityType DEF IInv
  <2>2. tokens + out <= MaxResources
    BY TokensFit
  <2> QED BY <2>1, <2>2, TokensAreFinite DEF TokensAccounted, TypeOK
<1> DEFINE Others == pool_size' = pool_size /\ pc'[Manager] = pc[Manager]
<1>1. ASSUME NEW t \in Holders, TakeToken(t), Others
      PROVE  TokensAccounted'
  <2>1. out' = out + 1 /\ tokens' = tokens - 1
    BY <1>0, <1>1, OneMoreToken DEF TakeToken
  <2>2. tokens \in Nat \ {0}
    BY <1>0, <1>1 DEF TakeToken
  <2> HIDE DEF out
  <2>3. tokens' + out' = tokens + out
    BY <1>0, <2>1, <2>2
  <2> QED BY <1>0, <1>1, <2>3 DEF TokensAccounted, Recording, out
<1>2. ASSUME NEW t \in Holders, GiveToken(t), held[t] > 0, Others
      PROVE  TokensAccounted'
  <2>1. out' = out - 1 /\ out > 0
    BY <1>0, <1>2, OneTokenLess DEF GiveToken
  <2>2. tokens' = tokens + 1
    BY <1>0, <1>2, <2>1 DEF GiveToken
  <2> HIDE DEF out
  <2>3. tokens' + out' = tokens + out
    BY <1>0, <2>1, <2>2
  <2> QED BY <1>0, <1>2, <2>3 DEF TokensAccounted, Recording, out
<1>3. ASSUME UNCHANGED held,
             tokens' + out + Recording("shrunk")' = pool_size' + Recording("grown")'
      PROVE  TokensAccounted'
  <2>1. out' = out
    BY <1>3 DEF TokensOut
  <2> QED BY <1>3, <2>1 DEF TokensAccounted
<1>4. ASSUME UNCHANGED <<held, tokens>>, Others
      PROVE  TokensAccounted'
  BY <1>0, <1>3, <1>4 DEF Recording
<1>5. ASSUME NEW p \in Producers, Produce(p)
      PROVE  TokensAccounted'
  <2>1. p \in Holders /\ Others
    BY <1>0, <1>5, OthersElsewhere DEF Holders, Users
  <2>2. CASE Take(p)
    BY <1>1, <2>1, <2>2 DEF Take
  <2>3. CASE Give(p)
    <3>1. held[p] > 0
      BY <2>3 DEF Give, IInv, ProducerInv
    <3> QED BY <1>2, <2>1, <2>3, <3>1 DEF Give
  <2>4. CASE ~Take(p) /\ ~Give(p)
    BY <1>4, <1>5, <2>1, <2>4 DEF Produce, TakeFails, Acquire, Release
  <2> QED BY <2>2, <2>3, <2>4
<1>6. CASE GreedyProduce
  <2>1. Greedy \in Holders /\ Others
    BY <1>0, <1>6, OthersElsewhere DEF Holders, Users
  <2>2. CASE GreedyTake
    BY <1>1, <2>1, <2>2 DEF GreedyTake
  <2>3. CASE GreedyRefund
    <3>1. held[Greedy] > 0
      BY <2>3, GiversHaveTokens DEF GreedyRefund, Users
    <3> QED BY <1>2, <2>1, <2>3, <3>1 DEF GreedyRefund
  <2>4. CASE GreedyGive
    <3>1. held[Greedy] > 0
      BY <2>4, GiversHaveTokens DEF GreedyGive, Users
    <3> QED BY <1>2, <2>1, <2>4, <3>1 DEF GreedyGive
  <2>5. CASE GreedyTakeFails \/ GreedyAcquire \/ GreedyRelease \/ GreedyDone
    BY <1>4, <2>1, <2>5
       DEF GreedyTakeFails, GreedyAcquire, GreedyRelease, GreedyDone
  <2> QED BY <1>6, <2>2, <2>3, <2>4, <2>5 DEF GreedyProduce
<1>7. CASE RemoveToken
  <2>1. Chaos \in Holders /\ Others
    BY <1>0, <1>7, OthersElsewhere DEF Holders
  <2> QED BY <1>1, <1>4, <1>7, <2>1 DEF RemoveToken
<1>8. CASE Grow \/ CountGrown \/ Shrink \/ CountShrunk
  <2>1. pool_size > 0 \/ pc[Manager] \notin {"shrinking", "shrunk"}
    BY <1>0, PoolAssumption, FS_CardinalityType DEF IInv, ManagerInv
  <2>2. UNCHANGED held
    BY <1>8 DEF Grow, CountGrown, Shrink, CountShrunk
  <2>3. Manager \in DOMAIN pc
    BY <1>0 DEF TypeOK
  <2> HIDE DEF out
  <2>4. CASE Grow
    BY <1>0, <1>3, <2>2, <2>3, <2>4 DEF Grow, GoTo, Recording
  <2>5. CASE CountGrown
    BY <1>0, <1>3, <2>2, <2>3, <2>5 DEF CountGrown, GoTo, Recording
  <2>6. CASE Shrink
    BY <1>0, <1>3, <2>2, <2>3, <2>6 DEF Shrink, GoTo, Recording
  <2>7. CASE CountShrunk
    BY <1>0, <1>3, <2>1, <2>2, <2>3, <2>7 DEF CountShrunk, GoTo, Recording
  <2> QED BY <1>8, <2>4, <2>5, <2>6, <2>7
<1>9. CASE CheckLoad
  <2>1. UNCHANGED <<held, tokens, pool_size>>
    BY <1>9 DEF CheckLoad
  <2>2. \A phase \in {"shrunk", "grown"} : Recording(phase)' = 0 /\ Recording(phase) = 0
    BY <1>0, <1>9 DEF CheckLoad, GoTo, Recording, TypeOK
  <2> HIDE DEF out
  <2> QED BY <1>0, <1>3, <2>1, <2>2
<1>10. CASE Break \/ UNCHANGED vars
  BY <1>0, <1>4, <1>10, OthersElsewhere DEF Break, vars
<1> QED BY <1>5, <1>6, <1>7, <1>8, <1>9, <1>10 DEF Next, Manage

(* The tokens in the semaphore and with the tasks are the logical size of  *)
(* the pool, whatever the greedy producer and the monkey do, but between   *)
(* the two statements in which the manager changes one and then the other. *)
THEOREM TokensAddUp == Spec => []TokensAccounted
<1>1. Init => TokensAccounted
  <2>1. SUFFICES ASSUME Init
                 PROVE  TokensAccounted
    OBVIOUS
  <2>2. TokensOut(Holders) = {}
    <3>1. \A t \in Holders : {t} \X (1..held[t]) = {}
      BY <2>1 DEF Init
    <3> QED BY <3>1 DEF TokensOut
  <2>3. tokens \in Nat /\ tokens = pool_size
    BY <2>1, PoolAssumption, FS_CardinalityType DEF Init
  <2>4. pc[Manager] = "idle"
    BY <2>1, PoolAssumption DEF Init, Holders
  <2> QED BY <2>2, <2>3, <2>4, EmptyCard DEF TokensAccounted, Recording
<1>2. IInv /\ TokensAccounted /\ [Next]_vars => TokensAccounted'
  BY TokenStep
<1> QED BY <1>1, <1>2, Invariance, PTL DEF Spec

-----------------------------------------------------------------------------
(* Uses are counted by the numbered uses of each user: no user has more of *)
(* them than tokens.                                                       *)
UsesOf == UNION {{u} \X (1..Cardinality(mine[u])) : u \in Users}

LEMMA UsesArePaid ==
    ASSUME IInv
    PROVE  /\ UsesOf \subseteq TokensOut(Users)
           /\ Cardinality(in_use) <= Cardinality(UsesOf)
           /\ \A u \in Users :
                 /\ pc[u] = "acquiring" => Cardinality(mine[u]) < held[u]
                 /\ Cardinality(UsesOf) + held[u]
                       <= Cardinality(TokensOut(Users)) + Cardinality(mine[u])
<1> USE PoolAssumption
<1>0. /\ TypeOK /\ ProducerInv /\ GreedyInv /\ UniqueHolder
      /\ mine \in [Users -> SUBSET Resources] /\ held \in [Holders -> Nat]
      /\ Users \subseteq Holders /\ Hoard \in Nat \ {0}
  BY DEF IInv, TypeOK, Holders
<1>1. \A u \in Users : /\ Cardinality(mine[u]) \in Nat
                       /\ ExistsBijection(1..Cardinality(mine[u]), mine[u])
  BY <1>0, FS_Subset, FS_CardinalityType
<1>2. \A u \in Users : /\ Cardinality(mine[u]) <= held[u]
                       /\ pc[u] = "acquiring" => Cardinality(mine[u]) < held[u]
  <2>1. ASSUME NEW p \in Producers
        PROVE  /\ Cardinality(mine[p]) <= held[p]
               /\ pc[p] = "acquiring" => Cardinality(mine[p]) < held[p]
    BY <1>0, EmptyCard DEF ProducerInv
  <2>2. /\ Cardinality(mine[Greedy]) <= held[Greedy]
        /\ pc[Greedy] = "acquiring" => Cardinality(mine[Greedy]) < held[Greedy]
    <3>1. Greedy \in Users
      BY DEF Users
    <3>2. Cardinality(mine[Greedy]) \in Nat /\ held[Greedy] \in Nat /\ count \in Nat
      BY <1>0, <1>1, <3>1 DEF TypeOK
    <3> QED BY <1>0, <3>2, EmptyCard DEF GreedyInv
  <2> QED BY <2>1, <2>2 DEF Users
<1>3. UsesOf \subseteq TokensOut(Users)
  <2>1. ASSUME NEW u \in Users, NEW k \in 1..Cardinality(mine[u])
        PROVE  <<u, k>> \in {u} \X (1..held[u])
    BY <1>0, <1>1, <1>2
  <2> QED BY <2>1 DEF UsesOf, TokensOut
<1>4. ASSUME NEW u \in Users
      PROVE  Cardinality(UsesOf) + held[u]
                <= Cardinality(TokensOut(Users)) + Cardinality(mine[u])
  <2> DEFINE m == Cardinality(mine[u])
             Rest == {u} \X ((m + 1)..held[u])
  <2>1. m \in Nat /\ held[u] \in Nat /\ m <= held[u]
    BY <1>0, <1>1, <1>2
  <2>2. Rest \subseteq TokensOut(Users) /\ UsesOf \cap Rest = {}
    <3>1. Rest \subseteq {u} \X (1..held[u])
      BY <2>1
    <3>2. ASSUME NEW x \in UsesOf, x \in Rest
          PROVE  FALSE
      <4>1. PICK v \in Users : x \in {v} \X (1..Cardinality(mine[v]))
        BY DEF UsesOf
      <4>2. x[1] = v /\ x[2] \in 1..Cardinality(mine[v])
        BY <4>1
      <4>3. x[1] = u /\ x[2] \in (m + 1)..held[u]
        BY <3>2
      <4> QED BY <2>1, <4>2, <4>3
    <3> QED BY <3>1, <3>2 DEF TokensOut
  <2>3. IsFiniteSet(Rest) /\ Cardinality(Rest) = held[u] - m
    <3>1. /\ IsFiniteSet((m + 1)..held[u])
          /\ Cardinality((m + 1)..held[u]) = held[u] - m
      <4>1. m + 1 \in Int /\ held[u] \in Int
        BY <2>1
      <4>2. /\ IsFiniteSet((m + 1)..held[u])
            /\ Cardinality((m + 1)..held[u]) =
                  IF m + 1 > held[u] THEN 0 ELSE held[u] - (m + 1) + 1
        BY <4>1, FS_Interval
      <4> QED BY <2>1, <4>2
    <3>2. IsFiniteSet({u}) /\ Cardinality({u}) = 1
      BY FS_Singleton
    <3>3. /\ IsFiniteSet(Rest)
          /\ Cardinality(Rest) = Cardinality({u}) * Cardinality((m + 1)..held[u])
      BY <3>1, <3>2, FS_Product
    <3> QED BY <2>1, <3>1, <3>2, <3>3
  <2>4. IsFiniteSet(TokensOut(Users)) /\ Cardinality(TokensOut(Users)) \in Nat
    BY <1>0, TokensAreFinite
  <2>5. IsFiniteSet(UsesOf) /\ Cardinality(UsesOf) \in Nat
    BY <1>3, <2>4, FS_Subset, FS_CardinalityType
  <2> HIDE DEF m, Rest
  <2>6. Cardinality(UsesOf \cup Rest) = Cardinality(UsesOf) + Cardinality(Rest)
    <3>1. Cardinality(UsesOf \cup Rest) =
             Cardinality(UsesOf) + Cardinality(Rest) - Cardinality(UsesOf \cap Rest)
      BY <2>3, <2>5, FS_Union
    <3>2. Cardinality(UsesOf \cap Rest) = 0
      BY <2>2, EmptyCard
    <3> QED BY <2>1, <2>3, <2>5, <3>1, <3>2
  <2>7. Cardinality(UsesOf \cup Rest) <= Cardinality(TokensOut(Users))
    <3>1. UsesOf \cup Rest \in SUBSET TokensOut(Users)
      BY <1>3, <2>2
    <3> QED BY <2>4, <3>1, FS_Subset
  <2> QED BY <2>1, <2>3, <2>4, <2>5, <2>6, <2>7 DEF m
<1>5. Cardinality(in_use) <= Cardinality(UsesOf)
  <2> DEFINE nth == [u \in Users |->
                        CHOOSE g \in Bijection(1..Cardinality(mine[u]), mine[u]) : TRUE]
             f == [x \in UsesOf |-> nth[x[1]][x[2]]]
  <2>1. \A u \in Users : nth[u] \in Bijection(1..Cardinality(mine[u]), mine[u])
    BY <1>1 DEF ExistsBijection
  <2>2. \A u \in Users : /\ nth[u] \in [1..Cardinality(mine[u]) -> mine[u]]
                         /\ \A r \in mine[u] :
                               \E k \in 1..Cardinality(mine[u]) : nth[u][k] = r
    BY <2>1 DEF Bijection, Injection, Surjection
  <2>3. ASSUME NEW x \in UsesOf
        PROVE  f[x] \in in_use
    <3>1. PICK u \in Users : x \in {u} \X (1..Cardinality(mine[u]))
      BY DEF UsesOf
    <3>2. x[1] = u /\ x[2] \in 1..Cardinality(mine[u])
      BY <3>1
    <3>3. f[x] = nth[u][x[2]]
      BY <3>2
    <3>4. nth[u] \in [1..Cardinality(mine[u]) -> mine[u]]
      BY <2>2
    <3> HIDE DEF f, nth
    <3>5. f[x] \in mine[u]
      BY <3>2, <3>3, <3>4
    <3> QED BY <1>0, <3>5 DEF UniqueHolder
  <2>4. ASSUME NEW r \in in_use
        PROVE  \E x \in UsesOf : f[x] = r
    <3>1. PICK u \in Users : r \in mine[u]
      BY <1>0 DEF UniqueHolder
    <3>2. PICK k \in 1..Cardinality(mine[u]) : nth[u][k] = r
      BY <2>2, <3>1
    <3>3. <<u, k>> \in UsesOf
      <4>1. <<u, k>> \in {u} \X (1..Cardinality(mine[u]))
        OBVIOUS
      <4> QED BY <4>1 DEF UsesOf
    <3>4. f[<<u, k>>] = r
      BY <3>2, <3>3
    <3> QED BY <3>3, <3>4
  <2>5. f \in Surjection(UsesOf, in_use)
    <3>1. f \in [UsesOf -> in_use]
      BY <2>3
    <3> HIDE DEF f
    <3> QED BY <2>4, <3>1 DEF Surjection
  <2>6. IsFiniteSet(UsesOf)
    BY <1>0, <1>3, TokensAreFinite, FS_Subset
  <2> HIDE DEF f
  <2> QED BY <2>5, <2>6, FS_Surjection
<1> QED BY <1>2, <1>3, <1>4, <1>5

(* A user meets an empty pool only if there are broken resources for the   *)
(* tokens the monkey has and those this user has no resource for: each     *)
(* resource in use has a token of its own.                                 *)
LEMMA EmptyPool ==
    ASSUME IInv, TokensAccounted, NEW u \in Users, Free = {}
    PROVE  held[u] + held[Chaos] <= Cardinality(mine[u]) + Cardinality(broken)
<1>1. /\ TypeOK /\ held \in [Holders -> Nat] /\ MaxResources = Cardinality(Resources)
      /\ MaxResources \in Nat /\ tokens \in Nat
      /\ Chaos \notin Users /\ Holders = Users \cup {Chaos}
      /\ in_use \in SUBSET Resources /\ broken \in SUBSET Resources
      /\ mine[u] \in SUBSET Resources
  <2>1. MaxResources \in Nat
    BY PoolAssumption, FS_CardinalityType
  <2> QED BY <2>1, PoolAssumption DEF IInv, TypeOK, Holders
<1>2. /\ IsFiniteSet(in_use) /\ IsFiniteSet(broken)
      /\ Cardinality(in_use) \in Nat /\ Cardinality(broken) \in Nat
      /\ Cardinality(mine[u]) \in Nat
  BY <1>1, PoolAssumption, FS_Subset, FS_CardinalityType
<1>3. MaxResources <= Cardinality(in_use) + Cardinality(broken)
  <2>1. in_use \cup broken = Resources
    BY <1>1 DEF Free
  <2>2. IsFiniteSet(in_use \cap broken)
    BY <1>2, FS_Subset
  <2>3. Cardinality(in_use \cap broken) \in Nat
    BY <2>2, FS_CardinalityType
  <2>4. Cardinality(in_use \cup broken) =
           Cardinality(in_use) + Cardinality(broken) - Cardinality(in_use \cap broken)
    BY <1>2, FS_Union
  <2>5. Cardinality(in_use \cup broken) = MaxResources
    BY <1>1, <2>1
  <2> QED BY <1>1, <1>2, <2>3, <2>4, <2>5
<1>4. IsFiniteSet(TokensOut(Users)) /\ Cardinality(TokensOut(Users)) \in Nat
  BY <1>1, TokensAreFinite
<1>5. Cardinality(in_use) + held[u] <= Cardinality(TokensOut(Users)) + Cardinality(mine[u])
  <2>1. /\ UsesOf \in SUBSET TokensOut(Users)
        /\ Cardinality(in_use) <= Cardinality(UsesOf)
        /\ Cardinality(UsesOf) + held[u]
              <= Cardinality(TokensOut(Users)) + Cardinality(mine[u])
    BY UsesArePaid
  <2>2. Cardinality(UsesOf) \in Nat
    BY <1>4, <2>1, FS_Subset, FS_CardinalityType
  <2>3. held[u] \in Nat
    BY <1>1
  <2> QED BY <1>2, <1>4, <2>1, <2>2, <2>3
<1>6. Cardinality(TokensOut(Holders)) = Cardinality(TokensOut(Users)) + held[Chaos]
  <2> DEFINE C == {Chaos} \X (1..held[Chaos])
  <2>0. Chaos \in Holders /\ held[Chaos] \in Nat
    BY <1>1
  <2>1. TokensOut(Holders) = TokensOut(Users) \cup C /\ TokensOut(Users) \cap C = {}
    BY <1>1 DEF TokensOut
  <2>2. IsFiniteSet(C) /\ Cardinality(C) = held[Chaos]
    <3>1. 1 \in Int /\ held[Chaos] \in Int
      BY <2>0
    <3>2. IsFiniteSet(1..held[Chaos]) /\ Cardinality(1..held[Chaos]) = held[Chaos]
      <4>1. /\ IsFiniteSet(1..held[Chaos])
            /\ Cardinality(1..held[Chaos]) =
                  IF 1 > held[Chaos] THEN 0 ELSE held[Chaos] - 1 + 1
        BY <3>1, FS_Interval
      <4> QED BY <2>0, <4>1
    <3>3. IsFiniteSet({Chaos}) /\ Cardinality({Chaos}) = 1
      BY FS_Singleton
    <3>4. IsFiniteSet(C) /\ Cardinality(C) = Cardinality({Chaos}) * Cardinality(1..held[Chaos])
      BY <3>2, <3>3, FS_Product
    <3> QED BY <2>0, <3>2, <3>3, <3>4
  <2> HIDE DEF C
  <2>3. Cardinality(TokensOut(Users) \cup C) =
           Cardinality(TokensOut(Users)) + Cardinality(C) - Cardinality(TokensOut(Users) \cap C)
    BY <1>4, <2>2, FS_Union
  <2>4. Cardinality(TokensOut(Users) \cap C) = 0
    BY <2>1, EmptyCard
  <2> QED BY <1>4, <2>0, <2>1, <2>2, <2>3, <2>4
<1>7. tokens + Cardinality(TokensOut(Holders)) <= MaxResources
  BY TokensFit
<1>8. held[u] \in Nat /\ held[Chaos] \in Nat
  BY <1>1
<1> QED BY <1>1, <1>2, <1>3, <1>4, <1>5, <1>6, <1>7, <1>8

(* Whoever has taken a token finds a resource, as long as the monkey has a *)
(* token for each resource it broke (acquire_resource).                    *)
THEOREM EveryTokenFinds == Spec => []TokenFindsResource
<1>1. ASSUME IInv, TokensAccounted, held[Chaos] = Cardinality(broken),
             NEW u \in Users, pc[u] = "acquiring", Free = {}
      PROVE  FALSE
  <2>1. held[u] + held[Chaos] <= Cardinality(mine[u]) + Cardinality(broken)
    BY <1>1, EmptyPool
  <2>2. Cardinality(mine[u]) < held[u]
    BY <1>1, UsesArePaid
  <2>3. /\ held[u] \in Nat /\ held[Chaos] \in Nat
        /\ Cardinality(mine[u]) \in Nat
    BY <1>1, PoolAssumption, FS_Subset, FS_CardinalityType
       DEF IInv, TypeOK, Holders
  <2> QED BY <1>1, <2>1, <2>2, <2>3
<1>2. IInv /\ TokensAccounted => TokenFindsResource
  BY <1>1 DEF TokenFindsResource
<1> QED BY <1>2, Invariance, TokensAddUp, PTL

(* The tokens the greedy producer has lost are no more than the broken     *)
(* resources.  A search that fails costs one token, and fails only while   *)
(* enough of them are broken; broken they stay.                            *)
Losses == held[Greedy] <= Due + Cardinality(broken)

LEMMA LossStep ==
    ASSUME IInv, TokensAccounted, Losses, [Next]_vars
    PROVE  Losses'
<1>0. /\ TypeOK /\ GreedyInv /\ held[Greedy] \in Nat /\ count \in Nat
      /\ Hoard \in Nat \ {0} /\ count <= Hoard
      /\ Cardinality(mine[Greedy]) \in Nat /\ Cardinality(broken) \in Nat
      /\ mine[Greedy] \in SUBSET Resources /\ broken \in SUBSET Resources
      /\ Cardinality({}) = 0
  BY PoolAssumption, FS_Subset, FS_CardinalityType, EmptyCard
     DEF IInv, TypeOK, Users, Holders
<1>1. ASSUME pc'[Greedy] = pc[Greedy], held'[Greedy] = held[Greedy],
             mine'[Greedy] = mine[Greedy], count' = count, broken' = broken
      PROVE  Losses'
  BY <1>1 DEF Losses, Due
<1>2. ASSUME NEW p \in Producers, Produce(p)
      PROVE  Losses'
  <2>1. p # Greedy
    BY PoolAssumption
  <2>2. /\ UNCHANGED <<count, broken>>
        /\ pc' = pc \/ \E phase : GoTo(p, phase)
    BY <1>2 DEF Produce, Take, TakeFails, Acquire, Release, Give,
       acquire_resource
  <2>3. UNCHANGED held \/ TakeToken(p) \/ GiveToken(p)
    BY <1>2 DEF Produce, Take, TakeFails, Acquire, Release, Give
  <2>4. \/ UNCHANGED mine
        \/ \E own : mine' = [mine EXCEPT ![p] = own]
    BY <1>2 DEF Produce, Take, TakeFails, Acquire, Release, Give,
       acquire_resource, release_resource
  <2>5. pc'[Greedy] = pc[Greedy]
    BY <1>0, <2>1, <2>2 DEF GoTo, TypeOK, Users, Holders
  <2>6. held'[Greedy] = held[Greedy]
    BY <1>0, <2>1, <2>3 DEF TakeToken, GiveToken, TypeOK, Users, Holders
  <2>7. mine'[Greedy] = mine[Greedy]
    BY <1>0, <2>1, <2>4 DEF TypeOK, Users
  <2> QED BY <1>1, <2>2, <2>5, <2>6, <2>7
<1>3. CASE GreedyProduce
  <2>1. broken' = broken /\ Greedy \in DOMAIN pc /\ Greedy \in DOMAIN held
        /\ Greedy \in DOMAIN mine
    BY <1>0, <1>3 DEF GreedyProduce, GreedyTake, GreedyTakeFails, GreedyRefund,
       GreedyAcquire, GreedyRelease, GreedyGive, GreedyDone, TypeOK, Users,
       Holders
  <2>2. CASE GreedyTake
    BY <1>0, <2>1, <2>2 DEF GreedyTake, TakeToken, GoTo, Losses, Due, GreedyInv
  <2>3. CASE GreedyTakeFails
    BY <1>0, <2>1, <2>3 DEF GreedyTakeFails, GoTo, Losses, Due
  <2>4. CASE GreedyRefund
    BY <1>0, <2>1, <2>4 DEF GreedyRefund, GiveToken, GoTo, Losses, Due, GreedyInv
  <2>5. CASE GreedyAcquire
    <3>1. /\ pc[Greedy] = "acquiring" /\ held' = held /\ count < Hoard
          /\ IF count + 1 = Hoard
             THEN pc'[Greedy] = "releasing" /\ count' = 0
             ELSE pc'[Greedy] = "acquiring" /\ count' = count + 1
      BY <1>0, <2>1, <2>5 DEF GreedyAcquire, acquire_resource, GoTo, GreedyInv
    <3>2. ASSUME NEW r \in Free, mine' = [mine EXCEPT ![Greedy] = @ \cup {r}]
          PROVE  Losses'
      <4>1. r \in Resources \ mine[Greedy]
        BY <1>0, <3>2 DEF Free, IInv, UniqueHolder, Users
      <4>2. Cardinality(mine'[Greedy]) = Cardinality(mine[Greedy]) + 1
        BY <1>0, <2>1, <3>2, <4>1, OneMore
      <4> QED BY <1>0, <2>1, <3>1, <4>2 DEF Losses, Due
    <3>3. ASSUME Free = {}, mine' = mine
          PROVE  Losses'
      <4>1. held[Greedy] + held[Chaos] <= Cardinality(mine[Greedy]) + Cardinality(broken)
        BY <3>3, EmptyPool DEF Users
      <4>2. held[Chaos] \in Nat
        BY <1>0 DEF TypeOK, Holders
      <4> QED BY <1>0, <2>1, <3>1, <3>3, <4>1, <4>2 DEF Losses, Due
    <3> QED BY <2>5, <3>2, <3>3 DEF GreedyAcquire, acquire_resource
  <2>6. CASE GreedyRelease
    <3>1. PICK r \in mine[Greedy] : release_resource(Greedy, r)
      BY <2>6 DEF GreedyRelease
    <3>2. Cardinality(mine'[Greedy]) = Cardinality(mine[Greedy]) - 1
      BY <1>0, <2>1, <3>1, OneLess DEF release_resource
    <3> QED BY <1>0, <2>1, <2>6, <3>2 DEF GreedyRelease, GoTo, Losses, Due
  <2>7. CASE GreedyGive
    BY <1>0, <2>1, <2>7 DEF GreedyGive, GiveToken, GoTo, Losses, Due
  <2>8. CASE GreedyDone
    BY <1>0, <2>1, <2>8 DEF GreedyDone, GoTo, Losses, Due, GreedyInv
  <2> QED BY <1>3, <2>2, <2>3, <2>4, <2>5, <2>6, <2>7, <2>8 DEF GreedyProduce
<1>4. CASE Break
  <2>1. PICK r \in Free : broken' = broken \cup {r}
    BY <1>4 DEF Break
  <2>2. Cardinality(broken') = Cardinality(broken) + 1
    BY <1>0, <2>1, OneMore DEF Free
  <2>3. pc'[Greedy] = pc[Greedy] /\ UNCHANGED <<held, mine, count>>
    BY <1>0, <1>4, PoolAssumption DEF Break, GoTo, TypeOK, Users, Holders
  <2>4. Due' = Due /\ Due \in Nat
    BY <1>0, <2>3 DEF Due, GreedyInv
  <2> QED BY <1>0, <2>2, <2>3, <2>4 DEF Losses
<1>5. CASE RemoveToken \/ Manage \/ UNCHANGED vars
  <2>1. Greedy # Chaos /\ Greedy # Manager
    BY PoolAssumption DEF Users, Holders
  <2>2. UNCHANGED <<mine, count, broken>> /\ (UNCHANGED held \/ TakeToken(Chaos))
    BY <1>5 DEF RemoveToken, Manage, CheckLoad, Grow, CountGrown, Shrink,
       CountShrunk, vars
  <2>3. pc' = pc \/ \E t \in {Chaos, Manager} : \E phase : GoTo(t, phase)
    <3>1. CASE RemoveToken
      BY <3>1 DEF RemoveToken
    <3>2. CASE CheckLoad
      BY <3>2 DEF CheckLoad
    <3>3. CASE Grow \/ CountGrown
      BY <3>3 DEF Grow, CountGrown
    <3>4. CASE Shrink \/ CountShrunk
      BY <3>4 DEF Shrink, CountShrunk
    <3> QED BY <1>5, <3>1, <3>2, <3>3, <3>4 DEF Manage, vars
  <2>4. pc'[Greedy] = pc[Greedy]
    BY <1>0, <2>1, <2>3 DEF GoTo, TypeOK, Users, Holders
  <2>5. held'[Greedy] = held[Greedy]
    BY <1>0, <2>1, <2>2 DEF TakeToken, TypeOK, Users, Holders
  <2> QED BY <1>1, <2>2, <2>4, <2>5
<1> QED BY <1>2, <1>3, <1>4, <1>5 DEF Next

(* No give of a token is lost at a full semaphore, and the greedy producer *)
(* loses no more tokens than there are broken resources, for any numbers   *)
(* of resources, producers and tokens it wants.                            *)
THEOREM GivesAndLosses == Spec => []TokensComeBack
<1>1. Init => Losses
  <2> SUFFICES ASSUME Init
               PROVE  Losses
    OBVIOUS
  <2>1. /\ held[Greedy] = 0 /\ broken = {} /\ count = 0
        /\ pc[Greedy] = "taking"
    BY DEF Init, Users, Holders
  <2> QED BY <2>1, EmptyCard DEF Losses, Due
<1>2. IInv /\ TokensAccounted /\ Losses /\ [Next]_vars => Losses'
  BY LossStep
<1>3. IInv /\ TokensAccounted /\ Losses => TokensComeBack
  <2> SUFFICES ASSUME IInv, TokensAccounted, Losses
               PROVE  TokensComeBack
    OBVIOUS
  <2>1. ASSUME NEW u \in Users, pc[u] \in {"giving", "refunding"}
        PROVE  tokens < MaxResources
    <3>1. u \in Holders /\ held[u] > 0
      BY <2>1, GiversHaveTokens DEF Holders
    <3>2. <<u, 1>> \in TokensOut(Holders)
      <4>1. <<u, 1>> \in {u} \X (1..held[u])
        BY <3>1 DEF IInv, TypeOK
      <4> QED BY <3>1, <4>1 DEF TokensOut
    <3>3. /\ IsFiniteSet(TokensOut(Holders))
          /\ Cardinality(TokensOut(Holders)) \in Nat
      BY TokensAreFinite DEF IInv
    <3>4. Cardinality(TokensOut(Holders)) # 0
      BY <3>2, <3>3, FS_EmptySet
    <3>5. tokens + Cardinality(TokensOut(Holders)) <= MaxResources
      BY TokensFit
    <3>6. tokens \in Nat /\ MaxResources \in Nat
      BY PoolAssumption, FS_CardinalityType DEF IInv, TypeOK
    <3> QED BY <3>3, <3>4, <3>5, <3>6
  <2>2. ASSUME NEW u \in Users, pc[u] = "growing"
        PROVE  FALSE
    BY <2>2 DEF Users, IInv, ProducerInv, GreedyInv
  <2>3. pc[Manager] \notin {"giving", "refunding"}
    BY DEF IInv, ManagerInv
  <2>4. pc[Manager] = "growing" => tokens < MaxResources
    BY TokensFit
  <2> QED BY <2>1, <2>2, <2>3, <2>4 DEF TokensComeBack, Losses
<1> QED BY <1>1, <1>2, <1>3, Invariance, TokensAddUp, PTL DEF Spec

-----------------------------------------------------------------------------
(* TimerPool                                                               *)

(* pool_mutex belongs to whoever works under it, and what it protects is   *)
(* there: the entry of the governor, the timer that has fired.             *)
Locks ==
    /\ fired # NULL <=> pool_mutex = "daemon"
    /\ governor # "sleeping" <=> pool_mutex = "governor"
    /\ governor \in {"slowing", "resetting"} => slot \in InUse
    /\ fired # NULL => fired \in Alive

(* The timers stress_test_task has allocated and has yet to release.       *)
Filling == test \in {"allocating", "starting", "running"}
Pending(k) ==
    /\ timers[k] # NULL
    /\ Filling \/ (test \in {"stopping", "releasing"} /\ k >= i)

(* Those are the entries in use but for the ones the release gave up on,   *)
(* each with one pointer; where the test is tells which they are.          *)
Pointers ==
    /\ \A k \in Timers : Pending(k) => /\ timers[k] \in InUse
                                       /\ timer_pool[timers[k]].handle \notin refused
    /\ \A k, l \in Timers : timers[k] # NULL /\ timers[k] = timers[l] => k = l
    /\ test = "allocating" => \A k \in Timers : k >= i => timers[k] = NULL
    /\ test = "starting" => \A k \in Timers : k > i => timers[k] = NULL
    /\ test = "running" => i = 1
    /\ test \in {"starting", "releasing"} => timers[i] # NULL
    /\ \A s \in InUse : \/ timer_pool[s].handle \in refused
                        \/ \E k \in Timers : Pending(k) /\ timers[k] = s
    /\ Filling => refused = {}

(* Jobs that wait in the queue or that a worker does.                      *)
JobsMade == Range(work_queue) \cup ({job[w] : w \in Workers} \ {NULL})

(* An id and a handle are of one timer only, the id of a timer, of its     *)
(* entry and of its jobs is the same, and ids are not given twice.         *)
Ids ==
    /\ test = "allocating" => next_timer_id <= i
    /\ test = "starting" => next_timer_id <= i + 1
    /\ \A s \in InUse : /\ timer_pool[s].handle \in Alive
                        /\ timer[timer_pool[s].handle].id = timer_pool[s].id
                        /\ timer_pool[s].id < next_timer_id
    /\ \A s, t \in InUse : s # t => /\ timer_pool[s].handle # timer_pool[t].handle
                                    /\ timer_pool[s].id # timer_pool[t].id
    /\ \A j \in JobsMade : j.id < next_timer_id
    /\ \A s \in InUse, j \in JobsMade :
          j.id = timer_pool[s].id => j.handle = timer_pool[s].handle

(* A timer that is to be deleted has no entry any more, and one that is    *)
(* not and has none is a timer whose deletion was refused.                 *)
Deletions ==
    /\ NothingAfterDelete
    /\ \A s \in InUse : timer_pool[s].handle \notin Doomed
    /\ refused \subseteq Alive /\ refused \cap Doomed = {}
    /\ \A h \in Alive : \/ h \in Doomed \cup refused
                        \/ \E s \in InUse : timer_pool[s].handle = h

-----------------------------------------------------------------------------
(* The search of allocate_from_pool has a first entry to find.             *)
LEMMA FirstUnused ==
    ASSUME NEW used \in [Slots -> BOOLEAN], \E u \in Slots : ~used[u]
    PROVE  \E u \in Slots : ~used[u] /\ \A v \in 1..(u - 1) : used[v]
<1> DEFINE T == {u \in Slots : ~used[u]}
<1>1. T \subseteq Nat /\ T # {}
  BY TimerPoolAssumption DEF Slots
<1>2. PICK x \in T : \A y \in T : ~ (<<y, x>> \in OpToRel(<, Nat))
  BY <1>1, NatLessThanWellFounded, WFMin, Zenon
<1>3. \A v \in 1..(x - 1) : used[v]
  <2> SUFFICES ASSUME NEW v \in 1..(x - 1), ~used[v]
               PROVE  FALSE
    BY DEF Slots
  <2>1. x \in 1..PoolSize /\ PoolSize \in Nat
    BY <1>2, TimerPoolAssumption DEF Slots
  <2>2. v \in T /\ v < x
    BY <2>1 DEF Slots
  <2>3. <<v, x>> \in OpToRel(<, Nat)
    BY <2>2, <1>1 DEF OpToRel
  <2> QED BY <1>2, <2>2, <2>3
<1> QED BY <1>2, <1>3

(* An entry of the pool, and a command to the daemon.                      *)
Entry == [in_use : BOOLEAN, id : 0..NTimers, handle : Handles \cup {NULL},
          stress : BOOLEAN, is_throttled : BOOLEAN]
CommandType == [op : {"start", "stop", "delete", "period"}, handle : Handles]

(* The timers to be deleted, as positions in the queue.                    *)
LEMMA DoomedBy ==
    ASSUME commands \in Seq(CommandType), NEW h
    PROVE  h \in Doomed <=> \E n \in 1..Len(commands) :
                               commands[n].op = "delete" /\ commands[n].handle = h
BY DEF Doomed, Range

LEMMA DoomedByNext ==
    ASSUME commands' \in Seq(CommandType)
    PROVE  \A h : h \in Doomed' <=> \E n \in 1..Len(commands') :
                commands'[n].op = "delete" /\ commands'[n].handle = h
BY DEF Doomed, Range

(* The queue of commands with one more, if there is room, ...              *)
LEMMA CommandSent ==
    ASSUME TimerTypeOK, NEW op \in {"start", "stop", "delete", "period"},
           NEW h \in Handles, Command(op, h)
    PROVE  /\ commands' \in Seq(CommandType) /\ Len(commands') <= CommandLen
           /\ ~Room => commands' = commands
           /\ Room => /\ Len(commands') = Len(commands) + 1
                      /\ commands'[Len(commands) + 1] = [op |-> op, handle |-> h]
                      /\ \A n \in 1..Len(commands) : commands'[n] = commands[n]
<1>1. commands \in Seq(CommandType) /\ Len(commands) \in Nat /\ CommandLen \in Nat
      /\ [op |-> op, handle |-> h] \in CommandType
  BY TimerPoolAssumption DEF TimerTypeOK, CommandType
<1> QED BY <1>1 DEF Command, Room, TimerTypeOK

(* ... and with the first one gone.                                        *)
LEMMA CommandCarried ==
    ASSUME TimerTypeOK, commands # <<>>, commands' = Tail(commands)
    PROVE  /\ commands' \in Seq(CommandType) /\ Len(commands') <= CommandLen
           /\ Head(commands) = commands[1] /\ commands[1] \in CommandType
           /\ Len(commands) \in Nat \ {0} /\ Len(commands') = Len(commands) - 1
           /\ \A n \in 1..Len(commands') : commands'[n] = commands[n + 1]
<1>1. commands \in Seq(CommandType) /\ Len(commands) \in Nat /\ CommandLen \in Nat
      /\ Len(commands) <= CommandLen
  BY TimerPoolAssumption DEF TimerTypeOK, CommandType
<1> QED BY <1>1

(* A command for a timer that is not to be deleted keeps the order of the  *)
(* commands: a deletion is the last one of its timer.                      *)
LEMMA SendDooms ==
    ASSUME TimerTypeOK, NothingAfterDelete,
           NEW op \in {"start", "stop", "delete", "period"}, NEW h \in Alive,
           h \notin Doomed, Command(op, h), \A g \in Alive : g \in Alive'
    PROVE  /\ NothingAfterDelete'
           /\ Doomed' = IF Room /\ op = "delete" THEN Doomed \cup {h} ELSE Doomed
<1>0. /\ commands \in Seq(CommandType) /\ Len(commands) \in Nat
      /\ DOMAIN commands = 1..Len(commands) /\ h \in Handles
  BY DEF TimerTypeOK, CommandType, Alive
<1>1. /\ commands' \in Seq(CommandType) /\ DOMAIN commands' = 1..Len(commands')
      /\ ~Room => commands' = commands
      /\ Room => /\ Len(commands') = Len(commands) + 1
                 /\ commands'[Len(commands) + 1] = [op |-> op, handle |-> h]
                 /\ \A n \in 1..Len(commands) : commands'[n] = commands[n]
  BY <1>0, CommandSent
<1>2. CASE ~Room
  BY <1>0, <1>1, <1>2 DEF NothingAfterDelete, Doomed
<1>3. CASE Room
  <2>1. \A g : g \in Doomed <=> \E n \in 1..Len(commands) :
                  commands[n].op = "delete" /\ commands[n].handle = g
    BY <1>0, DoomedBy
  <2>2. \A g : g \in Doomed' <=> \E n \in 1..Len(commands') :
                  commands'[n].op = "delete" /\ commands'[n].handle = g
    BY <1>1, DoomedByNext
  <2>3. \A n \in 1..Len(commands') :
          n \in 1..Len(commands) \/ n = Len(commands) + 1
    BY <1>0, <1>1, <1>3
  <2>4. \A n \in 1..Len(commands) : n \in 1..Len(commands')
    BY <1>0, <1>1, <1>3
  <2>5. Len(commands) + 1 \in 1..Len(commands')
    BY <1>0, <1>1, <1>3
  <2>6. ASSUME NEW g
        PROVE  g \in Doomed' <=> g \in Doomed \/ (op = "delete" /\ g = h)
    BY <1>1, <1>3, <2>1, <2>2, <2>3, <2>4, <2>5
  <2>7. \A n \in DOMAIN commands' : commands'[n].handle \in Alive'
    BY <1>0, <1>1, <1>3, <2>3 DEF NothingAfterDelete
  <2>8. ASSUME NEW m \in DOMAIN commands', NEW n \in DOMAIN commands',
               m < n, commands'[m].op = "delete"
        PROVE  commands'[n].handle # commands'[m].handle
    <3>1. m \in 1..Len(commands)
      BY <1>0, <1>1, <1>3, <2>8
    <3>2. CASE n \in 1..Len(commands)
      BY <1>0, <1>1, <1>3, <2>8, <3>1, <3>2 DEF NothingAfterDelete
    <3>3. CASE n = Len(commands) + 1
      <4>1. commands[m].handle \in Doomed
        BY <1>1, <1>3, <2>1, <2>8, <3>1
      <4> QED BY <1>1, <1>3, <3>1, <3>3, <4>1
    <3> QED BY <1>1, <2>3, <3>2, <3>3
  <2>9. NothingAfterDelete'
    BY <2>7, <2>8 DEF NothingAfterDelete
  <2> QED BY <1>3, <2>6, <2>9
<1> QED BY <1>2, <1>3

(* The daemon carries out a command of a timer that exists, and a deleted  *)
(* timer has none left.                                                    *)
LEMMA CarryDooms ==
    ASSUME TimerTypeOK, NothingAfterDelete, Carry
    PROVE  /\ NothingAfterDelete'
           /\ \A h \in Handles :
                 h \in Alive' => /\ h \in Alive /\ timer'[h].id = timer[h].id
                                 /\ h \in Doomed' <=> h \in Doomed
           /\ \A h \in Alive : h \notin Doomed => h \in Alive'
           /\ timer' \in [Handles -> KernelTimers \cup {NULL}]
           /\ \A h \in Doomed' : h \in Doomed
<1> DEFINE c == commands[1]
<1>0. /\ commands \in Seq(CommandType) /\ DOMAIN commands = 1..Len(commands)
      /\ timer \in [Handles -> KernelTimers \cup {NULL}] /\ NULL \notin KernelTimers
  BY TimerPoolAssumption DEF TimerTypeOK, CommandType
<1>1. /\ commands' \in Seq(CommandType) /\ DOMAIN commands' = 1..Len(commands')
      /\ Head(commands) = c /\ c \in CommandType
      /\ Len(commands) \in Nat \ {0} /\ Len(commands') = Len(commands) - 1
      /\ \A n \in 1..Len(commands') : commands'[n] = commands[n + 1]
  <2>1. commands # <<>> /\ commands' = Tail(commands)
    BY DEF Carry
  <2> QED BY <2>1, CommandCarried
<1>2. timer' = [timer EXCEPT ![c.handle] = IF c.op = "delete" THEN NULL
                    ELSE [timer[c.handle] EXCEPT !.active = c.op # "stop"]]
  BY <1>1 DEF Carry
<1>3. c.handle \in Alive /\ c.handle \in Handles /\ timer[c.handle] \in KernelTimers
  BY <1>0, <1>1 DEF NothingAfterDelete, Alive
<1> HIDE DEF c
<1>4. [timer[c.handle] EXCEPT !.active = c.op # "stop"] \in KernelTimers
      /\ [timer[c.handle] EXCEPT !.active = c.op # "stop"].id = timer[c.handle].id
  BY <1>3 DEF KernelTimers
<1>5. timer' \in [Handles -> KernelTimers \cup {NULL}]
  BY <1>0, <1>2, <1>4
<1>6. \A h \in Handles :
        /\ h # c.handle => timer'[h] = timer[h]
        /\ h = c.handle => IF c.op = "delete" THEN timer'[h] = NULL
                           ELSE timer'[h] \in KernelTimers /\ timer'[h].id = timer[h].id
  BY <1>0, <1>2, <1>3, <1>4
<1>7. \A g : g \in Doomed <=> \E n \in 1..Len(commands) :
                commands[n].op = "delete" /\ commands[n].handle = g
  BY <1>0, DoomedBy
<1>8. \A g : g \in Doomed' <=> \E n \in 1..Len(commands') :
                commands'[n].op = "delete" /\ commands'[n].handle = g
  BY <1>1, DoomedByNext
<1>9. \A n \in 1..Len(commands') : n + 1 \in 1..Len(commands) /\ n \in Nat
  BY <1>1
<1>10. \A n \in 1..Len(commands) : n = 1 \/ (n - 1 \in 1..Len(commands') /\ n = (n - 1) + 1)
  BY <1>1
<1>11. ASSUME NEW g \in Doomed'
       PROVE  g \in Doomed
  BY <1>1, <1>7, <1>8, <1>9, <1>11
<1>12. ASSUME NEW g \in Doomed
       PROVE  g \in Doomed' \/ (c.op = "delete" /\ g = c.handle)
  <2>1. PICK n \in 1..Len(commands) : commands[n].op = "delete" /\ commands[n].handle = g
    BY <1>7, <1>12
  <2>2. CASE n = 1
    BY <2>1, <2>2 DEF c
  <2>3. CASE n - 1 \in 1..Len(commands') /\ n = (n - 1) + 1
    BY <1>1, <1>8, <2>1, <2>3
  <2> QED BY <1>10, <2>2, <2>3
<1>13. ASSUME NEW n \in 1..Len(commands'), c.op = "delete"
       PROVE  commands'[n].handle # c.handle
  <2>1. 1 \in DOMAIN commands /\ n + 1 \in DOMAIN commands /\ 1 < n + 1
    BY <1>0, <1>1, <1>9
  <2> QED BY <1>1, <1>13, <2>1 DEF NothingAfterDelete, c
<1>14. \A h \in Handles : h \in Alive' <=> h \in Alive /\ ~ (c.op = "delete" /\ h = c.handle)
  BY <1>0, <1>3, <1>6 DEF Alive
<1>15. \A n \in DOMAIN commands' : commands'[n].handle \in Alive'
  <2> SUFFICES ASSUME NEW n \in 1..Len(commands')
               PROVE  commands'[n].handle \in Alive'
    BY <1>1
  <2>1. commands'[n].handle \in Alive /\ commands'[n].handle \in Handles
    BY <1>0, <1>1, <1>9 DEF NothingAfterDelete, Alive
  <2> QED BY <1>13, <1>14, <2>1
<1>16. ASSUME NEW m \in DOMAIN commands', NEW n \in DOMAIN commands',
              m < n, commands'[m].op = "delete"
       PROVE  commands'[n].handle # commands'[m].handle
  <2>1. m + 1 \in DOMAIN commands /\ n + 1 \in DOMAIN commands /\ m + 1 < n + 1
    BY <1>0, <1>1, <1>9, <1>16
  <2> QED BY <1>1, <1>16, <2>1 DEF NothingAfterDelete
<1>17. NothingAfterDelete'
  BY <1>15, <1>16 DEF NothingAfterDelete
<1>18. \A h \in Alive : h \in Handles
  BY DEF Alive
<1>19. ASSUME NEW h \in Handles, h \in Alive'
       PROVE  /\ h \in Alive /\ timer'[h].id = timer[h].id
              /\ h \in Doomed' <=> h \in Doomed
  <2>1. h \in Alive /\ ~ (c.op = "delete" /\ h = c.handle)
    BY <1>14, <1>19
  <2>2. timer'[h].id = timer[h].id
    BY <1>6, <2>1
  <2> QED BY <1>11, <1>12, <2>1, <2>2
<1>20. ASSUME NEW h \in Alive, h \notin Doomed
       PROVE  h \in Alive'
  <2>1. 1 \in 1..Len(commands)
    BY <1>1
  <2>2. c.op = "delete" => c.handle \in Doomed
    BY <1>7, <2>1 DEF c
  <2> QED BY <1>14, <1>18, <1>20, <2>2
<1> QED BY <1>5, <1>11, <1>17, <1>19, <1>20

-----------------------------------------------------------------------------
(* The actions, as far as the proofs need them                             *)

LEMMA NextTimerMoves ==
    ASSUME i \in Timers, NEW p, NEW after, NextTimer(p, after)
    PROVE  /\ i' \in Timers /\ i \in Nat /\ NTimers \in Nat /\ i <= NTimers
           /\ \/ i < NTimers /\ i' = i + 1 /\ test' = p
              \/ i = NTimers /\ i' = 1 /\ test' = after
BY TimerPoolAssumption DEF NextTimer, Timers

(* An entry in use has an id and a timer.                                  *)
LEMMA UsedEntries ==
    ASSUME TimerTypeOK, Ids, NEW s \in InUse
    PROVE  /\ s \in Slots /\ timer_pool[s].handle \in Handles
           /\ timer_pool[s].id \in 1..NTimers
<1>1. s \in Slots /\ timer_pool[s].handle \in Alive
      /\ timer[timer_pool[s].handle].id = timer_pool[s].id
  BY DEF InUse, Ids
<1>2. \A h \in Alive : h \in Handles /\ timer[h].id \in 1..NTimers
  BY DEF Alive, TimerTypeOK, KernelTimers
<1> QED BY <1>1, <1>2

LEMMA CarryTypes ==
    ASSUME TimerTypeOK, NothingAfterDelete, Carry
    PROVE  timer' \in [Handles -> KernelTimers \cup {NULL}]
BY CarryDooms

(* An allocation finds an unused entry and makes a timer, or the test goes *)
(* on to the next one.                                                     *)
LEMMA AllocatesOrNot ==
    ASSUME TimerTypeOK, allocate_from_pool
    PROVE  \/ \E s \in Slots, h \in Handles :
                 /\ ~timer_pool[s].in_use /\ h \notin Alive
                 /\ timer_pool' = [timer_pool EXCEPT ![s] =
                       [in_use |-> TRUE, id |-> next_timer_id, handle |-> h,
                        stress |-> i <= NStress, is_throttled |-> FALSE]]
                 /\ timer' = [timer EXCEPT ![h] = [id |-> next_timer_id,
                                                   active |-> FALSE]]
                 /\ timers' = [timers EXCEPT ![i] = s]
                 /\ test' = "starting" /\ UNCHANGED i
           \/ /\ NextTimer("allocating", "running")
              /\ UNCHANGED <<timer_pool, timer, timers>>
<1> DEFINE used == [u \in Slots |-> timer_pool[u].in_use]
           s == CHOOSE u \in Slots : /\ ~timer_pool[u].in_use
                                     /\ \A v \in 1..(u - 1) : timer_pool[v].in_use
<1>1. used \in [Slots -> BOOLEAN] /\ \E u \in Slots : ~used[u]
  BY DEF TimerTypeOK, allocate_from_pool
<1>2. PICK u \in Slots : ~used[u] /\ \A v \in 1..(u - 1) : used[v]
  BY <1>1, FirstUnused
<1>3. \A v \in 1..(u - 1) : v \in Slots
  BY TimerPoolAssumption DEF Slots
<1>4. ~timer_pool[u].in_use /\ \A v \in 1..(u - 1) : timer_pool[v].in_use
  BY <1>2, <1>3
<1>5. s \in Slots /\ ~timer_pool[s].in_use
  BY <1>4
<1> HIDE DEF s
<1>6. \/ \E h \in Handles \ Alive :
            /\ timer_pool' = [timer_pool EXCEPT ![s] =
                  [in_use |-> TRUE, id |-> next_timer_id, handle |-> h,
                   stress |-> i <= NStress, is_throttled |-> FALSE]]
            /\ timer' = [timer EXCEPT ![h] = [id |-> next_timer_id,
                                              active |-> FALSE]]
            /\ timers' = [timers EXCEPT ![i] = s]
            /\ test' = "starting" /\ UNCHANGED i
      \/ /\ NextTimer("allocating", "running")
         /\ UNCHANGED <<timer_pool, timer, timers>>
  BY DEF allocate_from_pool, s
<1> QED BY <1>5, <1>6

(* Every value keeps its type; ids need the bound on next_timer_id.        *)
LEMMA TimerTypeStep ==
    ASSUME TimerTypeOK, Locks, Pointers, Ids, NothingAfterDelete,
           [TimerNext]_timerVars
    PROVE  TimerTypeOK'
<1> USE TimerPoolAssumption DEF kernelVars, testVars, governorVars, jobVars
<1>0. /\ i \in Timers /\ NTimers \in Nat \ {0} /\ PoolSize \in Nat \ {0}
      /\ slot \in 1..PoolSize /\ next_timer_id \in 1..(NTimers + 1)
      /\ timers \in [Timers -> Slots \cup {NULL}] /\ NULL \notin Slots
  BY DEF TimerTypeOK
<1>1. CASE allocate_from_pool
  <2>1. UNCHANGED <<pool_mutex, commands, fired, work_queue, job, refused, governor, slot>>
        /\ next_timer_id' = next_timer_id + 1 /\ test = "allocating"
    BY <1>1 DEF allocate_from_pool
  <2>2. next_timer_id \in 1..NTimers /\ next_timer_id' \in 1..(NTimers + 1)
    BY <1>0, <2>1 DEF Ids, Timers
  <2>3. CASE NextTimer("allocating", "running") /\ UNCHANGED <<timer_pool, timer, timers>>
    <3>1. i' \in Timers /\ test' \in {"allocating", "running"}
      BY <1>0, <2>3, NextTimerMoves
    <3> QED BY <2>1, <2>2, <2>3, <3>1 DEF TimerTypeOK
  <2>4. ASSUME NEW s \in Slots, NEW h \in Handles,
               timer_pool' = [timer_pool EXCEPT ![s] =
                       [in_use |-> TRUE, id |-> next_timer_id, handle |-> h,
                        stress |-> i <= NStress, is_throttled |-> FALSE]],
               timer' = [timer EXCEPT ![h] = [id |-> next_timer_id,
                                              active |-> FALSE]],
               timers' = [timers EXCEPT ![i] = s],
               test' = "starting" /\ UNCHANGED i
        PROVE  TimerTypeOK'
    <3>1. timer' \in [Handles -> KernelTimers \cup {NULL}]
      BY <2>2, <2>4 DEF TimerTypeOK, KernelTimers
    <3>2. timer_pool' \in [Slots -> Entry]
      BY <2>2, <2>4 DEF TimerTypeOK, Entry
    <3> QED BY <1>0, <2>1, <2>2, <2>4, <3>1, <3>2 DEF TimerTypeOK, Entry
  <2> QED BY <1>1, <2>3, <2>4, AllocatesOrNot
<1>2. CASE AllocateFails
  <2>1. i' \in Timers /\ test' \in {"allocating", "running"}
    BY <1>0, <1>2, NextTimerMoves DEF AllocateFails
  <2> QED BY <1>2, <2>1 DEF AllocateFails, TimerTypeOK
<1>3. ASSUME test \in {"starting", "releasing"} \/ (test = "stopping" /\ timers[i] # NULL)
      PROVE  timers[i] \in Slots /\ timer_pool[timers[i]].handle \in Handles
             /\ timer_pool[timers[i]].in_use
  <2>1. timers[i] \in Slots
    BY <1>0, <1>3 DEF Pointers
  <2>2. Pending(i)
    BY <1>0, <1>3, <2>1 DEF Pending, Filling, Timers
  <2>3. timers[i] \in InUse
    BY <1>0, <2>2 DEF Pointers
  <2> QED BY <2>1, <2>3 DEF Ids, Alive, InUse
<1>4. CASE Start
  <2>1. i' \in Timers /\ test' \in {"allocating", "running"}
    BY <1>0, <1>4, NextTimerMoves DEF Start
  <2>2. commands' \in Seq(CommandType) /\ Len(commands') <= CommandLen
    BY <1>3, <1>4, CommandSent DEF Start
  <2> QED BY <1>4, <2>1, <2>2 DEF Start, TimerTypeOK, CommandType
<1>5. CASE StartCleanUp
  BY <1>5 DEF StartCleanUp, TimerTypeOK
<1>6. CASE Stop
  <2>1. UNCHANGED <<timer_pool, next_timer_id, pool_mutex, timer, fired, work_queue, job,
                    timers, refused, governor, slot>> /\ test = "stopping"
    BY <1>6 DEF Stop
  <2>2. CASE timers[i] = NULL
    <3>1. i' \in Timers /\ test' \in {"stopping", "done"}
      BY <1>0, <1>6, <2>2, NextTimerMoves DEF Stop
    <3> QED BY <1>6, <2>1, <2>2, <3>1 DEF Stop, TimerTypeOK
  <2>3. CASE timers[i] # NULL
    <3>1. commands' \in Seq(CommandType) /\ Len(commands') <= CommandLen
      BY <1>3, <1>6, <2>1, <2>3, CommandSent DEF Stop
    <3> QED BY <1>6, <2>1, <2>3, <3>1 DEF Stop, TimerTypeOK, CommandType
  <2> QED BY <2>2, <2>3
<1>7. CASE release_to_pool
  <2>1. i' \in Timers /\ test' \in {"stopping", "done"}
    BY <1>0, <1>7, NextTimerMoves DEF release_to_pool
  <2>2. commands' \in Seq(CommandType) /\ Len(commands') <= CommandLen
    BY <1>3, <1>7, CommandSent DEF release_to_pool
  <2>3. timer_pool' \in [Slots -> Entry]
    <3>1. /\ timer_pool' = [timer_pool EXCEPT ![timers[i]].in_use = FALSE]
          /\ timers[i] \in Slots
      BY <1>3, <1>7 DEF release_to_pool
    <3>2. timer_pool \in [Slots -> Entry]
      BY DEF TimerTypeOK, Entry
    <3>3. \A e \in Entry : [e EXCEPT !.in_use = FALSE] \in Entry
      BY DEF Entry
    <3> QED BY <3>1, <3>2, <3>3
  <2>4. refused' \subseteq Handles
    BY <1>3, <1>7 DEF TimerTypeOK, release_to_pool
  <2> QED BY <1>7, <2>1, <2>2, <2>3, <2>4
         DEF release_to_pool, TimerTypeOK, CommandType, Entry
<1>8. CASE ReleaseTimeout
  <2>1. i' \in Timers /\ test' \in {"stopping", "done"}
    BY <1>0, <1>8, NextTimerMoves DEF ReleaseTimeout
  <2> QED BY <1>3, <1>8, <2>1 DEF ReleaseTimeout, TimerTypeOK
<1>9. CASE Carry
  <2>1. timer' \in [Handles -> KernelTimers \cup {NULL}]
    BY <1>9, CarryTypes
  <2>2. commands' \in Seq(CommandType) /\ Len(commands') <= CommandLen
    BY <1>9, CommandCarried DEF Carry
  <2> QED BY <1>9, <2>1, <2>2 DEF Carry, TimerTypeOK, CommandType
<1>10. CASE Fire
  BY <1>10 DEF Fire, TimerTypeOK, Alive
<1>11. CASE Schedule
  <2>1. work_queue' \in Seq(Jobs) /\ Len(work_queue') <= JobLen
    <3>1. work_queue \in Seq(Jobs) /\ Len(work_queue) <= JobLen
          /\ Len(work_queue) \in Nat /\ JobLen \in Nat
      BY DEF TimerTypeOK
    <3>2. CASE work_queue' = work_queue
      BY <3>1, <3>2
    <3>3. ASSUME NEW s \in Slots, timer_pool[s].in_use, Len(work_queue) < JobLen,
                 work_queue' = Append(work_queue,
                                      [id |-> timer_pool[s].id,
                                       handle |-> timer_pool[s].handle])
          PROVE  work_queue' \in Seq(Jobs) /\ Len(work_queue') <= JobLen
      <4>1. [id |-> timer_pool[s].id, handle |-> timer_pool[s].handle] \in Jobs
        BY <3>3, UsedEntries DEF Jobs, InUse
      <4> HIDE DEF Jobs
      <4> QED BY <3>1, <3>3, <4>1
    <3> QED BY <1>11, <3>2, <3>3 DEF Schedule
  <2> QED BY <1>11, <2>1 DEF Schedule, TimerTypeOK
<1>12. ASSUME NEW w \in Workers, TakeJob(w)
       PROVE  TimerTypeOK'
  <2>1. work_queue \in Seq(Jobs) /\ work_queue # <<>> /\ Len(work_queue) <= JobLen
        /\ Len(work_queue) \in Nat /\ JobLen \in Nat
    BY <1>12 DEF TakeJob, TimerTypeOK
  <2>2. /\ Head(work_queue) \in Jobs /\ Tail(work_queue) \in Seq(Jobs)
        /\ Len(Tail(work_queue)) <= JobLen
    BY <2>1
  <2> QED BY <1>12, <2>2 DEF TakeJob, TimerTypeOK
<1>13. ASSUME NEW w \in Workers, JobDone(w)
       PROVE  TimerTypeOK'
  BY <1>13 DEF JobDone, TimerTypeOK
<1>14. CASE Govern
  BY <1>14 DEF Govern, TimerTypeOK
<1>15. CASE Skip
  BY <1>0, <1>15 DEF Skip, NextSlot, TimerTypeOK
<1>16. CASE BeginChange
  BY <1>16 DEF BeginChange, TimerTypeOK
<1>17. CASE ChangePeriod
  <2>1. slot \in InUse
    BY <1>17 DEF ChangePeriod, Locks
  <2>2. timer_pool[slot].handle \in Handles
    BY <2>1 DEF Ids, Alive
  <2>3. commands' \in Seq(CommandType) /\ Len(commands') <= CommandLen
    BY <1>17, <2>2, CommandSent DEF ChangePeriod
  <2>4. timer_pool' \in [Slots -> Entry]
    <3>1. \/ timer_pool' = timer_pool
          \/ timer_pool' = [timer_pool EXCEPT ![slot].is_throttled =
                                                  governor = "slowing"]
      BY <1>17 DEF ChangePeriod
    <3>2. timer_pool \in [Slots -> Entry] /\ slot \in Slots
      BY <1>0 DEF TimerTypeOK, Entry, Slots
    <3>3. \A e \in Entry : [e EXCEPT !.is_throttled = governor = "slowing"] \in Entry
      BY DEF Entry
    <3> QED BY <3>1, <3>2, <3>3
  <2>5. slot' \in 1..PoolSize /\ pool_mutex' \in {NULL, "daemon", "governor"}
        /\ governor' \in {"sleeping", "throttling", "recovering"}
    BY <1>0, <1>17 DEF ChangePeriod, NextSlot, TimerTypeOK
  <2> QED BY <1>17, <2>3, <2>4, <2>5
         DEF ChangePeriod, TimerTypeOK, CommandType, Entry
<1>18. CASE UNCHANGED timerVars
  BY <1>18 DEF timerVars, TimerTypeOK
<1> QED
  BY <1>1, <1>2, <1>4, <1>5, <1>6, <1>7, <1>8, <1>9, <1>10, <1>11, <1>12,
     <1>13,
     <1>14, <1>15, <1>16, <1>17, <1>18
     DEF TimerNext, stress_test_task, timer_daemon, worker_task,
     adaptive_governor_check

-----------------------------------------------------------------------------
(* The parts of the invariant, step by step                                *)

(* A step after which the entries are the same, but for being throttled.   *)
SameEntries ==
    \A s \in Slots : /\ timer_pool'[s].in_use = timer_pool[s].in_use
                     /\ timer_pool'[s].handle = timer_pool[s].handle
                     /\ timer_pool'[s].id = timer_pool[s].id

LEMMA ThrottleOnly ==
    ASSUME TimerTypeOK, ChangePeriod
    PROVE  SameEntries
<1>1. \/ timer_pool' = timer_pool
      \/ timer_pool' = [timer_pool EXCEPT ![slot].is_throttled = governor = "slowing"]
  BY DEF ChangePeriod
<1>2. timer_pool \in [Slots -> Entry] /\ slot \in Slots
  BY DEF TimerTypeOK, Entry, Slots
<1>3. ASSUME NEW s \in Slots
      PROVE  /\ timer_pool'[s].in_use = timer_pool[s].in_use
             /\ timer_pool'[s].handle = timer_pool[s].handle
             /\ timer_pool'[s].id = timer_pool[s].id
  <2>1. timer_pool[s] \in Entry
    BY <1>2
  <2>2. \/ timer_pool'[s] = timer_pool[s]
        \/ timer_pool'[s] = [timer_pool[s] EXCEPT !.is_throttled = governor = "slowing"]
    BY <1>1, <1>2
  <2> QED BY <2>1, <2>2 DEF Entry
<1> QED BY <1>3 DEF SameEntries

(* What the steps outside stress_test_task leave alone.                    *)
Elsewhere ==
    \/ timer_daemon \/ (\E w \in Workers : worker_task(w))
    \/ adaptive_governor_check \/ UNCHANGED timerVars

LEMMA ElsewhereKeeps ==
    ASSUME TimerTypeOK, Elsewhere
    PROVE  /\ SameEntries /\ UNCHANGED <<next_timer_id, test, i, timers, refused>>
           /\ InUse' = InUse
<1>1. SameEntries
  <2>1. CASE ChangePeriod
    BY <2>1, ThrottleOnly
  <2>2. CASE ~ChangePeriod
    <3>1. timer_pool' = timer_pool
      BY <2>2 DEF Elsewhere, timer_daemon, worker_task,
         adaptive_governor_check, timerVars,
         Carry, Fire, Schedule, TakeJob, JobDone, Govern, Skip, BeginChange
    <3> QED BY <3>1 DEF SameEntries
  <2> QED BY <2>1, <2>2
<1>2. UNCHANGED <<next_timer_id, test, i, timers, refused>>
  BY DEF Elsewhere, timer_daemon, worker_task, adaptive_governor_check,
     timerVars,
     Carry, Fire, Schedule, TakeJob, JobDone, Govern, Skip, BeginChange,
     ChangePeriod, testVars
<1>3. InUse' = InUse
  BY <1>1 DEF SameEntries, InUse
<1> QED BY <1>1, <1>2, <1>3

(* The steps of stress_test_task that change no entry.                     *)
LEMMA TaskKeeps ==
    ASSUME AllocateFails \/ Start \/ StartCleanUp \/ Stop \/ ReleaseTimeout
    PROVE  /\ UNCHANGED <<timer_pool, next_timer_id, pool_mutex, timer, fired,
                          work_queue, job, timers, governor, slot>>
           /\ InUse' = InUse /\ Alive' = Alive
BY DEF AllocateFails, Start, StartCleanUp, Stop, ReleaseTimeout, kernelVars,
   jobVars,
   governorVars, InUse, Alive

(* An entry that is released.                                              *)
LEMMA Releases ==
    ASSUME TimerTypeOK, Pointers, release_to_pool
    PROVE  LET s == timers[i]
           IN  /\ s \in InUse /\ Pending(i) /\ InUse' = InUse \ {s}
               /\ \A t \in InUse' : timer_pool'[t] = timer_pool[t]
               /\ timer_pool[s].handle \notin refused
               /\ UNCHANGED <<next_timer_id, pool_mutex, timer, fired, work_queue, job,
                              timers, governor, slot>>
               /\ Alive' = Alive /\ pool_mutex = NULL /\ test = "releasing"
<1>1. test = "releasing" /\ timers[i] # NULL /\ i \in Timers
      /\ timer_pool \in [Slots -> Entry]
  BY DEF release_to_pool, Pointers, TimerTypeOK, Entry
<1>2. Pending(i)
  BY <1>1, TimerPoolAssumption DEF Pending, Timers
<1>3. timers[i] \in InUse /\ timer_pool[timers[i]].handle \notin refused
  BY <1>1, <1>2 DEF Pointers
<1>4. timer_pool' = [timer_pool EXCEPT ![timers[i]].in_use = FALSE]
  BY DEF release_to_pool
<1>5. \A e \in Entry : ~[e EXCEPT !.in_use = FALSE].in_use
  BY DEF Entry
<1>6. \A t \in Slots : IF t = timers[i] THEN ~timer_pool'[t].in_use
                                        ELSE timer_pool'[t] = timer_pool[t]
  BY <1>1, <1>3, <1>4, <1>5 DEF InUse
<1>7. InUse' = InUse \ {timers[i]}
  BY <1>6 DEF InUse
<1> QED BY <1>1, <1>2, <1>3, <1>6, <1>7
        DEF release_to_pool, jobVars, governorVars, InUse, Alive

(* An entry that is taken into use, for a new timer.                       *)
Takes(s, h) ==
    /\ s \in Slots /\ h \in Handles /\ s \notin InUse /\ h \notin Alive
    /\ InUse' = InUse \cup {s} /\ Alive' = Alive \cup {h}
    /\ \A t \in InUse : timer_pool'[t] = timer_pool[t]
    /\ timer_pool'[s].id = next_timer_id /\ timer_pool'[s].handle = h
    /\ \A g \in Alive : timer'[g] = timer[g]
    /\ timer'[h].id = next_timer_id
    /\ \A k \in Timers : timers'[k] = IF k = i THEN s ELSE timers[k]
    /\ test = "allocating" /\ test' = "starting" /\ i' = i

LEMMA Allocates ==
    ASSUME TimerTypeOK, Ids, allocate_from_pool
    PROVE  /\ UNCHANGED <<pool_mutex, commands, fired, work_queue, job, refused,
                          governor, slot>>
           /\ pool_mutex = NULL /\ test = "allocating"
           /\ next_timer_id' = next_timer_id + 1
           /\ \/ \E s \in Slots, h \in Handles : Takes(s, h)
              \/ /\ NextTimer("allocating", "running")
                 /\ UNCHANGED <<timer_pool, timer, timers>>
                 /\ InUse' = InUse /\ Alive' = Alive
<1>1. /\ UNCHANGED <<pool_mutex, commands, fired, work_queue, job, refused, governor, slot>>
      /\ pool_mutex = NULL /\ test = "allocating"
      /\ next_timer_id' = next_timer_id + 1
  BY DEF allocate_from_pool, jobVars, governorVars
<1>2. ASSUME NEW s \in Slots, NEW h \in Handles,
             ~timer_pool[s].in_use /\ h \notin Alive,
             timer_pool' = [timer_pool EXCEPT ![s] =
                       [in_use |-> TRUE, id |-> next_timer_id, handle |-> h,
                        stress |-> i <= NStress, is_throttled |-> FALSE]],
             timer' = [timer EXCEPT ![h] = [id |-> next_timer_id, active |-> FALSE]],
             timers' = [timers EXCEPT ![i] = s],
             test' = "starting" /\ UNCHANGED i
      PROVE  Takes(s, h)
  <2>1. /\ timer_pool'[s].in_use /\ timer_pool'[s].id = next_timer_id
        /\ timer_pool'[s].handle = h
        /\ \A t \in Slots : t # s => timer_pool'[t] = timer_pool[t]
    BY <1>2 DEF TimerTypeOK
  <2>2. InUse' = InUse \cup {s} /\ s \notin InUse
    BY <1>2, <2>1 DEF InUse
  <2>3. timer'[h] = [id |-> next_timer_id, active |-> FALSE]
        /\ \A g \in Handles : g # h => timer'[g] = timer[g]
    BY <1>2 DEF TimerTypeOK
  <2>4. [id |-> next_timer_id, active |-> FALSE] # NULL
    <3>1. next_timer_id \in 1..NTimers
      BY <1>1, TimerPoolAssumption DEF TimerTypeOK, Ids, Timers
    <3>2. [id |-> next_timer_id, active |-> FALSE] \in KernelTimers
      BY <3>1 DEF KernelTimers
    <3> QED BY <3>2, TimerPoolAssumption
  <2>5. Alive' = Alive \cup {h}
    BY <1>2, <2>3, <2>4 DEF Alive
  <2>6. \A k \in Timers : timers'[k] = IF k = i THEN s ELSE timers[k]
    BY <1>2 DEF TimerTypeOK
  <2> QED BY <1>1, <1>2, <2>1, <2>2, <2>3, <2>5, <2>6 DEF Takes, InUse, Alive
<1> QED BY <1>1, <1>2, AllocatesOrNot DEF InUse, Alive

LEMMA TimerSteps ==
    ASSUME [TimerNext]_timerVars
    PROVE  \/ allocate_from_pool \/ AllocateFails \/ Start \/ StartCleanUp
           \/ Stop \/ release_to_pool \/ ReleaseTimeout \/ Elsewhere
BY DEF TimerNext, stress_test_task, Elsewhere

(* The mutex belongs to whoever works under it, and under it the governor  *)
(* changes an entry that stays in use and the daemon's timer stays.        *)
LEMMA LocksStep ==
    ASSUME TimerTypeOK, Locks, Pointers, Ids, [TimerNext]_timerVars
    PROVE  Locks'
<1> USE TimerPoolAssumption DEF kernelVars, testVars, governorVars, jobVars
<1>1. CASE allocate_from_pool
  <2>1. UNCHANGED <<pool_mutex, fired, governor, slot>> /\ pool_mutex = NULL
    BY <1>1, Allocates
  <2> QED BY <2>1 DEF Locks
<1>2. CASE AllocateFails \/ Start \/ StartCleanUp \/ Stop \/ ReleaseTimeout
  BY <1>2, TaskKeeps DEF Locks
<1>3. CASE release_to_pool
  BY <1>3, Releases DEF Locks
<1>4. CASE Elsewhere
  <2>0. InUse' = InUse
    BY <1>4, ElsewhereKeeps
  <2>1. CASE Carry
    BY <2>0, <2>1 DEF Carry, Locks
  <2>2. CASE Fire
    <3>1. /\ fired = NULL /\ pool_mutex = NULL /\ fired' \in Alive /\ pool_mutex' = "daemon"
          /\ UNCHANGED <<timer, governor, slot>>
      BY <2>2 DEF Fire
    <3>2. Alive' = Alive /\ NULL \notin Alive
      BY <3>1 DEF Alive
    <3> QED BY <2>0, <3>1, <3>2 DEF Locks
  <2>3. CASE Schedule
    BY <2>0, <2>3 DEF Schedule, Locks, Alive
  <2>4. CASE (\E w \in Workers : worker_task(w)) \/ UNCHANGED timerVars
    BY <2>0, <2>4 DEF worker_task, TakeJob, JobDone, timerVars, Locks, Alive
  <2>5. CASE Govern
    BY <2>0, <2>5 DEF Govern, Locks, Alive
  <2>6. CASE Skip
    BY <2>0, <2>6 DEF Skip, NextSlot, Locks, Alive
  <2>7. CASE BeginChange
    <3>1. slot \in InUse
      BY <2>7 DEF BeginChange, Affected, InUse, TimerTypeOK, Slots
    <3> QED BY <2>0, <2>7, <3>1 DEF BeginChange, Locks, Alive
  <2>8. CASE ChangePeriod
    BY <2>0, <2>8 DEF ChangePeriod, NextSlot, Locks, Alive
  <2> QED BY <1>4, <2>1, <2>2, <2>3, <2>4, <2>5, <2>6, <2>7, <2>8
          DEF Elsewhere, timer_daemon, adaptive_governor_check
<1> QED BY <1>1, <1>2, <1>3, <1>4, TimerSteps

(* The test is done with its timer.                                        *)
LEMMA PassesOn ==
    ASSUME TimerTypeOK, test = "releasing", timers' = timers,
           NextTimer("stopping", "done"), NEW k \in Timers
    PROVE  Pending(k)' <=> Pending(k) /\ k # i
<1>1. k \in Nat /\ i \in Nat /\ k <= NTimers /\ NTimers \in Nat
      /\ \/ i < NTimers /\ i' = i + 1 /\ test' = "stopping"
         \/ i = NTimers /\ i' = 1 /\ test' = "done"
  BY NextTimerMoves, TimerPoolAssumption DEF Timers, TimerTypeOK
<1>2. Pending(k) <=> timers[k] # NULL /\ k >= i
  BY DEF Pending, Filling
<1>3. CASE i' = i + 1 /\ test' = "stopping"
  <2>1. Pending(k)' <=> timers[k] # NULL /\ k >= i + 1
    BY <1>3 DEF Pending, Filling
  <2> QED BY <1>1, <1>2, <2>1
<1>4. CASE i = NTimers /\ test' = "done"
  <2>1. ~Pending(k)'
    BY <1>4 DEF Pending, Filling
  <2> QED BY <1>1, <1>2, <1>4, <2>1
<1> QED BY <1>1, <1>3, <1>4

(* The test's pointers are to the entries in use that it has yet to        *)
(* release.                                                                *)
LEMMA PointersStep ==
    ASSUME TimerTypeOK, Locks, Pointers, Ids, Deletions, [TimerNext]_timerVars
    PROVE  Pointers'
<1>0. /\ i \in Timers /\ i \in Nat /\ NTimers \in Nat \ {0} /\ Timers \subseteq Nat
      /\ NULL \notin Slots /\ 1 \in Timers
      /\ timers \in [Timers -> Slots \cup {NULL}]
      /\ \A s \in InUse : s \in Slots /\ timer_pool[s].handle \in Alive
  BY TimerPoolAssumption DEF TimerTypeOK, Timers, Ids, InUse
<1>t. \A k \in Timers : k \in Nat /\ k <= NTimers /\ k >= 1
  BY <1>0 DEF Timers
<1>1. CASE allocate_from_pool
  <2>1. test = "allocating" /\ refused' = refused
    BY <1>1, Allocates
  <2>2. ASSUME NEW s \in Slots, NEW h \in Handles, Takes(s, h)
        PROVE  Pointers'
    <3>1. Filling /\ Filling' /\ refused = {} /\ refused' = {}
      BY <2>1, <2>2 DEF Takes, Filling, Pointers
    <3>2. \A k \in Timers : Pending(k) <=> timers[k] # NULL
      BY <3>1 DEF Pending
    <3>3. \A k \in Timers : Pending(k)' <=> k = i \/ Pending(k)
      BY <1>0, <2>2, <3>1, <3>2 DEF Takes, Pending
    <3>4. \A k \in Timers : Pending(k)' => timers'[k] \in InUse'
      BY <2>2, <3>3 DEF Takes, Pointers
    <3>5. \A k, l \in Timers : timers'[k] # NULL /\ timers'[k] = timers'[l] => k = l
      BY <2>2, <3>2 DEF Takes, Pointers
    <3>6. \A k \in Timers : k > i => timers'[k] = NULL
      BY <1>0, <1>t, <2>1, <2>2 DEF Takes, Pointers
    <3>7. \A t \in InUse' : \E k \in Timers : Pending(k)' /\ timers'[k] = t
      <4>1. ASSUME NEW t \in InUse
            PROVE  \E k \in Timers : Pending(k)' /\ timers'[k] = t
        <5>1. PICK k \in Timers : Pending(k) /\ timers[k] = t
          BY <3>1 DEF Pointers
        <5>2. k # i
          BY <1>0, <2>1, <5>1, <3>2 DEF Pointers
        <5> QED BY <2>2, <3>3, <5>1, <5>2 DEF Takes
      <4>2. Pending(i)' /\ timers'[i] = s
        BY <1>0, <2>2, <3>3 DEF Takes
      <4> QED BY <1>0, <2>2, <4>1, <4>2 DEF Takes
    <3>8. i' = i /\ test' = "starting" /\ timers'[i] # NULL
      BY <1>0, <2>2 DEF Takes
    <3> QED BY <3>1, <3>4, <3>5, <3>6, <3>7, <3>8 DEF Pointers
  <2>3. CASE NextTimer("allocating", "running") /\ UNCHANGED <<timer_pool, timers>>
             /\ InUse' = InUse
    <3>1. \/ i < NTimers /\ i' = i + 1 /\ test' = "allocating"
          \/ i = NTimers /\ i' = 1 /\ test' = "running"
      BY <1>0, <2>3, NextTimerMoves
    <3>2. \A k \in Timers : Pending(k)' <=> Pending(k)
      BY <2>1, <2>3, <3>1 DEF Pending, Filling
    <3>3. test' = "allocating" => \A k \in Timers : k >= i' => timers'[k] = NULL
      BY <1>0, <1>t, <2>1, <2>3, <3>1 DEF Pointers
    <3> QED BY <2>1, <2>3, <3>1, <3>2, <3>3 DEF Pointers, Filling
  <2> QED BY <1>1, <2>2, <2>3, Allocates
<1>2. CASE AllocateFails \/ Start \/ StartCleanUp \/ Stop \/ ReleaseTimeout
  <2>0. UNCHANGED <<timer_pool, timers>> /\ InUse' = InUse
    BY <1>2, TaskKeeps
  <2>1. CASE AllocateFails \/ Start
    <3>1. test \in {"allocating", "starting"} /\ refused' = refused
          /\ NextTimer("allocating", "running")
      BY <2>1 DEF AllocateFails, Start
    <3>2. \/ i < NTimers /\ i' = i + 1 /\ test' = "allocating"
          \/ i = NTimers /\ i' = 1 /\ test' = "running"
      BY <1>0, <3>1, NextTimerMoves
    <3>3. \A k \in Timers : Pending(k)' <=> Pending(k)
      BY <2>0, <3>1, <3>2 DEF Pending, Filling
    <3>4. test' = "allocating" => \A k \in Timers : k >= i' => timers'[k] = NULL
      BY <1>0, <1>t, <2>0, <3>1, <3>2 DEF Pointers
    <3> QED BY <2>0, <3>1, <3>2, <3>3, <3>4 DEF Pointers, Filling
  <2>2. CASE StartCleanUp
    <3>1. test = "running" /\ test' = "stopping" /\ i' = i /\ refused' = refused /\ i = 1
      BY <2>2 DEF StartCleanUp, Pointers
    <3>2. \A k \in Timers : Pending(k)' <=> Pending(k)
      BY <1>t, <2>0, <3>1 DEF Pending, Filling
    <3> QED BY <2>0, <3>1, <3>2 DEF Pointers, Filling
  <2>3. CASE Stop
    <3>1. test = "stopping" /\ refused' = refused
      BY <2>3 DEF Stop
    <3>2. CASE timers[i] = NULL
      <4>1. \/ i < NTimers /\ i' = i + 1 /\ test' = "stopping"
            \/ i = NTimers /\ i' = 1 /\ test' = "done"
        BY <1>0, <2>3, <3>2, NextTimerMoves DEF Stop
      <4>2. ASSUME NEW k \in Timers PROVE Pending(k)' <=> Pending(k)
        <5>1. Pending(k) <=> timers[k] # NULL /\ k >= i
          BY <3>1 DEF Pending, Filling
        <5>2. k \in Nat /\ k <= NTimers
          BY <1>t
        <5>3. CASE i' = i + 1 /\ test' = "stopping"
          <6>1. Pending(k)' <=> timers[k] # NULL /\ k >= i + 1
            BY <2>0, <5>3 DEF Pending, Filling
          <6>2. timers[k] # NULL => k # i
            BY <3>2
          <6> QED BY <1>0, <5>1, <5>2, <6>1, <6>2
        <5>4. CASE i = NTimers /\ test' = "done"
          <6>1. ~Pending(k)'
            BY <5>4 DEF Pending, Filling
          <6> QED BY <1>0, <3>2, <5>1, <5>2, <5>4, <6>1
        <5> QED BY <4>1, <5>3, <5>4
      <4> QED BY <2>0, <3>1, <4>1, <4>2 DEF Pointers, Filling
    <3>3. CASE timers[i] # NULL
      <4>1. test' = "releasing" /\ i' = i
        BY <2>3, <3>3 DEF Stop
      <4>2. \A k \in Timers : Pending(k)' <=> Pending(k)
        BY <2>0, <3>1, <4>1 DEF Pending, Filling
      <4> QED BY <2>0, <3>1, <3>3, <4>1, <4>2 DEF Pointers, Filling
    <3> QED BY <3>2, <3>3
  <2>4. CASE ReleaseTimeout
    <3>1. /\ test = "releasing" /\ timers[i] # NULL
          /\ refused' = refused \cup {timer_pool[timers[i]].handle}
      BY <2>4 DEF ReleaseTimeout, Pointers
    <3>2. \/ i < NTimers /\ i' = i + 1 /\ test' = "stopping"
          \/ i = NTimers /\ i' = 1 /\ test' = "done"
      BY <1>0, <2>4, NextTimerMoves DEF ReleaseTimeout
    <3>3. \A k \in Timers : Pending(k)' <=> Pending(k) /\ k # i
      BY <2>0, <2>4, <3>1, PassesOn DEF ReleaseTimeout
    <3>4. Pending(i) /\ timers[i] \in InUse
      BY <1>0, <3>1 DEF Pending, Filling, Pointers
    <3>5. \A k \in Timers : Pending(k)' => timers[k] # timers[i]
      BY <1>0, <3>1, <3>3 DEF Pointers
    <3>6. \A k \in Timers : Pending(k)' =>
            timer_pool[timers[k]].handle # timer_pool[timers[i]].handle
      BY <3>3, <3>4, <3>5 DEF Pointers, Ids
    <3>7. \A k \in Timers : Pending(k)' => /\ timers'[k] \in InUse'
                                           /\ timer_pool'[timers'[k]].handle \notin refused'
      BY <2>0, <3>1, <3>3, <3>6 DEF Pointers
    <3>8. \A s \in InUse' : \/ timer_pool'[s].handle \in refused'
                            \/ \E k \in Timers : Pending(k)' /\ timers'[k] = s
      BY <2>0, <3>1, <3>3 DEF Pointers
    <3> QED BY <2>0, <3>2, <3>7, <3>8 DEF Pointers, Filling
  <2> QED BY <1>2, <2>1, <2>2, <2>3, <2>4
<1>3. CASE release_to_pool
  <2> DEFINE s == timers[i]
  <2>1. /\ s \in InUse /\ Pending(i) /\ InUse' = InUse \ {s} /\ test = "releasing"
        /\ \A t \in InUse' : timer_pool'[t] = timer_pool[t]
        /\ timers' = timers
    BY <1>3, Releases
  <2>2. refused' \subseteq refused \cup {timer_pool[s].handle} /\ refused \subseteq refused'
    BY <1>3 DEF release_to_pool
  <2>3. \/ i < NTimers /\ i' = i + 1 /\ test' = "stopping"
        \/ i = NTimers /\ i' = 1 /\ test' = "done"
    BY <1>0, <1>3, NextTimerMoves DEF release_to_pool
  <2>4. \A k \in Timers : Pending(k)' <=> Pending(k) /\ k # i
    BY <1>3, <2>1, PassesOn DEF release_to_pool
  <2>5. \A k \in Timers : Pending(k)' => timers[k] # s /\ timers[k] \in InUse
    BY <1>0, <2>1, <2>4 DEF Pointers
  <2>6. \A k \in Timers : Pending(k)' => timer_pool[timers[k]].handle # timer_pool[s].handle
    BY <2>1, <2>5 DEF Ids
  <2>7. \A k \in Timers : Pending(k)' => /\ timers'[k] \in InUse'
                                         /\ timer_pool'[timers'[k]].handle \notin refused'
    BY <2>1, <2>2, <2>4, <2>5, <2>6 DEF Pointers
  <2>8. \A t \in InUse' : \/ timer_pool'[t].handle \in refused'
                          \/ \E k \in Timers : Pending(k)' /\ timers'[k] = t
    BY <2>1, <2>2, <2>4 DEF Pointers
  <2> QED BY <2>1, <2>3, <2>7, <2>8 DEF Pointers, Filling
<1>4. CASE Elsewhere
  <2>1. SameEntries /\ UNCHANGED <<test, i, timers, refused>> /\ InUse' = InUse
    BY <1>4, ElsewhereKeeps
  <2>2. \A k \in Timers : Pending(k)' <=> Pending(k)
    BY <2>1 DEF Pending, Filling
  <2> QED BY <1>0, <2>1, <2>2 DEF Pointers, Filling, SameEntries
<1> QED BY <1>1, <1>2, <1>3, <1>4, TimerSteps

(* Ids and handles are of one timer each.                                  *)
LEMMA IdsStep ==
    ASSUME TimerTypeOK, Locks, Pointers, Ids, Deletions, [TimerNext]_timerVars
    PROVE  Ids'
<1>0. /\ i \in Nat /\ i <= NTimers /\ NTimers \in Nat /\ next_timer_id \in Nat
      /\ \A s \in InUse : timer_pool[s].id \in Nat
      /\ \A j \in JobsMade : j.id \in Nat
  <2>1. \A s \in InUse : timer_pool[s].id \in Nat
    BY UsedEntries
  <2>2. work_queue \in Seq(Jobs) /\ \A w \in Workers : job[w] \in Jobs \cup {NULL}
    BY DEF TimerTypeOK
  <2>3. \A n \in DOMAIN work_queue : work_queue[n] \in Jobs
    BY <2>2
  <2>4. JobsMade \subseteq Jobs
    BY <2>2, <2>3 DEF JobsMade, Range
  <2> QED BY <2>1, <2>4, TimerPoolAssumption DEF TimerTypeOK, Timers, Jobs
<1>1. CASE allocate_from_pool
  <2>1. /\ test = "allocating" /\ next_timer_id' = next_timer_id + 1 /\ JobsMade' = JobsMade
        /\ next_timer_id <= i
    BY <1>1, Allocates DEF JobsMade, Ids
  <2>2. ASSUME NEW s \in Slots, NEW h \in Handles, Takes(s, h)
        PROVE  Ids'
    <3>1. \A t \in InUse' : t \in InUse \/ t = s
      BY <2>2 DEF Takes
    <3>2. /\ timer_pool'[s].handle = h /\ timer_pool'[s].id = next_timer_id
          /\ h \in Alive' /\ timer'[h].id = next_timer_id
          /\ \A t \in InUse : t # s /\ timer_pool'[t] = timer_pool[t]
          /\ \A g \in Alive : g # h /\ g \in Alive' /\ timer'[g] = timer[g]
      BY <2>2 DEF Takes
    <3>3. \A t \in InUse' : /\ timer_pool'[t].handle \in Alive'
                            /\ timer'[timer_pool'[t].handle].id = timer_pool'[t].id
                            /\ timer_pool'[t].id < next_timer_id'
      BY <1>0, <2>1, <3>1, <3>2 DEF Ids
    <3>4. \A t, u \in InUse' : t # u => /\ timer_pool'[t].handle # timer_pool'[u].handle
                                        /\ timer_pool'[t].id # timer_pool'[u].id
      BY <1>0, <3>1, <3>2 DEF Ids
    <3>5. \A j \in JobsMade' : j.id < next_timer_id'
      BY <1>0, <2>1 DEF Ids
    <3>6. \A t \in InUse', j \in JobsMade' :
             j.id = timer_pool'[t].id => j.handle = timer_pool'[t].handle
      BY <1>0, <2>1, <3>1, <3>2 DEF Ids
    <3>7. test' = "starting" /\ next_timer_id' <= i' + 1
      BY <1>0, <2>1, <2>2 DEF Takes
    <3> QED BY <3>3, <3>4, <3>5, <3>6, <3>7 DEF Ids
  <2>3. CASE /\ NextTimer("allocating", "running")
             /\ UNCHANGED <<timer_pool, timer>>
             /\ InUse' = InUse /\ Alive' = Alive
    <3>1. test' # "starting" /\ (test' = "allocating" => i' = i + 1)
      BY <2>3, NextTimerMoves DEF TimerTypeOK
    <3>2. \A t \in InUse : timer_pool[t].id < next_timer_id'
      BY <1>0, <2>1 DEF Ids
    <3>3. \A j \in JobsMade' : j.id < next_timer_id'
      BY <1>0, <2>1 DEF Ids
    <3>4. test' = "allocating" => next_timer_id' <= i'
      BY <1>0, <2>1, <3>1
    <3> QED BY <2>1, <2>3, <3>1, <3>2, <3>3, <3>4 DEF Ids
  <2> QED BY <1>1, <2>2, <2>3, Allocates
<1>2. CASE AllocateFails \/ Start \/ StartCleanUp \/ Stop \/ ReleaseTimeout
  <2>1. /\ UNCHANGED <<timer_pool, next_timer_id, timer, work_queue, job>>
        /\ InUse' = InUse /\ Alive' = Alive
    BY <1>2, TaskKeeps
  <2>2. /\ test' = "allocating" => next_timer_id <= i'
        /\ test' # "starting"
    <3>1. CASE AllocateFails \/ Start
      <4>1. \/ test' = "allocating" /\ i' = i + 1
            \/ test' = "running"
        BY <3>1, NextTimerMoves DEF AllocateFails, Start, TimerTypeOK
      <4>2. next_timer_id <= i + 1
        BY <1>0, <3>1 DEF AllocateFails, Start, Ids
      <4> QED BY <4>1, <4>2
    <3>2. CASE StartCleanUp \/ Stop \/ ReleaseTimeout
      BY <3>2, NextTimerMoves DEF StartCleanUp, Stop, ReleaseTimeout,
         TimerTypeOK
    <3> QED BY <1>2, <3>1, <3>2
  <2>3. JobsMade' = JobsMade
    BY <2>1 DEF JobsMade
  <2> QED BY <2>1, <2>2, <2>3 DEF Ids
<1>3. CASE release_to_pool
  <2>1. /\ InUse' \subseteq InUse /\ \A t \in InUse' : timer_pool'[t] = timer_pool[t]
        /\ UNCHANGED <<next_timer_id, timer, work_queue, job>> /\ Alive' = Alive
    BY <1>3, Releases
  <2>2. test' \in {"stopping", "done"}
    BY <1>3, NextTimerMoves DEF release_to_pool, TimerTypeOK
  <2>3. JobsMade' = JobsMade
    BY <2>1 DEF JobsMade
  <2> QED BY <2>1, <2>2, <2>3 DEF Ids
<1>4. CASE Elsewhere
  <2>0. SameEntries /\ UNCHANGED <<next_timer_id, test, i>> /\ InUse' = InUse
        /\ \A s \in InUse : s \in Slots
    BY <1>4, ElsewhereKeeps DEF InUse
  <2>1. \A s \in InUse : /\ timer_pool'[s].handle = timer_pool[s].handle
                         /\ timer_pool'[s].id = timer_pool[s].id
    BY <2>0 DEF SameEntries
  <2>2. \A s \in InUse : /\ timer_pool[s].handle \in Alive'
                         /\ timer'[timer_pool[s].handle].id = timer_pool[s].id
    <3>1. CASE Carry
      <4> SUFFICES ASSUME NEW s \in InUse
                   PROVE  /\ timer_pool[s].handle \in Alive'
                          /\ timer'[timer_pool[s].handle].id = timer_pool[s].id
        OBVIOUS
      <4>1. /\ timer_pool[s].handle \in Alive /\ timer_pool[s].handle \in Handles
            /\ timer_pool[s].handle \notin Doomed
            /\ timer[timer_pool[s].handle].id = timer_pool[s].id
        BY DEF Ids, Deletions, Alive
      <4>2. /\ \A h \in Alive : h \notin Doomed => h \in Alive'
            /\ \A h \in Handles : h \in Alive' => timer'[h].id = timer[h].id
        BY <3>1, CarryDooms DEF Deletions
      <4> QED BY <4>1, <4>2
    <3>2. CASE ~Carry
      <4>1. timer' = timer
        BY <1>4, <3>2 DEF Elsewhere, timer_daemon, worker_task,
           adaptive_governor_check,
           timerVars, kernelVars, Fire, Schedule, TakeJob, JobDone, Govern,
           Skip,
           BeginChange, ChangePeriod
      <4> QED BY <4>1 DEF Ids, Alive
    <3> QED BY <3>1, <3>2
  <2>3. ASSUME NEW j \in JobsMade'
        PROVE  \/ j \in JobsMade
               \/ \E s \in InUse : /\ j.id = timer_pool[s].id
                                   /\ j.handle = timer_pool[s].handle
    <3>1. CASE Schedule
      <4>1. work_queue \in Seq(Jobs) /\ job' = job
        BY <3>1 DEF Schedule, TimerTypeOK
      <4>2. CASE work_queue' = work_queue
        BY <4>1, <4>2 DEF JobsMade
      <4>3. ASSUME NEW s \in Slots, timer_pool[s].in_use,
                   work_queue' = Append(work_queue,
                                    [id |-> timer_pool[s].id,
                                     handle |-> timer_pool[s].handle])
            PROVE  \/ j \in JobsMade
                   \/ \E u \in InUse : /\ j.id = timer_pool[u].id
                                       /\ j.handle = timer_pool[u].handle
        <5> DEFINE new == [id |-> timer_pool[s].id, handle |-> timer_pool[s].handle]
        <5>1. s \in InUse
          BY <4>3 DEF InUse
        <5>2. new \in Jobs
          BY <5>1, UsedEntries DEF Jobs
        <5>3. new.id = timer_pool[s].id /\ new.handle = timer_pool[s].handle
          OBVIOUS
        <5> HIDE DEF new
        <5>4. \A n \in DOMAIN work_queue' :
                 work_queue'[n] = new \/ \E m \in DOMAIN work_queue : work_queue'[n] = work_queue[m]
          BY <4>1, <4>3, <5>2 DEF new
        <5>5. j = new \/ j \in JobsMade
          BY <4>1, <5>4 DEF JobsMade, Range
        <5> QED BY <5>1, <5>3, <5>5
      <4> QED BY <3>1, <4>2, <4>3 DEF Schedule
    <3>2. ASSUME NEW w \in Workers, TakeJob(w)
          PROVE  j \in JobsMade
      <4>1. /\ work_queue \in Seq(Jobs) /\ work_queue # <<>>
            /\ work_queue' = Tail(work_queue) /\ job' = [job EXCEPT ![w] = Head(work_queue)]
            /\ job \in [Workers -> Jobs \cup {NULL}]
        BY <3>2 DEF TakeJob, TimerTypeOK
      <4>2. /\ Head(work_queue) = work_queue[1] /\ 1 \in DOMAIN work_queue
            /\ \A n \in DOMAIN work_queue' : n + 1 \in DOMAIN work_queue
                                             /\ work_queue'[n] = work_queue[n + 1]
        BY <4>1
      <4>3. \A v \in Workers : job'[v] = job[v] \/ job'[v] = work_queue[1]
        BY <4>1, <4>2
      <4> QED BY <4>2, <4>3 DEF JobsMade, Range
    <3>3. ASSUME NEW w \in Workers, JobDone(w)
          PROVE  j \in JobsMade
      BY <3>3 DEF JobDone, JobsMade, TimerTypeOK
    <3>4. CASE ~Schedule /\ ~\E w \in Workers : worker_task(w)
      <4>1. UNCHANGED <<work_queue, job>>
        BY <1>4, <3>4 DEF Elsewhere, timer_daemon, worker_task,
           adaptive_governor_check,
           timerVars, jobVars, Carry, Fire, Govern, Skip, BeginChange,
           ChangePeriod
      <4> QED BY <4>1 DEF JobsMade
    <3> QED BY <3>1, <3>2, <3>3, <3>4 DEF worker_task
  <2>4. \A j \in JobsMade' : j.id < next_timer_id
    BY <2>3 DEF Ids
  <2>5. \A s \in InUse, j \in JobsMade' :
           j.id = timer_pool[s].id => j.handle = timer_pool[s].handle
    BY <2>3 DEF Ids
  <2> QED BY <2>0, <2>1, <2>2, <2>4, <2>5 DEF Ids
<1> QED BY <1>1, <1>2, <1>3, <1>4, TimerSteps

(* A command for the timer of an entry in use, which goes on to be used or *)
(* is released with the command.                                           *)
LEMMA CommandForEntry ==
    ASSUME TimerTypeOK, Ids, Deletions, NEW s \in InUse,
           NEW op \in {"start", "stop", "delete", "period"},
           Command(op, timer_pool[s].handle), Alive' = Alive
    PROVE  /\ NothingAfterDelete'
           /\ Doomed' = IF Room /\ op = "delete"
                        THEN Doomed \cup {timer_pool[s].handle} ELSE Doomed
<1>1. timer_pool[s].handle \in Alive /\ timer_pool[s].handle \notin Doomed
  BY DEF Ids, Deletions
<1> QED BY <1>1, SendDooms DEF Deletions

(* The daemon gets no command for a timer it has deleted, and a timer that *)
(* exists is in use, or refused, or about to be deleted.                   *)
LEMMA DeletionsStep ==
    ASSUME TimerTypeOK, Locks, Pointers, Ids, Deletions, [TimerNext]_timerVars
    PROVE  Deletions'
<1>1. CASE allocate_from_pool
  <2>1. commands' = commands /\ refused' = refused
    BY <1>1, Allocates
  <2>2. Doomed' = Doomed /\ Doomed \subseteq Alive
    BY <2>1 DEF Doomed, Deletions, NothingAfterDelete, Range
  <2>3. ASSUME NEW s \in Slots, NEW h \in Handles, Takes(s, h)
        PROVE  Deletions'
    <3>1. h \notin Alive /\ Alive' = Alive \cup {h} /\ InUse' = InUse \cup {s}
          /\ timer_pool'[s].handle = h
          /\ \A t \in InUse : timer_pool'[t] = timer_pool[t]
      BY <2>3 DEF Takes
    <3>2. NothingAfterDelete'
      BY <2>1, <3>1 DEF Deletions, NothingAfterDelete
    <3> QED BY <2>1, <2>2, <3>1, <3>2 DEF Deletions
  <2>4. CASE UNCHANGED <<timer_pool, timer>> /\ InUse' = InUse /\ Alive' = Alive
    <3>1. NothingAfterDelete'
      BY <2>1, <2>4 DEF Deletions, NothingAfterDelete
    <3> QED BY <2>1, <2>2, <2>4, <3>1 DEF Deletions
  <2> QED BY <1>1, <2>3, <2>4, Allocates
<1>2. CASE AllocateFails \/ Start \/ StartCleanUp \/ Stop \/ ReleaseTimeout
  <2>1. timer_pool' = timer_pool /\ InUse' = InUse /\ Alive' = Alive
    BY <1>2, TaskKeeps
  <2>2. test \in {"starting", "releasing"} \/ (test = "stopping" /\ timers[i] # NULL)
           => timers[i] \in InUse /\ Pending(i)
    <3>1. i \in Timers /\ i >= i
      BY TimerPoolAssumption DEF TimerTypeOK, Timers
    <3> QED BY <3>1 DEF Pointers, Pending, Filling
  <2>3. NothingAfterDelete' /\ Doomed' = Doomed
    <3>1. CASE commands' = commands
      BY <2>1, <3>1 DEF Deletions, NothingAfterDelete, Doomed
    <3>2. CASE commands' # commands
      <4>1. /\ timers[i] \in InUse
            /\ \E op \in {"start", "stop"} : Command(op, timer_pool[timers[i]].handle)
        BY <1>2, <2>2, <3>2 DEF AllocateFails, Start, StartCleanUp, Stop,
           ReleaseTimeout,
           kernelVars
      <4> QED BY <2>1, <4>1, CommandForEntry
    <3> QED BY <3>1, <3>2
  <2>4. \/ refused' = refused
        \/ /\ timers[i] \in InUse
           /\ refused' = refused \cup {timer_pool[timers[i]].handle}
    BY <1>2, <2>2 DEF AllocateFails, Start, StartCleanUp, Stop, ReleaseTimeout
  <2>5. refused' \subseteq Alive /\ refused' \cap Doomed = {} /\ refused \subseteq refused'
    BY <2>4 DEF Deletions, Ids
  <2> QED BY <2>1, <2>3, <2>5 DEF Deletions
<1>3. CASE release_to_pool
  <2> DEFINE s == timers[i]
             h == timer_pool[s].handle
  <2>1. /\ s \in InUse /\ InUse' = InUse \ {s} /\ Alive' = Alive /\ h \notin refused
        /\ \A t \in InUse' : timer_pool'[t] = timer_pool[t]
    BY <1>3, Releases
  <2>2. /\ Command("delete", h)
        /\ refused' = IF Room THEN refused ELSE refused \cup {h}
    BY <1>3 DEF release_to_pool
  <2>3. h \in Alive /\ h \notin Doomed
    BY <2>1 DEF Ids, Deletions
  <2> HIDE DEF s
  <2>4. /\ NothingAfterDelete'
        /\ Doomed' = IF Room THEN Doomed \cup {h} ELSE Doomed
    BY <2>1, <2>2, CommandForEntry
  <2> HIDE DEF h
  <2>5. \A t \in InUse' : t \in InUse /\ timer_pool'[t].handle # h
    BY <2>1 DEF Ids, h
  <2>6. \A t \in InUse' : timer_pool'[t].handle \notin Doomed'
    BY <2>1, <2>4, <2>5 DEF Deletions
  <2>7. refused' \subseteq Alive' /\ refused' \cap Doomed' = {}
    BY <2>1, <2>2, <2>3, <2>4 DEF Deletions
  <2>8. ASSUME NEW g \in Alive'
        PROVE  \/ g \in Doomed' \cup refused'
               \/ \E t \in InUse' : timer_pool'[t].handle = g
    <3>1. CASE g = h
      BY <2>2, <2>4, <3>1
    <3>2. CASE g # h
      <4>1. \/ g \in Doomed \cup refused
            \/ \E t \in InUse : timer_pool[t].handle = g
        BY <2>1 DEF Deletions
      <4> QED BY <2>1, <2>2, <2>4, <3>2, <4>1 DEF h
    <3> QED BY <3>1, <3>2
  <2> QED BY <2>4, <2>6, <2>7, <2>8 DEF Deletions
<1>4. CASE Elsewhere
  <2>1. /\ UNCHANGED refused /\ InUse' = InUse
        /\ \A s \in InUse : timer_pool'[s].handle = timer_pool[s].handle
    BY <1>4, ElsewhereKeeps DEF SameEntries, InUse
  <2>2. CASE Carry
    <3>1. /\ NothingAfterDelete'
          /\ \A h \in Handles :
                h \in Alive' => h \in Alive /\ (h \in Doomed' <=> h \in Doomed)
          /\ \A h \in Alive : h \notin Doomed => h \in Alive'
          /\ \A h \in Doomed' : h \in Doomed
      BY <2>2, CarryDooms DEF Deletions
    <3>2. \A h \in Alive' : h \in Handles
      BY DEF Alive
    <3>3. refused' \subseteq Alive' /\ refused' \cap Doomed' = {}
      BY <2>1, <3>1 DEF Deletions
    <3>4. \A s \in InUse' : timer_pool'[s].handle \notin Doomed'
      BY <2>1, <3>1 DEF Deletions
    <3>5. \A h \in Alive' : \/ h \in Doomed' \cup refused'
                            \/ \E s \in InUse' : timer_pool'[s].handle = h
      BY <2>1, <3>1, <3>2 DEF Deletions
    <3> QED BY <3>1, <3>3, <3>4, <3>5 DEF Deletions
  <2>3. CASE ChangePeriod
    <3>1. slot \in InUse /\ Alive' = Alive /\ Command("period", timer_pool[slot].handle)
      BY <2>3 DEF ChangePeriod, Locks, Alive
    <3>2. NothingAfterDelete' /\ Doomed' = Doomed
      BY <3>1, CommandForEntry
    <3> QED BY <2>1, <3>1, <3>2 DEF Deletions
  <2>4. CASE ~Carry /\ ~ChangePeriod
    <3>1. UNCHANGED <<timer, commands>>
      BY <1>4, <2>4 DEF Elsewhere, timer_daemon, worker_task,
         adaptive_governor_check,
         timerVars, kernelVars, Fire, Schedule, TakeJob, JobDone, Govern,
         Skip, BeginChange
    <3>2. NothingAfterDelete' /\ Doomed' = Doomed /\ Alive' = Alive
      BY <3>1 DEF Deletions, NothingAfterDelete, Doomed, Alive
    <3> QED BY <2>1, <3>2 DEF Deletions
  <2> QED BY <2>2, <2>3, <2>4
<1> QED BY <1>1, <1>2, <1>3, <1>4, TimerSteps

-----------------------------------------------------------------------------

(* The invariant is inductive as a whole: types need the ids, the locks    *)
(* need the pointers, and the deletions need all of them.                  *)
PoolInv == TimerTypeOK /\ Locks /\ Pointers /\ Ids /\ Deletions

LEMMA PoolInvInit == TimerInit => PoolInv
<1> SUFFICES ASSUME TimerInit
             PROVE  PoolInv
  OBVIOUS
<1> USE TimerPoolAssumption DEF TimerInit
<1>1. TimerTypeOK
  BY DEF TimerTypeOK, Unused, Slots, Timers
<1>2. InUse = {} /\ Alive = {} /\ JobsMade = {} /\ Doomed = {}
  <2>1. InUse = {}
    BY DEF InUse, Unused
  <2>2. Alive = {} /\ Doomed = {}
    BY DEF Alive, Doomed, Range
  <2>3. JobsMade = {}
    BY DEF JobsMade, Range
  <2> QED BY <2>1, <2>2, <2>3
<1>3. Locks
  BY DEF Locks
<1>4. Pointers
  BY <1>2 DEF Pointers, Pending, Filling
<1>5. Ids
  BY <1>2 DEF Ids
<1>6. Deletions
  BY <1>2 DEF Deletions, NothingAfterDelete
<1> QED BY <1>1, <1>3, <1>4, <1>5, <1>6 DEF PoolInv

LEMMA PoolInvStep == PoolInv /\ [TimerNext]_timerVars => PoolInv'
<1> SUFFICES ASSUME PoolInv, [TimerNext]_timerVars
             PROVE  PoolInv'
  OBVIOUS
<1>1. TimerTypeOK /\ Locks /\ Pointers /\ Ids /\ Deletions /\ NothingAfterDelete
  BY DEF PoolInv, Deletions
<1> QED BY <1>1, TimerTypeStep, LocksStep, PointersStep, IdsStep,
           DeletionsStep DEF PoolInv

(* EntriesHaveTimers, for any number of entries, timers and commands: an   *)
(* entry in use has a timer of its own, with its id, and jobs name it.     *)
THEOREM EntriesOwnTimers == TimerSpec => []EntriesHaveTimers
<1>1. PoolInv => EntriesHaveTimers
  BY DEF PoolInv, Ids, JobsMade, EntriesHaveTimers
<1> QED BY <1>1, PoolInvInit, PoolInvStep, PTL DEF TimerSpec

(* NothingAfterDelete: release_to_pool sends the last command of a timer,  *)
(* so none reaches the daemon for one that is gone.                        *)
THEOREM DeletedIsDone == TimerSpec => []NothingAfterDelete
<1>1. PoolInv => NothingAfterDelete
  BY DEF PoolInv, Deletions
<1> QED BY <1>1, PoolInvInit, PoolInvStep, PTL DEF TimerSpec

(* SurvivorsWereRefused: after stress_test_task no timer is left but those *)
(* whose deletion found no room in the queue.                              *)
THEOREM OnlyRefusedSurvive == TimerSpec => []SurvivorsWereRefused
<1>1. PoolInv => SurvivorsWereRefused
  <2> SUFFICES ASSUME PoolInv, test = "done"
               PROVE  /\ Alive \ Doomed = refused
                      /\ {timer_pool[s].handle : s \in InUse} \subseteq refused
    BY DEF SurvivorsWereRefused
  <2>1. \A k \in Timers : ~Pending(k)
    BY DEF Pending, Filling
  <2>2. \A s \in InUse : timer_pool[s].handle \in refused
    BY <2>1 DEF PoolInv, Pointers
  <2> QED BY <2>2 DEF PoolInv, Deletions
<1> QED BY <1>1, PoolInvInit, PoolInvStep, PTL DEF TimerSpec

=============================================================================
