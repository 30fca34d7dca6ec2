---------------------------- MODULE ResourcePool ----------------------------
(***************************************************************************)
(* The resource pool of lab04/counting_semaphores: a counting semaphore is *)
(* the gatekeeper, an array of resources says which ones are free, and     *)
(* producers, a greedy producer, a chaos monkey and a manager move tokens  *)
(* and resources in separate steps.                                        *)
(*                                                                         *)
(* The array is only touched under xResourceMutex, which every task takes  *)
(* with portMAX_DELAY and gives back without blocking in between: each     *)
(* critical section is one step here.  Left out: LEDs, the counters that   *)
(* are only printed, and the fairness rule that takes the least used of    *)
(* the free resources (any free one is taken).                             *)
(***************************************************************************)
EXTENDS Naturals, FiniteSets

CONSTANTS Resources,     \* the physical resources (MAX_RESOURCES of them)
          Producers,     \* the producer tasks
          Greedy,        \* the greedy producer
          Chaos,         \* the chaos monkey, as a holder of tokens
          Manager,       \* the system manager, which grows and shrinks the pool
          MaxResources,  \* length of the semaphore
          InitialPool,   \* INITIAL_POOL_SIZE
          MinPool,       \* smallest pool the manager shrinks to (2)
          Hoard,         \* tokens the greedy producer wants (3)
          FailLimit      \* failures above which the pool grows (3)

Users == Producers \cup {Greedy}
Holders == Users \cup {Chaos}

ASSUME PoolAssumption ==
    /\ IsFiniteSet(Resources) /\ IsFiniteSet(Producers)
    /\ Greedy \notin Producers /\ Chaos \notin Users /\ Manager \notin Holders
    /\ MaxResources = Cardinality(Resources)
    /\ InitialPool \in 0..MaxResources
    /\ MinPool \in 0..InitialPool
    /\ Hoard \in Nat \ {0}
    /\ FailLimit \in Nat

VARIABLES
    tokens,      \* count of xCountingSemaphore
    in_use,      \* resources[i].in_use: the resources in use
    broken,      \* the resources whose health is BROKEN
    pool_size,   \* g_logical_pool_size
    failed,      \* stats.failed_acquisitions, saturated above FailLimit
    pc,          \* where each task, and the manager, is in its loop
    mine,        \* the resources a user has the index of
    count,       \* loop counter of the greedy producer
    held         \* history: tokens taken and not given back, by holder

vars == <<tokens, in_use, broken, pool_size, failed, pc, mine, count, held>>

Init ==
    /\ tokens = InitialPool
    /\ in_use = {}
    /\ broken = {}
    /\ pool_size = InitialPool
    /\ failed = 0
    /\ pc = [t \in Holders \cup {Manager} |->
                IF t \in Users THEN "taking" ELSE "idle"]
    /\ mine = [t \in Users |-> {}]
    /\ count = 0
    /\ held = [t \in Holders |-> 0]

-----------------------------------------------------------------------------

(* Variant: the search looks at the health only.                           *)
HealthyOnes == Resources \ broken

(* What acquire_resource and the chaos monkey look for: healthy and unused. *)
Free == Resources \ (in_use \cup broken)

GoTo(t, phase) == pc' = [pc EXCEPT ![t] = phase]

(* xSemaphoreTake on the counting semaphore by holder t.                   *)
TakeToken(t) ==
    /\ tokens > 0
    /\ tokens' = tokens - 1
    /\ held' = [held EXCEPT ![t] = @ + 1]

(* xSemaphoreGive: fails, unnoticed, at the full count.                    *)
GiveToken(t) ==
    /\ tokens' = IF tokens < MaxResources THEN tokens + 1 ELSE tokens
    /\ held' = [held EXCEPT ![t] = @ - 1]

(* acquire_resource, with its two outcomes.                                *)
acquire_resource(t, found, none) ==
    \/ \E r \in Free :
          /\ in_use' = in_use \cup {r}
          /\ mine' = [mine EXCEPT ![t] = @ \cup {r}]
          /\ GoTo(t, found)
    \/ /\ Free = {}
       /\ GoTo(t, none)
       /\ UNCHANGED <<in_use, mine>>

(* release_resource for one of the user's resources.                       *)
release_resource(t, r) ==
    /\ r \in mine[t]
    /\ in_use' = in_use \ {r}
    /\ mine' = [mine EXCEPT ![t] = @ \ {r}]

-----------------------------------------------------------------------------
(* producer_task                                                           *)

Take(p) ==
    /\ pc[p] = "taking"
    /\ TakeToken(p)
    /\ GoTo(p, "acquiring")
    /\ UNCHANGED <<in_use, broken, pool_size, failed, mine, count>>

(* No token within 8 s: the failure is counted.                            *)
TakeFails(p) ==
    /\ pc[p] = "taking"
    /\ tokens = 0
    /\ failed' = IF failed > FailLimit THEN failed ELSE failed + 1
    /\ UNCHANGED <<tokens, in_use, broken, pool_size, pc, mine, count, held>>

(* With the token, look for a resource; without one, only give it back.    *)
Acquire(p) ==
    /\ pc[p] = "acquiring"
    /\ acquire_resource(p, "using", "giving")
    /\ UNCHANGED <<tokens, broken, pool_size, failed, count, held>>

Release(p) ==
    /\ pc[p] = "using"
    /\ \E r \in mine[p] : release_resource(p, r)
    /\ GoTo(p, "giving")
    /\ UNCHANGED <<tokens, broken, pool_size, failed, count, held>>

Give(p) ==
    /\ pc[p] = "giving"
    /\ GiveToken(p)
    /\ GoTo(p, "taking")
    /\ UNCHANGED <<in_use, broken, pool_size, failed, mine, count>>

Produce(p) == Take(p) \/ TakeFails(p) \/ Acquire(p) \/ Release(p) \/ Give(p)

-----------------------------------------------------------------------------
(* greedy_producer_task                                                    *)

(* Take Hoard tokens, one by one ...                                       *)
GreedyTake ==
    /\ pc[Greedy] = "taking"
    /\ TakeToken(Greedy)
    /\ IF count + 1 = Hoard
       THEN count' = 0 /\ GoTo(Greedy, "acquiring")
       ELSE count' = count + 1 /\ UNCHANGED pc
    /\ UNCHANGED <<in_use, broken, pool_size, failed, mine>>

(* Variant: the tokens it has got are not given back.                      *)
GreedyTakeFailsNoRefund ==
    /\ pc[Greedy] = "taking"
    /\ tokens = 0
    /\ count > 0
    /\ count' = 0
    /\ UNCHANGED <<tokens, in_use, broken, pool_size, failed, pc, mine, held>>

(* ... but give up when one cannot be had for a second.                    *)
GreedyTakeFails ==
    /\ pc[Greedy] = "taking"
    /\ tokens = 0
    /\ count > 0
    /\ GoTo(Greedy, "refunding")
    /\ UNCHANGED <<tokens, in_use, broken, pool_size, failed, mine, count, held>>

(* Variant: the loop that refunds runs once too often (j <= i).            *)
GreedyRefundOneTooMany ==
    /\ pc[Greedy] = "refunding"
    /\ GiveToken(Greedy)
    /\ count' = IF count = 0 THEN 0 ELSE count - 1
    /\ GoTo(Greedy, IF count = 0 THEN "taking" ELSE "refunding")
    /\ UNCHANGED <<in_use, broken, pool_size, failed, mine>>

GreedyRefund ==
    /\ pc[Greedy] = "refunding"
    /\ GiveToken(Greedy)
    /\ count' = count - 1
    /\ GoTo(Greedy, IF count = 1 THEN "taking" ELSE "refunding")
    /\ UNCHANGED <<in_use, broken, pool_size, failed, mine>>

(* Look for a resource per token; "not found" is logged and passed over.   *)
GreedyAcquire ==
    /\ pc[Greedy] = "acquiring"
    /\ LET next == IF count + 1 = Hoard THEN "releasing" ELSE "acquiring"
       IN  /\ acquire_resource(Greedy, next, next)
           /\ count' = IF count + 1 = Hoard THEN 0 ELSE count + 1
    /\ UNCHANGED <<tokens, broken, pool_size, failed, held>>

(* Release what was found and give back a token for each of them.          *)
GreedyRelease ==
    /\ pc[Greedy] = "releasing"
    /\ \E r \in mine[Greedy] : release_resource(Greedy, r)
    /\ GoTo(Greedy, "giving")
    /\ UNCHANGED <<tokens, broken, pool_size, failed, count, held>>

GreedyGive ==
    /\ pc[Greedy] = "giving"
    /\ GiveToken(Greedy)
    /\ GoTo(Greedy, "releasing")
    /\ UNCHANGED <<in_use, broken, pool_size, failed, mine, count>>

GreedyDone ==
    /\ pc[Greedy] = "releasing"
    /\ mine[Greedy] = {}
    /\ GoTo(Greedy, "taking")
    /\ UNCHANGED <<tokens, in_use, broken, pool_size, failed, mine, count, held>>

GreedyProduce ==
    \/ GreedyTake \/ GreedyTakeFails \/ GreedyRefund \/ GreedyAcquire
    \/ GreedyRelease \/ GreedyGive \/ GreedyDone

-----------------------------------------------------------------------------
(* chaos_monkey_task                                                       *)

(* Break a free resource ...                                               *)
Break ==
    /\ pc[Chaos] = "idle"
    /\ \E r \in Free : broken' = broken \cup {r}
    /\ GoTo(Chaos, "removing")
    /\ UNCHANGED <<tokens, in_use, pool_size, failed, mine, count, held>>

(* ... and only then take its token out of circulation, if there is one    *)
(* within a second.                                                        *)
RemoveToken ==
    /\ pc[Chaos] = "removing"
    /\ \/ TakeToken(Chaos)
       \/ tokens = 0 /\ UNCHANGED <<tokens, held>>
    /\ GoTo(Chaos, "idle")
    /\ UNCHANGED <<in_use, broken, pool_size, failed, mine, count>>

-----------------------------------------------------------------------------
(* system_manager_task                                                     *)

(* Read and reset the failures, and decide.                                *)
CheckLoad ==
    /\ pc[Manager] = "idle"
    /\ failed' = 0
    /\ \/ failed > FailLimit /\ pool_size < MaxResources
            /\ GoTo(Manager, "growing")
       \/ failed = 0 /\ pool_size > MinPool /\ GoTo(Manager, "shrinking")
       \/ failed \in 1..FailLimit /\ UNCHANGED pc
       \/ failed > FailLimit /\ pool_size = MaxResources /\ UNCHANGED pc
    /\ UNCHANGED <<tokens, in_use, broken, pool_size, mine, count, held>>

(* The semaphore first, and if that went well ...                          *)
Grow ==
    /\ pc[Manager] = "growing"
    /\ IF tokens < MaxResources
       THEN tokens' = tokens + 1 /\ GoTo(Manager, "grown")
       ELSE GoTo(Manager, "idle") /\ UNCHANGED tokens
    /\ UNCHANGED <<in_use, broken, pool_size, failed, mine, count, held>>

(* ... the logical size, which nothing protects: others run in between.    *)
CountGrown ==
    /\ pc[Manager] = "grown"
    /\ pool_size' = pool_size + 1
    /\ GoTo(Manager, "idle")
    /\ UNCHANGED <<tokens, in_use, broken, failed, mine, count, held>>

Shrink ==
    /\ pc[Manager] = "shrinking"
    /\ IF tokens > 0
       THEN tokens' = tokens - 1 /\ GoTo(Manager, "shrunk")
       ELSE GoTo(Manager, "idle") /\ UNCHANGED tokens
    /\ UNCHANGED <<in_use, broken, pool_size, failed, mine, count, held>>

CountShrunk ==
    /\ pc[Manager] = "shrunk"
    /\ pool_size' = pool_size - 1
    /\ GoTo(Manager, "idle")
    /\ UNCHANGED <<tokens, in_use, broken, failed, mine, count, held>>

Manage == CheckLoad \/ Grow \/ CountGrown \/ Shrink \/ CountShrunk

-----------------------------------------------------------------------------

Next ==
    \/ \E p \in Producers : Produce(p)
    \/ GreedyProduce
    \/ Break \/ RemoveToken
    \/ Manage

Spec == Init /\ [][Next]_vars

-----------------------------------------------------------------------------

TypeOK ==
    /\ tokens \in 0..MaxResources
    /\ in_use \subseteq Resources
    /\ broken \subseteq Resources
    /\ pool_size \in MinPool..MaxResources
    /\ failed \in 0..(FailLimit + 1)
    /\ pc \in [Holders \cup {Manager} ->
                  {"taking", "acquiring", "using", "giving", "refunding",
                   "releasing", "idle", "removing", "growing", "grown",
                   "shrinking", "shrunk"}]
    /\ mine \in [Users -> SUBSET Resources]
    /\ count \in 0..Hoard
    /\ held \in [Holders -> Nat]

(* Mutual exclusion on each resource: it is in use exactly while some user *)
(* has its index, and two users never have the same one.                   *)
UniqueHolder ==
    /\ in_use = UNION {mine[u] : u \in Users}
    /\ \A u, v \in Users : u # v => mine[u] \cap mine[v] = {}

(* A broken resource is idle: the monkey breaks only what is free, and the *)
(* search passes over what is broken.                                      *)
BrokenIdle == broken \cap in_use = {}

(* No user works without a token per resource, at any point of its loop.   *)
UseNeedsToken == \A u \in Users : Cardinality(mine[u]) <= held[u]

(* The three together: each use of a resource is exclusive, of one that is *)
(* not broken, and paid for with a token.  Every value has its type.       *)
EveryUseIsSound == TypeOK /\ UniqueHolder /\ BrokenIdle /\ UseNeedsToken

(* The tokens the greedy producer is going to give back if each search it  *)
(* has still to make finds a resource.                                     *)
Due ==
    LET owns == Cardinality(mine[Greedy])
    IN  CASE pc[Greedy] \in {"taking", "refunding"} -> count
          [] pc[Greedy] = "acquiring" -> owns + (Hoard - count)
          [] pc[Greedy] = "releasing" -> owns
          [] pc[Greedy] = "giving" -> owns + 1

(* Tokens come back.  Whoever gives one finds room for it, the manager     *)
(* too, so no give is lost at the full count, where nobody would look at   *)
(* the result.  And of the tokens the greedy producer never gives back, as *)
(* it found no resource for them, there are no more than broken resources: *)
(* with all resources sound, whatever sizes the manager gives the pool, it *)
(* gives back what it took.  (Its message and comment for a search that    *)
(* fails promise that always: "Releasing", "just give back tokens".  But   *)
(* with something broken held[Greedy] = Due does not hold.)                *)
TokensComeBack ==
    /\ \A t \in Users \cup {Manager} :
          pc[t] \in {"giving", "refunding", "growing"} => tokens < MaxResources
    /\ held[Greedy] <= Due + Cardinality(broken)

(* What the gatekeeper is for: as long as the monkey has got a token for   *)
(* each resource it broke, whoever has a token finds a resource.           *)
TokenFindsResource ==
    held[Chaos] = Cardinality(broken) =>
        \A u \in Users : pc[u] = "acquiring" => Free # {}

=============================================================================
