# Verification of the FreeRTOS worksheets

The repository holds the lab programs of a FreeRTOS course on the ESP32: twenty-nine C files, each an
application of its own (`src/67030298_Assignment/labXX/<app>/main/<app>.c`), all built for the dual-core,
preemptive FreeRTOS of ESP-IDF with a 100 Hz tick. There is no common library; what the programs share is
the kernel underneath them, and what makes them hard is the same everywhere: many tasks, callbacks and
timers, two cores, calls with timeouts whose failure is rarely looked at.

This directory models those programs whose own state and protocols go beyond a demonstration of one call,
checks them with TLC on small instances, and proves the most important facts about them with TLAPS for
every instance. `PROJECT.json` lists components, runs, mutants, the lines each definition stands for,
hazards and theorems; this file explains them.

## 1. Inventory

Paths are relative to `src/67030298_Assignment/`. "Hard" names what no unit test would reach.

| Component | State | Operations | Interaction and hard behaviour | What makes it correct |
|---|---|---|---|---|
| Barrier, `lab06/event_synchronization` | `barrier_events`, each worker's loop, shared statistics | `barrier_worker_task`: work, set bit, wait for all bits (10 s), synchronized work | event group shared by four workers; set and wait are two calls; timeouts leave stale bits | nobody passes before all have arrived as often; no lost wake-up; a full set of bits is used up |
| Pipeline, same file | `pipeline_queue`, `pipeline_events`, the item in each stage's hands | generator, four stages | one queue for all stages, bits absorb each other, a send may fail after 100 ms | no wake-up without item, nothing duplicated, stages in order |
| Workflow manager, same file | `workflow_queue`, `workflow_events` | manager, approval, resource and generator tasks | approvals and resources are level bits that outlive the workflow they were given for; retries | an approval serves one workflow, no request is lost silently |
| Resource pool, `lab04/counting_semaphores` | counting semaphore, `resources[]`, logical pool size | producers, greedy producer, chaos monkey, manager, monitor, statistics | tokens and resources move in separate steps; gives at the limit fail unseen; the size is recorded after the give or take, with no lock | one user per resource, no broken one in use, tokens come back, a token finds a resource |
| Block pools, `lab07/memory_pools` | five pools: linked free list, headers, bitmap, counters, mutex | `pool_malloc`, `pool_free`, smart allocator, stress, pattern and performance tests, monitor | multi-step updates under a mutex, timeouts, fall-through to larger pools and to the heap | a block has one owner, list, bitmap, counter and headers agree |
| Tracked heap, `lab07/heap_management` | heap, table of 200 entries, counters, mutex | `tracked_malloc`, `tracked_free`, batch, slab pool, tests, monitor | heap and table change in two steps, addresses come back at once, timeouts | the table shows what is in use, no block lost by a partial failure |
| Template and static pools, `lab07/memory_optimization` | eight static buffers with a use mask, eight template pools, aligned blocks, two LEDs | allocate and free of each kind, demonstrations, usage test, access patterns, benchmark, monitor | a mutex whose wait may time out on the way back, pools that could not be made, fall-through to the heap, rounding of addresses, an unsigned difference | a buffer has one owner, the LED tells its use, lists stay whole, an aligned block lies inside its own |
| Queue set dispatcher, `lab03/queue_sets` | five event sources, a queue set, two worker queues, a mutex held while selecting | sources, `event_dispatcher_task`, two workers, `special_event_task` that adds a queue at run time | set and queues must agree, workers block at the low queue, a mutex held across an endless wait | no event lost from sight or doubled, urgent events settled |
| Producers and consumers, `lab03/producer_consumer` | two input queues, one of finished products, global counters | producers, inspector, consumer in batches, statistics, load balancer | counters updated by several tasks with no lock, drops at every send | products conserved, counters consistent |
| Priority receiver, `lab03/basic_queue` | two queues, counters | sender, receiver, monitor | receiver blocks on the low queue for 5 s | high messages served in time |
| Binary semaphores, `lab04/binary_semaphores` | queue of time stamps, two semaphores given by ISRs, counters | producer, two consumers, timer and button tasks | gives collapse, counters run ahead of each other | received never above sent |
| Mutexes, `lab04/mutex_critical_sections` | recursive mutexes A and B, guarded data with checksum | high, low, deadlock A and B tasks, monitor | lock order, unlocked reads | no deadlock in the fixed order, checksum agrees |
| Timer demo, `lab05/software_timers` | timers, a shared handle, semaphores | callbacks, control task | callbacks block the daemon or overwrite a live handle | one live timer per handle |
| Timer pool and scheduler, `lab05/advanced_timer_management` | pool entries, kernel timers, daemon's command queue, job queue | allocate, release, scheduler callback, workers, governor, stress test, health checks | kernel commands are asynchronous and may be refused; jobs carry copies of handles | entries own live timers, no command for a deleted one |
| Watchdog, patterns, sensors, `lab05/timer_applications` | the daemon's command queue, running timers, health flag, heartbeat queue, two sensor queues with their set, LED pattern | seven callbacks in one daemon, network, sensor and monitor task | callbacks that sleep hold up every other timer; commands are sent without waiting and may be refused unseen; a set entry of one queue is used up for the other; the pattern is changed by two tasks | the watchdog is never lost, feeding resumes after the hang, no temperature is stranded, the fade does not wrap |
| Start-up coordinator, `lab06/basic_event_groups` | `system_events`, command and alert queues, notifications | four subsystem tasks, coordinator, alert handler, event log, monitor | fixed delays and timeouts race; health check acts on old bits; late notifications | the ready bit follows the subsystems; answers belong to their question |
| Smart home, `lab06/complex_event_patterns` | sensor and system bits, event history, home state, status flags | sensors, pattern engine, state machine, MQTT commands, learning, monitor | read and clear are two steps; patterns overlap; commands take back bits | history in order, emergencies handled, every pattern reachable |
| lab00 schedulers, lab01, lab02 | counters, task handles | loops of delays, suspend and resume, stack and priority measurements | scheduler behaviour | measured time |
| lab08 exercises | one queue or semaphore each | core pinning, periods, benchmarks | real time | deadlines |
| Kernel and ESP-IDF | not in the repository | event groups, queues, queue sets, semaphores, timers, heap | - | modelled as atomic operators where they are used |

## 2. Plan

Order of work, the most important behaviour first. Modules 1 to 11 exist, the rest is the plan.

1. `EventBarrier`, implementing `BarrierRounds`; proofs in `EventGroups_proofs`.
2. `ResourcePool`; proofs in `ResourceAndTimerPools_proofs`.
3. `EventPipeline`; proofs in `EventPipeline_proofs`.
4. `MemoryPools`, implementing `BlockAllocator`; proofs in `MemoryPools_proofs`.
5. `EventBus` (queue_sets); proofs in `EventBus_proofs`.
6. `TimerPool` (advanced_timer_management); proofs in `ResourceAndTimerPools_proofs`.
7. `SystemReadiness` (basic_event_groups); proofs in `EventGroups_proofs`.
8. `SmartHome` (complex_event_patterns); proofs in `SmartHome_proofs`.
9. `HeapTracker` (heap_management); proofs in `OptimizerAndHeap_proofs`.
10. `TimerApplications` (timer_applications); proofs in `TimerApplications_proofs`.
11. `MemoryOptimizer` (memory_optimization), its static buffers a second implementation of `BlockAllocator`; proofs in
    `OptimizerAndHeap_proofs`.
12. `ProductLine` (producer_consumer): conservation of products and what the unlocked counters can still promise;
    an abstract line of products that it implements.
13. `Workflow` (event_synchronization): requests, approvals, resources, retries. It shares no state with barrier
    and pipeline, which run in the same program, so the three stay separate modules.
14. The lock order of mutex_critical_sections, the shared handle of software_timers, the items of the slab pool.

A program's components that share no variable are separate modules; tasks that do are composed in one module,
because every program here is one set of tasks over shared kernel objects. Each new module comes with at most
six properties and one run. The project is kept at a size that can be checked in one sitting of an hour or two, so a
module of points 12 to 14 takes the place of a weaker run or property: those of counters go first.

Every safety property, action property and refinement of the passing runs is a theorem, for all eleven modules. What a proof
does not cover is liveness (section 5). Points 12 to 14 would each bring their own proofs.

## 3. Modules and code

Every module is faithful to control: each action is one stretch of a task between two points where another task
can interfere and the difference shows. Stretches inside a critical section that nobody can observe are one
step. Delays are steps of unknown length, except in `SystemReadiness`, where they decide. Payloads, LEDs, logging
and figures that are only printed are left out everywhere. Kernel calls are atomic operators named for the call
and marked external in the map.

**Variants.** Definitions marked "Variant:" are plausible bugs of the definition they precede. No run uses them;
each run's properties must fail once its definition is replaced by the variant, which shows that they say
something about the code.

**Names.** A proof module extends the module it is about; three of them extend two modules each, of components that have the same
kind of kernel object in common and no variable: event groups, pools behind a lock, memory. So the names
of two such modules are disjoint, and the second one's usual names have a prefix: `TimerSpec`, `ReadinessSpec`, `TrackerSpec` and
likewise for initial states, next-state relation, variables and types.

### EventBarrier, BarrierRounds, proofs in EventGroups_proofs
`bits` is the event group, `pc[w]` where a worker is between its independent work, `SetReadyBit`, `WaitBits` and the
statistics, of which each read and write is a step since nothing guards them. `SetBits` models
what the kernel does: it releases the sleepers whose condition holds and clears the bits they asked to be cleared,
before the caller goes on. `Expire` takes a worker off the waiting list, `GiveUp` is the same worker running
again, with its bit still set. `BarrierRounds` is the abstraction: arrivals are collected; a round uses up one of
each worker and releases a non-empty team that is never the whole crew.

### EventPipeline, EventPipeline_proofs
Queue, bits, and the item each stage holds; an item is its id. `Send` (100 ms timeout) and `Signal` are separate steps,
as the two calls are. `runs` is history: how often each task came to its send. `PIPELINE_RESET_BIT` is set by nobody; the
drain it triggers is dead code. What the model shows and no property forbids: a stage takes whatever is at the head of
the shared queue, also what it has just sent itself, so an item may be finished without having been through every
stage, although the code says "Pass data to next stage" (event_synchronization.c:240).

### ResourcePool, proofs in ResourceAndTimerPools_proofs
`tokens` is the semaphore, `mine` and `held` are what each task has of resources and tokens, `in_use` and
`broken` the array. Access to the array is under a mutex that is taken without timeout: one step. The fairness
rule of the search (least used first) is replaced by any free resource. The greedy producer's refund follows the
code: it gives back one token per resource it *found*, so when the monkey has broken one meanwhile it keeps the
token for good, in spite of the message "Got token but no resource! Releasing." and the comment "(Simplified: just give
back tokens)" (counting_semaphores.c:248-249). This is a fault of the code, and TLC reaches it: with `held[Greedy] = Due` as an
invariant the run `resource_pool` fails. How far the loss can go is said by `TokensComeBack`: `Due` is what the greedy producer is still going to give back if its searches succeed, and what
it holds beyond that is no more than the number of broken resources. The other half of the property is that every give finds room, so that
none is lost unseen. The manager gives or takes a token (`Grow`, `Shrink`) and then records the size of the pool
(`CountGrown`, `CountShrunk`) in two statements that nothing protects: users run in between, and the monitor, which reads and prints
both numbers without a lock, may find them one apart.

### MemoryPools, BlockAllocator, MemoryPools_proofs
One linked list per pool (`free_list`, `next`), headers (`magic`), bitmap, counter, mutex; a user moves through
`MallocTake`, `Pop`, `Mark` and `FreeTake`, `Push`, `Link`. The integrity check of the monitor walks the list between
those steps, but only with the mutex. `lost` records the blocks the pattern test forgets: its loops use the
number of successes as a bound on the index (memory_pools.c:567), so after a failed allocation the last pointers are
overwritten while their blocks stay allocated. `misfreed` records pool blocks handed to the heap: a free that cannot get the
mutex in 100 ms tries the next pool and ends in `heap_caps_free` (memory_pools.c:251), which the lab's README.md:394
foresees only for blocks that are "not from any pool". The performance
test behaves as a client; that its two arrays of 1000 pointers do not fit its stack is outside a state model.

### EventBus, EventBus_proofs
Queues, the queue set with one entry per event, dispatcher, workers and the task that adds its queue at run time.
One event of a behaviour is tracked by a bit that no task reads: since the code treats events of a source alike,
what holds for the tracked event holds for every one. Statistics are left out with their mutex.

### TimerPool, proofs in ResourceAndTimerPools_proofs
Entries of the pool, kernel timers by address, the daemon's bounded command queue (`Command` succeeds only with
room), jobs with copied handles, governor and stress test on the master node. Addresses are reused, as the
heap reuses them. The governor may find any load, and the health timer only reads. Network, MQTT
and the worker node are left out. A worker may use the handle of a timer that has been deleted
since the job was queued; the model lets it, and no property says otherwise.

### SystemReadiness, proofs in EventGroups_proofs
Time in seconds, counted down per task. A task whose delay is over acts before time goes on, in any order with
others of the same second; so it assumes that tasks are not starved for a second, which priorities and load of
the program support. The network boots in 12 s as the code has it, or 4 s as in the lab sheet. The sensor
cannot fail: its limits lie outside the range of the random values, and so the correlation task, which pairs
its failures with those of the network, has nothing to find; both are left out.

### SmartHome, SmartHome_proofs
`sensor[s]` is 0 or the number of the event that set the bit, which lets the history be checked against what
happened. The engine reads the bits (`Recognize`), tries the patterns (`Check`), acts (`ActOnStatus`, `Tell`), and clears
(`ClearAll`, `ClearSeen`); sensors, state machine and MQTT run in between. `Found` says declaratively what the loop over
the ring computes: the newest event of the pattern first, each next one the newest that is older. The age of a
record is counted in ticks, which pass when engine and state machine wait. What the model makes visible and no
property forbids: after a match all bits are cleared, so events since the reading are lost; a pattern
that stays in the window is found again at the next event of any kind; the wake-up pattern only clears a bit
and never ends the sleep state.

### HeapTracker, proofs in OptimizerAndHeap_proofs
`allocated` is the heap, `allocations` the table. `Malloc`, `Enter` and `FreeBlock`, `Strike`, `HeapFree` are the steps of
`tracked_malloc` and `tracked_free`; `EnterTimeout` and `StrikeTimeout` happen only while the monitor, which prints the
whole table, has the mutex. `untracked` and `missed` are history. Tasks differ in how they treat a failed call (`Return`)
and in what they keep (`PoolStays`); sizes are one per task, and blocks are freed in any order, where the code
has one. The code's byte counts, `usage`, are compared with `Bytes`: each active entry stands for as many pairs of the
entry and a number as its block has bytes, and the sum of the sizes is the number of pairs.

### TimerApplications, TimerApplications_proofs
`commands` is the queue of the timer daemon, `active` the set of running timers that come and go, `pc` where the daemon is in
a callback and where the two tasks are. `Send` is every call of the timer API: it waits for nothing, in a callback
because it must not and in a task because its timeout is 0, and when the queue is full it has no effect (`refused` is
history). The daemon empties its queue (`Process`, `Drained`) before it looks for the next timer that is due
(`NothingDue` goes back to the queue); while a callback sleeps (`"bark"`), commands pile up. The sensor and pattern timers may be so late
that their callback runs several times in a row: from `"temp"` or `"pattern"` the daemon may begin the same callback again.
Time itself is left out, so any running timer may be due. The watchdog barks, sleeps and starts itself again
(`WatchdogBark`, `WatchdogRestart`); feeds go by way of the network task (`FeedCallback`, `NetworkReceive`, `Heartbeat`,
`NetworkFeed`); one feed simulates a hang, and a timer that is to end it is created, started, run and deleted
(`HangCallback`, `RecoveryCallback`, `RecoveryDelete`). `Select`, `TakeHigh` and `TakeLow` are the sensor task, which looks at the
lengths of the queues instead of at what was selected. `PatternCallback` and `Breathe` are the fade, split where the signed
sum is compared with an unsigned bound; `ChangePattern` and `ResetPattern` are `change_led_pattern`, which the daemon and the
sensor task call with no lock. Counters that only grow stop at the first value that makes no difference any more.

What was observed: the breathing pattern gets 50 callbacks of 10 steps, so it reaches 500 of 1023 and never fades
down again. When the samples of both sensors overlap, announcements of light samples are used up for temperatures;
once the light queue is full without an announcement, the light sensor is dead (`LightStaysDead`), and TLC reaches that
state. In the worst case nine commands wait for the daemon, whose queue has ten places; the hang's two commands are the
ones that could still fail.

### MemoryOptimizer, proofs in OptimizerAndHeap_proofs
The two tasks that allocate, `t` with its program point and loop counter. Static buffers are taken and given back under a
mutex with a timeout of 100 ms, in the steps `Allocate`, `AllocateGive`, `Free`, `FreeGive`; both calls may give up, and a free
that does loses the buffer (`lost` is history), for its caller forgets the pointer. The LED of the buffers is lit by every allocation and
put out by the free that finds the mask empty. `template_pool_init` is part of the initial states: each pool
exists or its memory was not to be had. `UsageTemplate` takes from the smallest pool that fits and falls through to the
heap when that one is empty, `UsageUntemplate` finds the pool by the address. The mutex of the template pools is left
out, for a single task calls them and never has to wait. `Place` computes an aligned address from any address of the
heap. `Saved` is an unsigned
difference: the struct called bad is declared packed (memory_optimization.c:69) and so has 15 bytes, one less than the
aligned good one. What the program counts as saved is therefore a little less than 2^32, and the LED "Memory saving
achieved" (memory_optimization.c:24) is lit by the wrapped number only (`SavingLedIsWrapped`). Static task slots are taken only by `app_main`, the region analysis and
the impact report only print: left out.

## 4. Runs

| Run | Instance | What it shows |
|---|---|---|
| `barrier` | 3 workers, 3 loops, 1 measured time | `PassesNeedArrivals`, `NoSleeperAtFullBarrier`, `FullBarrierHasTaker`; `FullBarrierOpens` under fairness; `ImplementsRounds` |
| `barrier_together` (violation) | same | `AllPassTogether`: README.md:660 of the lab says that the whole system goes on together. The last arriver's `xEventGroupSetBits` lets the others go and clears the bits, so it misses the round itself |
| `pipeline` | 4 stages, queue of 2, 5 items | wake-ups find items, nothing duplicated, stages in order, with failing sends and absorbed bits; every bit that is set is served (`SignalsAreServed`) under fairness |
| `resource_pool` | 3 resources (2 in the pool), 2 producers, greedy wants 2, symmetric | every use is exclusive, of a sound resource, with a token behind it (`EveryUseIsSound`); gives find room and no more tokens are lost than resources broken (`TokensComeBack`); a token finds a resource (`TokenFindsResource`) |
| `block_pools` | pools of 2 blocks and 1, stress client, pattern test of 2, monitor | one owner per block; lists complete and books in agreement whenever the mutex is free, integrity check silent (`FreeListComplete`); `BlockAllocator` implemented |
| `event_bus` | 4 sources, all queues of length 1, 2 workers | set mirrors queues, one place per event, urgent events settled under fairness |
| `timer_pool` | 2 entries, 3 timers, 3 addresses, command queue of 2 | entries own live timers, no command after deletion, survivors were refused |
| `system_readiness` | delays and timeouts of the code in seconds | ready bit wrong for one round at most, notifications answer their own command; the bit ends up right when the subsystems settle (`SystemFollows`) |
| `smart_home` | 5 of 7 signals, 4 events, 1 command, history of 3 | history in order, emergency handled, pattern of returning shadowed |
| `tracked_heap` | 3 addresses, table of 2, batch, slab and large tasks, 2 misses per address | table and counters show the heap, nothing forgotten |
| `timer_applications` | command queue of 4, sensor queues of 1, hang at the first feed, 1 tolerated timeout, 2 callbacks per pattern | watchdog never lost, feeding resumes unless a start was refused, ill health has a reason, no temperature stranded, the fade does not wrap, a dead light queue stays dead |
| `memory_optimizer` | 3 static buffers for 2 tasks, one of which wants 2, template pools of 1, 2 and 1 blocks, heap addresses 16, 20 and 28, 2 demonstrations | LED tells use, aligned blocks inside their own, template lists whole, LED of savings lit by a wrapped number, static buffers implement `BlockAllocator` |

One property of each module includes its type invariant (`TypeOK`, `TimerTypeOK`, `ReadinessTypeOK`, `TrackerTypeOK`), so types are checked in every passing run.

Why the bounds are enough. Three workers are the least with a first, a middle and a last arriver, and three
loops the least with a stale bit from the first round used in the second and its effect seen in the third. A
queue of two with five items lets a send fail while wake-ups are absorbed and all four stages are busy. Two producers, a
greedy one and three resources give every overlap of token and search, the pool between its least size and
its limit. Two pools give the fall-through between pools, one block the empty list. Queues of length one make
every source queue, worker queue and the set full. Two timer entries and three timers make the pool full, three
addresses let one come back. Three records and four events fill the ring, let the oldest go and let
three-event patterns match, twice in a row where they overlap. Three addresses and two entries make both heap and
table too small, two misses put two stale entries at one address. A command queue of four, two commands of the hang among
those of the tasks, is full in the same situations as the real one of ten would be with a few commands more; one feed to
the hang, one tolerated timeout and two callbacks per pattern let counters pass their limits while sensor queues of one are
full. Three static buffers for two tasks run out once a timed-out free has lost one; requests of 4, 7 and 20 bytes meet a pool
that fits, one that is larger than needed and none; the heap addresses leave every remainder that matters for the alignment,
and two demonstrations make the unsigned sum wrap again. All instances reach every action.

Deadlock is checked in all runs but `block_pools`. There the system does stop: after a free whose wait
for the pool's mutex timed out, the client passes the pool's block to `heap_caps_free`, on which the real heap fails its
own checks, and `Next` requires that this has not happened (`misfreed = {}`). Nothing after that step is modelled.

Fairness. `EventBarrier` assumes weak fairness of each worker's own steps, `EventBus` of the dispatcher, each worker, the
periodic timer task and the adding of the queue: these tasks never wait for one another but by the calls that are
modelled, run at close priorities on two cores with delays in every loop, and so get the processor. No fairness is
assumed of sources, of timeouts, or of a lower-priority task in competition for a mutex; that the special task gets the
mutex of the set at all is therefore not claimed but for its first step. `EventPipeline` assumes weak fairness of each stage's
`Wake`, `Receive`, `PassOn` and every task's `Signal`, not of the generator's making items: every wait and send has a timeout, but
for the wait for a bit, and that stays set until its one stage takes it. `SystemReadiness` assumes that something happens as long
as something can (weak fairness of `ReadinessNext`): due tasks run and seconds pass. No liveness is stated for the other modules.

What was observed besides: `sync_time_max` can lose a larger value (unlocked compare and store, event_synchronization.c:149);
no document promises otherwise, so no run checks it. The pattern of returning home needs
the same events as normal entry, in a window no longer, and is looked for after it. So `returning_action`, the only
code that disarms the security flag, is unreachable: `ReturningIsShadowed`, proved for every history.

## 5. Proofs

All proofs are checked by `tlapm` with SMT, Zenon and LS4; assumptions are the named ones of each module's
constants and nothing else. Invariants were first checked with TLC.

**Barrier** (`EventGroups_proofs`, any finite or infinite crew of at least two workers). Inductive invariant `IInv`: types;
every round uses up one arrival of each worker, a set bit is an arrival not yet used (`RoundsUseArrivals`); worker 0's
count follows its passes; nobody sleeps at a full barrier, a full barrier has a taker, who passed has no bit left. The
two wake-up facts need each other: a full set exists only between the last `SetBits`, which found nobody asleep, and that
worker's `WaitBits`. From it: `TypeCorrect`, `BarrierSafety` (`PassesNeedArrivals` with the types), `NoLostWakeUp`, `FullBarrierIsTaken`,
`NoDoubleCount`, `EveryRoundLeavesOneBehind` (the documented barrier fails in every round, whatever the crew), and
`Implementation`, the refinement of `BarrierRounds`.

**Resource pool** (`ResourceAndTimerPools_proofs`, any finite sets of resources and producers). `IInv` says what each task knows at
each point of its loop: a producer has one token from take to give and at most one resource; the greedy producer's
counter bounds tokens from below, which is why the refund never gives too much; the manager acts on a size nobody
else changes. From it `TypeCorrect`, `ExclusiveUse`, `BrokenStaysIdle`, `TokenBehindUse`, and `SoundUse`, which is all four
together (`EveryUseIsSound`). `TokensAddUp` says that the tokens in the semaphore and with the tasks are the logical size of the pool, but for the
one token that the manager has given or taken and not recorded yet (`Recording`); a token the greedy producer keeps for good counts as one it
has. It needs a sum over tasks: each token a task has is a pair of the task and
a number, `TokensOut` is the set of the pairs, and a take or a give adds or removes one of them; the recursion a sum would need
is avoided. Two facts follow. `TokensFit`: there are never more tokens than the semaphore counts, and fewer when the manager is about to
give one, since it has seen a size below the maximum that nobody else changes. `EmptyPool` is a pigeonhole argument: if a search finds nothing, all resources are
in somebody's hands, each with a token behind it, or broken, and the tokens of the searching user for which it has no resource are no
more than the broken resources without a token of the monkey's. `EveryTokenFinds` (`TokenFindsResource`) is the case in which the monkey
has paid. `GivesAndLosses` (`TokensComeBack`): a give has a token out, so there is room for it; and the greedy producer loses a token
only in a search that finds nothing, when by `EmptyPool` it has no more tokens without resource than are broken, this one included,
and a broken resource stays broken.

**Pipeline** (`EventPipeline_proofs`, any number of stages and items, any length of the queue). Where each task can be and what it then
holds (`PhaseOK`), ids no larger than the generator's counter (`IdsMade`), and each run of a stage backed by a run of the stage
before that nothing else has used: a bit, a signal about to be given, or a run begun (`RunsBacked`). That a woken stage finds an item is a
statement on cardinalities: stages about to receive, bits and signals under way are never more than the items, and each
step changes the phases of one task only (`Counting`, `PhaseMoves`). From it `WokenStagesFindItems`, `ItemsStayUnique` and `OrderOfRuns`.

**Block pools** (`MemoryPools_proofs`, any number of pools, blocks and users). A list is not walked but given: for each pool there is a
sequence without repetition, linked by `next` from `free_list` to NULL, of just the blocks marked free but for the one that the task with the mutex
is unlinking or linking (`Lists`). `MutexHeld` and `InHand` say who has a mutex and how a block in hand is marked, `Pointed` that a block about to
be linked points to the head of its list, `Books` what bitmap and counter say in between, and `Apart` that no two claims are to one block.
That the walk of the property, which follows `next` for as many
steps as the pool has blocks, passes exactly those of the sequence follows by a least counterexample. From it `TypeCorrect`,
`BlocksAreNotShared` (`NoSharedBlock`), `ListsAreComplete` (`FreeListComplete`, with the silence of the integrity check) and
`ListsImplementAllocator`: each step lets one task gain or lose one block, or changes no owner.

**Queue set dispatcher** (`EventBus_proofs`, any lengths of the queues, any number of workers). `BusAssumption` asks that the set
has a place for each place of a queue, as `app_main` makes it (5 + 3 + 8 + 1 + 2). An event in a queue and an entry in the set are counted by the positions
they are at; a send adds a position to both, a selection moves the entry to the dispatcher, a receive takes the position from the queue.
That the set is never too full follows from an injection of its entries into those places: an entry goes to its member and its rank
among the entries of that member. The tracked event has at most one position over all queues and tasks (`Lone`), none before it is accepted or after it is settled
(`Placed`). From it `SetMirrors` and `EventsAreInOnePlace`.

**Template and static pools** (`OptimizerAndHeap_proofs`, any number of buffers, any table of pools, all requests, addresses, sizes).
A task claims the buffers it has and those it failed to give back; the claims are the buffers in use, and no two are for the same one (`Claimed`).
A slot is filled only from the turn that allocates for it to the one that frees it, so no pointer is overwritten (`Filled`). From these
`LedTells` and `BuffersImplementAllocator`: a claim appears, disappears, or (a free that times out) goes from held to lost. `AlignedBlocksFit` is
arithmetic: rounding up moves an address by less than the alignment, and a multiple of it is hit. `TemplatePoolsAreWhole`: the list of each pool and the task's
pointers into it are the pool's blocks, and their numbers add up; a pointer is NULL when its turn to be set comes (`Pointers`), so none is overwritten.
`NothingIsSaved`: after n demonstrations the number is the word less n differences, assumed not to wrap a second time
(`MaxDemos * (GoodSize - BadSize) + Threshold < Word`; in the code 1000 bytes per demonstration, one for each struct of the array, a threshold of 1024, a word of 32 bits).

**Timer applications** (`TimerApplications_proofs`, any lengths of queues, any bounds with which the fade fits under its maximum,
`Fade * Cycles < MAX_BRIGHTNESS`, as the code's 10 * 50 < 1023). The invariants of the five concerns are inductive one
by one, each over the types. `Announced`: announcements, and the one the sensor task is
acting on, are no fewer than the waiting temperatures and no more than all samples. `Fading`: the intensity is at most the step times the
callbacks of this pattern, and its direction is up. `FeedInv`: before the hang nothing about the recovery timer is under way
(`BeforeHang`); while the stop of the feed timer waits, the recovery has not begun, and its start waits behind it or is still to be sent
(`StopComesFirst`); once the recovery has run, feeding has begun again, or will, or was refused (`DeleteComesLast`). From them `TypeCorrect`, `FadeIsSafe`,
`IllnessHasReason`, `TemperaturesAreAnnounced`, `FeedingResumes`, and `DeadLightStaysDead`, an action property. `WatchdogIsArmed` needs
that the watchdog's own start finds room unless another one waits. The daemon looks for a due timer with its queue empty; from then on the sensor
task can send one command for each batch of temperatures, of which there are no more than the queue holds, so batches of
commands and temperatures together (`Load`) never grow while no start waits. `TimerAssumption` therefore asks for
`SensorLen < Batch * (CommandLen - 1)`, in the code 20 < 10 * 9; every other command of a task is a reset or start of the watchdog itself.

**Smart home** (`SmartHome_proofs`, any history size, windows, signals and numbers of events). `HomeInv`: a set bit is newer
than every record or is the one the newest record has just taken (`Stamps`); the search has got past the first pattern only
if that pattern is not in the history (`EntryFirst`). The lemma `ReturningIsEntry` compares the two patterns: a match of
one is a match of the other, given the assumption that its window is no longer. From it `InOrder` and `Shadowed`.
`EmergenciesAreHandled` rests on where the news of an emergency is (`Handled`: with an engine that has found a break-in and is telling, in the
system bits, or obeyed) and on the emergency being the last bit a round of the state machine obeys (`Alarms`).

**Timer pool** (`ResourceAndTimerPools_proofs`, any number of entries, timers, addresses and workers, any lengths of both queues). `PoolInv` is
inductive only as a whole. `Locks`: the mutex belongs to whoever works under it, and the entry the governor changes and the timer that fired
are still there. `Pointers`: the test's array has one pointer per entry in use, but for the entries whose deletion was refused. `Ids`: an id and an address
are of one timer at a time, and are the same in the entry, in the kernel and in the jobs. `Deletions`: in the
daemon's queue the deletion of a timer is its last command, an entry's timer is not among those to be deleted, and a timer that has neither
an entry nor a deletion on its way was refused one. This is why no later command can follow: commands are sent through entries, and the entry goes in the
same stretch under the mutex as the deletion. From it `EntriesOwnTimers` (`EntriesHaveTimers`), `DeletedIsDone` (`NothingAfterDelete`) and
`OnlyRefusedSurvive` (`SurvivorsWereRefused`). `TimerPoolAssumption` says of `NULL` that it is none of the other things it is compared with.

**Start-up coordinator** (`EventGroups_proofs`, all boot times, timeouts, periods and lengths of queues under `ReadinessAssumption`: the storage has
booted before the first round ends its sleep, and cleaning takes less time than the coordinator waits; in the code 4 s against 15, and 2 s against 5). `ReadinessInv` is types,
`Rounds` and `Lags`. `Rounds`: while the coordinator waits for the answer, its command is in the queue, or is being worked on with the two
countdowns exactly in step (`Cleaning`), or is answered; at any other time there is neither command nor notification. `Lags`: the time for which the bit
has been wrong is at most what has passed of the round, and if it is wrong already as the health check acts,
the subsystems are as ready, or as little, as when it read the bits. That a task with work to do acts before
time goes on is used in each step of time. From it `ReadinessLag` (`WrongForOneRound`) and `AnswersInTime` (`AnswersAreForThisRound`).

**Tracked heap** (`OptimizerAndHeap_proofs`, any finite set of addresses, any length of the table, any tasks, kinds, sizes and numbers of calls). `TrackerInv`: types;
each block in use has one owner (`NothingForgotten`), and who is to strike or free has one in hand (`InHand`); for each address on its own, a block in use
that was entered has its entry, and there are no more entries than frees that were missed and one for the block (`Matches`); the counters are the numbers of active entries
and of `Bytes` (`Counted`). The parts need each other: a block about to be entered is nobody else's only by the ownership, so it has no
entry but those of missed frees; and the counters do not wrap below zero because each strike finds the entry whose size it takes off. From it `TableIsTrue`
(`TableMatchesHeap`) and `BlocksHaveOwners` (`NothingForgotten`).

**Only model-checked**: liveness (`FullBarrierOpens`, `UrgentIsSettled`, `SignalsAreServed`, `SystemFollows`), which needs fairness and
ENABLED.

## 6. Not modelled, and why

- Workflow manager and producer_consumer: next in the plan. Small programs about one hazard each (basic_queue,
  binary_semaphores, mutex_critical_sections, software_timers) come after them.
- Of timer_applications: Wi-Fi events, the usage counts with their copy in flash, and the status report. Of
  memory_optimization: static task slots, the region analysis and the impact report.
- lab00, lab01, lab02 and lab08: loops of delays, measurements and benchmarks; what they show is measured time or
  scheduler behaviour, of which the programs keep no state to speak of.
- Statistics, analytics, monitors: they read and print. Where a monitor holds a mutex that others need (block pools,
  tracked heap) it is modelled as the one who holds it.
- WiFi and MQTT but for the commands of the smart home: external, and only published to.
- Stack sizes, dangling description strings (heap_management.c:455), heap corruption: below the level of a
  state model.
