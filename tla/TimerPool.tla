------------------------------ MODULE TimerPool ------------------------------
(***************************************************************************)
(* The timer pool and scheduler of lab05/advanced_timer_management, on the *)
(* master node.  A pool entry owns a kernel timer; kernel timers are       *)
(* changed only by the timer daemon, which works off a bounded queue of    *)
(* commands that the tasks fill without waiting long for room.  When a     *)
(* timer fires, the daemon looks up its entry and publishes a job or       *)
(* queues it for the workers, with a copy of the timer's handle.           *)
(*                                                                         *)
(* Left out: times and periods (but for whether an entry is throttled),    *)
(* the counters of the health data, which steer the governor and the LEDs  *)
(* (the governor may find any load), the performance samples, and the      *)
(* health timer, which only reads.                                         *)
(***************************************************************************)
EXTENDS Naturals, Sequences, FiniteSets, SequencesExt

CONSTANTS PoolSize,      \* TIMER_POOL_SIZE
          NTimers,       \* timers of the stress test (18)
          NStress,       \* those of low priority, for the other node (15)
          Handles,       \* the addresses a kernel timer can have
          Workers,       \* the worker tasks
          CommandLen,    \* length of the daemon's command queue
          JobLen,        \* length of the queue of local jobs
          NULL

Slots == 1..PoolSize
Timers == 1..NTimers

(* What the kernel knows of a timer, and the copy of an entry that a       *)
(* worker gets.                                                            *)
KernelTimers == [id : 1..NTimers, active : BOOLEAN]
Jobs == [id : 1..NTimers, handle : Handles]

ASSUME TimerPoolAssumption ==
    /\ {PoolSize, NTimers, CommandLen, JobLen} \subseteq Nat \ {0}
    /\ NStress \in 0..NTimers
    /\ NULL \notin Handles \cup Slots \cup KernelTimers \cup Jobs
                          \cup {"daemon", "governor"}

VARIABLES
    timer_pool,      \* the entries
    next_timer_id,
    pool_mutex,      \* holder of pool_mutex over several steps, or NULL
    timer,           \* kernel: the timer at each address, or NULL
    commands,        \* kernel: the command queue of the daemon
    fired,           \* the timer whose callback the daemon is in, or NULL
    work_queue,      \* queue of the jobs that run on this node
    job,             \* the job each worker is running, or NULL
    test,            \* where stress_test_task is ...
    i,               \* ... its loop index ...
    timers,          \* ... and its pointers to entries
    governor,        \* where adaptive_governor_check is ...
    slot,            \* ... and its loop index
    refused          \* history: timers whose release timed out or whose
                     \* deletion found the command queue full

kernelVars == <<timer, commands>>
testVars == <<test, i, timers, refused>>
governorVars == <<governor, slot>>
jobVars == <<work_queue, job>>
timerVars == <<timer_pool, next_timer_id, pool_mutex, kernelVars, fired,
               jobVars, testVars, governorVars>>

Unused == [in_use |-> FALSE, id |-> 0, handle |-> NULL, stress |-> FALSE,
           is_throttled |-> FALSE]

TimerInit ==
    /\ timer_pool = [s \in Slots |-> Unused]
    /\ next_timer_id = 1
    /\ pool_mutex = NULL
    /\ timer = [h \in Handles |-> NULL]
    /\ commands = <<>>
    /\ fired = NULL
    /\ work_queue = <<>>
    /\ job = [w \in Workers |-> NULL]
    /\ test = "allocating"
    /\ i = 1
    /\ timers = [k \in Timers |-> NULL]
    /\ governor = "sleeping"
    /\ slot = 1
    /\ refused = {}

-----------------------------------------------------------------------------

Alive == {h \in Handles : timer[h] # NULL}

(* A command for the daemon; with the queue full for as long as the caller *)
(* waits, it fails.                                                        *)
Room == Len(commands) < CommandLen
Command(op, h) ==
    commands' = IF Room THEN Append(commands, [op |-> op, handle |-> h])
                        ELSE commands

-----------------------------------------------------------------------------
(* stress_test_task, allocate_from_pool and release_to_pool                *)

(* The next timer of the loop, or the next phase of the test.              *)
NextTimer(phase, after) ==
    IF i < NTimers THEN i' = i + 1 /\ test' = phase
                   ELSE i' = 1 /\ test' = after

(* The first unused entry gets a new id and a new timer; a failed creation *)
(* uses up the id.                                                         *)
allocate_from_pool ==
    LET s == CHOOSE u \in Slots : /\ ~timer_pool[u].in_use
                                  /\ \A v \in 1..(u - 1) : timer_pool[v].in_use
    IN  /\ test = "allocating"
        /\ pool_mutex = NULL
        /\ \E u \in Slots : ~timer_pool[u].in_use
        /\ \/ \E h \in Handles \ Alive :
                 /\ timer_pool' = [timer_pool EXCEPT ![s] =
                       [in_use |-> TRUE, id |-> next_timer_id, handle |-> h,
                        stress |-> i <= NStress, is_throttled |-> FALSE]]
                 /\ timer' = [timer EXCEPT ![h] = [id |-> next_timer_id,
                                                   active |-> FALSE]]
                 /\ timers' = [timers EXCEPT ![i] = s]
                 /\ test' = "starting"
                 /\ UNCHANGED i
           \/ /\ NextTimer("allocating", "running")
              /\ UNCHANGED <<timer_pool, timer, timers>>
        /\ next_timer_id' = next_timer_id + 1
        /\ UNCHANGED <<pool_mutex, commands, fired, jobVars, refused, governorVars>>

(* The mutex cannot be had for 100 ms, or the pool is full.                *)
AllocateFails ==
    /\ test = "allocating"
    /\ pool_mutex # NULL \/ \A u \in Slots : timer_pool[u].in_use
    /\ NextTimer("allocating", "running")
    /\ UNCHANGED <<timer_pool, next_timer_id, pool_mutex, kernelVars, fired,
                   jobVars, timers, refused, governorVars>>

(* xTimerStart without waiting and without looking at the result.          *)
Start ==
    /\ test = "starting"
    /\ Command("start", timer_pool[timers[i]].handle)
    /\ NextTimer("allocating", "running")
    /\ UNCHANGED <<timer_pool, next_timer_id, pool_mutex, timer, fired, jobVars,
                   timers, refused, governorVars>>

(* The thirty seconds are over.                                            *)
StartCleanUp ==
    /\ test = "running"
    /\ test' = "stopping"
    /\ UNCHANGED <<timer_pool, next_timer_id, pool_mutex, kernelVars, fired,
                   jobVars, i, timers, refused, governorVars>>

(* Variant: the clean-up goes by the count of the stress timers.           *)
StopStressOnly ==
    /\ test = "stopping"
    /\ IF timers[i] = NULL \/ i > NStress
       THEN NextTimer("stopping", "done") /\ UNCHANGED commands
       ELSE /\ Command("stop", timer_pool[timers[i]].handle)
            /\ test' = "releasing"
            /\ UNCHANGED i
    /\ UNCHANGED <<timer_pool, next_timer_id, pool_mutex, timer, fired, jobVars,
                   timers, refused, governorVars>>

(* xTimerStop, which waits 100 ms for room.                                *)
Stop ==
    /\ test = "stopping"
    /\ IF timers[i] = NULL
       THEN NextTimer("stopping", "done") /\ UNCHANGED commands
       ELSE /\ Command("stop", timer_pool[timers[i]].handle)
            /\ test' = "releasing"
            /\ UNCHANGED i
    /\ UNCHANGED <<timer_pool, next_timer_id, pool_mutex, timer, fired, jobVars,
                   timers, refused, governorVars>>

(* Variant: the entry stays in use when the deletion is under way.         *)
ReleaseKeepsEntry ==
    LET s == timers[i]
    IN  /\ test = "releasing"
        /\ pool_mutex = NULL
        /\ Command("delete", timer_pool[s].handle)
        /\ refused' = IF Room THEN refused ELSE refused \cup {timer_pool[s].handle}
        /\ NextTimer("stopping", "done")
        /\ UNCHANGED <<timer_pool, next_timer_id, pool_mutex, timer, fired,
                       jobVars, timers, governorVars>>

(* xTimerDelete without waiting; the entry is free whatever came of it.    *)
release_to_pool ==
    LET s == timers[i]
    IN  /\ test = "releasing"
        /\ pool_mutex = NULL
        /\ Command("delete", timer_pool[s].handle)
        /\ refused' = IF Room THEN refused ELSE refused \cup {timer_pool[s].handle}
        /\ timer_pool' = [timer_pool EXCEPT ![s].in_use = FALSE]
        /\ NextTimer("stopping", "done")
        /\ UNCHANGED <<next_timer_id, pool_mutex, timer, fired, jobVars, timers,
                       governorVars>>

(* The mutex cannot be had for 100 ms: the entry and its timer stay.       *)
ReleaseTimeout ==
    /\ test = "releasing"
    /\ pool_mutex # NULL
    /\ refused' = refused \cup {timer_pool[timers[i]].handle}
    /\ NextTimer("stopping", "done")
    /\ UNCHANGED <<timer_pool, next_timer_id, pool_mutex, kernelVars, fired,
                   jobVars, timers, governorVars>>

stress_test_task ==
    \/ allocate_from_pool \/ AllocateFails \/ Start \/ StartCleanUp
    \/ Stop \/ release_to_pool \/ ReleaseTimeout

-----------------------------------------------------------------------------
(* The timer daemon and scheduler_timer_callback                           *)

(* The daemon carries out the oldest command.  A start makes the timer     *)
(* active, and so does a change of its period.                             *)
Carry ==
    LET c == Head(commands)
    IN  /\ fired = NULL
        /\ commands # <<>>
        /\ commands' = Tail(commands)
        /\ timer' = [timer EXCEPT ![c.handle] =
                        IF c.op = "delete" THEN NULL
                        ELSE [@ EXCEPT !.active = c.op # "stop"]]
        /\ UNCHANGED <<timer_pool, next_timer_id, pool_mutex, fired, jobVars,
                       testVars, governorVars>>

(* An active timer fires and the callback gets the mutex without waiting;  *)
(* without it the job is skipped, and nothing changes.                     *)
Fire ==
    /\ fired = NULL
    /\ pool_mutex = NULL
    /\ \E h \in Alive : timer[h].active /\ fired' = h
    /\ pool_mutex' = "daemon"
    /\ UNCHANGED <<timer_pool, next_timer_id, kernelVars, jobVars, testVars,
                   governorVars>>

(* With the mutex: look up the entry by the timer's id.  A job for this    *)
(* node is queued if there is room, one for the other node is published,   *)
(* which may take the daemon long.                                         *)
Schedule ==
    LET mine == {s \in Slots : /\ timer_pool[s].in_use
                               /\ timer_pool[s].id = timer[fired].id}
    IN  /\ fired # NULL
        /\ \/ \E s \in mine :
                 /\ ~timer_pool[s].stress
                 /\ Len(work_queue) < JobLen
                 /\ work_queue' = Append(work_queue,
                                      [id |-> timer_pool[s].id,
                                       handle |-> timer_pool[s].handle])
           \/ /\ \A s \in mine : timer_pool[s].stress \/ Len(work_queue) = JobLen
              /\ UNCHANGED work_queue
        /\ fired' = NULL
        /\ pool_mutex' = NULL
        /\ UNCHANGED <<timer_pool, next_timer_id, kernelVars, job, testVars,
                       governorVars>>

timer_daemon == Carry \/ Fire \/ Schedule

-----------------------------------------------------------------------------
(* worker_task                                                             *)

(* Take a job and run its callback, which uses the job's handle.           *)
TakeJob(w) ==
    /\ job[w] = NULL
    /\ work_queue # <<>>
    /\ job' = [job EXCEPT ![w] = Head(work_queue)]
    /\ work_queue' = Tail(work_queue)
    /\ UNCHANGED <<timer_pool, next_timer_id, pool_mutex, kernelVars, fired,
                   testVars, governorVars>>

JobDone(w) ==
    /\ job[w] # NULL
    /\ job' = [job EXCEPT ![w] = NULL]
    /\ UNCHANGED <<timer_pool, next_timer_id, pool_mutex, kernelVars, fired,
                   work_queue, testVars, governorVars>>

worker_task(w) == TakeJob(w) \/ JobDone(w)

-----------------------------------------------------------------------------
(* adaptive_governor_check, called by performance_analysis_task            *)

(* Variant: the pool is walked without its mutex.                          *)
GovernUnlocked ==
    /\ governor = "sleeping"
    /\ governor' \in {"throttling", "recovering"}
    /\ slot' = 1
    /\ UNCHANGED <<timer_pool, next_timer_id, pool_mutex, kernelVars, fired,
                   jobVars, testVars>>

(* With the mutex, and with a load that asks for a change: walk the pool.  *)
Govern ==
    /\ governor = "sleeping"
    /\ pool_mutex = NULL
    /\ pool_mutex' = "governor"
    /\ governor' \in {"throttling", "recovering"}
    /\ slot' = 1
    /\ UNCHANGED <<timer_pool, next_timer_id, kernelVars, fired, jobVars, testVars>>

(* The entries whose period is to be changed.                              *)
Affected(s) ==
    /\ timer_pool[s].in_use
    /\ IF governor = "throttling"
       THEN timer_pool[s].stress /\ ~timer_pool[s].is_throttled
       ELSE timer_pool[s].is_throttled

NextSlot ==
    IF slot < PoolSize
    THEN slot' = slot + 1 /\ UNCHANGED <<governor, pool_mutex>>
    ELSE /\ slot' = 1 /\ governor' = "sleeping"
         /\ pool_mutex' = IF pool_mutex = "governor" THEN NULL ELSE pool_mutex

Skip ==
    /\ governor \in {"throttling", "recovering"}
    /\ ~Affected(slot)
    /\ NextSlot
    /\ UNCHANGED <<timer_pool, next_timer_id, kernelVars, fired, jobVars, testVars>>

(* An entry to change: the governor begins its call of xTimerChangePeriod, *)
(* which waits 10 ms for room ...                                          *)
BeginChange ==
    /\ governor \in {"throttling", "recovering"}
    /\ Affected(slot)
    /\ governor' = IF governor = "throttling" THEN "slowing" ELSE "resetting"
    /\ UNCHANGED <<timer_pool, next_timer_id, pool_mutex, kernelVars, fired,
                   jobVars, testVars, slot>>

(* ... and marks the entry if the command was taken.                       *)
ChangePeriod ==
    /\ governor \in {"slowing", "resetting"}
    /\ Command("period", timer_pool[slot].handle)
    /\ timer_pool' = IF Room THEN [timer_pool EXCEPT ![slot].is_throttled =
                                       governor = "slowing"]
                             ELSE timer_pool
    /\ IF slot < PoolSize
       THEN /\ slot' = slot + 1
            /\ governor' = IF governor = "slowing" THEN "throttling"
                                                   ELSE "recovering"
            /\ UNCHANGED pool_mutex
       ELSE NextSlot
    /\ UNCHANGED <<next_timer_id, timer, fired, jobVars, testVars>>

adaptive_governor_check == Govern \/ Skip \/ BeginChange \/ ChangePeriod

-----------------------------------------------------------------------------

TimerNext ==
    \/ stress_test_task
    \/ timer_daemon
    \/ \E w \in Workers : worker_task(w)
    \/ adaptive_governor_check

TimerSpec == TimerInit /\ [][TimerNext]_timerVars

-----------------------------------------------------------------------------

TimerTypeOK ==
    /\ timer_pool \in [Slots -> [in_use : BOOLEAN, id : 0..NTimers,
                                 handle : Handles \cup {NULL},
                                 stress : BOOLEAN, is_throttled : BOOLEAN]]
    /\ next_timer_id \in 1..(NTimers + 1)
    /\ pool_mutex \in {NULL, "daemon", "governor"}
    /\ timer \in [Handles -> KernelTimers \cup {NULL}]
    /\ commands \in Seq([op : {"start", "stop", "delete", "period"},
                         handle : Handles])
    /\ Len(commands) <= CommandLen
    /\ fired \in Handles \cup {NULL}
    /\ work_queue \in Seq(Jobs) /\ Len(work_queue) <= JobLen
    /\ job \in [Workers -> Jobs \cup {NULL}]
    /\ test \in {"allocating", "starting", "running", "stopping", "releasing",
                 "done"}
    /\ i \in Timers
    /\ timers \in [Timers -> Slots \cup {NULL}]
    /\ governor \in {"sleeping", "throttling", "recovering", "slowing",
                     "resetting"}
    /\ slot \in 1..PoolSize
    /\ refused \subseteq Handles

(* What is done with an entry in use is done with its own timer: the timer *)
(* exists and has the entry's id, no other entry in use has it, and the    *)
(* jobs made for the entry carry its handle.  The governor and the health  *)
(* timer use the handles of all entries in use.  Every value has its type. *)
InUse == {s \in Slots : timer_pool[s].in_use}
EntriesHaveTimers ==
    /\ TimerTypeOK
    /\ \A s \in InUse :
          LET h == timer_pool[s].handle
          IN  h \in Alive /\ timer[h].id = timer_pool[s].id
    /\ \A s, t \in InUse : timer_pool[s].handle = timer_pool[t].handle => s = t
    /\ \A s \in InUse :
          \A j \in Range(work_queue) \cup ({job[w] : w \in Workers} \ {NULL}) :
              j.id = timer_pool[s].id => j.handle = timer_pool[s].handle

(* The daemon never gets a command for a timer it has deleted: no command  *)
(* is queued behind the deletion of its timer, although the stress test    *)
(* and the governor send commands for the same timers.                     *)
NothingAfterDelete ==
    /\ \A n \in DOMAIN commands : commands[n].handle \in Alive
    /\ \A m, n \in DOMAIN commands :
          m < n /\ commands[m].op = "delete" =>
              commands[n].handle # commands[m].handle

(* What outlives the stress test is exactly what was refused: a timer that *)
(* still exists has its deletion in the queue, or its release timed out or *)
(* found the queue full; and an entry stays in use only by a timeout.      *)
Doomed == {c.handle : c \in {d \in Range(commands) : d.op = "delete"}}
SurvivorsWereRefused ==
    test = "done" => /\ Alive \ Doomed = refused
                     /\ {timer_pool[s].handle : s \in InUse} \subseteq refused
=============================================================================
