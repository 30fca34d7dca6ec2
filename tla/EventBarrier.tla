---------------------------- MODULE EventBarrier ----------------------------
(***************************************************************************)
(* The barrier of lab06/event_synchronization: barrier_worker_task runs    *)
(* once per worker; a worker sets its ready bit in barrier_events, then    *)
(* waits, in a second call, for all bits with clear-on-exit and a timeout. *)
(*                                                                         *)
(* Both kernel calls are atomic (the event group suspends the scheduler),  *)
(* but between them, and between a timeout and the moment the timed-out    *)
(* task runs again, any other worker may run: the build is dual-core.      *)
(* The delays of the loop are phases of unknown length, so a timeout may   *)
(* strike any worker that sleeps at the barrier.                           *)
(***************************************************************************)
EXTENDS Naturals

CONSTANTS Workers,    \* the barrier workers (four of them in app_main)
          Counter,    \* worker 0, the one that counts barrier_cycles
          MaxCycle,   \* bound: iterations of the loop a worker may start
          MaxTime     \* bound: measured waiting times are 1..MaxTime

ASSUME BarrierAssumption ==
    /\ Counter \in Workers
    /\ \E w \in Workers : w # Counter
    /\ MaxCycle \in Nat \ {0}
    /\ MaxTime \in Nat \ {0}

VARIABLES
    bits,             \* barrier_events: the workers whose ready bit is set
    pc,               \* where each worker is in its loop
    cycle,            \* the worker's local iteration counter
    barrier_time,     \* the waiting time the worker last measured
    barrier_cycles,   \* stats.barrier_cycles
    sync_time_max,    \* stats.synchronization_time_max
    rounds,           \* history: how often a full set of bits was cleared
    passes            \* history: how often each worker passed the barrier

stats == <<barrier_time, barrier_cycles, sync_time_max>>
vars == <<bits, pc, cycle, barrier_time, barrier_cycles, sync_time_max,
          rounds, passes>>

(* "working": independent work, up to the SetBits call;                    *)
(* "arrived": between SetBits and WaitBits;  "asleep": blocked in WaitBits *)
(* on the group's list;  "expired": the tick took the task off that list,  *)
(* but it has not run yet;  "passed": WaitBits returned all bits;          *)
(* "storing": it found its time above the maximum, and will write it;      *)
(* "recorded": its statistics are written;  "synced": synchronized work;   *)
(* "cooldown": the two-second pause that ends the loop.                    *)
Phase == {"working", "arrived", "asleep", "expired", "passed", "storing",
          "recorded", "synced", "cooldown"}

(* Workers that used the current round to go on with synchronized work.    *)
Beyond == {"passed", "storing", "recorded", "synced"}

Init ==
    /\ bits = {}
    /\ pc = [w \in Workers |-> "working"]
    /\ cycle = [w \in Workers |-> 1]
    /\ barrier_time = [w \in Workers |-> 0]
    /\ barrier_cycles = 0
    /\ sync_time_max = 0
    /\ rounds = 0
    /\ passes = [w \in Workers |-> 0]

-----------------------------------------------------------------------------

Asleep == {w \in Workers : pc[w] = "asleep"}

(* Variant: the wait is made without clear-on-exit.                        *)
ClearKeepsBits(team, w, next) ==
    /\ rounds' = rounds + 1
    /\ passes' = [v \in Workers |-> IF v \in team THEN passes[v] + 1
                                                  ELSE passes[v]]
    /\ pc' = [v \in Workers |-> IF v \in team THEN "passed"
                                ELSE IF v = w THEN next ELSE pc[v]]
    /\ UNCHANGED bits

(* The kernel releases a team and clears the bits it waited for; the       *)
(* worker that made the call goes to phase next.                           *)
Clear(team, w, next) ==
    /\ bits' = {}
    /\ rounds' = rounds + 1
    /\ passes' = [v \in Workers |-> IF v \in team THEN passes[v] + 1
                                                  ELSE passes[v]]
    /\ pc' = [v \in Workers |-> IF v \in team THEN "passed"
                                ELSE IF v = w THEN next ELSE pc[v]]

(* Variant: the bit is set but nobody is woken.                            *)
SetBitsQuietly(w, next) ==
    /\ bits' = bits \cup {w}
    /\ pc' = [pc EXCEPT ![w] = next]
    /\ UNCHANGED <<rounds, passes>>

(* Variant: the rendezvous xEventGroupSync would make, which lets the last *)
(* arriver through as well.                                                *)
SetBitsAndSync(w, next) ==
    IF bits \cup {w} = Workers
    THEN Clear(Asleep \cup {w}, w, next)
    ELSE SetBitsQuietly(w, next)

(* xEventGroupSetBits: all sleepers wait for the same full set, so either  *)
(* the bit completes it and the call itself wakes every sleeper and clears *)
(* the bits before it returns, or the bit just stays.                      *)
SetBits(w, next) ==
    IF bits \cup {w} = Workers /\ Asleep # {}
    THEN Clear(Asleep, w, next)
    ELSE /\ bits' = bits \cup {w}
         /\ pc' = [pc EXCEPT ![w] = next]
         /\ UNCHANGED <<rounds, passes>>

(* Variant: no look at the bits before going to sleep.                     *)
TestNothing(w, otherwise) ==
    /\ pc' = [pc EXCEPT ![w] = otherwise]
    /\ UNCHANGED <<bits, rounds, passes>>

(* The test xEventGroupWaitBits makes on entry, and again when it resumes  *)
(* after a timeout: a full set is cleared and the caller passes, otherwise *)
(* it goes to phase otherwise.                                             *)
TestBits(w, otherwise) ==
    IF bits = Workers
    THEN Clear({w}, w, "passed")
    ELSE /\ pc' = [pc EXCEPT ![w] = otherwise]
         /\ UNCHANGED <<bits, rounds, passes>>

-----------------------------------------------------------------------------

(* End of the independent work: signal ready.                              *)
SetReadyBit(w) ==
    /\ pc[w] = "working"
    /\ SetBits(w, "arrived")
    /\ UNCHANGED <<cycle, stats>>

(* Wait at the barrier, entry: pass at once or go to sleep.                *)
WaitBits(w) ==
    /\ pc[w] = "arrived"
    /\ TestBits(w, "asleep")
    /\ UNCHANGED <<cycle, stats>>

(* The 10 s are over: the tick interrupt makes the task ready.             *)
Expire(w) ==
    /\ pc[w] = "asleep"
    /\ pc' = [pc EXCEPT ![w] = "expired"]
    /\ UNCHANGED <<bits, cycle, stats, rounds, passes>>

(* The timed-out task runs: WaitBits looks at the bits a last time; when   *)
(* they are incomplete the worker gives up and leaves its own bit set.     *)
GiveUp(w) ==
    /\ pc[w] = "expired"
    /\ TestBits(w, "cooldown")
    /\ UNCHANGED <<cycle, stats>>

(* The waiting time is measured and compared with the shared maximum ...   *)
CompareMax(w) ==
    /\ pc[w] = "passed"
    /\ \E t \in 1..MaxTime :
          /\ barrier_time' = [barrier_time EXCEPT ![w] = t]
          /\ pc' = [pc EXCEPT ![w] = IF t > sync_time_max THEN "storing"
                                                          ELSE "recorded"]
    /\ UNCHANGED <<bits, cycle, barrier_cycles, sync_time_max, rounds, passes>>

(* ... and stored in a later step, with no lock in between.                *)
StoreMax(w) ==
    /\ pc[w] = "storing"
    /\ sync_time_max' = barrier_time[w]
    /\ pc' = [pc EXCEPT ![w] = "recorded"]
    /\ UNCHANGED <<bits, cycle, barrier_time, barrier_cycles, rounds, passes>>

(* Only worker 0 counts the cycle; it is the only writer of the counter.   *)
CountCycle(w) ==
    /\ pc[w] = "recorded"
    /\ barrier_cycles' = barrier_cycles + (IF w = Counter THEN 1 ELSE 0)
    /\ pc' = [pc EXCEPT ![w] = "synced"]
    /\ UNCHANGED <<bits, cycle, barrier_time, sync_time_max, rounds, passes>>

(* The synchronized work ends.                                             *)
SyncedWork(w) ==
    /\ pc[w] = "synced"
    /\ pc' = [pc EXCEPT ![w] = "cooldown"]
    /\ UNCHANGED <<bits, cycle, stats, rounds, passes>>

(* The pause ends and the loop starts over; bounded by MaxCycle.           *)
NextCycle(w) ==
    /\ pc[w] = "cooldown"
    /\ cycle[w] < MaxCycle
    /\ cycle' = [cycle EXCEPT ![w] = @ + 1]
    /\ pc' = [pc EXCEPT ![w] = "working"]
    /\ UNCHANGED <<bits, stats, rounds, passes>>

(* Every worker has used up its MaxCycle iterations: the bound, not the    *)
(* code, ends the behaviour here.                                          *)
OutOfCycles ==
    /\ \A w \in Workers : pc[w] = "cooldown" /\ cycle[w] = MaxCycle
    /\ UNCHANGED vars

Worker(w) ==
    \/ SetReadyBit(w) \/ WaitBits(w) \/ Expire(w) \/ GiveUp(w)
    \/ CompareMax(w) \/ StoreMax(w) \/ CountCycle(w)
    \/ SyncedWork(w) \/ NextCycle(w)

Next == (\E w \in Workers : Worker(w)) \/ OutOfCycles

Spec == Init /\ [][Next]_vars

(* All delays and timeouts of the loop are finite and the four workers     *)
(* share one priority on two cores with time slicing: each keeps running.  *)
Fairness == \A w \in Workers : WF_vars(Worker(w))

FairSpec == Spec /\ Fairness

-----------------------------------------------------------------------------

TypeOK ==
    /\ bits \subseteq Workers
    /\ pc \in [Workers -> Phase]
    /\ cycle \in [Workers -> 1..MaxCycle]
    /\ barrier_time \in [Workers -> 0..MaxTime]
    /\ barrier_cycles \in Nat
    /\ sync_time_max \in 0..MaxTime
    /\ rounds \in Nat
    /\ passes \in [Workers -> Nat]

(* How often worker w has come to the barrier: once per iteration it       *)
(* started, but for the one whose independent work is still going on.      *)
Arrivals(w) == IF pc[w] = "working" THEN cycle[w] - 1 ELSE cycle[w]

(* What makes it a barrier at all, in spite of stale bits and timeouts: a  *)
(* worker passes for the k-th time only after every worker has arrived at  *)
(* least k times (xEventGroupWaitBits for ALL_WORKERS_READY with           *)
(* clear-on-exit).  Every value has its type.                              *)
PassesNeedArrivals ==
    TypeOK /\ \A v, w \in Workers : passes[v] <= Arrivals(w)

(* No lost wake-up: nobody sleeps in WaitBits while all the bits it waits  *)
(* for are set, whatever the order of SetBits, WaitBits and timeouts.      *)
NoSleeperAtFullBarrier == bits = Workers => Asleep = {}

(* A full set of bits is never orphaned: the worker whose SetBits made it  *)
(* full has not called WaitBits yet, and that call will use it up.         *)
FullBarrierHasTaker ==
    bits = Workers => \E w \in Workers : pc[w] = "arrived"

(* A worker in its synchronized work has no bit left in the group: it must *)
(* arrive again before a later round can count on it.                      *)
PassedBitConsumed == \A w \in Workers : pc[w] \in Beyond => w \notin bits

(* "Only count once per barrier": worker 0 never counts more cycles than   *)
(* there were rounds.                                                      *)
CountedAtMostOnce == barrier_cycles <= rounds

(* Every round leaves somebody behind: SetBits wakes the sleepers and      *)
(* clears the bits before the last arriver gets to its own WaitBits.       *)
RoundLeavesOneBehind ==
    [][rounds' # rounds => \E w \in Workers : passes'[w] = passes[w]]_vars

(* The barrier as it is: rounds that consume all arrivals and release a    *)
(* non-empty proper part of the crew.                                      *)
Abstract == INSTANCE BarrierRounds WITH arrived <- bits
ImplementsRounds == Abstract!Spec

(* A complete set of ready bits always leads to a round.                   *)
FullBarrierOpens == (bits = Workers) ~> (bits = {})

-----------------------------------------------------------------------------
(* Claims of the documentation and of the log that the code does not keep. *)

(* README: once every worker is there, the whole system goes through.      *)
AllPassTogether ==
    [][rounds' # rounds => \A w \in Workers : passes'[w] = passes[w] + 1]_vars

=============================================================================
