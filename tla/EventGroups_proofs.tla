------------------------- MODULE EventGroups_proofs -------------------------
(***************************************************************************)
(* Proofs about the two components that work with event groups.            *)
(* EventBarrier, for every crew and every bound: its safety invariants,    *)
(* from the inductive invariant IInv, the action property on rounds, and   *)
(* the refinement of BarrierRounds.  SystemReadiness, for all times the    *)
(* tasks may take: how long the bit of the system can be wrong, and whose  *)
(* answer a notification is, from the inductive invariant ReadinessInv.    *)
(***************************************************************************)
EXTENDS EventBarrier, SystemReadiness, Integers, TLAPS

(* A round uses up one arrival of every worker, and a bit in the group is  *)
(* an arrival no round has used up yet.                                    *)
RoundsUseArrivals ==
    \A w \in Workers :
        /\ passes[w] <= rounds
        /\ rounds + (IF w \in bits THEN 1 ELSE 0) <= Arrivals(w)

(* Between its pass and its count worker 0 is one cycle behind.            *)
Uncounted == IF pc[Counter] \in {"passed", "storing", "recorded"} THEN 1 ELSE 0

CountsPasses == barrier_cycles + Uncounted <= passes[Counter]

IInv ==
    /\ TypeOK
    /\ RoundsUseArrivals
    /\ CountsPasses
    /\ NoSleeperAtFullBarrier
    /\ FullBarrierHasTaker
    /\ PassedBitConsumed

-----------------------------------------------------------------------------

(* What the two kernel calls and the other steps do to the state, in terms *)
(* every part of the invariant can use: an arrival that adds a bit, the    *)
(* end of a round, or a step of a worker's own.                            *)

(* Worker w has set its bit and the set is not full, or nobody sleeps.     *)
Arrival(w) ==
    /\ pc[w] = "working"
    /\ bits \cup {w} = Workers => Asleep = {}
    /\ bits' = bits \cup {w}
    /\ pc' = [pc EXCEPT ![w] = "arrived"]
    /\ UNCHANGED <<cycle, stats, rounds, passes>>

(* The set is full, or made full by w on its way to the barrier, and a     *)
(* team that leaves somebody behind goes through.                          *)
RoundEnds(w, team) ==
    /\ \/ pc[w] \in {"arrived", "expired"} /\ bits = Workers /\ team = {w}
       \/ pc[w] = "working" /\ bits \cup {w} = Workers /\ team = Asleep
                            /\ team # {}
    /\ bits' = {}
    /\ rounds' = rounds + 1
    /\ passes' = [v \in Workers |-> IF v \in team THEN passes[v] + 1
                                                  ELSE passes[v]]
    /\ pc' = [v \in Workers |-> IF v \in team THEN "passed"
                                ELSE IF v = w THEN "arrived" ELSE pc[v]]
    /\ UNCHANGED <<cycle, stats>>

(* SetReadyBit is an arrival or ends a round.                              *)
LEMMA SetReadyBitCases ==
    ASSUME TypeOK, NEW w \in Workers, SetReadyBit(w)
    PROVE  Arrival(w) \/ RoundEnds(w, Asleep)
<1>1. CASE bits \cup {w} = Workers /\ Asleep # {}
  BY <1>1 DEF SetReadyBit, SetBits, Clear, RoundEnds, stats
<1>2. CASE ~(bits \cup {w} = Workers /\ Asleep # {})
  BY <1>2 DEF SetReadyBit, SetBits, Arrival, stats
<1> QED BY <1>1, <1>2

(* A call of WaitBits, and its last look after a timeout, either ends a    *)
(* round or leaves the bits incomplete.                                    *)
LEMMA TestBitsCases ==
    ASSUME TypeOK, NEW w \in Workers, WaitBits(w) \/ GiveUp(w)
    PROVE  \/ RoundEnds(w, {w})
           \/ /\ bits # Workers
              /\ pc[w] \in {"arrived", "expired"}
              /\ \E phase \in {"asleep", "cooldown"} :
                    pc' = [pc EXCEPT ![w] = phase]
              /\ UNCHANGED <<bits, rounds, passes, cycle, stats>>
<1>1. pc \in [Workers -> Phase]
  BY DEF TypeOK
<1>2. CASE bits = Workers
  <2>1. Clear({w}, w, "passed") /\ UNCHANGED <<cycle, stats>>
    BY <1>2 DEF WaitBits, GiveUp, TestBits
  <2>2. pc' = [v \in Workers |-> IF v \in {w} THEN "passed"
                                 ELSE IF v = w THEN "arrived" ELSE pc[v]]
    BY <2>1 DEF Clear
  <2> QED BY <1>2, <2>1, <2>2 DEF Clear, RoundEnds, WaitBits, GiveUp
<1>3. CASE bits # Workers
  BY <1>3 DEF WaitBits, GiveUp, TestBits
<1> QED BY <1>2, <1>3

(* The other steps of a worker change its phase, its own counters and the  *)
(* statistics only.                                                        *)
OwnStep(w) == \/ Expire(w) \/ CompareMax(w) \/ StoreMax(w) \/ CountCycle(w)
              \/ SyncedWork(w) \/ NextCycle(w)

-----------------------------------------------------------------------------

(* The three cases cover every step of the system.                         *)
LEMMA StepCases ==
    ASSUME TypeOK, Next
    PROVE  \/ UNCHANGED vars
           \/ \E w \in Workers :
                 \/ Arrival(w)
                 \/ \E team \in SUBSET Workers : RoundEnds(w, team)
                 \/ WaitBits(w) /\ bits # Workers
                 \/ GiveUp(w) /\ bits # Workers
                 \/ OwnStep(w)
<1>1. CASE OutOfCycles
  BY <1>1 DEF OutOfCycles
<1>2. ASSUME NEW w \in Workers, Worker(w)
      PROVE  \/ Arrival(w)
             \/ \E team \in SUBSET Workers : RoundEnds(w, team)
             \/ WaitBits(w) /\ bits # Workers
             \/ GiveUp(w) /\ bits # Workers
             \/ OwnStep(w)
  <2>1. CASE SetReadyBit(w)
    <3>1. Asleep \in SUBSET Workers
      BY DEF Asleep
    <3> QED BY <2>1, <3>1, SetReadyBitCases
  <2>2. CASE WaitBits(w) \/ GiveUp(w)
    <3>1. {w} \in SUBSET Workers
      OBVIOUS
    <3> QED BY <2>2, <3>1, TestBitsCases
  <2> QED BY <1>2, <2>1, <2>2 DEF Worker, OwnStep
<1> QED BY <1>1, <1>2 DEF Next

(* The type invariant is inductive by itself.                              *)
LEMMA TypeStep ==
    ASSUME TypeOK, [Next]_vars
    PROVE  TypeOK'
<1> USE BarrierAssumption
<1>1. CASE UNCHANGED vars
  BY <1>1 DEF TypeOK, vars, stats
<1>2. ASSUME NEW w \in Workers, Arrival(w)
      PROVE  TypeOK'
  BY <1>2 DEF Arrival, TypeOK, Phase, stats
<1>3. ASSUME NEW w \in Workers, NEW team \in SUBSET Workers, RoundEnds(w, team)
      PROVE  TypeOK'
  BY <1>3 DEF RoundEnds, TypeOK, Phase, stats
<1>4. ASSUME NEW w \in Workers, WaitBits(w) \/ GiveUp(w), bits # Workers
      PROVE  TypeOK'
  BY <1>4 DEF WaitBits, GiveUp, TestBits, TypeOK, Phase, stats
<1>5. ASSUME NEW w \in Workers, OwnStep(w)
      PROVE  TypeOK'
  <2>1. CASE Expire(w)
    BY <2>1 DEF Expire, TypeOK, Phase, stats
  <2>2. CASE CompareMax(w)
    BY <2>2 DEF CompareMax, TypeOK, Phase
  <2>3. CASE StoreMax(w)
    BY <2>3 DEF StoreMax, TypeOK, Phase
  <2>4. CASE CountCycle(w)
    BY <2>4 DEF CountCycle, TypeOK, Phase
  <2>5. CASE SyncedWork(w)
    BY <2>5 DEF SyncedWork, TypeOK, Phase, stats
  <2>6. CASE NextCycle(w)
    BY <2>6 DEF NextCycle, TypeOK, Phase, stats
  <2> QED BY <1>5, <2>1, <2>2, <2>3, <2>4, <2>5, <2>6 DEF OwnStep
<1> QED BY <1>1, <1>2, <1>3, <1>4, <1>5, StepCases

(* Arrivals and rounds: a new bit stands for a new arrival, and a round    *)
(* takes one arrival of everybody.                                         *)
LEMMA RoundsStep ==
    ASSUME IInv, [Next]_vars
    PROVE  RoundsUseArrivals'
<1> USE DEF IInv, TypeOK, RoundsUseArrivals, Arrivals
<1>1. CASE UNCHANGED vars
  BY <1>1 DEF vars, stats
<1>2. ASSUME NEW w \in Workers, Arrival(w)
      PROVE  RoundsUseArrivals'
  BY <1>2 DEF Arrival, stats
<1>3. ASSUME NEW w \in Workers, NEW team \in SUBSET Workers, RoundEnds(w, team)
      PROVE  RoundsUseArrivals'
  <2> SUFFICES ASSUME NEW v \in Workers
               PROVE  /\ passes'[v] <= rounds'
                      /\ rounds' <= Arrivals(v)'
    BY <1>3 DEF RoundEnds
  <2>1. passes'[v] <= rounds'
    BY <1>3 DEF RoundEnds
  <2>2. rounds' <= Arrivals(v)'
    <3>1. CASE v = w /\ pc[w] = "working"
      BY <1>3, <3>1 DEF RoundEnds, stats, Asleep
    <3>2. CASE ~(v = w /\ pc[w] = "working")
      <4>1. v \in bits /\ rounds + 1 <= Arrivals(v)
        BY <1>3, <3>2 DEF RoundEnds
      <4>2. Arrivals(v)' >= Arrivals(v)
        BY <1>3, <3>2 DEF RoundEnds, stats
      <4>3. Arrivals(v) \in Int /\ Arrivals(v)' \in Int
        BY <1>3 DEF RoundEnds, stats
      <4>4. rounds' = rounds + 1
        BY <1>3 DEF RoundEnds
      <4> HIDE DEF Arrivals
      <4> QED BY <4>1, <4>2, <4>3, <4>4
    <3> QED BY <3>1, <3>2
  <2> QED BY <2>1, <2>2
<1>4. ASSUME NEW w \in Workers, WaitBits(w) \/ GiveUp(w), bits # Workers
      PROVE  RoundsUseArrivals'
  BY <1>4 DEF WaitBits, GiveUp, TestBits, stats
<1>5. ASSUME NEW w \in Workers, OwnStep(w)
      PROVE  RoundsUseArrivals'
  <2>1. CASE CompareMax(w)
    BY <2>1 DEF CompareMax
  <2>2. CASE ~CompareMax(w)
    BY <1>5, <2>2 DEF OwnStep, Expire, StoreMax, CountCycle, SyncedWork,
                      NextCycle, stats
  <2> QED BY <2>1, <2>2
<1> QED BY <1>1, <1>2, <1>3, <1>4, <1>5, StepCases

(* Worker 0 counts a cycle only after a pass of its own.                   *)
LEMMA CountStep ==
    ASSUME IInv, [Next]_vars
    PROVE  CountsPasses'
<1> USE BarrierAssumption DEF IInv, TypeOK, CountsPasses, Uncounted
<1>1. CASE UNCHANGED vars
  BY <1>1 DEF vars, stats
<1>2. ASSUME NEW w \in Workers, Arrival(w)
      PROVE  CountsPasses'
  BY <1>2 DEF Arrival, stats
<1>3. ASSUME NEW w \in Workers, NEW team \in SUBSET Workers, RoundEnds(w, team)
      PROVE  CountsPasses'
  <2>1. CASE Counter \in team
    <3>1. pc[Counter] \notin {"passed", "storing", "recorded"}
      BY <1>3, <2>1 DEF RoundEnds, Asleep
    <3> QED BY <1>3, <2>1, <3>1 DEF RoundEnds, stats
  <2>2. CASE Counter \notin team
    BY <1>3, <2>2 DEF RoundEnds, stats
  <2> QED BY <2>1, <2>2
<1>4. ASSUME NEW w \in Workers, WaitBits(w) \/ GiveUp(w), bits # Workers
      PROVE  CountsPasses'
  BY <1>4 DEF WaitBits, GiveUp, TestBits, stats
<1>5. ASSUME NEW w \in Workers, OwnStep(w)
      PROVE  CountsPasses'
  <2>1. CASE CompareMax(w)
    BY <2>1 DEF CompareMax
  <2>2. CASE ~CompareMax(w)
    BY <1>5, <2>2 DEF OwnStep, Expire, StoreMax, CountCycle, SyncedWork,
                      NextCycle, stats
  <2> QED BY <2>1, <2>2
<1> QED BY <1>1, <1>2, <1>3, <1>4, <1>5, StepCases

(* The bits: a round empties them, so it never leaves a full set, and the  *)
(* arrival that completes the set when nobody sleeps is still on its way   *)
(* to WaitBits.                                                            *)
LEMMA BitsStep ==
    ASSUME IInv, [Next]_vars
    PROVE  (NoSleeperAtFullBarrier /\ FullBarrierHasTaker /\ PassedBitConsumed)'
<1> DEFINE P == NoSleeperAtFullBarrier /\ FullBarrierHasTaker /\ PassedBitConsumed
<1> USE BarrierAssumption
    DEF IInv, TypeOK, NoSleeperAtFullBarrier, FullBarrierHasTaker,
        PassedBitConsumed, Beyond, Asleep
<1>1. CASE UNCHANGED vars
  BY <1>1 DEF vars, stats
<1>2. ASSUME NEW w \in Workers, Arrival(w)
      PROVE  P'
  BY <1>2 DEF Arrival
<1>3. ASSUME NEW w \in Workers, NEW team \in SUBSET Workers, RoundEnds(w, team)
      PROVE  P'
  BY <1>3 DEF RoundEnds
<1>4. ASSUME NEW w \in Workers, WaitBits(w) \/ GiveUp(w), bits # Workers
      PROVE  P'
  BY <1>4 DEF WaitBits, GiveUp, TestBits, stats
<1>5. ASSUME NEW w \in Workers, OwnStep(w)
      PROVE  P'
  <2>1. CASE CompareMax(w)
    BY <2>1 DEF CompareMax
  <2>2. CASE ~CompareMax(w)
    BY <1>5, <2>2 DEF OwnStep, Expire, StoreMax, CountCycle, SyncedWork,
                      NextCycle, stats
  <2> QED BY <2>1, <2>2
<1> QED BY <1>1, <1>2, <1>3, <1>4, <1>5, StepCases

-----------------------------------------------------------------------------

(* The strengthened invariant holds in every reachable state.              *)
THEOREM Invariance == Spec => []IInv
<1>1. Init => IInv
  BY BarrierAssumption DEF Init, IInv, TypeOK, Phase, RoundsUseArrivals,
     Arrivals, CountsPasses, Uncounted, NoSleeperAtFullBarrier,
     FullBarrierHasTaker, PassedBitConsumed, Beyond, Asleep
<1>2. IInv /\ [Next]_vars => IInv'
  BY TypeStep, RoundsStep, CountStep, BitsStep DEF IInv
<1> QED BY <1>1, <1>2, PTL DEF Spec

(* Variables keep their types.                                             *)
THEOREM TypeCorrect == Spec => []TypeOK
<1>1. IInv => TypeOK
  BY DEF IInv
<1> QED BY <1>1, Invariance, PTL

(* No worker passes more often than any worker has arrived: what a stale   *)
(* bit or a timeout can never break.                                       *)
THEOREM BarrierSafety == Spec => []PassesNeedArrivals
<1>1. IInv => PassesNeedArrivals
  <2> SUFFICES ASSUME IInv, NEW v \in Workers, NEW w \in Workers
               PROVE  passes[v] <= Arrivals(w)
    BY DEF PassesNeedArrivals, IInv
  <2>1. passes[v] <= rounds /\ rounds <= Arrivals(w)
    BY DEF IInv, TypeOK, RoundsUseArrivals, Arrivals
  <2> QED BY <2>1 DEF IInv, TypeOK, Arrivals
<1> QED BY <1>1, Invariance, PTL

(* No wake-up is lost: nobody sleeps while all bits are set.               *)
THEOREM NoLostWakeUp == Spec => []NoSleeperAtFullBarrier
<1>1. IInv => NoSleeperAtFullBarrier
  BY DEF IInv
<1> QED BY <1>1, Invariance, PTL

(* A full set of bits has somebody on the way who will take it.            *)
THEOREM FullBarrierIsTaken == Spec => []FullBarrierHasTaker
<1>1. IInv => FullBarrierHasTaker
  BY DEF IInv
<1> QED BY <1>1, Invariance, PTL

(* stats.barrier_cycles never exceeds the number of rounds.                *)
THEOREM NoDoubleCount == Spec => []CountedAtMostOnce
<1>1. IInv => CountedAtMostOnce
  BY BarrierAssumption DEF IInv, TypeOK, RoundsUseArrivals, CountsPasses,
     Uncounted, CountedAtMostOnce
<1> QED BY <1>1, Invariance, PTL

(* The last arriver never passes with the others: every round leaves a     *)
(* worker behind.                                                          *)
THEOREM EveryRoundLeavesOneBehind == Spec => RoundLeavesOneBehind
<1> DEFINE LeavesOne == rounds' # rounds =>
                            \E w \in Workers : passes'[w] = passes[w]
<1>1. TypeOK /\ [Next]_vars => [LeavesOne]_vars
  <2> SUFFICES ASSUME TypeOK, Next, rounds' # rounds
               PROVE  \E w \in Workers : passes'[w] = passes[w]
    BY DEF vars
  <2>1. PICK w \in Workers, team \in SUBSET Workers : RoundEnds(w, team)
    BY StepCases DEF vars, Arrival, WaitBits, GiveUp, TestBits, OwnStep,
       Expire, CompareMax, StoreMax, CountCycle, SyncedWork, NextCycle
  <2>2. \E v \in Workers : v \notin team
    BY <2>1, BarrierAssumption DEF RoundEnds, Asleep
  <2> QED BY <2>1, <2>2 DEF RoundEnds, TypeOK
<1> QED BY <1>1, TypeCorrect, PTL DEF Spec, RoundLeavesOneBehind

(* The barrier of the code is the abstract one: every step is an arrival,  *)
(* the end of a round, or invisible.                                       *)
THEOREM Implementation == Spec => ImplementsRounds
<1>1. Init => Abstract!Init
  BY DEF Init, Abstract!Init
<1>2. TypeOK /\ [Next]_vars => [Abstract!Next]_(Abstract!vars)
  <2> SUFFICES ASSUME TypeOK, Next
               PROVE  Abstract!Next \/ UNCHANGED <<bits, passes>>
    BY DEF vars, Abstract!vars
  <2>1. ASSUME NEW w \in Workers, Arrival(w)
        PROVE  Abstract!Next
    BY <2>1 DEF Arrival, Abstract!Next, Abstract!Arrive
  <2>2. ASSUME NEW w \in Workers, NEW team \in SUBSET Workers, RoundEnds(w, team)
        PROVE  Abstract!Next
    <3>1. team # {} /\ team # Workers
      BY <2>2, BarrierAssumption DEF RoundEnds, Asleep
    <3>2. CASE pc[w] = "working"
      <4>1. w \notin team /\ bits \cup {w} = Workers
        BY <2>2, <3>2 DEF RoundEnds, Asleep
      <4>2. Abstract!Round(bits \cup {w}, team)
        BY <2>2, <3>1, <4>1 DEF RoundEnds, Abstract!Round
      <4> QED BY <4>1, <4>2 DEF Abstract!Next, Abstract!ArriveAndRelease
    <3>3. CASE pc[w] # "working"
      <4>1. Abstract!Round(bits, team)
        BY <2>2, <3>1, <3>3 DEF RoundEnds, Abstract!Round
      <4> QED BY <4>1 DEF Abstract!Next, Abstract!Release
    <3> QED BY <3>2, <3>3
  <2>3. ASSUME NEW w \in Workers, WaitBits(w) \/ GiveUp(w), bits # Workers
        PROVE  UNCHANGED <<bits, passes>>
    BY <2>3 DEF WaitBits, GiveUp, TestBits
  <2>4. ASSUME NEW w \in Workers, OwnStep(w)
        PROVE  UNCHANGED <<bits, passes>>
    BY <2>4 DEF OwnStep, Expire, CompareMax, StoreMax, CountCycle,
       SyncedWork, NextCycle
  <2> QED BY <2>1, <2>2, <2>3, <2>4, StepCases DEF vars
<1> QED BY <1>1, <1>2, TypeCorrect, PTL DEF Spec, ImplementsRounds, Abstract!Spec

-----------------------------------------------------------------------------
(* SystemReadiness                                                         *)

Coordinator == at["coordinator"]
CoordinatorTime == timer["coordinator"]
AllReady(b) == Subsystems \subseteq b

(* The storage's answer to the command of this round: still to come, on    *)
(* its way, there.                                                         *)
Ordered ==
    /\ cmds = 1 /\ at["storage"] = "running" /\ ~notified
    /\ CoordinatorTime = AckTimeout
Cleaning ==
    /\ cmds = 0 /\ at["storage"] = "cleaning" /\ ~notified
    /\ CoordinatorTime + CleanUp = timer["storage"] + AckTimeout
    /\ timer["storage"] <= CleanUp
Answered == cmds = 0 /\ at["storage"] = "running" /\ notified

(* A round has one command, and its answer comes while the coordinator     *)
(* waits: CleanUp seconds after the command at the latest.                 *)
Rounds ==
    /\ Coordinator = "awaiting" =>
          /\ Ordered \/ Cleaning \/ Answered
          /\ CoordinatorTime <= AckTimeout
          /\ CoordinatorTime + CleanUp >= AckTimeout
    /\ Coordinator # "awaiting" =>
          cmds = 0 /\ ~notified /\ at["storage"] # "cleaning"
    /\ at["storage"] = "booting" =>
          /\ Coordinator \notin {"awaiting", "checking"}
          /\ timer["storage"] < CheckPeriod
          /\ Coordinator = "sleeping" => timer["storage"] < CoordinatorTime

(* How long the bit can have been wrong where the coordinator is.          *)
Lags ==
    /\ ~Wrong(events) => lag = 0
    /\ Coordinator \in {"entering", "complete", "checking"} =>
          CoordinatorTime = 0
    /\ Coordinator \in {"phase1", "entering", "phase2", "complete"} =>
          "system" \notin events /\ lag = 0
    /\ Coordinator = "phase1" => ~ (Basic \subseteq events)
    /\ Coordinator = "phase2" => ~AllReady(events)
    /\ Coordinator = "sleeping" => lag + CoordinatorTime <= CheckPeriod
    /\ Coordinator = "awaiting" =>
          lag + CoordinatorTime <= CheckPeriod + AckTimeout
    /\ Coordinator = "checking" =>
          /\ lag <= CheckPeriod + CleanUp
          /\ lag > 0 => (AllReady(events) <=> AllReady(seen))

ReadinessInv == ReadinessTypeOK /\ Rounds /\ Lags

-----------------------------------------------------------------------------
(* What the operators of the model do                                      *)

Bits == Subsystems \cup {"system"}

(* Where a task is and how long, for any of the steps.                     *)
PlacesAndTimes ==
    /\ at \in [Tasks -> UNION {Places(t) : t \in Tasks}]
    /\ \A t \in Tasks : at[t] \in Places(t)
    /\ timer \in [Tasks -> Nat]

LEMMA Periods ==
    /\ Phase1 \in Nat /\ Phase2 \in Nat
    /\ CheckPeriod \in Nat \ {0} /\ CleanUp \in Nat \ {0}
    /\ AckTimeout \in Nat \ {0} /\ CmdLen \in Nat \ {0} /\ AlertLen \in Nat
    /\ CleanUp < AckTimeout
    /\ TooLong = CheckPeriod + CleanUp + 1 /\ TooLong \in Nat
BY ReadinessAssumption DEF ReadinessAssumption, TooLong

LEMMA PlacesOf ==
    /\ Places("network") = {"booting", "running"}
    /\ Places("sensor") = {"booting", "running"}
    /\ Places("config") = {"booting", "running", "reloading"}
    /\ Places("storage") = {"booting", "running", "cleaning"}
    /\ Places("coordinator") = {"phase1", "entering", "phase2", "complete",
                                "sleeping", "awaiting", "checking"}
BY DEF Places

LEMMA TasksAre ==
    /\ Tasks = {"network", "sensor", "config", "storage", "coordinator"}
    /\ Subsystems \subseteq Tasks /\ "coordinator" \notin Subsystems
BY DEF Tasks, Subsystems

(* Go changes one task, to a place of its own.                             *)
LEMMA GoMoves ==
    ASSUME PlacesAndTimes, NEW t \in Tasks, NEW p \in Places(t), NEW n \in Nat,
           Go(t, p, n)
    PROVE  /\ PlacesAndTimes'
           /\ at'[t] = p /\ timer'[t] = n
           /\ \A u \in Tasks \ {t} : at'[u] = at[u] /\ timer'[u] = timer[u]
<1>1. p \in UNION {Places(u) : u \in Tasks}
  OBVIOUS
<1>2. /\ at'[t] = p /\ timer'[t] = n
      /\ \A u \in Tasks \ {t} : at'[u] = at[u] /\ timer'[u] = timer[u]
      /\ timer' \in [Tasks -> Nat]
      /\ at' \in [Tasks -> UNION {Places(u) : u \in Tasks}]
  BY <1>1 DEF PlacesAndTimes, Go
<1>3. \A u \in Tasks : at'[u] \in Places(u)
  BY <1>2 DEF PlacesAndTimes
<1> QED
  BY <1>2, <1>3 DEF PlacesAndTimes

(* The bits the coordinator waits for, and what becomes of its wait.       *)
Woken ==
    /\ Coordinator \in {"phase1", "phase2"}
    /\ Coordinator' = IF Coordinator = "phase1" THEN "entering" ELSE "complete"
    /\ CoordinatorTime' = 0

(* What the coordinator sees of the step of a subsystem.                   *)
Undisturbed ==
    /\ Coordinator' = Coordinator /\ CoordinatorTime' = CoordinatorTime
    /\ Coordinator = "phase1" => ~ (Basic \subseteq events')
    /\ Coordinator = "phase2" => ~AllReady(events')

(* No bit of a step outside the two phases ends a wait.                    *)
LEMMA WaitsForNothing ==
    ASSUME NEW b \in Bits, events \subseteq Bits,
           Coordinator \notin {"phase1", "phase2"}
    PROVE  ~ (Awaited \subseteq events \cup {b})
<1>1. Awaited = {"never"}
  BY DEF Awaited, Coordinator
<1>2. "never" \notin events \cup {b}
  BY DEF Bits, Subsystems
<1> QED
  BY <1>1, <1>2

LEMMA SetBitMoves ==
    ASSUME PlacesAndTimes, events \subseteq Bits, NEW s \in Subsystems,
           NEW p \in Places(s), NEW n \in Nat, SetBit(s, s, p, n)
    PROVE  /\ PlacesAndTimes'
           /\ at'[s] = p /\ timer'[s] = n
           /\ \A u \in Subsystems \ {s} : at'[u] = at[u] /\ timer'[u] = timer[u]
           /\ Undisturbed \/ Woken
<1>1. s \in Tasks /\ s # "coordinator" /\ "coordinator" \in Tasks /\ s \in Bits
  BY TasksAre DEF Bits
<1>2. events' = events \cup {s}
  BY DEF SetBit
<1>3. CASE Awaited \subseteq events'
  <2>1. Coordinator \in {"phase1", "phase2"}
    BY <1>1, <1>2, <1>3, WaitsForNothing
  <2> DEFINE place == IF Coordinator = "phase1" THEN "entering" ELSE "complete"
  <2>2. /\ at' = [at EXCEPT ![s] = p, !["coordinator"] = place]
        /\ timer' = [timer EXCEPT ![s] = n, !["coordinator"] = 0]
    BY <1>1, <1>3 DEF SetBit, PlacesAndTimes, Coordinator
  <2>3. place \in Places("coordinator")
    BY PlacesOf
  <2> HIDE DEF place
  <2>4. /\ p \in UNION {Places(u) : u \in Tasks}
        /\ place \in UNION {Places(u) : u \in Tasks}
    BY <1>1, <2>3
  <2>5. /\ at'[s] = p /\ timer'[s] = n
        /\ at'["coordinator"] = place /\ timer'["coordinator"] = 0
        /\ \A u \in Tasks \ {s, "coordinator"} :
              at'[u] = at[u] /\ timer'[u] = timer[u]
        /\ timer' \in [Tasks -> Nat]
        /\ at' \in [Tasks -> UNION {Places(u) : u \in Tasks}]
    BY <1>1, <2>2, <2>4 DEF PlacesAndTimes
  <2>6. \A u \in Tasks : at'[u] \in Places(u)
    BY <2>3, <2>5 DEF PlacesAndTimes
  <2>7. Woken
    BY <2>1, <2>5 DEF Woken, Coordinator, CoordinatorTime, place
  <2> QED
    BY <2>5, <2>6, <2>7, TasksAre DEF PlacesAndTimes
<1>4. CASE ~ (Awaited \subseteq events')
  <2>1. Go(s, p, n)
    BY <1>4 DEF SetBit
  <2>2. /\ PlacesAndTimes'
        /\ at'[s] = p /\ timer'[s] = n
        /\ \A u \in Tasks \ {s} : at'[u] = at[u] /\ timer'[u] = timer[u]
    BY <1>1, <2>1, GoMoves
  <2>3. /\ Coordinator = "phase1" => Awaited = Basic
        /\ Coordinator = "phase2" => Awaited = Subsystems
    BY DEF Awaited, Coordinator
  <2>4. Undisturbed
    BY <1>1, <1>4, <2>2, <2>3
    DEF Undisturbed, Coordinator, CoordinatorTime, AllReady
  <2> QED
    BY <2>2, <2>4, TasksAre
<1> QED
  BY <1>3, <1>4

(* Outside the phases the coordinator sets the bit and goes on.            *)
LEMMA SetSystem ==
    ASSUME events \subseteq Bits, Coordinator \notin {"phase1", "phase2"},
           NEW p, NEW n, SetBit("system", "coordinator", p, n)
    PROVE  Go("coordinator", p, n)
BY WaitsForNothing DEF SetBit, Bits

LEMMA ReadinessTypes ==
    ReadinessTypeOK <=>
    /\ PlacesAndTimes
    /\ events \subseteq Bits /\ seen \subseteq Bits
    /\ alerts \in 0..AlertLen /\ cmds \in 0..CmdLen
    /\ notified \in BOOLEAN
    /\ lag \in 0..TooLong
BY DEF ReadinessTypeOK, PlacesAndTimes, Bits

LEMMA ReadinessTypesNext ==
    ReadinessTypeOK' <=>
    /\ PlacesAndTimes'
    /\ events' \subseteq Bits /\ seen' \subseteq Bits
    /\ alerts' \in 0..AlertLen /\ cmds' \in 0..CmdLen
    /\ notified' \in BOOLEAN
    /\ lag' \in 0..TooLong
BY DEF ReadinessTypeOK, PlacesAndTimes, Bits

-----------------------------------------------------------------------------
(* The two kinds of steps                                                  *)

(* A step of a subsystem: it may wake the coordinator, and it leaves the   *)
(* bit of the system alone.                                                *)
SubsystemStep(s) ==
    /\ PlacesAndTimes'
    /\ Undisturbed \/ Woken
    /\ \A u \in Subsystems \ {s} : at'[u] = at[u] /\ timer'[u] = timer[u]
    /\ events' \subseteq Bits
    /\ "system" \in events' <=> "system" \in events
    /\ lag' = IF Wrong(events') THEN lag ELSE 0
    /\ seen' = seen
    /\ alerts' \in 0..AlertLen

(* A step of the coordinator.                                              *)
CoordinatorStep(p, n) ==
    /\ PlacesAndTimes'
    /\ Coordinator' = p /\ CoordinatorTime' = n
    /\ \A u \in Subsystems : at'[u] = at[u] /\ timer'[u] = timer[u]
    /\ alerts' = alerts

LEMMA SetsBit ==
    ASSUME ReadinessTypeOK, Lags, NEW s \in Subsystems,
           NEW p \in Places(s), NEW n \in Nat, SetBit(s, s, p, n),
           alerts' = alerts, seen' = seen
    PROVE  SubsystemStep(s) /\ at'[s] = p /\ timer'[s] = n
<1>1. PlacesAndTimes /\ events \subseteq Bits /\ alerts \in 0..AlertLen
  BY ReadinessTypes
<1>2. /\ PlacesAndTimes'
      /\ at'[s] = p /\ timer'[s] = n
      /\ \A u \in Subsystems \ {s} : at'[u] = at[u] /\ timer'[u] = timer[u]
      /\ Undisturbed \/ Woken
  BY <1>1, SetBitMoves
<1>3. /\ events' = events \cup {s}
      /\ lag' = IF Wrong(events') THEN lag ELSE 0
  BY DEF SetBit
<1>4. s \in Bits /\ s # "system"
  BY DEF Bits, Subsystems
<1> QED
  BY <1>1, <1>2, <1>3, <1>4 DEF SubsystemStep

(* A subsystem goes on without setting a bit.                              *)
LEMMA Goes ==
    ASSUME ReadinessTypeOK, Lags, NEW s \in Subsystems,
           NEW p \in Places(s), NEW n \in Nat, Go(s, p, n),
           events' \subseteq events,
           "system" \in events' <=> "system" \in events,
           lag' = IF Wrong(events') THEN lag ELSE 0,
           seen' = seen, alerts' \in 0..AlertLen
    PROVE  SubsystemStep(s) /\ at'[s] = p /\ timer'[s] = n
<1>1. PlacesAndTimes /\ events \subseteq Bits
  BY ReadinessTypes
<1>2. s \in Tasks /\ s # "coordinator" /\ "coordinator" \in Tasks
  BY TasksAre
<1>3. /\ PlacesAndTimes'
      /\ at'[s] = p /\ timer'[s] = n
      /\ \A u \in Tasks \ {s} : at'[u] = at[u] /\ timer'[u] = timer[u]
  BY <1>1, <1>2, GoMoves
<1>4. Undisturbed
  BY <1>2, <1>3
  DEF Undisturbed, Coordinator, CoordinatorTime, Lags, AllReady
<1> QED
  BY <1>1, <1>3, <1>4, TasksAre DEF SubsystemStep

LEMMA CoordinatorGoes ==
    ASSUME ReadinessTypeOK, NEW p \in Places("coordinator"), NEW n \in Nat,
           Go("coordinator", p, n), alerts' = alerts
    PROVE  CoordinatorStep(p, n)
<1>1. PlacesAndTimes /\ "coordinator" \in Tasks
  BY ReadinessTypes, TasksAre
<1>2. /\ PlacesAndTimes'
      /\ at'["coordinator"] = p /\ timer'["coordinator"] = n
      /\ \A u \in Tasks \ {"coordinator"} :
            at'[u] = at[u] /\ timer'[u] = timer[u]
  BY <1>1, GoMoves
<1> QED
  BY <1>2, TasksAre DEF CoordinatorStep, Coordinator, CoordinatorTime

(* A wrong bit stays wrong as long as only the subsystems move; when it is *)
(* right again, lag starts anew.                                           *)
LEMMA SubsystemLags ==
    ASSUME ReadinessTypeOK, Lags, NEW s \in Subsystems, SubsystemStep(s)
    PROVE  Lags' /\ lag' \in 0..TooLong /\ lag' <= lag
<1>1. lag \in 0..TooLong /\ lag \in Nat /\ TooLong \in Nat
  BY ReadinessTypes, Periods
<1>2. /\ lag' = IF Wrong(events') THEN lag ELSE 0
      /\ seen' = seen
      /\ "system" \in events' <=> "system" \in events
  BY DEF SubsystemStep
<1>3. lag' \in 0..TooLong /\ lag' <= lag /\ (lag = 0 => lag' = 0)
  BY <1>1, <1>2
<1>4. lag' > 0 => lag' = lag /\ (AllReady(events') <=> AllReady(events))
  BY <1>1, <1>2 DEF Lags, Wrong, AllReady
<1>5. PlacesAndTimes /\ CoordinatorTime \in Nat
  BY ReadinessTypes, TasksAre DEF PlacesAndTimes, CoordinatorTime
<1>6. CASE Undisturbed
  BY <1>1, <1>2, <1>3, <1>4, <1>5, <1>6, Periods DEF Undisturbed, Lags
<1>7. CASE Woken
  <2>1. Coordinator \in {"phase1", "phase2"}
    BY <1>7 DEF Woken
  <2>2. Coordinator' \in {"entering", "complete"} /\ CoordinatorTime' = 0
    BY <1>7 DEF Woken
  <2>3. "system" \notin events' /\ lag' = 0
    BY <1>2, <1>3, <2>1 DEF Lags
  <2> QED
    BY <1>3, <2>2, <2>3 DEF Lags
<1> QED
  BY <1>3, <1>6, <1>7 DEF SubsystemStep

(* A subsystem other than the storage has no part in the rounds; and the   *)
(* wait of a phase is not that for the notification.                       *)
LEMMA SubsystemRounds ==
    ASSUME ReadinessTypeOK, Rounds, NEW s \in Subsystems, SubsystemStep(s),
           s # "storage", cmds' = cmds, notified' = notified
    PROVE  Rounds'
<1>1. at'["storage"] = at["storage"] /\ timer'["storage"] = timer["storage"]
  BY DEF SubsystemStep, Subsystems
<1>2. CASE Undisturbed
  BY <1>1, <1>2
  DEF Undisturbed, Rounds, Ordered, Cleaning, Answered
<1>3. CASE Woken
  BY <1>1, <1>3 DEF Woken, Rounds
<1> QED
  BY <1>2, <1>3 DEF SubsystemStep

LEMMA SubsystemInv ==
    ASSUME ReadinessInv, NEW s \in Subsystems, SubsystemStep(s), Rounds',
           cmds' \in 0..CmdLen, notified' \in BOOLEAN
    PROVE  ReadinessInv'
<1>1. ReadinessTypeOK /\ Lags /\ seen \subseteq Bits
  BY ReadinessTypes DEF ReadinessInv
<1>2. Lags' /\ lag' \in 0..TooLong
  BY <1>1, SubsystemLags
<1>3. ReadinessTypeOK'
  BY <1>1, <1>2, ReadinessTypesNext DEF SubsystemStep
<1> QED
  BY <1>2, <1>3 DEF ReadinessInv

-----------------------------------------------------------------------------
(* The steps of the subsystems                                             *)

LEMMA ReadinessInvInit ==
    ASSUME ReadinessInit PROVE ReadinessInv
<1>1. PICK boot \in [Subsystems -> UNION {Boot[s] : s \in Subsystems}] :
          /\ \A s \in Subsystems : boot[s] \in Boot[s]
          /\ timer = [t \in Tasks |-> IF t = "coordinator" THEN Phase1
                                                           ELSE boot[t]]
  BY DEF ReadinessInit
<1>2. \A s \in Subsystems : boot[s] \in Nat \ {0}
  BY <1>1, ReadinessAssumption DEF ReadinessAssumption
<1>3. at = [t \in Tasks |-> IF t = "coordinator" THEN "phase1" ELSE "booting"]
  BY DEF ReadinessInit
<1>4. \A t \in Tasks : at[t] \in Places(t)
  BY <1>3, TasksAre, PlacesOf
<1>5. at \in [Tasks -> UNION {Places(t) : t \in Tasks}]
  <2>1. \A t \in Tasks : at[t] \in UNION {Places(u) : u \in Tasks}
    BY <1>4
  <2> QED
    BY <1>3, <2>1
<1>6. timer \in [Tasks -> Nat]
  BY <1>1, <1>2, TasksAre, Periods DEF Subsystems
<1>7. ReadinessTypeOK
  <2>1. PlacesAndTimes
    BY <1>4, <1>5, <1>6 DEF PlacesAndTimes
  <2>2. /\ events = {} /\ seen = {} /\ alerts = 0 /\ cmds = 0
        /\ notified = FALSE /\ lag = 0
    BY DEF ReadinessInit
  <2>3. /\ events \subseteq Bits /\ seen \subseteq Bits
        /\ alerts \in 0..AlertLen /\ cmds \in 0..CmdLen
        /\ notified \in BOOLEAN
        /\ lag \in 0..TooLong
    <3>1. events \subseteq Bits /\ seen \subseteq Bits
      BY <2>2
    <3>2. alerts \in 0..AlertLen
      BY <2>2, Periods
    <3>3. cmds \in 0..CmdLen
      BY <2>2, Periods
    <3>4. lag \in 0..TooLong
      BY <2>2, Periods
    <3> QED
      BY <2>2, <3>1, <3>2, <3>3, <3>4
  <2> QED
    BY <2>1, <2>3, ReadinessTypes
<1>8. /\ at["coordinator"] = "phase1" /\ at["storage"] = "booting"
      /\ timer["storage"] = boot["storage"]
  BY <1>1, <1>3, TasksAre
<1>9. boot["storage"] < CheckPeriod
  BY <1>1, ReadinessAssumption DEF ReadinessAssumption, Subsystems
<1>10. Rounds
  BY <1>8, <1>9 DEF ReadinessInit, Rounds, Coordinator
<1>11. Lags
  BY <1>8
  DEF ReadinessInit, Lags, Coordinator, Wrong, Subsystems, Basic
<1> QED
  BY <1>7, <1>10, <1>11 DEF ReadinessInv

LEMMA ReadyStep ==
    ASSUME ReadinessInv, NEW s \in Subsystems, Ready(s) PROVE ReadinessInv'
<1> DEFINE n == IF s = "storage" THEN IdleTime ELSE 0
<1>1. SetBit(s, s, "running", n) /\ UNCHANGED <<alerts, cmds, notified, seen>>
  BY DEF Ready
<1>2. n \in Nat /\ "running" \in Places(s)
  BY PlacesOf DEF IdleTime, Subsystems
<1>3. ReadinessTypeOK /\ Rounds /\ Lags
  BY DEF ReadinessInv
<1> HIDE DEF n
<1>4. SubsystemStep(s) /\ at'[s] = "running"
  BY <1>1, <1>2, <1>3, SetsBit
<1>5. at[s] = "booting"
  BY DEF Ready, Due
<1>6. Rounds'
  <2>1. CASE s # "storage"
    BY <1>1, <1>3, <1>4, <2>1, SubsystemRounds
  <2>2. CASE s = "storage"
    <3>1. Coordinator # "awaiting"
      BY <1>3, <1>5, <2>2 DEF Rounds
    <3>2. Coordinator' # "awaiting"
      BY <1>4, <3>1 DEF SubsystemStep, Undisturbed, Woken
    <3> QED
      BY <1>1, <1>3, <1>4, <2>2, <3>1, <3>2 DEF Rounds
  <2> QED
    BY <2>1, <2>2
<1>7. cmds' \in 0..CmdLen /\ notified' \in BOOLEAN
  BY <1>1, <1>3, ReadinessTypes
<1> QED
  BY <1>4, <1>6, <1>7, SubsystemInv

(* A step of a subsystem that has no part in the rounds.                   *)
LEMMA OtherSubsystem ==
    ASSUME ReadinessInv, NEW s \in Subsystems, SubsystemStep(s),
           s # "storage", UNCHANGED <<cmds, notified>>
    PROVE  ReadinessInv'
<1>1. ReadinessTypeOK /\ Rounds
  BY DEF ReadinessInv
<1>2. cmds' \in 0..CmdLen /\ notified' \in BOOLEAN
  BY <1>1, ReadinessTypes
<1> QED
  BY <1>1, <1>2, SubsystemRounds, SubsystemInv

LEMMA AlertTypes ==
    ASSUME ReadinessTypeOK, Alert PROVE alerts' \in 0..AlertLen
BY ReadinessTypes, Periods DEF Alert

LEMMA NetworkStep ==
    ASSUME ReadinessInv, NetworkUp \/ NetworkDown PROVE ReadinessInv'
<1>1. ReadinessTypeOK /\ Lags
  BY DEF ReadinessInv
<1>2. /\ "network" \in Subsystems /\ NetworkPeriod \in Nat
      /\ "running" \in Places("network")
  BY PlacesOf DEF Subsystems, NetworkPeriod
<1>3. CASE NetworkUp
  <2>1. SubsystemStep("network")
    BY <1>1, <1>2, <1>3, SetsBit DEF NetworkUp
  <2> QED
    BY <1>2, <1>3, <2>1, OtherSubsystem DEF NetworkUp
<1>4. CASE NetworkDown
  <2>1. /\ events' \subseteq events
        /\ "system" \in events' <=> "system" \in events
        /\ lag' = IF Wrong(events') THEN lag ELSE 0
    BY <1>4 DEF NetworkDown, ClearBit
  <2>2. alerts' \in 0..AlertLen
    BY <1>1, <1>4, AlertTypes DEF NetworkDown
  <2>3. SubsystemStep("network")
    BY <1>1, <1>2, <1>4, <2>1, <2>2, Goes DEF NetworkDown
  <2> QED
    BY <1>2, <1>4, <2>3, OtherSubsystem DEF NetworkDown
<1> QED
  BY <1>3, <1>4

(* A step that touches no bit leaves lag as it is, which is what it would  *)
(* be anyway.                                                              *)
LEMMA SameEvents ==
    ASSUME ReadinessTypeOK, Lags, UNCHANGED <<events, lag>>
    PROVE  /\ events' \subseteq events
           /\ "system" \in events' <=> "system" \in events
           /\ lag' = IF Wrong(events') THEN lag ELSE 0
<1>1. Wrong(events') <=> Wrong(events)
  BY DEF Wrong
<1> QED
  BY <1>1 DEF Lags

LEMMA SenseStep ==
    ASSUME ReadinessInv, Sense PROVE ReadinessInv'
<1>1. ReadinessTypeOK /\ Lags /\ alerts \in 0..AlertLen
  BY ReadinessTypes DEF ReadinessInv
<1>2. /\ "sensor" \in Subsystems /\ SensePeriod \in Nat
      /\ "running" \in Places("sensor")
  BY PlacesOf DEF Subsystems, SensePeriod
<1>3. UNCHANGED <<events, alerts, cmds, notified, seen, lag>>
  BY DEF Sense
<1>4. SubsystemStep("sensor")
  BY <1>1, <1>2, <1>3, SameEvents, Goes DEF Sense
<1> QED
  BY <1>2, <1>3, <1>4, OtherSubsystem

LEMMA ConfigStep ==
    ASSUME ReadinessInv, ConfigSound \/ ConfigCorrupt \/ ConfigReloaded
    PROVE  ReadinessInv'
<1>1. ReadinessTypeOK /\ Lags /\ alerts \in 0..AlertLen
  BY ReadinessTypes DEF ReadinessInv
<1>2. /\ "config" \in Subsystems
      /\ ConfigPeriod \in Nat /\ ReloadTime \in Nat
      /\ "running" \in Places("config") /\ "reloading" \in Places("config")
  BY PlacesOf DEF Subsystems, ConfigPeriod, ReloadTime
<1>3. CASE ConfigSound
  <2>1. SubsystemStep("config")
    BY <1>1, <1>2, <1>3, SameEvents, Goes DEF ConfigSound
  <2> QED
    BY <1>2, <1>3, <2>1, OtherSubsystem DEF ConfigSound
<1>4. CASE ConfigCorrupt
  <2>1. /\ events' \subseteq events
        /\ "system" \in events' <=> "system" \in events
        /\ lag' = IF Wrong(events') THEN lag ELSE 0
    BY <1>4 DEF ConfigCorrupt, ClearBit
  <2>2. alerts' \in 0..AlertLen
    BY <1>1, <1>4, AlertTypes DEF ConfigCorrupt
  <2>3. SubsystemStep("config")
    BY <1>1, <1>2, <1>4, <2>1, <2>2, Goes DEF ConfigCorrupt
  <2> QED
    BY <1>2, <1>4, <2>3, OtherSubsystem DEF ConfigCorrupt
<1>5. CASE ConfigReloaded
  <2>1. SubsystemStep("config")
    BY <1>1, <1>2, <1>5, SetsBit DEF ConfigReloaded
  <2> QED
    BY <1>2, <1>5, <2>1, OtherSubsystem DEF ConfigReloaded
<1> QED
  BY <1>3, <1>4, <1>5

(* The storage takes the command of the round, and answers it.             *)
LEMMA StorageStep ==
    ASSUME ReadinessInv, CleanUpStarts \/ Maintain \/ CleanUpDone
    PROVE  ReadinessInv'
<1>1. ReadinessTypeOK /\ Rounds /\ Lags /\ alerts \in 0..AlertLen
  BY ReadinessTypes DEF ReadinessInv
<1>2. cmds \in 0..CmdLen /\ notified \in BOOLEAN
  BY <1>1, ReadinessTypes
<1>3. /\ "storage" \in Subsystems /\ IdleTime \in Nat /\ CleanUp \in Nat
      /\ "running" \in Places("storage") /\ "cleaning" \in Places("storage")
  BY PlacesOf, Periods DEF Subsystems, IdleTime
<1>4. UNCHANGED <<events, alerts, seen, lag>>
  BY DEF CleanUpStarts, Maintain, CleanUpDone
<1>5. UNCHANGED <<events, lag>>
  BY <1>4
<1>6. /\ events' \subseteq events
      /\ "system" \in events' <=> "system" \in events
      /\ lag' = IF Wrong(events') THEN lag ELSE 0
  BY <1>1, <1>5, SameEvents
<1>7. "coordinator" \in Tasks /\ CoordinatorTime \in Nat
      /\ timer["storage"] \in Nat
  BY <1>1, TasksAre, ReadinessTypes DEF PlacesAndTimes, CoordinatorTime
<1>8. CASE CleanUpStarts
  <2>1. /\ at["storage"] = "running" /\ cmds > 0 /\ cmds' = cmds - 1
        /\ notified' = notified
    BY <1>8 DEF CleanUpStarts
  <2>2. /\ SubsystemStep("storage")
        /\ at'["storage"] = "cleaning" /\ timer'["storage"] = CleanUp
    BY <1>1, <1>3, <1>4, <1>6, <1>8, Goes DEF CleanUpStarts
  <2>3. Coordinator = "awaiting" /\ Ordered
    BY <1>1, <1>2, <2>1 DEF Rounds, Cleaning, Answered
  <2>4. Coordinator' = "awaiting" /\ CoordinatorTime' = CoordinatorTime
    BY <2>2, <2>3 DEF SubsystemStep, Undisturbed, Woken
  <2>5. Rounds'
    BY <1>1, <1>2, <2>1, <2>2, <2>3, <2>4, Periods
    DEF Rounds, Ordered, Cleaning
  <2>6. cmds' \in 0..CmdLen
    BY <1>2, <2>1, Periods
  <2> QED
    BY <1>2, <1>3, <2>1, <2>2, <2>5, <2>6, SubsystemInv
<1>9. CASE Maintain
  <2>1. /\ at["storage"] = "running" /\ cmds = 0
        /\ cmds' = cmds /\ notified' = notified
    BY <1>9 DEF Maintain, Due
  <2>2. SubsystemStep("storage") /\ at'["storage"] = "running"
    BY <1>1, <1>3, <1>4, <1>6, <1>9, Goes DEF Maintain
  <2>3. /\ Coordinator = "awaiting" => Answered
        /\ Coordinator # "awaiting" => ~notified
    BY <1>1, <2>1 DEF Rounds, Ordered, Cleaning
  <2>4. \/ Coordinator' = Coordinator /\ CoordinatorTime' = CoordinatorTime
        \/ Coordinator # "awaiting" /\ Coordinator' # "awaiting"
    BY <2>2 DEF SubsystemStep, Undisturbed, Woken
  <2>5. Rounds'
    BY <1>1, <2>1, <2>2, <2>3, <2>4 DEF Rounds, Answered
  <2> QED
    BY <1>2, <1>3, <2>1, <2>2, <2>5, SubsystemInv
<1>10. CASE CleanUpDone
  <2>1. /\ at["storage"] = "cleaning" /\ notified' = TRUE /\ cmds' = cmds
    BY <1>10 DEF CleanUpDone, Due
  <2>2. SubsystemStep("storage") /\ at'["storage"] = "running"
    BY <1>1, <1>3, <1>4, <1>6, <1>10, Goes DEF CleanUpDone
  <2>3. Coordinator = "awaiting" /\ Cleaning
    BY <1>1, <2>1 DEF Rounds, Ordered, Answered
  <2>4. Coordinator' = "awaiting" /\ CoordinatorTime' = CoordinatorTime
    BY <2>2, <2>3 DEF SubsystemStep, Undisturbed, Woken
  <2>5. Rounds'
    BY <1>1, <2>1, <2>2, <2>3, <2>4 DEF Rounds, Cleaning, Answered
  <2> QED
    BY <1>2, <1>3, <2>1, <2>2, <2>5, SubsystemInv
<1> QED
  BY <1>8, <1>9, <1>10

LEMMA HandleAlertStep ==
    ASSUME ReadinessInv, HandleAlert PROVE ReadinessInv'
<1>1. ReadinessTypeOK /\ Rounds /\ Lags
  BY DEF ReadinessInv
<1>2. alerts' \in 0..AlertLen
  BY <1>1, ReadinessTypes, Periods DEF HandleAlert
<1>3. UNCHANGED <<events, at, timer, cmds, notified, seen, lag>>
  BY DEF HandleAlert
<1>4. PlacesAndTimes'
  BY <1>1, <1>3, ReadinessTypes DEF PlacesAndTimes
<1>5. ReadinessTypeOK'
  BY <1>1, <1>2, <1>3, <1>4, ReadinessTypes, ReadinessTypesNext
<1>6. Rounds' /\ Lags'
  BY <1>1, <1>3
  DEF Rounds, Lags, Ordered, Cleaning, Answered, Coordinator,
      CoordinatorTime, AllReady, Wrong
<1> QED
  BY <1>5, <1>6 DEF ReadinessInv

-----------------------------------------------------------------------------
(* The steps of the coordinator                                            *)

LEMMA CoordinatorInv ==
    ASSUME ReadinessInv, NEW p, NEW n, CoordinatorStep(p, n), Rounds', Lags',
           events' \subseteq Bits, seen' \subseteq Bits,
           cmds' \in 0..CmdLen, notified' \in BOOLEAN, lag' \in 0..TooLong
    PROVE  ReadinessInv'
<1>1. ReadinessTypeOK'
  BY ReadinessTypes, ReadinessTypesNext DEF ReadinessInv, CoordinatorStep
<1> QED
  BY <1>1 DEF ReadinessInv

(* Until it asks for the next cleaning the coordinator has no part in the  *)
(* rounds.                                                                 *)
LEMMA PhaseRounds ==
    ASSUME ReadinessTypeOK, Rounds, NEW p, NEW n \in Nat, CoordinatorStep(p, n),
           Coordinator # "awaiting",
           p \in {"entering", "phase2", "complete", "sleeping"},
           p = "sleeping" => n = CheckPeriod,
           UNCHANGED <<cmds, notified>>
    PROVE  Rounds'
<1>1. at'["storage"] = at["storage"] /\ timer'["storage"] = timer["storage"]
  BY DEF CoordinatorStep, Subsystems
<1>2. Coordinator' = p /\ CoordinatorTime' = n
  BY DEF CoordinatorStep
<1> QED
  BY <1>1, <1>2 DEF Rounds

LEMMA PhaseStep ==
    ASSUME ReadinessInv, Phase1TimesOut \/ EnterPhase2 \/ Phase2TimesOut
    PROVE  ReadinessInv'
<1>1. ReadinessTypeOK /\ Rounds /\ Lags
  BY DEF ReadinessInv
<1>2. UNCHANGED <<events, alerts, cmds, notified, seen, lag>>
  BY DEF Phase1TimesOut, EnterPhase2, Phase2TimesOut
<1>3. /\ events' \subseteq Bits /\ seen' \subseteq Bits
      /\ cmds' \in 0..CmdLen /\ notified' \in BOOLEAN /\ lag' \in 0..TooLong
  BY <1>1, <1>2, ReadinessTypes
<1>4. /\ {"entering", "complete", "phase2", "sleeping"}
             \subseteq Places("coordinator")
      /\ 0 \in Nat /\ Phase2 \in Nat /\ CheckPeriod \in Nat
  BY PlacesOf, Periods
<1>5. "system" \notin events /\ lag = 0 /\ Coordinator # "awaiting"
  BY <1>1
  DEF Phase1TimesOut, EnterPhase2, Phase2TimesOut, Due, Coordinator, Lags
<1>6. PICK p \in {"entering", "complete", "phase2", "sleeping"}, n \in Nat :
          /\ Go("coordinator", p, n)
          /\ p \in {"entering", "complete"} => n = 0
          /\ p = "sleeping" => n = CheckPeriod
          /\ p = "phase2" => ~AllReady(events)
  BY <1>4 DEF Phase1TimesOut, EnterPhase2, Phase2TimesOut, AllReady
<1>7. CoordinatorStep(p, n)
  BY <1>1, <1>2, <1>4, <1>6, CoordinatorGoes
<1>8. Rounds'
  BY <1>1, <1>2, <1>5, <1>6, <1>7, PhaseRounds
<1>9. Coordinator' = p /\ CoordinatorTime' = n
  BY <1>7 DEF CoordinatorStep
<1>10. Lags'
  BY <1>2, <1>4, <1>5, <1>6, <1>9 DEF Lags, AllReady, Wrong
<1> QED
  BY <1>3, <1>7, <1>8, <1>10, CoordinatorInv

(* The coordinator brings the bit up to date, which is right after that.   *)
LEMMA UpdatesBit ==
    ASSUME ReadinessInv, Coordinator \in {"complete", "checking"},
           Go("coordinator", "sleeping", CheckPeriod),
           events' \subseteq Bits, lag' = 0,
           UNCHANGED <<alerts, cmds, notified, seen>>
    PROVE  ReadinessInv'
<1>1. ReadinessTypeOK /\ Rounds /\ Lags
  BY DEF ReadinessInv
<1>2. seen' \subseteq Bits /\ cmds' \in 0..CmdLen /\ notified' \in BOOLEAN
  BY <1>1, ReadinessTypes
<1>3. "sleeping" \in Places("coordinator") /\ CheckPeriod \in Nat
  BY PlacesOf, Periods
<1>4. CoordinatorStep("sleeping", CheckPeriod)
  BY <1>1, <1>3, CoordinatorGoes
<1>5. Rounds'
  BY <1>1, <1>3, <1>4, PhaseRounds
<1>6. Coordinator' = "sleeping" /\ CoordinatorTime' = CheckPeriod
  BY <1>4 DEF CoordinatorStep
<1>7. Lags' /\ lag' \in 0..TooLong
  BY <1>3, <1>6, Periods DEF Lags
<1> QED
  BY <1>2, <1>4, <1>5, <1>7, CoordinatorInv

LEMMA UpdateStep ==
    ASSUME ReadinessInv, Phase2Complete \/ Degrade \/ Recover
    PROVE  ReadinessInv'
<1>1. ReadinessTypeOK /\ Lags /\ events \subseteq Bits /\ lag \in 0..TooLong
  BY ReadinessTypes DEF ReadinessInv
<1>2. Coordinator \in {"complete", "checking"}
  BY DEF Phase2Complete, Degrade, Recover, Due, Coordinator
<1>3. UNCHANGED <<alerts, cmds, notified, seen>>
  BY DEF Phase2Complete, Degrade, Recover
<1>4. Go("coordinator", "sleeping", CheckPeriod)
  <2>1. CASE Degrade
    BY <2>1 DEF Degrade
  <2>2. CASE Phase2Complete \/ Recover
    <3>1. SetBit("system", "coordinator", "sleeping", CheckPeriod)
      BY <2>2 DEF Phase2Complete, Recover
    <3> QED
      BY <1>1, <1>2, <3>1, SetSystem
  <2> QED
    BY <2>1, <2>2
<1>5. lag' = IF Wrong(events') THEN lag ELSE 0
  BY DEF Phase2Complete, Degrade, Recover, SetBit, ClearBit
<1>6. events' \subseteq Bits
  BY <1>1 DEF Phase2Complete, Degrade, Recover, SetBit, ClearBit, Bits
<1>7. lag' = 0
  <2>1. SUFFICES ASSUME lag # 0, Wrong(events') PROVE FALSE
    BY <1>5
  <2>2. lag > 0
    BY <1>1, <2>1, Periods
  <2>3. Coordinator = "checking" /\ (AllReady(events) <=> AllReady(seen))
    BY <1>1, <1>2, <2>1, <2>2 DEF Lags
  <2>4. CASE Degrade
    <3>1. ~AllReady(events) /\ events' = events \ {"system"}
      BY <2>3, <2>4 DEF Degrade, ClearBit, AllReady
    <3> QED
      BY <2>1, <3>1 DEF Wrong, AllReady
  <2>5. CASE Recover
    <3>1. AllReady(events) /\ events' = events \cup {"system"}
      BY <2>3, <2>5 DEF Recover, SetBit, AllReady
    <3> QED
      BY <2>1, <3>1 DEF Wrong, AllReady
  <2> QED
    BY <2>3, <2>4, <2>5 DEF Phase2Complete, Due, Coordinator
<1> QED
  BY <1>2, <1>3, <1>4, <1>6, <1>7, UpdatesBit

(* The next command finds nothing of the last round.                       *)
LEMMA RequestStep ==
    ASSUME ReadinessInv, Request PROVE ReadinessInv'
<1>1. ReadinessTypeOK /\ Rounds /\ Lags
  BY DEF ReadinessInv
<1>2. Coordinator = "sleeping" /\ CoordinatorTime = 0
  BY DEF Request, Due, Coordinator, CoordinatorTime
<1>3. UNCHANGED <<events, alerts, notified, seen, lag>>
  BY DEF Request
<1>4. /\ events' \subseteq Bits /\ seen' \subseteq Bits
      /\ notified' \in BOOLEAN /\ lag' \in 0..TooLong /\ lag \in Nat
  BY <1>1, <1>3, ReadinessTypes, Periods
<1>5. /\ cmds = 0 /\ ~notified /\ at["storage"] # "cleaning"
      /\ at["storage"] = "booting" => timer["storage"] < 0
  BY <1>1, <1>2 DEF Rounds
<1>6. timer["storage"] \in Nat /\ at["storage"] \in Places("storage")
  BY <1>1, ReadinessTypes, TasksAre DEF PlacesAndTimes
<1>7. at["storage"] = "running"
  BY <1>5, <1>6, PlacesOf
<1>8. cmds' = 1 /\ cmds' \in 0..CmdLen
  BY <1>5, Periods DEF Request
<1>9. CoordinatorStep("awaiting", AckTimeout)
  BY <1>1, <1>3, PlacesOf, Periods, CoordinatorGoes DEF Request
<1>10. /\ Coordinator' = "awaiting" /\ CoordinatorTime' = AckTimeout
       /\ at'["storage"] = at["storage"]
  BY <1>9 DEF CoordinatorStep, Subsystems
<1>11. Rounds'
  BY <1>3, <1>5, <1>7, <1>8, <1>10, Periods DEF Rounds, Ordered
<1>12. lag' + AckTimeout <= CheckPeriod + AckTimeout
  BY <1>1, <1>2, <1>3, <1>4, Periods DEF Lags
<1>13. Lags'
  BY <1>1, <1>3, <1>10, <1>12 DEF Lags, Wrong
<1> QED
  BY <1>4, <1>8, <1>9, <1>11, <1>13, CoordinatorInv

(* The wait ends with the answer, CleanUp seconds after the command at     *)
(* most.                                                                   *)
LEMMA AckStep ==
    ASSUME ReadinessInv, Ack PROVE ReadinessInv'
<1>1. ReadinessTypeOK /\ Rounds /\ Lags
  BY DEF ReadinessInv
<1>2. Coordinator = "awaiting" /\ (notified \/ CoordinatorTime = 0)
  BY DEF Ack, Coordinator, CoordinatorTime
<1>3. /\ UNCHANGED <<events, alerts, cmds, lag>> /\ seen' = events
      /\ notified' = FALSE
  BY DEF Ack
<1>4. /\ events' \subseteq Bits /\ seen' \subseteq Bits
      /\ cmds' \in 0..CmdLen /\ lag' \in 0..TooLong /\ lag \in Nat
  BY <1>1, <1>3, ReadinessTypes, Periods
<1>5. CoordinatorTime \in Nat /\ timer["storage"] \in Nat
  BY <1>1, ReadinessTypes, TasksAre DEF PlacesAndTimes, CoordinatorTime
<1>6. /\ CoordinatorTime <= AckTimeout
      /\ CoordinatorTime + CleanUp >= AckTimeout
      /\ lag + CoordinatorTime <= CheckPeriod + AckTimeout
  BY <1>1, <1>2 DEF Rounds, Lags
<1>7. lag' <= CheckPeriod + CleanUp
  BY <1>3, <1>4, <1>5, <1>6, Periods
<1>8. CoordinatorTime # 0
  BY <1>5, <1>6, Periods
<1>9. Answered
  BY <1>1, <1>2, <1>8 DEF Rounds, Ordered, Cleaning
<1>10. CoordinatorStep("checking", 0)
  BY <1>1, <1>3, PlacesOf, CoordinatorGoes DEF Ack
<1>11. /\ Coordinator' = "checking" /\ CoordinatorTime' = 0
       /\ at'["storage"] = at["storage"]
  BY <1>10 DEF CoordinatorStep, Subsystems
<1>12. Rounds'
  BY <1>3, <1>9, <1>11 DEF Rounds, Answered
<1>13. Lags'
  BY <1>1, <1>3, <1>7, <1>11 DEF Lags, Wrong, AllReady
<1> QED
  BY <1>3, <1>4, <1>10, <1>12, <1>13, CoordinatorInv

-----------------------------------------------------------------------------
(* Time                                                                    *)

(* A second of waiting is a second less to wait.                           *)
LEMMA SecondLess ==
    ASSUME NEW l \in Nat, NEW n \in Nat, NEW m \in Nat, NEW b \in Nat,
           n > 0, m <= l + 1, l + n <= b
    PROVE  m + (n - 1) <= b
OBVIOUS

(* A second passes only where nobody has anything to do: the coordinator   *)
(* in a phase, asleep, or waiting while the storage cleans.                *)
LEMMA SecondStep ==
    ASSUME ReadinessInv, Second PROVE ReadinessInv'
<1>1. ReadinessTypeOK /\ Rounds /\ Lags
  BY DEF ReadinessInv
<1>2. UNCHANGED <<events, at, alerts, cmds, notified, seen>>
  BY DEF Second
<1>3. /\ \A t \in Tasks : timer[t] \in Nat /\ timer[t] > 0
      /\ timer' = [t \in Tasks |-> timer[t] - 1]
  BY <1>1, ReadinessTypes DEF Second, Quiet, PlacesAndTimes
<1>4. timer' \in [Tasks -> Nat]
  BY <1>3
<1>5. PlacesAndTimes'
  BY <1>1, <1>2, <1>4, ReadinessTypes DEF PlacesAndTimes
<1>6. lag \in Nat /\ lag \in 0..TooLong /\ TooLong \in Nat
  BY <1>1, ReadinessTypes, Periods
<1>7. /\ ~Wrong(events) => lag' = 0
      /\ Wrong(events) => lag' = IF lag < TooLong THEN lag + 1 ELSE lag
  BY DEF Second
<1>8. lag' \in 0..TooLong /\ lag' <= lag + 1
  BY <1>6, <1>7
<1>9. ReadinessTypeOK'
  BY <1>1, <1>2, <1>5, <1>8, ReadinessTypes, ReadinessTypesNext
<1>10. /\ CoordinatorTime \in Nat /\ CoordinatorTime > 0
       /\ CoordinatorTime' = CoordinatorTime - 1
       /\ Coordinator' = Coordinator
       /\ timer["storage"] \in Nat /\ timer["storage"] > 0
       /\ timer'["storage"] = timer["storage"] - 1
       /\ at'["storage"] = at["storage"]
  BY <1>2, <1>3, TasksAre DEF Coordinator, CoordinatorTime
<1>11. Coordinator = "awaiting" => Cleaning
  BY <1>1, <1>10 DEF Rounds, Ordered, Answered, Second, Quiet, Coordinator
<1>12. Rounds'
  <2>1. Coordinator = "awaiting" =>
            /\ Cleaning'
            /\ CoordinatorTime' <= AckTimeout
            /\ CoordinatorTime' + CleanUp >= AckTimeout
    BY <1>1, <1>2, <1>10, <1>11, Periods DEF Rounds, Cleaning
  <2>2. CheckPeriod \in Nat
    BY Periods
  <2> QED
    BY <1>1, <1>2, <1>10, <2>1, <2>2 DEF Rounds
<1>13. Lags'
  <2>1. Coordinator \notin {"entering", "complete", "checking"}
    BY <1>1, <1>10 DEF Lags
  <2>2. Coordinator \in {"phase1", "phase2"} => ~Wrong(events)
    BY <1>1 DEF Lags, Wrong, AllReady, Basic, Subsystems
  <2>3. ~Wrong(events') => lag' = 0
    BY <1>2, <1>7 DEF Wrong
  <2>4. CheckPeriod \in Nat /\ AckTimeout \in Nat /\ lag' \in Nat
    BY <1>6, <1>8, Periods
  <2>5. /\ Coordinator = "sleeping" => lag' + CoordinatorTime' <= CheckPeriod
        /\ Coordinator = "awaiting" =>
              lag' + CoordinatorTime' <= CheckPeriod + AckTimeout
    <3>1. /\ Coordinator = "sleeping" => lag + CoordinatorTime <= CheckPeriod
          /\ Coordinator = "awaiting" =>
                lag + CoordinatorTime <= CheckPeriod + AckTimeout
      BY <1>1 DEF Lags
    <3>2. CheckPeriod + AckTimeout \in Nat
      BY <2>4
    <3> QED
      BY <1>6, <1>8, <1>10, <2>4, <3>1, <3>2, SecondLess
  <2>6. /\ Coordinator \in {"phase1", "phase2"} =>
              "system" \notin events' /\ lag' = 0
        /\ Coordinator = "phase1" => ~ (Basic \subseteq events')
        /\ Coordinator = "phase2" => ~AllReady(events')
    BY <1>1, <1>2, <1>7, <2>2 DEF Lags, AllReady
  <2> QED
    BY <1>10, <2>1, <2>3, <2>5, <2>6 DEF Lags
<1> QED
  BY <1>9, <1>12, <1>13 DEF ReadinessInv

LEMMA ReadinessInvStep ==
    ASSUME ReadinessInv, [ReadinessNext]_readinessVars PROVE ReadinessInv'
<1>1. CASE UNCHANGED readinessVars
  BY <1>1
  DEF readinessVars, ReadinessInv, ReadinessTypeOK, Rounds, Lags, Ordered,
      Cleaning, Answered, Coordinator, CoordinatorTime, AllReady, Wrong
<1>2. CASE ReadinessNext
  BY <1>2, ReadyStep, NetworkStep, SenseStep, ConfigStep, StorageStep,
     HandleAlertStep, PhaseStep, UpdateStep, RequestStep, AckStep, SecondStep
  DEF ReadinessNext
<1> QED
  BY <1>1, <1>2

LEMMA ReadinessAlways == ReadinessSpec => []ReadinessInv
BY ReadinessInvInit, ReadinessInvStep, PTL DEF ReadinessSpec

(* WrongForOneRound, whatever the times are: system_coordinator_task       *)
(* brings the bit of the system up to date with the subsystems' within one *)
(* round of the health check.                                              *)
THEOREM ReadinessLag == ReadinessSpec => []WrongForOneRound
<1>1. ReadinessInv => WrongForOneRound
  <2>1. SUFFICES ASSUME ReadinessInv PROVE WrongForOneRound
    OBVIOUS
  <2>2. ReadinessTypeOK /\ Rounds /\ Lags
    BY <2>1 DEF ReadinessInv
  <2>3. /\ lag \in Nat /\ CoordinatorTime \in Nat
        /\ Coordinator \in Places("coordinator")
    BY <2>2, ReadinessTypes, TasksAre, Periods
    DEF PlacesAndTimes, Coordinator, CoordinatorTime
  <2>4. CASE Coordinator = "awaiting"
    BY <2>2, <2>3, <2>4, Periods DEF WrongForOneRound, Rounds, Lags
  <2>5. CASE Coordinator # "awaiting"
    BY <2>2, <2>3, <2>5, Periods, PlacesOf DEF WrongForOneRound, Lags
  <2> QED
    BY <2>4, <2>5
<1> QED
  BY <1>1, ReadinessAlways, PTL

(* AnswersAreForThisRound: the notification system_coordinator_task takes  *)
(* is the answer of storage_subsystem_task to the command just sent.       *)
THEOREM AnswersInTime == ReadinessSpec => []AnswersAreForThisRound
<1>1. ReadinessInv => AnswersAreForThisRound
  <2>1. SUFFICES ASSUME ReadinessInv PROVE AnswersAreForThisRound
    OBVIOUS
  <2>2. ReadinessTypeOK /\ Rounds
    BY <2>1 DEF ReadinessInv
  <2>3. Coordinator = "awaiting" => CoordinatorTime # 0
    BY <2>2, Periods DEF Rounds
  <2> QED
    BY <2>2, <2>3
    DEF AnswersAreForThisRound, Rounds, Due, Coordinator, CoordinatorTime
<1> QED
  BY <1>1, ReadinessAlways, PTL

=============================================================================
