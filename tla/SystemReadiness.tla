--------------------------- MODULE SystemReadiness ---------------------------
(***************************************************************************)
(* The subsystems of lab06/basic_event_groups and their coordinator.  Each *)
(* subsystem boots and sets its bit in system_events; the network and the  *)
(* configuration fail now and then and come back.  The coordinator waits   *)
(* for the bits in two phases with timeouts; after that it has the storage *)
(* cleaned in every round, waits for the notification, and brings the      *)
(* ready bit of the system up to date.                                     *)
(*                                                                         *)
(* The delays and timeouts of the code are what its correctness hangs on,  *)
(* so time is part of the model: seconds, counted down per task, with what *)
(* the code gives in fractions rounded up.  A task with work to do does it *)
(* before time goes on, in any order with the others of that second.       *)
(* Left out: LEDs, durations, notification counts, the monitor (it waits   *)
(* and prints) and the event log, whose one reader looks for failures of   *)
(* the sensor: there are none (Sense).                                     *)
(***************************************************************************)
EXTENDS Naturals

CONSTANTS Boot,           \* Boot[s]: the times a subsystem may take to boot
          Phase1, Phase2, \* the timeouts of the two phases
          CheckPeriod,    \* sleep of the coordinator between two rounds
          CleanUp,        \* how long the storage cleans
          AckTimeout,     \* how long the coordinator waits for that
          CmdLen,         \* length of storage_cmd_queue
          AlertLen        \* length of alert_queue

Subsystems == {"network", "sensor", "config", "storage"}
Basic == {"network", "config"}

(* The first command is sent after the storage has booted, and cleaning    *)
(* ends before the coordinator gives up.                                   *)
ASSUME ReadinessAssumption ==
    /\ Boot \in [Subsystems -> SUBSET (Nat \ {0})]
    /\ {Phase1, Phase2, CheckPeriod, CleanUp, AckTimeout, CmdLen, AlertLen}
           \subseteq Nat \ {0}
    /\ \A n \in Boot["storage"] : n < CheckPeriod
    /\ CleanUp < AckTimeout

(* The sleeps that are not parameters: the loops of the network, sensor    *)
(* and configuration, a reload, and the storage's wait for a command.      *)
NetworkPeriod == 5
SensePeriod == 3
ConfigPeriod == 8
ReloadTime == 1
IdleTime == 10

Tasks == Subsystems \cup {"coordinator"}

(* A second more than a round: where lag ends counting.                    *)
TooLong == CheckPeriod + CleanUp + 1

VARIABLES
    events,    \* system_events: subsystems that are ready, and "system"
    at,        \* where each task is
    timer,     \* seconds left of each task's sleep or wait
    alerts,    \* alerts in alert_queue
    cmds,      \* commands in storage_cmd_queue
    notified,  \* CLEANUP_DONE_BIT in the coordinator's notification value
    seen,      \* current_bits of the health check
    lag        \* history: seconds for which the system's bit has been wrong,
               \* counted up to TooLong

readinessVars == <<events, at, timer, alerts, cmds, notified, seen, lag>>

(* The system's bit should say whether all subsystems are ready.           *)
Wrong(b) == ("system" \in b) # (Subsystems \subseteq b)

ReadinessInit ==
    /\ events = {}
    /\ at = [t \in Tasks |-> IF t = "coordinator" THEN "phase1" ELSE "booting"]
    /\ \E boot \in [Subsystems -> UNION {Boot[s] : s \in Subsystems}] :
          /\ \A s \in Subsystems : boot[s] \in Boot[s]
          /\ timer = [t \in Tasks |-> IF t = "coordinator" THEN Phase1
                                                          ELSE boot[t]]
    /\ alerts = 0 /\ cmds = 0
    /\ notified = FALSE
    /\ seen = {}
    /\ lag = 0

-----------------------------------------------------------------------------
(* The event group and the tasks                                           *)

(* The bits of a wait that has not ended.                                  *)
Awaited == CASE at["coordinator"] = "phase1" -> Basic
             [] at["coordinator"] = "phase2" -> Subsystems
             [] OTHER -> {"never"}

(* Task t goes on at place p for n seconds.                                *)
Go(t, p, n) == at' = [at EXCEPT ![t] = p] /\ timer' = [timer EXCEPT ![t] = n]

(* t sets a bit.  With it the coordinator's wait may be over, whatever     *)
(* happens to the bits before the coordinator runs.                        *)
SetBit(b, t, p, n) ==
    /\ events' = events \cup {b}
    /\ IF Awaited \subseteq events'
       THEN /\ at' = [at EXCEPT ![t] = p, !["coordinator"] =
                         IF @ = "phase1" THEN "entering" ELSE "complete"]
            /\ timer' = [timer EXCEPT ![t] = n, !["coordinator"] = 0]
       ELSE Go(t, p, n)
    /\ lag' = IF Wrong(events') THEN lag ELSE 0

ClearBit(b) ==
    /\ events' = events \ {b}
    /\ lag' = IF Wrong(events') THEN lag ELSE 0

Due(t, p) == at[t] = p /\ timer[t] = 0

-----------------------------------------------------------------------------
(* The subsystems                                                          *)

(* Boot is over: set the bit, and go on with the loop.                     *)
Ready(s) ==
    /\ Due(s, "booting")
    /\ SetBit(s, s, "running", IF s = "storage" THEN IdleTime ELSE 0)
    /\ UNCHANGED <<alerts, cmds, notified, seen>>

(* An alert that finds the queue full is lost.                             *)
Alert == alerts' = IF alerts < AlertLen THEN alerts + 1 ELSE alerts

(* One round of the network: it is up.  The code sets the bit only when it *)
(* is clear; set again, it wakes nobody it would not have woken.           *)
NetworkUp ==
    /\ Due("network", "running")
    /\ SetBit("network", "network", "running", NetworkPeriod)
    /\ UNCHANGED <<alerts, cmds, notified, seen>>

(* It is down until the next round.                                        *)
NetworkDown ==
    /\ Due("network", "running")
    /\ ClearBit("network")
    /\ Go("network", "running", NetworkPeriod)
    /\ Alert
    /\ UNCHANGED <<cmds, notified, seen>>

(* One round of the sensor.  The temperature is below 45.0, the humidity   *)
(* below 80.0, both by the way they are drawn: never out of range (50, 90).*)
Sense ==
    /\ Due("sensor", "running")
    /\ Go("sensor", "running", SensePeriod)
    /\ UNCHANGED <<events, alerts, cmds, notified, seen, lag>>

(* One round of the configuration: it is sound ...                         *)
ConfigSound ==
    /\ Due("config", "running")
    /\ Go("config", "running", ConfigPeriod)
    /\ UNCHANGED <<events, alerts, cmds, notified, seen, lag>>

(* ... or corrupt, and must be loaded again ...                            *)
ConfigCorrupt ==
    /\ Due("config", "running")
    /\ ClearBit("config")
    /\ Go("config", "reloading", ReloadTime)
    /\ Alert
    /\ UNCHANGED <<cmds, notified, seen>>

(* ... and is loaded.                                                      *)
ConfigReloaded ==
    /\ Due("config", "reloading")
    /\ SetBit("config", "config", "running", ConfigPeriod)
    /\ UNCHANGED <<alerts, cmds, notified, seen>>

(* The storage gets a command, also one that comes with the timeout.       *)
CleanUpStarts ==
    /\ at["storage"] = "running"
    /\ cmds > 0
    /\ cmds' = cmds - 1
    /\ Go("storage", "cleaning", CleanUp)
    /\ UNCHANGED <<events, alerts, notified, seen, lag>>

(* No command for a while: maintenance, which only prints.                 *)
Maintain ==
    /\ Due("storage", "running")
    /\ cmds = 0
    /\ Go("storage", "running", IdleTime)
    /\ UNCHANGED <<events, alerts, cmds, notified, seen, lag>>

(* Clean: notify the task that asked for it.                               *)
CleanUpDone ==
    /\ Due("storage", "cleaning")
    /\ notified' = TRUE
    /\ Go("storage", "running", IdleTime)
    /\ UNCHANGED <<events, alerts, cmds, seen, lag>>

(* alert_handler_task prints an alert.                                     *)
HandleAlert ==
    /\ alerts > 0
    /\ alerts' = alerts - 1
    /\ UNCHANGED <<events, at, timer, cmds, notified, seen, lag>>

-----------------------------------------------------------------------------
(* system_coordinator_task                                                 *)

Phase1TimesOut ==
    /\ Due("coordinator", "phase1")
    /\ Go("coordinator", "entering", 0)
    /\ UNCHANGED <<events, alerts, cmds, notified, seen, lag>>

(* Phase 1 is over, in time or not: wait for all, unless all are there.    *)
EnterPhase2 ==
    /\ Due("coordinator", "entering")
    /\ IF Subsystems \subseteq events THEN Go("coordinator", "complete", 0)
                                      ELSE Go("coordinator", "phase2", Phase2)
    /\ UNCHANGED <<events, alerts, cmds, notified, seen, lag>>

Phase2TimesOut ==
    /\ Due("coordinator", "phase2")
    /\ Go("coordinator", "sleeping", CheckPeriod)
    /\ UNCHANGED <<events, alerts, cmds, notified, seen, lag>>

(* All subsystems were ready at some time: so is the system.               *)
Phase2Complete ==
    /\ Due("coordinator", "complete")
    /\ SetBit("system", "coordinator", "sleeping", CheckPeriod)
    /\ UNCHANGED <<alerts, cmds, notified, seen>>

(* A round of phase 3: have the storage cleaned; a full queue is ignored.  *)
Request ==
    /\ Due("coordinator", "sleeping")
    /\ cmds' = IF cmds < CmdLen THEN cmds + 1 ELSE cmds
    /\ Go("coordinator", "awaiting", AckTimeout)
    /\ UNCHANGED <<events, alerts, notified, seen, lag>>

(* Variant: xTaskNotifyWait leaves the bits it returns.                    *)
AckKept ==
    /\ at["coordinator"] = "awaiting"
    /\ notified \/ timer["coordinator"] = 0
    /\ seen' = events
    /\ Go("coordinator", "checking", 0)
    /\ UNCHANGED <<events, alerts, cmds, notified, lag>>

(* The notification, taken, or the timeout; then read the bits.            *)
Ack ==
    /\ at["coordinator"] = "awaiting"
    /\ notified \/ timer["coordinator"] = 0
    /\ notified' = FALSE
    /\ seen' = events
    /\ Go("coordinator", "checking", 0)
    /\ UNCHANGED <<events, alerts, cmds, lag>>

(* Variant: a degraded system is reported, but keeps its bit.              *)
DegradeInWords ==
    /\ Due("coordinator", "checking")
    /\ ~ (Subsystems \subseteq seen)
    /\ Go("coordinator", "sleeping", CheckPeriod)
    /\ UNCHANGED <<events, alerts, cmds, notified, seen, lag>>

(* The health check: change the system's bit according to what was read.   *)
(* Setting it where the code has seen it set changes nothing: no other     *)
(* task clears it.                                                         *)
Degrade ==
    /\ Due("coordinator", "checking")
    /\ ~ (Subsystems \subseteq seen)
    /\ ClearBit("system")
    /\ Go("coordinator", "sleeping", CheckPeriod)
    /\ UNCHANGED <<alerts, cmds, notified, seen>>

(* Variant: a recovered system is reported, but does not get its bit.      *)
RecoverInWords ==
    /\ Due("coordinator", "checking")
    /\ Subsystems \subseteq seen
    /\ Go("coordinator", "sleeping", CheckPeriod)
    /\ UNCHANGED <<events, alerts, cmds, notified, seen, lag>>

Recover ==
    /\ Due("coordinator", "checking")
    /\ Subsystems \subseteq seen
    /\ SetBit("system", "coordinator", "sleeping", CheckPeriod)
    /\ UNCHANGED <<alerts, cmds, notified, seen>>

-----------------------------------------------------------------------------

(* Nobody has anything to do in this second.                               *)
Quiet ==
    /\ \A t \in Tasks : timer[t] > 0
    /\ alerts = 0
    /\ ~ (at["storage"] = "running" /\ cmds > 0)
    /\ ~ (at["coordinator"] = "awaiting" /\ notified)

Second ==
    /\ Quiet
    /\ timer' = [t \in Tasks |-> timer[t] - 1]
    /\ lag' = CASE ~ Wrong(events) -> 0
                [] Wrong(events) /\ lag < TooLong -> lag + 1
                [] OTHER -> lag
    /\ UNCHANGED <<events, at, alerts, cmds, notified, seen>>

ReadinessNext ==
    \/ \E s \in Subsystems : Ready(s)
    \/ NetworkUp \/ NetworkDown
    \/ Sense
    \/ ConfigSound \/ ConfigCorrupt \/ ConfigReloaded
    \/ CleanUpStarts \/ Maintain \/ CleanUpDone
    \/ HandleAlert
    \/ Phase1TimesOut \/ EnterPhase2 \/ Phase2TimesOut \/ Phase2Complete
    \/ Request \/ Ack \/ Degrade \/ Recover
    \/ Second

ReadinessSpec == ReadinessInit /\ [][ReadinessNext]_readinessVars

(* A task that is due does run, and seconds pass.                          *)
FairReadiness == ReadinessSpec /\ WF_readinessVars(ReadinessNext)

-----------------------------------------------------------------------------

Places(t) ==
    CASE t = "config" -> {"booting", "running", "reloading"}
      [] t = "storage" -> {"booting", "running", "cleaning"}
      [] t = "coordinator" -> {"phase1", "entering", "phase2", "complete",
                               "sleeping", "awaiting", "checking"}
      [] OTHER -> {"booting", "running"}

ReadinessTypeOK ==
    /\ events \subseteq Subsystems \cup {"system"}
    /\ at \in [Tasks -> UNION {Places(t) : t \in Tasks}]
    /\ \A t \in Tasks : at[t] \in Places(t)
    /\ timer \in [Tasks -> Nat]
    /\ alerts \in 0..AlertLen /\ cmds \in 0..CmdLen
    /\ notified \in BOOLEAN
    /\ seen \subseteq Subsystems \cup {"system"}
    /\ lag \in 0..TooLong

(* The bit of the system is wrong for at most one round of the health      *)
(* check, counted from the moment it became wrong, although the check acts *)
(* on bits it has read before and phase 2 on bits that may be gone.  Every *)
(* value has its type.                                                     *)
WrongForOneRound == ReadinessTypeOK /\ lag < TooLong

(* Rounds go on for ever, and so the bit of the system ends up right when  *)
(* the subsystems settle, up or down: the wait for the storage always has  *)
(* an end.                                                                 *)
SystemFollows ==
    /\ <>[](Subsystems \subseteq events) => <>[]("system" \in events)
    /\ <>[]~(Subsystems \subseteq events) => <>[]("system" \notin events)

(* A notification answers the command the coordinator has just sent: when  *)
(* it sends the next one, nothing of an earlier round is under way, and    *)
(* its wait never times out without the notification.                      *)
AnswersAreForThisRound ==
    /\ at["coordinator"] # "awaiting" =>
           cmds = 0 /\ ~notified /\ at["storage"] # "cleaning"
    /\ Due("coordinator", "awaiting") => notified
=============================================================================
