------------------------- MODULE TimerApplications -------------------------
(***************************************************************************)
(* lab05/timer_applications: one timer daemon runs the callbacks of seven  *)
(* timers; callbacks that sleep keep it from everything else.  Every call  *)
(* of the timer API, also one made in a callback, is a command in the      *)
(* daemon's queue, sent without waiting, and no caller looks at whether it *)
(* was accepted.  The watchdog timer is reset by network_task when a       *)
(* heartbeat could be sent; samples of two sensors reach one task through  *)
(* a queue set; the LED pattern is changed by the daemon and by that task. *)
(*                                                                         *)
(* Time is left out: a running timer may be due whenever the daemon looks. *)
(* The daemon looks at one timer at a time and empties its queue before it *)
(* looks at the next.  A repeating timer that was missed runs its callback *)
(* for every missed period before the daemon goes on.  Left out: LEDs,     *)
(* values read from sensors but for what they lead to, the blink patterns' *)
(* own step counters, the usage counts and their copy in flash.            *)
(***************************************************************************)
EXTENDS Integers, Sequences, FiniteSets

CONSTANTS CommandLen,      \* configTIMER_QUEUE_LENGTH
          NetworkLen,      \* length of network_queue
          SensorLen,       \* length of each sensor queue
          Batch,           \* temperatures in an average
          HangAt,          \* the feed that simulates a hang
          TooMany,         \* watchdog timeouts the monitor tolerates
          Cycles,          \* callbacks of the pattern timer to each pattern
          Fade,            \* step of the breathing intensity
          MAX_BRIGHTNESS,
          Word             \* 2^32: unsigned int counts modulo this

(* The sensor task resets the pattern at most once for every batch, and    *)
(* while the daemon sleeps there are no more temperatures for it than its  *)
(* queue holds: these resets do not fill the daemon's queue.  In the code  *)
(* 20 samples (836), batches of 10 (664) and 10 commands (sdkconfig).      *)
ASSUME TimerAssumption ==
    /\ {CommandLen, NetworkLen, SensorLen, Batch, HangAt, Cycles, Fade}
          \subseteq Nat \ {0}
    /\ SensorLen < Batch * (CommandLen - 1)
    /\ TooMany \in Nat
    /\ MAX_BRIGHTNESS \in Nat /\ Word \in Nat
    /\ Fade * Cycles < MAX_BRIGHTNESS
    /\ 2 * MAX_BRIGHTNESS < Word

(* led_pattern_t: the patterns that do not fade are one.                   *)
Pattern == {"breathe", "blink"}

Daemon == "daemon"
Network == "network"
Sensor == "sensor"
Changers == {Daemon, Sensor}

VARIABLES
    commands,          \* the daemon's queue
    active,            \* which of the timers that come and go are running
    refused,           \* history: timers whose start found the queue full
    pc,                \* where daemon and tasks are
    feed_count,        \* HangAt + 1 stands for every larger value
    network_queue,     \* number of heartbeat commands
    watchdog_timeouts, \* TooMany + 1 stands for every larger value
    system_healthy,
    high, low,         \* number of samples in the sensor queues
    set,               \* sensor_queue_set
    active_queue,      \* what was selected
    sample_count,
    cycle,             \* pattern_cycle modulo Cycles
    current_pattern,
    intensity, direction,  \* of pattern_state
    faded              \* intensity and step, summed but not yet stored

watchVars == <<active, refused, feed_count, watchdog_timeouts, system_healthy>>
sensorVars == <<high, low, set, active_queue, sample_count>>
ledVars == <<cycle, current_pattern, intensity, direction, faded>>
vars == <<commands, pc, watchVars, network_queue, sensorVars, ledVars>>

(* The end of app_main, its commands executed: all timers but the recovery *)
(* run, the pattern is BREATHE; the tasks are at their first call.         *)
Init ==
    /\ commands = <<>>
    /\ active = {"watchdog", "feed", "pattern"}
    /\ refused = {}
    /\ pc = [t \in {Daemon, Network, Sensor} |->
                CASE t = Daemon -> "drain" [] t = Network -> "wifi"
                  [] t = Sensor -> "select"]
    /\ feed_count = 0
    /\ network_queue = 0
    /\ watchdog_timeouts = 0
    /\ system_healthy = TRUE
    /\ high = 0 /\ low = 0 /\ set = <<>> /\ active_queue = "none"
    /\ sample_count = 0
    /\ cycle = 0
    /\ current_pattern = "breathe"
    /\ intensity = 0 /\ direction = 1
    /\ faded = 0

GoTo(t, label) == pc' = [pc EXCEPT ![t] = label]

Saturate(n, top) == IF n > top THEN top ELSE n

-----------------------------------------------------------------------------
(* The daemon and its queue                                                *)

(* A call of the timer API with no waiting time.  A reset is a start; a    *)
(* change of a period has no effect but the room it takes.                 *)
Send(op, timer) ==
    IF Len(commands) < CommandLen
    THEN /\ commands' = Append(commands, [op |-> op, timer |-> timer])
         /\ UNCHANGED refused
    ELSE /\ refused' = IF op = "start" THEN refused \cup {timer} ELSE refused
         /\ UNCHANGED commands

(* prvProcessReceivedCommands takes one command.  A reset of the pattern   *)
(* timer may be older than the timer's period: its callback runs at once.  *)
Process ==
    /\ pc[Daemon] = "drain"
    /\ commands # <<>>
    /\ LET c == Head(commands)
       IN  /\ active' = CASE c.op = "start"  -> active \cup {c.timer}
                          [] c.op = "stop"   -> active \ {c.timer}
                          [] c.op = "delete" -> active \ {c.timer}
                          [] OTHER           -> active
           /\ \/ UNCHANGED pc
              \/ c.timer = "pattern" /\ c.op = "start" /\ GoTo(Daemon, "pattern")
    /\ commands' = Tail(commands)
    /\ UNCHANGED <<refused, feed_count, watchdog_timeouts, system_healthy,
                   network_queue, sensorVars, ledVars>>

(* The queue is empty: look for a timer that is due ...                    *)
Drained ==
    /\ pc[Daemon] = "drain"
    /\ commands = <<>>
    /\ GoTo(Daemon, "due")
    /\ UNCHANGED <<commands, watchVars, network_queue, sensorVars, ledVars>>

(* ... and when none is, or all its missed periods are made up for, look   *)
(* at the queue again.                                                     *)
NothingDue ==
    /\ \/ pc[Daemon] = "due" /\ commands # <<>>
       \/ pc[Daemon] \in {"pattern", "temp"}
    /\ GoTo(Daemon, "drain")
    /\ UNCHANGED <<commands, watchVars, network_queue, sensorVars, ledVars>>

-----------------------------------------------------------------------------
(* The watchdog                                                            *)

(* A one-shot timer has left the list before its callback runs; this one   *)
(* sleeps for a second, and the daemon with it ...                         *)
WatchdogBark ==
    /\ pc[Daemon] = "due" /\ "watchdog" \in active
    /\ active' = active \ {"watchdog"}
    /\ watchdog_timeouts' = Saturate(watchdog_timeouts + 1, TooMany + 1)
    /\ system_healthy' = FALSE
    /\ GoTo(Daemon, "bark")
    /\ UNCHANGED <<commands, refused, feed_count, network_queue, sensorVars, ledVars>>

(* Variant: it relies on the network task for its restart.                 *)
WatchdogNoRestart ==
    /\ pc[Daemon] = "bark"
    /\ system_healthy' = TRUE
    /\ GoTo(Daemon, "drain")
    /\ UNCHANGED <<commands, active, refused, feed_count, watchdog_timeouts,
                   network_queue, sensorVars, ledVars>>

(* Variant: the health flag stays as it is.                                *)
WatchdogStaysIll ==
    /\ pc[Daemon] = "bark"
    /\ Send("start", "watchdog")
    /\ GoTo(Daemon, "drain")
    /\ UNCHANGED <<active, feed_count, watchdog_timeouts, system_healthy,
                   network_queue, sensorVars, ledVars>>

(* ... before it starts itself again.                                      *)
WatchdogRestart ==
    /\ pc[Daemon] = "bark"
    /\ Send("start", "watchdog")
    /\ system_healthy' = TRUE
    /\ GoTo(Daemon, "drain")
    /\ UNCHANGED <<active, feed_count, watchdog_timeouts, network_queue, sensorVars,
                   ledVars>>

(* feed_watchdog_callback asks the network task for a heartbeat, if there  *)
(* is room; but one feed stops the feeding ...                             *)
FeedCallback ==
    /\ pc[Daemon] = "due" /\ "feed" \in active
    /\ feed_count' = Saturate(feed_count + 1, HangAt + 1)
    /\ IF feed_count' = HangAt
       THEN /\ Send("stop", "feed")
            /\ GoTo(Daemon, "hang")
            /\ UNCHANGED network_queue
       ELSE /\ network_queue' = Saturate(network_queue + 1, NetworkLen)
            /\ GoTo(Daemon, "drain")
            /\ UNCHANGED <<commands, refused>>
    /\ UNCHANGED <<active, watchdog_timeouts, system_healthy,
                   sensorVars, ledVars>>

(* ... and starts a timer to begin again.                                  *)
HangCallback ==
    /\ pc[Daemon] = "hang"
    /\ Send("start", "recovery")
    /\ GoTo(Daemon, "drain")
    /\ UNCHANGED <<active, feed_count, watchdog_timeouts, system_healthy,
                   network_queue, sensorVars, ledVars>>

(* Variant: the feed timer is believed to have gone on.                    *)
RecoveryNoFeed ==
    /\ pc[Daemon] = "due" /\ "recovery" \in active
    /\ active' = active \ {"recovery"}
    /\ GoTo(Daemon, "recovered")
    /\ UNCHANGED <<commands, refused, feed_count, watchdog_timeouts,
                   system_healthy, network_queue, sensorVars, ledVars>>

(* recovery_callback starts the feeding and deletes its own timer.         *)
RecoveryCallback ==
    /\ pc[Daemon] = "due" /\ "recovery" \in active
    /\ active' = active \ {"recovery"}
    /\ Send("start", "feed")
    /\ GoTo(Daemon, "recovered")
    /\ UNCHANGED <<feed_count, watchdog_timeouts, system_healthy, network_queue,
                   sensorVars, ledVars>>

RecoveryDelete ==
    /\ pc[Daemon] = "recovered"
    /\ Send("delete", "recovery")
    /\ GoTo(Daemon, "drain")
    /\ UNCHANGED <<active, feed_count, watchdog_timeouts, system_healthy,
                   network_queue, sensorVars, ledVars>>

(* system_monitor_task; the rest of it prints.                             *)
MonitorCheck ==
    /\ watchdog_timeouts > TooMany
    /\ system_healthy' = FALSE
    /\ UNCHANGED <<commands, pc, active, refused, feed_count,
                   watchdog_timeouts, network_queue, sensorVars, ledVars>>

-----------------------------------------------------------------------------
(* The network                                                             *)

(* network_task waits for the first connection and makes its socket, or    *)
(* ends if it cannot.                                                      *)
NetworkStart ==
    /\ pc[Network] = "wifi"
    /\ \E label \in {"receive", "deleted"} : GoTo(Network, label)
    /\ UNCHANGED <<commands, watchVars, network_queue, sensorVars, ledVars>>

NetworkReceive ==
    /\ pc[Network] = "receive" /\ network_queue > 0
    /\ network_queue' = network_queue - 1
    /\ GoTo(Network, "heartbeat")
    /\ UNCHANGED <<commands, watchVars, sensorVars, ledVars>>

(* Wi-Fi may have been lost and sendto may fail: then nothing is fed.      *)
Heartbeat ==
    /\ pc[Network] = "heartbeat"
    /\ \E label \in {"feed", "receive"} : GoTo(Network, label)
    /\ UNCHANGED <<commands, watchVars, network_queue, sensorVars, ledVars>>

NetworkFeed ==
    /\ pc[Network] = "feed"
    /\ Send("start", "watchdog")
    /\ GoTo(Network, "receive")
    /\ UNCHANGED <<active, feed_count, watchdog_timeouts, system_healthy,
                   network_queue, sensorVars, ledVars>>

-----------------------------------------------------------------------------
(* The sensors                                                             *)

(* A sample is sent to its queue, and to the set with it, if there is room;*)
(* then the sampling period is set.                                        *)
TempCallback ==
    /\ pc[Daemon] \in {"due", "temp"}
    /\ high' = Saturate(high + 1, SensorLen)
    /\ set' = IF high < SensorLen THEN Append(set, "temp") ELSE set
    /\ Send("change", "other")
    /\ GoTo(Daemon, "temp")
    /\ UNCHANGED <<active, feed_count, watchdog_timeouts, system_healthy,
                   network_queue, low, active_queue, sample_count, ledVars>>

LightCallback ==
    /\ pc[Daemon] = "due"
    /\ low' = Saturate(low + 1, SensorLen)
    /\ set' = IF low < SensorLen THEN Append(set, "light") ELSE set
    /\ GoTo(Daemon, "drain")
    /\ UNCHANGED <<commands, watchVars, network_queue, high, active_queue,
                   sample_count, ledVars>>

(* sensor_processing_task selects ...                                      *)
Select ==
    /\ pc[Sensor] = "select" /\ set # <<>>
    /\ active_queue' = Head(set)
    /\ set' = Tail(set)
    /\ GoTo(Sensor, "take")
    /\ UNCHANGED <<commands, watchVars, network_queue, high, low, sample_count,
                   ledVars>>

(* Variant: a temperature that is not valid stays in its queue.            *)
TakeHighPeeks ==
    /\ pc[Sensor] = "take" /\ high > 0
    /\ \/ UNCHANGED <<high, sample_count>> /\ GoTo(Sensor, "select")
       \/ /\ high' = high - 1
          /\ sample_count' = (sample_count + 1) % Batch
          /\ GoTo(Sensor, "select")
    /\ active_queue' = "none"
    /\ UNCHANGED <<commands, watchVars, network_queue, low, set, ledVars>>

(* ... takes a temperature if there is one, whatever was selected; the     *)
(* average of a batch of valid ones may lead to a warning ...              *)
TakeHigh ==
    /\ pc[Sensor] = "take" /\ high > 0
    /\ high' = high - 1
    /\ \/ UNCHANGED sample_count /\ GoTo(Sensor, "select")   \* not valid
       \/ /\ sample_count + 1 < Batch
          /\ sample_count' = sample_count + 1
          /\ GoTo(Sensor, "select")
       \/ /\ sample_count + 1 >= Batch
          /\ sample_count' = 0
          /\ \E label \in {"select", "change"} : GoTo(Sensor, label)
    /\ active_queue' = "none"
    /\ UNCHANGED <<commands, watchVars, network_queue, low, set, ledVars>>

(* Variant: a light sample is taken whatever was selected.                 *)
TakeLowAlways ==
    /\ pc[Sensor] = "take" /\ high = 0
    /\ low' = IF low > 0 THEN low - 1 ELSE low
    /\ active_queue' = "none"
    /\ GoTo(Sensor, "select")
    /\ UNCHANGED <<commands, watchVars, network_queue, high, set, sample_count,
                   ledVars>>

(* ... or else takes a light sample if that was selected.                  *)
TakeLow ==
    /\ pc[Sensor] = "take" /\ high = 0
    /\ low' = IF active_queue = "light" /\ low > 0 THEN low - 1 ELSE low
    /\ active_queue' = "none"
    /\ GoTo(Sensor, "select")
    /\ UNCHANGED <<commands, watchVars, network_queue, high, set, sample_count,
                   ledVars>>

-----------------------------------------------------------------------------
(* The LED pattern                                                         *)

(* The end of the callback, with the change to the next pattern every      *)
(* Cycles callbacks.                                                       *)
EndCycle ==
    /\ cycle' = (cycle + 1) % Cycles
    /\ Send("change", "other")
    /\ GoTo(Daemon, IF cycle' = 0 THEN "change" ELSE "pattern")

(* pattern_timer_callback: BREATHE adds a step to the intensity; every     *)
(* other pattern sets LEDs and its period.                                 *)
PatternCallback ==
    /\ pc[Daemon] \in {"due", "pattern"}
    /\ IF current_pattern = "breathe"
       THEN /\ faded' = intensity + direction * Fade
            /\ GoTo(Daemon, "breathe")
            /\ UNCHANGED <<commands, refused, cycle>>
       ELSE EndCycle /\ UNCHANGED faded
    /\ UNCHANGED <<active, feed_count, watchdog_timeouts, system_healthy,
                   network_queue, sensorVars, current_pattern, intensity,
                   direction>>

(* An int is compared with an unsigned bound as an unsigned number.        *)
Unsigned(n) == n % Word

(* The sum is bounded and stored; the direction turns at the bounds.       *)
Breathe ==
    /\ pc[Daemon] = "breathe"
    /\ IF Unsigned(faded) >= MAX_BRIGHTNESS
       THEN intensity' = MAX_BRIGHTNESS /\ direction' = -1
       ELSE IF faded <= 0
       THEN intensity' = 0 /\ direction' = 1
       ELSE intensity' = faded /\ UNCHANGED direction
    /\ faded' = 0
    /\ EndCycle
    /\ UNCHANGED <<active, feed_count, watchdog_timeouts, system_healthy,
                   network_queue, sensorVars, current_pattern>>

(* change_led_pattern, called by the daemon with the pattern after the     *)
(* current one, of which BREATHE is the last, and by the sensor task with  *)
(* a warning: the pattern first, then the state it starts from, with the   *)
(* reset of the timer.                                                     *)
ChangePattern(c) ==
    /\ pc[c] = "change"
    /\ current_pattern' \in IF c = Sensor \/ current_pattern = "breathe"
                            THEN {"blink"} ELSE Pattern
    /\ GoTo(c, "reset")
    /\ UNCHANGED <<commands, watchVars, network_queue, sensorVars, cycle,
                   intensity, direction, faded>>

(* Variant: the intensity is left as it is.                                *)
ResetKeepsIntensity(c) ==
    /\ pc[c] = "reset"
    /\ direction' = 1
    /\ Send("start", "pattern")
    /\ GoTo(c, IF c = Daemon THEN "pattern" ELSE "select")
    /\ UNCHANGED <<active, feed_count, watchdog_timeouts, system_healthy,
                   network_queue, sensorVars, cycle, current_pattern, intensity,
                   faded>>

ResetPattern(c) ==
    /\ pc[c] = "reset"
    /\ intensity' = 0
    /\ direction' = 1
    /\ Send("start", "pattern")
    /\ GoTo(c, IF c = Daemon THEN "pattern" ELSE "select")
    /\ UNCHANGED <<active, feed_count, watchdog_timeouts, system_healthy,
                   network_queue, sensorVars, cycle, current_pattern, faded>>

-----------------------------------------------------------------------------

Next ==
    \/ Process \/ Drained \/ NothingDue
    \/ WatchdogBark \/ WatchdogRestart
    \/ FeedCallback \/ HangCallback \/ RecoveryCallback \/ RecoveryDelete
    \/ MonitorCheck
    \/ NetworkStart \/ NetworkReceive \/ Heartbeat \/ NetworkFeed
    \/ TempCallback \/ LightCallback \/ Select \/ TakeHigh \/ TakeLow
    \/ PatternCallback \/ Breathe
    \/ \E c \in Changers : ChangePattern(c) \/ ResetPattern(c)

Spec == Init /\ [][Next]_vars

-----------------------------------------------------------------------------

Startable == {"watchdog", "feed", "recovery", "pattern"}

Command == [op : {"start"}, timer : Startable]
               \cup {[op |-> "stop", timer |-> "feed"],
                     [op |-> "delete", timer |-> "recovery"],
                     [op |-> "change", timer |-> "other"]}

DaemonTypeOK ==
    /\ commands \in Seq(Command) /\ Len(commands) <= CommandLen
    /\ active \subseteq Startable
    /\ refused \subseteq Startable
    /\ pc \in [{Daemon, Network, Sensor} ->
                 {"drain", "due", "bark", "hang", "recovered", "temp",
                  "pattern", "breathe", "change", "reset", "wifi", "receive",
                  "heartbeat", "feed", "deleted", "select", "take"}]

WatchTypeOK ==
    /\ feed_count \in 0..(HangAt + 1)
    /\ network_queue \in 0..NetworkLen
    /\ watchdog_timeouts \in 0..(TooMany + 1)
    /\ system_healthy \in BOOLEAN

SensorTypeOK ==
    /\ high \in 0..SensorLen /\ low \in 0..SensorLen
    /\ set \in Seq({"temp", "light"}) /\ Len(set) <= 2 * SensorLen
    /\ active_queue \in {"temp", "light", "none"}
    /\ sample_count \in 0..(Batch - 1)

LedTypeOK ==
    /\ cycle \in 0..(Cycles - 1)
    /\ current_pattern \in Pattern
    /\ intensity \in 0..MAX_BRIGHTNESS /\ direction \in {-1, 1}
    /\ faded \in Int

TypeOK == DaemonTypeOK /\ WatchTypeOK /\ SensorTypeOK /\ LedTypeOK

(* The watchdog is never lost: it runs, or its callback does, or a command *)
(* to start it is on its way.  A start that finds the queue full is no     *)
(* harm, for tasks that can fill the queue while the daemon sleeps send    *)
(* mostly resets of the watchdog (the results of the calls at 313 and 343  *)
(* are not looked at).                                                     *)
Queued(timer) == \E n \in 1..Len(commands) :
                    commands[n] = [op |-> "start", timer |-> timer]

WatchdogArmed ==
    "watchdog" \in active \/ pc[Daemon] = "bark" \/ Queued("watchdog")

(* After the simulated hang the feeding always begins again: one of stop,  *)
(* recovery and start is still to come, unless the queue was full for one  *)
(* of the two starts (361 and 390 do not look either).                     *)
FeedsResume ==
    \/ "feed" \in active \/ Queued("feed")
    \/ "recovery" \in active \/ Queued("recovery") \/ pc[Daemon] = "hang"
    \/ refused \cap {"feed", "recovery"} # {}

(* Whenever the daemon is free to run status_timer_callback, the health    *)
(* flag is false only because the monitor found too many timeouts: the     *)
(* false of the watchdog's own callback (328) is never reported, for it    *)
(* keeps the daemon until the flag is true again.                          *)
UnhealthyHasReason ==
    ~system_healthy => pc[Daemon] = "bark" \/ watchdog_timeouts > TooMany

(* No temperature is stranded: there is an announcement in the set, of one *)
(* queue or the other, for every sample, or the task is about to look.     *)
HighIsAnnounced ==
    high <= Len(set) + (IF pc[Sensor] = "take" THEN 1 ELSE 0)

(* Announcements of light samples are used up for temperatures (655).      *)
(* When the light queue is full and none is left, no sample enters and     *)
(* none is taken any more, and nothing that happens later helps.           *)
LightIsDead ==
    /\ low = SensorLen
    /\ active_queue # "light"
    /\ \A n \in 1..Len(set) : set[n] # "light"

LightStaysDead == [][LightIsDead => LightIsDead']_vars

(* The signed intensity is never negative where it is compared with an     *)
(* unsigned maximum (483), and the fade never turns: a pattern is shown    *)
(* for too few callbacks to reach the maximum, and every change of pattern *)
(* by the daemon, though it may race with one of the sensor task, starts   *)
(* from zero.  Every value has its type.                                   *)
BreatheNeverWraps ==
    TypeOK /\ 0 <= faded /\ faded < MAX_BRIGHTNESS /\ direction = 1

=============================================================================
