------------------------------ MODULE SmartHome ------------------------------
(***************************************************************************)
(* The smart home of lab06/complex_event_patterns: sensors set bits in     *)
(* sensor_events; the pattern engine takes snapshots of them, keeps the    *)
(* last ones as a history and looks there for patterns; what a pattern     *)
(* means goes as bits of system_events to the state machine, and so do the *)
(* commands that come over MQTT.                                           *)
(*                                                                         *)
(* A signal is the bit of a sensor; "other" stands for the bits that no    *)
(* pattern looks at (temperature, sound), which fill the history all the   *)
(* same.  Lights, LEDs, the learning task, analytics, pattern_events and   *)
(* what is published are left out: nothing reads them back; maintenance    *)
(* and SYSTEM_INIT do nothing.                                             *)
(* The engine and the state machine run in milliseconds, patterns last for *)
(* seconds: time goes on when both wait.                                   *)
(***************************************************************************)
EXTENDS Naturals, Sequences

CONSTANTS Active,       \* the signals that occur: some of Signals
          HistorySize,  \* records in event_history
          Window,       \* Window[p]: time_window_ms of a pattern, in ticks
          MaxEvents,    \* bound: events of sensors
          MaxCommands   \* bound: commands over MQTT

Signals == {"motion", "presence", "opened", "closed", "on", "off", "other"}

(* event_patterns: the order they are tried in, and what each needs, the   *)
(* newest event first.                                                     *)
Patterns == <<"normal entry", "break-in", "goodnight", "wake-up", "leaving",
              "returning">>
Names == {Patterns[k] : k \in DOMAIN Patterns}
Required ==
    [p \in Names |->
        IF p \in {"normal entry", "returning"} THEN <<"closed", "motion", "opened">>
        ELSE IF p = "break-in"  THEN <<"motion", "opened">>
        ELSE IF p = "goodnight" THEN <<"off", "motion", "off">>
        ELSE IF p = "wake-up"   THEN <<"on", "motion">>
        ELSE (* leaving *)           <<"closed", "opened", "off">>]

ASSUME HomeAssumption ==
    /\ Active \subseteq Signals
    /\ HistorySize \in Nat \ {0} /\ {MaxEvents, MaxCommands} \subseteq Nat
    /\ Window \in [Names -> Nat]
    /\ Window["returning"] <= Window["normal entry"]

VARIABLES
    sensor,     \* sensor_events: 0, or the number of the event that set the bit
    door_open,  \* the door sensor's own idea of the door
    events,     \* events so far
    history,    \* event_history, the newest record first
    engine,     \* where pattern_recognition_task is
    tried,      \* index of the pattern it looks at
    system,     \* system_events
    security, emergency,  \* the flags of home_status
    current,    \* current_home_state
    machine,    \* where state_machine_task is
    obeyed,     \* system_bits: what it has still to obey
    mqtt,       \* where the MQTT handler is
    commands    \* commands so far

sensorVars == <<sensor, door_open, events>>
engineVars == <<history, engine, tried>>
machineVars == <<current, machine, obeyed>>
mqttVars == <<mqtt, commands>>
vars == <<sensorVars, engineVars, system, security, emergency, machineVars,
          mqttVars>>

Init ==
    /\ sensor = [s \in Signals |-> 0]
    /\ door_open = FALSE
    /\ events = 0
    /\ history = <<>>
    /\ engine = "waiting" /\ tried = 1
    /\ system = {}
    /\ security = FALSE /\ emergency = FALSE
    /\ current = "idle" /\ machine = "waiting" /\ obeyed = {}
    /\ mqtt = "idle" /\ commands = 0

-----------------------------------------------------------------------------
(* The sensors                                                             *)

(* A sensor sets its bit; set before, it stays the bit of that event.      *)
Signal(s) ==
    /\ s \in Active
    /\ events < MaxEvents
    /\ events' = events + 1
    /\ sensor' = IF sensor[s] = 0 THEN [sensor EXCEPT ![s] = events + 1]
                                  ELSE sensor
    /\ UNCHANGED <<engineVars, system, security, emergency, machineVars, mqttVars>>

motion_sensor_task ==
    /\ \E s \in {"motion", "presence"} : Signal(s)
    /\ UNCHANGED door_open
light_control_task ==
    /\ \E s \in {"on", "off"} : Signal(s)
    /\ UNCHANGED door_open

environmental_sensor_task ==
    /\ Signal("other")
    /\ UNCHANGED door_open

(* The door opens and closes in turn.                                      *)
door_sensor_task ==
    /\ IF door_open THEN Signal("closed") ELSE Signal("opened")
    /\ door_open' = ~door_open

-----------------------------------------------------------------------------
(* pattern_recognition_task                                                *)

(* Records older than record i that have the signal, and the newest one.   *)
Older(i, s) == {j \in DOMAIN history : j > i /\ history[j].seen[s] > 0}
IsNewest(j, i, s) == j \in Older(i, s) /\ \A k \in Older(i, s) : j <= k

(* The pattern is in the history: its newest event is the newest of its    *)
(* kind and recent, and from there each event is the next one to be found, *)
(* within the window of the newest.  One record serves for one event.      *)
Found(p) ==
    LET need == Required[p]
    IN  \E at \in [DOMAIN need -> DOMAIN history] :
           /\ IsNewest(at[1], 0, need[1])
           /\ history[at[1]].age <= Window[p]
           /\ \A k \in DOMAIN need \ {1} :
                 /\ IsNewest(at[k], at[k-1], need[k])
                 /\ history[at[k]].age <= history[at[1]].age + Window[p]

(* Some patterns are looked for in some states of the home only.           *)
Applicable(p) ==
    /\ p = "break-in" => current = "armed"
    /\ p = "wake-up" => current = "sleep"
    /\ p = "returning" => current \in {"away", "armed"}

(* Some bits are set: they become the newest record, the oldest one goes.  *)
Recognize ==
    /\ engine = "waiting"
    /\ \E s \in Signals : sensor[s] > 0
    /\ LET longer == <<[seen |-> sensor, age |-> 0]>> \o history
       IN  history' = SubSeq(longer, 1, IF Len(longer) > HistorySize
                                        THEN HistorySize ELSE Len(longer))
    /\ engine' = "checking"
    /\ tried' = 1
    /\ UNCHANGED <<sensorVars, system, security, emergency, machineVars, mqttVars>>

(* Variant: the search goes from the last pattern to the first.            *)
CheckBackwards ==
    /\ engine = "checking"
    /\ \/ /\ ~\E k \in DOMAIN Patterns : Found(Patterns[k]) /\ Applicable(Patterns[k])
          /\ engine' = "unmatched"
          /\ UNCHANGED tried
       \/ \E k \in DOMAIN Patterns :
             /\ Found(Patterns[k]) /\ Applicable(Patterns[k])
             /\ \A l \in DOMAIN Patterns :
                   Found(Patterns[l]) /\ Applicable(Patterns[l]) => l <= k
             /\ engine' = "matched" /\ tried' = k
    /\ UNCHANGED <<sensorVars, history, system, security, emergency,
                   machineVars, mqttVars>>

(* Look at the patterns in turn; the first one that is found ends the      *)
(* search.  Only for a pattern in the history does the state matter, and   *)
(* it is read anew for each of them.                                       *)
Candidates == {k \in DOMAIN Patterns : k >= tried /\ Found(Patterns[k])}
Check ==
    /\ engine = "checking"
    /\ \/ /\ Candidates = {}
          /\ engine' = "unmatched"
          /\ UNCHANGED tried
       \/ \E k \in Candidates :
             /\ \A l \in Candidates : k <= l
             /\ IF Applicable(Patterns[k])
                THEN engine' = "matched" /\ tried' = k
                ELSE /\ engine' = IF k = Len(Patterns) THEN "unmatched"
                                                      ELSE engine
                     /\ tried' = IF k = Len(Patterns) THEN k ELSE k + 1
    /\ UNCHANGED <<sensorVars, history, system, security, emergency,
                   machineVars, mqttVars>>

(* The action of the pattern: first the flags ...                          *)
ActOnStatus ==
    LET p == Patterns[tried]
    IN  /\ engine = "matched"
        /\ security' = IF p \in {"break-in", "leaving"} THEN TRUE
                       ELSE IF p = "returning" THEN FALSE ELSE security
        /\ emergency' = IF p = "break-in" THEN TRUE ELSE emergency
        /\ engine' = "telling"
        /\ UNCHANGED <<sensorVars, history, tried, system, machineVars, mqttVars>>

(* ... then the bits for the state machine.                                *)
Told(p) ==
    CASE p = "normal entry" -> system \cup {"home"}
      [] p = "break-in"     -> system \cup {"emergency"}
      [] p = "goodnight"    -> system \cup {"sleep"}
      [] p = "wake-up"      -> system \ {"sleep"}
      [] p = "leaving"      -> system \cup {"away", "armed"}
      [] p = "returning"    -> system \ {"away", "armed"}

Tell ==
    /\ engine = "telling"
    /\ system' = Told(Patterns[tried])
    /\ engine' = "settling"
    /\ UNCHANGED <<sensorVars, history, tried, security, emergency,
                   machineVars, mqttVars>>

(* After a match all bits are cleared, also those set since.               *)
ClearAll ==
    /\ engine = "settling"
    /\ sensor' = [s \in Signals |-> 0]
    /\ engine' = "waiting" /\ tried' = 1
    /\ UNCHANGED <<door_open, events, history, system, security, emergency,
                   machineVars, mqttVars>>

(* Variant: without a match the bits are left set.                         *)
ClearNothing ==
    /\ engine = "unmatched"
    /\ engine' = "waiting" /\ tried' = 1
    /\ UNCHANGED <<sensorVars, history, system, security, emergency,
                   machineVars, mqttVars>>

(* Without a match, those that were seen.                                  *)
ClearSeen ==
    /\ engine = "unmatched"
    /\ sensor' = [s \in Signals |-> IF Head(history).seen[s] > 0 THEN 0
                                                              ELSE sensor[s]]
    /\ engine' = "waiting" /\ tried' = 1
    /\ UNCHANGED <<door_open, events, history, system, security, emergency,
                   machineVars, mqttVars>>

pattern_recognition_task ==
    Recognize \/ Check \/ ActOnStatus \/ Tell \/ ClearAll \/ ClearSeen

-----------------------------------------------------------------------------
(* state_machine_task                                                      *)

(* Take the bits that are set, and clear them.                             *)
Take ==
    /\ machine = "waiting"
    /\ system # {}
    /\ obeyed' = system
    /\ system' = {}
    /\ machine' = "obeying"
    /\ UNCHANGED <<sensorVars, engineVars, security, emergency, current, mqttVars>>

(* The order in which the bits are obeyed, and what each one does; nobody  *)
(* else changes the state, so state_mutex is always free.                  *)
Order == <<"home", "away", "sleep", "armed", "emergency">>
IsFirst(b) == b \in obeyed /\ \A k, l \in DOMAIN Order :
                  Order[k] = b /\ Order[l] \in obeyed => k <= l
Obeying(b) ==
    CASE b = "home"  -> "occupied"
      [] b = "away"  -> "away"
      [] b = "sleep" -> IF current = "occupied" THEN "sleep" ELSE current
      [] b = "armed" -> IF current = "away" THEN "armed" ELSE current
      [] b = "emergency" -> "emergency"

Obey ==
    /\ machine = "obeying"
    /\ \E b \in obeyed : /\ IsFirst(b)
                         /\ current' = Obeying(b)
                         /\ obeyed' = obeyed \ {b}
                         /\ machine' = IF obeyed = {b} THEN "free" ELSE machine
    /\ UNCHANGED <<sensorVars, engineVars, system, security, emergency, mqttVars>>

(* What the state machine does on its own, after obeying or when no bit    *)
(* has come for five seconds: leave the idle state when there is motion,   *)
(* wait in an emergency, nothing in other states.                          *)
Transit ==
    /\ machine = "free" \/ (machine = "waiting" /\ system = {})
    /\ machine' = IF current = "emergency" THEN "alarmed" ELSE "waiting"
    /\ current' = IF current = "idle" /\ sensor["motion"] + sensor["presence"] > 0
                  THEN "occupied" ELSE current
    /\ UNCHANGED <<sensorVars, engineVars, system, security, emergency,
                   obeyed, mqttVars>>

(* The emergency is over after ten seconds.                                *)
AllClear ==
    /\ machine = "alarmed"
    /\ emergency' = FALSE
    /\ current' = "occupied"
    /\ machine' = "waiting"
    /\ UNCHANGED <<sensorVars, engineVars, system, security, obeyed, mqttVars>>

state_machine_task == Take \/ Obey \/ Transit \/ AllClear

-----------------------------------------------------------------------------
(* Commands over MQTT, and time                                            *)

Command(c, bits) ==
    /\ mqtt = "idle"
    /\ commands < MaxCommands
    /\ commands' = commands + 1
    /\ system' = system \cup bits
    /\ mqtt' = IF c = "HOME" THEN "clearing" ELSE "idle"
    /\ UNCHANGED <<sensorVars, engineVars, security, emergency, machineVars>>

(* Variant: HOME takes back everything that waits.                         *)
TakeBackAll ==
    /\ mqtt = "clearing"
    /\ system' = {}
    /\ mqtt' = "idle"
    /\ UNCHANGED <<sensorVars, engineVars, security, emergency, machineVars,
                   commands>>

(* HOME takes back what may be waiting, but the state machine may already  *)
(* have it.                                                                *)
TakeBack ==
    /\ mqtt = "clearing"
    /\ system' = system \ {"away", "armed", "sleep"}
    /\ mqtt' = "idle"
    /\ UNCHANGED <<sensorVars, engineVars, security, emergency, machineVars,
                   commands>>

mqtt_event_handler ==
    \/ Command("SLEEP", {"sleep"})
    \/ Command("AWAY", {"away", "armed"})
    \/ Command("HOME", {"home"})
    \/ TakeBack

(* Records get older.  Beyond twice the longest window it is all the same. *)
Oldest == 2 * (CHOOSE n \in {Window[p] : p \in Names} :
                  \A p \in Names : Window[p] <= n) + 1
Tick ==
    /\ engine = "waiting" /\ \A s \in Signals : sensor[s] = 0
    /\ machine \in {"waiting", "alarmed"} /\ system = {}
    /\ mqtt = "idle"
    /\ history' = [k \in DOMAIN history |->
                      [history[k] EXCEPT !.age = IF @ < Oldest THEN @ + 1 ELSE @]]
    /\ UNCHANGED <<sensorVars, engine, tried, system, security, emergency,
                   machineVars, mqttVars>>

Next ==
    \/ motion_sensor_task \/ door_sensor_task \/ light_control_task
    \/ environmental_sensor_task
    \/ pattern_recognition_task
    \/ state_machine_task
    \/ mqtt_event_handler
    \/ Tick

Spec == Init /\ [][Next]_vars

-----------------------------------------------------------------------------

TypeOK ==
    /\ sensor \in [Signals -> 0..MaxEvents]
    /\ door_open \in BOOLEAN
    /\ events \in 0..MaxEvents
    /\ history \in Seq([seen : [Signals -> 0..MaxEvents], age : 0..Oldest])
    /\ Len(history) <= HistorySize
    /\ engine \in {"waiting", "checking", "matched", "telling", "settling",
                   "unmatched"}
    /\ tried \in DOMAIN Patterns
    /\ {system, obeyed} \subseteq SUBSET {Order[k] : k \in DOMAIN Order}
    /\ security \in BOOLEAN /\ emergency \in BOOLEAN
    /\ current \in {"idle", "occupied", "away", "sleep", "armed", "emergency"}
    /\ machine \in {"waiting", "obeying", "free", "alarmed"}
    /\ mqtt \in {"idle", "clearing"}
    /\ commands \in 0..MaxCommands

(* The history tells the truth about the order of events: whatever a       *)
(* record shows has happened after everything older records show, although *)
(* bits are read and cleared in two steps with sensors in between.  So a   *)
(* pattern that is found has happened in that order, and no event is       *)
(* recorded twice.                                                         *)
HistoryInOrder ==
    \A i, j \in DOMAIN history : i < j =>
       \A s, t \in Signals :
          history[i].seen[s] > 0 => history[j].seen[t] < history[i].seen[s]

(* An emergency that is shown is being handled: the state machine is in    *)
(* the emergency or will be told, whatever commands and patterns come with *)
(* it.  Every value has its type.                                          *)
EmergencyIsHandled ==
    /\ TypeOK
    /\ emergency => \/ current = "emergency"
                    \/ "emergency" \in system \cup obeyed
                    \/ engine = "telling"

(* The pattern of coming home is shadowed: normal entry, which needs the   *)
(* same events in a window no shorter, is tried before it in every state.  *)
(* So returning_action is never called, and the security flag, once set,   *)
(* stays set.                                                              *)
ReturningIsShadowed ==
    engine \in {"matched", "telling", "settling"} => Patterns[tried] # "returning"
=============================================================================
