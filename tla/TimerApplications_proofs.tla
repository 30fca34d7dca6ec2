---------------------- MODULE TimerApplications_proofs ----------------------
(***************************************************************************)
(* Proofs about TimerApplications for every length of the queues, every    *)
(* number of cycles and every step of the fade.  That the watchdog is      *)
(* never lost needs the bound of TimerAssumption on the sensor queue: it   *)
(* counts what the tasks can send while the daemon sleeps.                 *)
(***************************************************************************)
EXTENDS TimerApplications, TLAPS

-----------------------------------------------------------------------------
(* The daemon's queue                                                      *)

(* What Send does to the queue and to the record of refused starts.        *)
LEMMA SendTypes ==
    ASSUME DaemonTypeOK, NEW op, NEW timer,
           [op |-> op, timer |-> timer] \in Command,
           Send(op, timer)
    PROVE  /\ commands' \in Seq(Command) /\ Len(commands') <= CommandLen
           /\ refused' \subseteq Startable
<1> DEFINE c == [op |-> op, timer |-> timer]
<1>1. commands \in Seq(Command) /\ Len(commands) <= CommandLen /\ CommandLen \in Nat
  BY TimerAssumption DEF DaemonTypeOK
<1>2. CASE Len(commands) < CommandLen
  <2>1. commands' = Append(commands, c) /\ UNCHANGED refused
    BY <1>2 DEF Send
  <2>2. commands' \in Seq(Command) /\ Len(commands') = Len(commands) + 1
    BY <1>1, <2>1
  <2> QED BY <1>1, <1>2, <2>1, <2>2 DEF DaemonTypeOK
<1>3. CASE ~(Len(commands) < CommandLen)
  <2>1. UNCHANGED commands
        /\ refused' = IF op = "start" THEN refused \cup {timer} ELSE refused
    BY <1>3 DEF Send
  <2>2. op = "start" => timer \in Startable
    BY DEF Command
  <2> QED BY <1>1, <2>1, <2>2 DEF DaemonTypeOK
<1> QED BY <1>2, <1>3

(* The actions that send nothing, and those that send one command.         *)
Quiet ==
    \/ WatchdogBark \/ MonitorCheck \/ NetworkStart \/ NetworkReceive
    \/ Heartbeat \/ LightCallback \/ Select \/ TakeHigh \/ TakeLow
    \/ Drained \/ NothingDue \/ UNCHANGED vars
    \/ \E c \in Changers : ChangePattern(c)

(* Every step keeps the types of the queue and of what the daemon keeps.   *)
LEMMA DaemonStep ==
    ASSUME DaemonTypeOK, [Next]_vars
    PROVE  DaemonTypeOK'
<1> USE DEF Daemon, Network, Sensor, Changers
<1>1. pc' \in [{Daemon, Network, Sensor} ->
                 {"drain", "due", "bark", "hang", "recovered", "temp",
                  "pattern", "breathe", "change", "reset", "wifi", "receive",
                  "heartbeat", "feed", "deleted", "select", "take"}]
  <2> USE DEF DaemonTypeOK, GoTo, EndCycle
  <2>1. CASE \E c \in Changers : ChangePattern(c) \/ ResetPattern(c)
    BY <2>1 DEF ChangePattern, ResetPattern
  <2>2. CASE \/ Process \/ Drained \/ NothingDue \/ WatchdogBark
             \/ WatchdogRestart \/ FeedCallback \/ HangCallback
             \/ RecoveryCallback \/ RecoveryDelete \/ MonitorCheck
    BY <2>2 DEF Process, Drained, NothingDue, WatchdogBark, WatchdogRestart,
       FeedCallback, HangCallback, RecoveryCallback, RecoveryDelete, MonitorCheck
  <2>3. CASE \/ NetworkStart \/ NetworkReceive \/ Heartbeat \/ NetworkFeed
             \/ TempCallback \/ LightCallback \/ Select \/ TakeHigh \/ TakeLow
             \/ PatternCallback \/ Breathe
    BY <2>3 DEF NetworkStart, NetworkReceive, Heartbeat, NetworkFeed,
       TempCallback, LightCallback, Select, TakeHigh, TakeLow, PatternCallback,
       Breathe
  <2>4. CASE UNCHANGED vars
    BY <2>4 DEF vars
  <2> QED BY <2>1, <2>2, <2>3, <2>4 DEF Next
<1>2. CASE Process
  <2>1. Head(commands) \in Command /\ Tail(commands) \in Seq(Command)
        /\ Len(Tail(commands)) = Len(commands) - 1
    BY <1>2 DEF Process, DaemonTypeOK
  <2>2. active' \subseteq Startable
    BY <1>2, <2>1 DEF Process, Command, DaemonTypeOK
  <2>3. CommandLen \in Nat
    BY TimerAssumption
  <2> QED BY <1>1, <1>2, <2>1, <2>2, <2>3 DEF Process, DaemonTypeOK
<1>3. CASE Quiet
  BY <1>1, <1>3 DEF Quiet, DaemonTypeOK, WatchdogBark, MonitorCheck,
     NetworkStart, NetworkReceive, Heartbeat, LightCallback, Select, TakeHigh,
     TakeLow, Drained, NothingDue, ChangePattern, vars, watchVars
<1>4. ASSUME NEW op, NEW timer, [op |-> op, timer |-> timer] \in Command,
             Send(op, timer), active' \subseteq active
      PROVE  DaemonTypeOK'
  BY <1>1, <1>4, SendTypes DEF DaemonTypeOK
<1>5. CASE WatchdogRestart \/ NetworkFeed
  <2>1. Send("start", "watchdog") /\ UNCHANGED active
    BY <1>5 DEF WatchdogRestart, NetworkFeed
  <2> QED BY <2>1, <1>4 DEF Command, Startable
<1>6. CASE FeedCallback
  <2>1. CASE Send("stop", "feed")
    BY <1>4, <1>6, <2>1 DEF FeedCallback, Command, Startable
  <2>2. CASE UNCHANGED <<commands, refused>>
    BY <1>1, <1>6, <2>2 DEF FeedCallback, DaemonTypeOK
  <2> QED BY <1>6, <2>1, <2>2 DEF FeedCallback
<1>7. CASE HangCallback
  BY <1>4, <1>7 DEF HangCallback, Command, Startable
<1>8. CASE RecoveryCallback
  BY <1>4, <1>8 DEF RecoveryCallback, Command, Startable
<1>9. CASE RecoveryDelete
  BY <1>4, <1>9 DEF RecoveryDelete, Command, Startable
<1>10. CASE TempCallback
  BY <1>4, <1>10 DEF TempCallback, Command
<1>11. CASE PatternCallback
  <2>1. CASE Send("change", "other")
    BY <1>4, <1>11, <2>1 DEF PatternCallback, Command
  <2>2. CASE UNCHANGED <<commands, refused>>
    BY <1>1, <1>11, <2>2 DEF PatternCallback, DaemonTypeOK
  <2> QED BY <1>11, <2>1, <2>2 DEF PatternCallback, EndCycle
<1>12. CASE Breathe
  BY <1>4, <1>12 DEF Breathe, EndCycle, Command
<1>13. CASE \E c \in Changers : ResetPattern(c)
  BY <1>4, <1>13 DEF ResetPattern, Command, Startable
<1> QED BY <1>2, <1>3, <1>5, <1>6, <1>7, <1>8, <1>9, <1>10, <1>11, <1>12,
           <1>13 DEF Next, Quiet

-----------------------------------------------------------------------------
(* Watchdog and health                                                     *)

LEMMA WatchStep ==
    ASSUME WatchTypeOK, [Next]_vars
    PROVE  WatchTypeOK'
<1> USE TimerAssumption DEF WatchTypeOK, Saturate
<1>1. CASE WatchdogBark \/ WatchdogRestart \/ MonitorCheck
  <2>1. UNCHANGED feed_count /\ UNCHANGED network_queue
    BY <1>1 DEF WatchdogBark, WatchdogRestart, MonitorCheck
  <2>2. TooMany \in Nat
    BY TimerAssumption
  <2>3. watchdog_timeouts' \in 0..(TooMany + 1)
    BY <1>1, <2>2 DEF WatchdogBark, WatchdogRestart, MonitorCheck
  <2>4. system_healthy' \in BOOLEAN
    BY <1>1 DEF WatchdogBark, WatchdogRestart, MonitorCheck
  <2> QED BY <2>1, <2>3, <2>4, Zenon
<1>2. CASE FeedCallback
  <2>1. HangAt \in Nat /\ NetworkLen \in Nat
    BY TimerAssumption
  <2>2. feed_count' \in 0..(HangAt + 1)
    BY <1>2, <2>1 DEF FeedCallback
  <2>3. network_queue' \in 0..NetworkLen
    <3>1. CASE UNCHANGED network_queue
      BY <3>1
    <3>2. CASE network_queue' = Saturate(network_queue + 1, NetworkLen)
      BY <3>2, <2>1
    <3> QED BY <1>2, <3>1, <3>2 DEF FeedCallback
  <2>4. watchdog_timeouts' = watchdog_timeouts /\ system_healthy' = system_healthy
    BY <1>2 DEF FeedCallback
  <2> QED BY <2>2, <2>3, <2>4, Zenon
<1>3. CASE NetworkReceive
  BY <1>3 DEF NetworkReceive, watchVars
<1>4. CASE UNCHANGED <<feed_count, watchdog_timeouts, system_healthy, network_queue>>
  BY <1>4
<1>5. CASE \/ Process \/ Drained \/ NothingDue \/ HangCallback
           \/ RecoveryCallback \/ RecoveryDelete \/ NetworkStart
           \/ Heartbeat \/ NetworkFeed
  BY <1>4, <1>5 DEF Process, Drained, NothingDue, HangCallback,
     RecoveryCallback, RecoveryDelete, NetworkStart, Heartbeat, NetworkFeed,
     watchVars
<1>6. CASE \/ TempCallback \/ LightCallback \/ Select \/ TakeHigh \/ TakeLow
           \/ PatternCallback \/ Breathe \/ UNCHANGED vars
           \/ \E c \in Changers : ChangePattern(c) \/ ResetPattern(c)
  BY <1>4, <1>6 DEF TempCallback, LightCallback, Select, TakeHigh, TakeLow,
     PatternCallback, Breathe, ChangePattern, ResetPattern, vars, watchVars
<1> QED BY <1>1, <1>2, <1>3, <1>5, <1>6 DEF Next

(* Only the watchdog's callback ends the state "bark", and it makes the    *)
(* flag true; the monitor's reason does not go away.                       *)
LEMMA HealthStep ==
    ASSUME DaemonTypeOK, WatchTypeOK, UnhealthyHasReason, [Next]_vars
    PROVE  UnhealthyHasReason'
<1> USE TimerAssumption DEF UnhealthyHasReason, DaemonTypeOK, GoTo, Daemon,
    Network, Sensor, Changers
<1>1. CASE WatchdogBark \/ WatchdogRestart \/ MonitorCheck
  BY <1>1 DEF WatchdogBark, WatchdogRestart, MonitorCheck, WatchTypeOK, Saturate
<1>2. CASE \/ Process \/ Drained \/ NothingDue \/ FeedCallback \/ HangCallback
           \/ RecoveryCallback \/ RecoveryDelete \/ TempCallback
           \/ LightCallback \/ PatternCallback \/ Breathe
  BY <1>2 DEF Process, Drained, NothingDue, FeedCallback, HangCallback,
     RecoveryCallback, RecoveryDelete, TempCallback, LightCallback,
     PatternCallback, Breathe, watchVars
<1>3. CASE \/ NetworkStart \/ NetworkReceive \/ Heartbeat \/ NetworkFeed
           \/ Select \/ TakeHigh \/ TakeLow \/ UNCHANGED vars
  BY <1>3 DEF NetworkStart, NetworkReceive, Heartbeat, NetworkFeed, Select,
     TakeHigh, TakeLow, watchVars, vars
<1>4. CASE \E c \in Changers : ChangePattern(c) \/ ResetPattern(c)
  BY <1>4 DEF ChangePattern, ResetPattern, watchVars
<1> QED BY <1>1, <1>2, <1>3, <1>4 DEF Next

-----------------------------------------------------------------------------
(* The sensors                                                             *)

(* The task is between select and receive.                                 *)
Looking == IF pc[Sensor] = "take" THEN 1 ELSE 0

(* Announcements are no fewer than temperatures and no more than samples:  *)
(* a selected announcement stands for at most one receive.                 *)
Announced ==
    /\ high <= Len(set) + Looking
    /\ Len(set) + Looking <= high + low

LEMMA SensorStep ==
    ASSUME DaemonTypeOK, SensorTypeOK, Announced, [Next]_vars
    PROVE  SensorTypeOK' /\ Announced'
<1> USE DEF Looking, GoTo, Daemon, Network, Sensor, Changers
<1>0. SensorLen \in Nat /\ Batch \in Nat \ {0}
  BY TimerAssumption
<1>1. /\ high \in Nat /\ low \in Nat /\ high <= SensorLen /\ low <= SensorLen
      /\ set \in Seq({"temp", "light"}) /\ Len(set) \in Nat
      /\ active_queue \in {"temp", "light", "none"}
      /\ sample_count \in 0..(Batch - 1)
  BY <1>0 DEF SensorTypeOK
<1>2. CASE TempCallback
  <2>1. UNCHANGED <<low, active_queue, sample_count>> /\ pc'[Sensor] = pc[Sensor]
    BY <1>2 DEF TempCallback, DaemonTypeOK
  <2>2. CASE high < SensorLen
    <3>1. high' = high + 1 /\ set' = Append(set, "temp")
      BY <1>0, <1>1, <1>2, <2>2 DEF TempCallback, Saturate
    <3>2. set' \in Seq({"temp", "light"}) /\ Len(set') = Len(set) + 1
      BY <1>1, <3>1
    <3> QED BY <1>0, <1>1, <2>1, <2>2, <3>1, <3>2 DEF SensorTypeOK, Announced
  <2>3. CASE ~(high < SensorLen)
    <3>1. high' = high /\ set' = set
      BY <1>0, <1>1, <1>2, <2>3 DEF TempCallback, Saturate
    <3> QED BY <2>1, <3>1 DEF SensorTypeOK, Announced
  <2> QED BY <2>2, <2>3
<1>3. CASE LightCallback
  <2>1. UNCHANGED <<high, active_queue, sample_count>> /\ pc'[Sensor] = pc[Sensor]
    BY <1>3 DEF LightCallback, DaemonTypeOK
  <2>2. CASE low < SensorLen
    <3>1. low' = low + 1 /\ set' = Append(set, "light")
      BY <1>0, <1>1, <1>3, <2>2 DEF LightCallback, Saturate
    <3>2. set' \in Seq({"temp", "light"}) /\ Len(set') = Len(set) + 1
      BY <1>1, <3>1
    <3> QED BY <1>0, <1>1, <2>1, <2>2, <3>1, <3>2 DEF SensorTypeOK, Announced
  <2>3. CASE ~(low < SensorLen)
    <3>1. low' = low /\ set' = set
      BY <1>0, <1>1, <1>3, <2>3 DEF LightCallback, Saturate
    <3> QED BY <2>1, <3>1 DEF SensorTypeOK, Announced
  <2> QED BY <2>2, <2>3
<1>4. CASE Select
  <2>1. /\ active_queue' = Head(set) /\ set' = Tail(set) /\ set # <<>>
        /\ UNCHANGED <<high, low, sample_count>>
        /\ pc[Sensor] = "select" /\ pc'[Sensor] = "take"
    BY <1>4 DEF Select, DaemonTypeOK
  <2>2. /\ Head(set) \in {"temp", "light"} /\ Tail(set) \in Seq({"temp", "light"})
        /\ Len(Tail(set)) = Len(set) - 1
    BY <1>1, <2>1
  <2> QED BY <1>0, <1>1, <2>1, <2>2 DEF SensorTypeOK, Announced
<1>5. CASE TakeHigh \/ TakeLow
  <2>1. /\ pc[Sensor] = "take" /\ pc'[Sensor] \in {"select", "change"}
        /\ active_queue' = "none" /\ UNCHANGED set
    BY <1>5 DEF TakeHigh, TakeLow, DaemonTypeOK
  <2>2. sample_count' \in 0..(Batch - 1)
    BY <1>0, <1>1, <1>5 DEF TakeHigh, TakeLow
  <2>3. \/ high > 0 /\ high' = high - 1 /\ low' = low
        \/ high = 0 /\ high' = high /\ low' = low
        \/ high = 0 /\ high' = high /\ low > 0 /\ low' = low - 1
    BY <1>1, <1>5 DEF TakeHigh, TakeLow
  <2> QED BY <1>0, <1>1, <2>1, <2>2, <2>3 DEF SensorTypeOK, Announced
<1>6. CASE UNCHANGED sensorVars /\ (pc[Sensor] = "take" <=> pc'[Sensor] = "take")
  BY <1>6 DEF sensorVars, SensorTypeOK, Announced
<1>7. CASE \/ Process \/ Drained \/ NothingDue \/ WatchdogBark
           \/ WatchdogRestart \/ FeedCallback \/ HangCallback
           \/ RecoveryCallback \/ RecoveryDelete \/ MonitorCheck
  BY <1>6, <1>7 DEF Process, Drained, NothingDue, WatchdogBark,
     WatchdogRestart, FeedCallback, HangCallback, RecoveryCallback,
     RecoveryDelete, MonitorCheck, DaemonTypeOK
<1>8. CASE \/ NetworkStart \/ NetworkReceive \/ Heartbeat \/ NetworkFeed
           \/ PatternCallback \/ Breathe \/ UNCHANGED vars
  BY <1>6, <1>8 DEF NetworkStart, NetworkReceive, Heartbeat,
     NetworkFeed, PatternCallback, Breathe, EndCycle, vars,
     DaemonTypeOK
<1>9. CASE \E c \in Changers : ChangePattern(c) \/ ResetPattern(c)
  BY <1>6, <1>9 DEF ChangePattern, ResetPattern, DaemonTypeOK
<1> QED BY <1>2, <1>3, <1>4, <1>5, <1>7, <1>8, <1>9 DEF Next

-----------------------------------------------------------------------------
(* The fade                                                                *)

(* What the intensity may have reached: one step for every callback since  *)
(* the daemon last changed the pattern, which resets it.                   *)
Reached == Fade * (IF pc[Daemon] \in {"change", "reset"} THEN Cycles ELSE cycle)

Fading ==
    /\ direction = 1
    /\ intensity <= Reached
    /\ IF pc[Daemon] = "breathe" THEN 0 < faded /\ faded <= Fade * (cycle + 1)
                                 ELSE faded = 0

LEMMA FadeBounds ==
    ASSUME NEW c \in 0..(Cycles - 1)
    PROVE  /\ Fade * c \in Nat /\ Fade * (c + 1) \in Nat /\ Fade * Cycles \in Nat
           /\ Fade * (c + 1) = Fade * c + Fade
           /\ Fade * (c + 1) <= Fade * Cycles
           /\ Fade * Cycles < MAX_BRIGHTNESS /\ MAX_BRIGHTNESS < Word
           /\ Fade > 0
<1>1. Fade \in Nat \ {0} /\ Cycles \in Nat \ {0} /\ c \in Nat /\ c + 1 <= Cycles
      /\ MAX_BRIGHTNESS \in Nat /\ Word \in Nat
  BY TimerAssumption
<1>2. ASSUME NEW a \in Nat, NEW b \in Nat, NEW f \in Nat, a <= b
      PROVE  f * a <= f * b
  BY <1>2
<1> QED BY <1>1, <1>2, TimerAssumption

LEMMA ModSmall ==
    ASSUME NEW a \in Nat, NEW b \in Nat, a < b
    PROVE  a % b = a
OBVIOUS

(* Both ends of the callback count it and leave "breathe".                 *)
LEMMA CycleEnds ==
    ASSUME DaemonTypeOK, LedTypeOK, EndCycle
    PROVE  /\ cycle' \in 0..(Cycles - 1)
           /\ pc'[Daemon] # "breathe"
           /\ Reached' = Fade * (cycle + 1)
<1> USE DEF EndCycle, GoTo, DaemonTypeOK, Daemon, Network, Sensor
<1>1. cycle \in Nat /\ Cycles \in Nat \ {0} /\ cycle + 1 <= Cycles
  BY TimerAssumption DEF LedTypeOK
<1>2. CASE cycle + 1 = Cycles
  <2>1. cycle' = 0
    BY <1>1, <1>2
  <2>2. pc'[Daemon] = "change"
    BY <2>1
  <2> QED BY <1>1, <1>2, <2>1, <2>2 DEF Reached
<1>3. CASE cycle + 1 < Cycles
  <2>1. cycle' = cycle + 1
    <3>1. cycle + 1 \in Nat /\ cycle' = (cycle + 1) % Cycles
      BY <1>1
    <3> QED BY <1>1, <1>3, <3>1, ModSmall DEF EndCycle
  <2>2. pc'[Daemon] = "pattern"
    BY <1>1, <2>1
  <2> QED BY <1>1, <1>3, <2>1, <2>2 DEF Reached
<1> QED BY <1>1, <1>2, <1>3

LEMMA LedStep ==
    ASSUME DaemonTypeOK, LedTypeOK, Fading, [Next]_vars
    PROVE  LedTypeOK' /\ Fading'
<1> USE DEF GoTo, Daemon, Network, Sensor, Changers
<1>0. /\ Fade * cycle \in Nat /\ Fade * (cycle + 1) \in Nat /\ Fade * Cycles \in Nat
      /\ Fade * (cycle + 1) = Fade * cycle + Fade
      /\ Fade * (cycle + 1) <= Fade * Cycles
      /\ Fade * Cycles < MAX_BRIGHTNESS /\ MAX_BRIGHTNESS < Word
      /\ Fade > 0
      /\ Fade \in Nat /\ MAX_BRIGHTNESS \in Nat /\ Word \in Nat
  BY FadeBounds, TimerAssumption DEF LedTypeOK
<1>1. CASE PatternCallback
  <2>1. pc[Daemon] \in {"due", "pattern"} /\ UNCHANGED <<current_pattern, intensity, direction>>
    BY <1>1 DEF PatternCallback
  <2>2. intensity \in Nat /\ intensity <= Fade * cycle /\ direction = 1 /\ faded = 0
    BY <2>1 DEF Fading, Reached, LedTypeOK
  <2>3. CASE current_pattern = "breathe"
    <3>1. faded' = intensity + Fade /\ UNCHANGED cycle /\ pc'[Daemon] = "breathe"
      BY <1>0, <1>1, <2>2, <2>3 DEF PatternCallback, DaemonTypeOK
    <3> QED BY <1>0, <2>1, <2>2, <3>1 DEF LedTypeOK, Fading, Reached
  <2>4. CASE current_pattern # "breathe"
    <3>1. EndCycle /\ UNCHANGED faded
      BY <1>1, <2>4 DEF PatternCallback
    <3> QED BY <1>0, <2>1, <2>2, <3>1, CycleEnds DEF LedTypeOK, Fading
  <2> QED BY <2>3, <2>4
<1>2. CASE Breathe
  <2>1. faded \in Int /\ 0 < faded /\ faded <= Fade * (cycle + 1)
    BY <1>2 DEF Breathe, Fading, LedTypeOK
  <2>2. faded \in Nat /\ faded < MAX_BRIGHTNESS /\ faded < Word
    BY <1>0, <2>1
  <2>3. Unsigned(faded) = faded
    BY <1>0, <2>2, ModSmall DEF Unsigned
  <2>4. intensity' = faded /\ UNCHANGED <<direction, current_pattern>> /\ faded' = 0
    BY <1>0, <1>2, <2>1, <2>2, <2>3 DEF Breathe
  <2>5. EndCycle
    BY <1>2 DEF Breathe
  <2> QED BY <1>0, <2>1, <2>2, <2>4, <2>5, CycleEnds DEF LedTypeOK, Fading
<1>3. ASSUME NEW c \in Changers, ChangePattern(c)
      PROVE  LedTypeOK' /\ Fading'
  <2>1. UNCHANGED <<cycle, intensity, direction, faded>> /\ current_pattern' \in Pattern
    BY <1>3 DEF ChangePattern, Pattern
  <2>2. /\ pc[Daemon] \in {"change", "reset"} <=> pc'[Daemon] \in {"change", "reset"}
        /\ pc[Daemon] = "breathe" <=> pc'[Daemon] = "breathe"
    BY <1>3 DEF ChangePattern, DaemonTypeOK
  <2> QED BY <2>1, <2>2 DEF LedTypeOK, Fading, Reached
<1>4. ASSUME NEW c \in Changers, ResetPattern(c)
      PROVE  LedTypeOK' /\ Fading'
  <2>1. intensity' = 0 /\ direction' = 1 /\ UNCHANGED <<cycle, current_pattern, faded>>
    BY <1>4 DEF ResetPattern
  <2>2. pc[Daemon] = "breathe" <=> pc'[Daemon] = "breathe"
    BY <1>4 DEF ResetPattern, DaemonTypeOK
  <2> QED BY <1>0, <2>1, <2>2 DEF LedTypeOK, Fading, Reached
<1>5. CASE /\ UNCHANGED ledVars
           /\ pc[Daemon] \in {"change", "reset"} <=> pc'[Daemon] \in {"change", "reset"}
           /\ pc[Daemon] = "breathe" <=> pc'[Daemon] = "breathe"
  BY <1>5 DEF ledVars, LedTypeOK, Fading, Reached
<1>6. CASE \/ Process \/ Drained \/ NothingDue \/ WatchdogBark
           \/ WatchdogRestart \/ HangCallback \/ RecoveryCallback
           \/ RecoveryDelete \/ MonitorCheck \/ TempCallback \/ LightCallback
  BY <1>5, <1>6 DEF Process, Drained, NothingDue, WatchdogBark,
     WatchdogRestart, HangCallback, RecoveryCallback, RecoveryDelete,
     MonitorCheck, TempCallback, LightCallback, DaemonTypeOK
<1>7. CASE FeedCallback
  BY <1>5, <1>7 DEF FeedCallback, DaemonTypeOK
<1>8. CASE \/ NetworkStart \/ NetworkReceive \/ Heartbeat \/ NetworkFeed
           \/ Select \/ TakeHigh \/ TakeLow \/ UNCHANGED vars
  BY <1>5, <1>8 DEF NetworkStart, NetworkReceive, Heartbeat, NetworkFeed,
     Select, TakeHigh, TakeLow, vars, DaemonTypeOK
<1> QED BY <1>1, <1>2, <1>3, <1>4, <1>6, <1>7, <1>8 DEF Next

-----------------------------------------------------------------------------
(* The simulated hang                                                      *)

Cmd(op, timer) == [op |-> op, timer |-> timer]

InQueue(c) == \E n \in 1..Len(commands) : commands[n] = c

(* Until the hang nobody speaks of the recovery; ...                       *)
BeforeHang ==
    feed_count < HangAt =>
        /\ "recovery" \notin active
        /\ ~InQueue(Cmd("stop", "feed"))
        /\ ~InQueue(Cmd("start", "recovery"))
        /\ ~InQueue(Cmd("delete", "recovery"))
        /\ pc[Daemon] \notin {"hang", "recovered"}

(* ... as long as the stop is on its way, the recovery is still to be      *)
(* started after it; ...                                                   *)
StopComesFirst ==
    \A n \in 1..Len(commands) :
        commands[n] = Cmd("stop", "feed") =>
            /\ "recovery" \notin active
            /\ pc[Daemon] # "recovered"
            /\ ~InQueue(Cmd("delete", "recovery"))
            /\ \A m \in 1..Len(commands) :
                  commands[m] = Cmd("start", "recovery") => n < m
            /\ \/ pc[Daemon] = "hang" \/ "recovery" \in refused
               \/ InQueue(Cmd("start", "recovery"))

(* ... and when the recovery's timer is to be deleted, it has done its     *)
(* work.                                                                   *)
DeleteComesLast ==
    pc[Daemon] = "recovered" \/ InQueue(Cmd("delete", "recovery")) =>
        "feed" \in active \cup refused \/ InQueue(Cmd("start", "feed"))

FeedInv == BeforeHang /\ StopComesFirst /\ DeleteComesLast /\ FeedsResume

(* A command is sent to the end of the queue or not at all.                *)
LEMMA SendEnds ==
    ASSUME DaemonTypeOK, NEW op, NEW timer, Send(op, timer)
    PROVE  \/ /\ Len(commands') = Len(commands) + 1
              /\ commands'[Len(commands) + 1] = Cmd(op, timer)
              /\ \A n \in 1..Len(commands) : commands'[n] = commands[n]
              /\ refused' = refused
           \/ /\ commands' = commands
              /\ refused \subseteq refused'
              /\ op = "start" => timer \in refused'
<1>1. commands \in Seq(Command) /\ Len(commands) \in Nat
  BY DEF DaemonTypeOK
<1>2. CASE commands' = Append(commands, Cmd(op, timer)) /\ refused' = refused
  BY <1>1, <1>2
<1>3. CASE UNCHANGED commands
           /\ refused' = IF op = "start" THEN refused \cup {timer} ELSE refused
  BY <1>3
<1> QED BY <1>2, <1>3 DEF Send, Cmd

(* What is in the queue after a command was sent ...                       *)
LEMMA SendQueue ==
    ASSUME DaemonTypeOK, NEW op, NEW timer, Send(op, timer)
    PROVE  /\ \A c : InQueue(c) => InQueue(c)'
           /\ \A c : InQueue(c)' => InQueue(c) \/ c = Cmd(op, timer)
           /\ op = "start" => InQueue(Cmd(op, timer))' \/ timer \in refused'
           /\ refused \subseteq refused'
<1>1. Len(commands) \in Nat
  BY DEF DaemonTypeOK
<1> QED BY <1>1, SendEnds DEF InQueue

(* ... and after one was taken.                                            *)
LEMMA TakeQueue ==
    ASSUME DaemonTypeOK, commands # <<>>, commands' = Tail(commands)
    PROVE  /\ Len(commands) \in Nat \ {0} /\ Len(commands') = Len(commands) - 1
           /\ \A n \in 1..Len(commands') : commands'[n] = commands[n + 1]
           /\ Head(commands) = commands[1]
           /\ \A c : InQueue(c)' => InQueue(c)
           /\ \A c : InQueue(c) => InQueue(c)' \/ c = Head(commands)
<1>1. commands \in Seq(Command)
  BY DEF DaemonTypeOK
<1>2. /\ Len(commands) \in Nat \ {0} /\ Len(commands') = Len(commands) - 1
      /\ \A n \in 1..Len(commands') : commands'[n] = commands[n + 1]
      /\ Head(commands) = commands[1]
  BY <1>1
<1>3. ASSUME NEW c, InQueue(c)'
      PROVE  InQueue(c)
  <2>1. PICK n \in 1..Len(commands') : commands'[n] = c
    BY <1>3 DEF InQueue
  <2>2. n + 1 \in 1..Len(commands) /\ commands[n + 1] = c
    BY <1>2, <2>1
  <2> QED BY <2>2 DEF InQueue
<1>4. ASSUME NEW c, InQueue(c), c # Head(commands)
      PROVE  InQueue(c)'
  <2>1. PICK n \in 1..Len(commands) : commands[n] = c
    BY <1>4 DEF InQueue
  <2>2. n - 1 \in 1..Len(commands') /\ commands'[n - 1] = c
    BY <1>2, <1>4, <2>1
  <2> QED BY <2>2 DEF InQueue
<1> QED BY <1>2, <1>3, <1>4

LEMMA Commands ==
    \A o1, o2, t1, t2 : Cmd(o1, t1) = Cmd(o2, t2) <=> o1 = o2 /\ t1 = t2
BY DEF Cmd

(* What is left alone by the steps that have nothing to do with the hang.  *)
Apart ==
    /\ feed_count' = feed_count
    /\ "feed" \in active <=> "feed" \in active'
    /\ "recovery" \in active <=> "recovery" \in active'
    /\ pc[Daemon] = "hang" <=> pc'[Daemon] = "hang"
    /\ pc[Daemon] = "recovered" <=> pc'[Daemon] = "recovered"

LEMMA ApartQuiet ==
    ASSUME FeedInv, Apart, UNCHANGED commands, UNCHANGED refused
    PROVE  FeedInv'
<1> USE DEF Apart, InQueue
<1>1. BeforeHang'
  BY DEF FeedInv, BeforeHang
<1>2. StopComesFirst'
  BY DEF FeedInv, StopComesFirst
<1>3. DeleteComesLast'
  BY DEF FeedInv, DeleteComesLast
<1>4. FeedsResume'
  BY DEF FeedInv, FeedsResume, Queued
<1> QED BY <1>1, <1>2, <1>3, <1>4 DEF FeedInv

LEMMA ApartSend ==
    ASSUME DaemonTypeOK, FeedInv, Apart, NEW op, NEW timer, Send(op, timer),
           timer \notin {"feed", "recovery"}
    PROVE  FeedInv'
<1> DEFINE c == Cmd(op, timer)
<1>1. c \notin {Cmd("stop", "feed"), Cmd("start", "recovery"),
                Cmd("delete", "recovery"), Cmd("start", "feed")}
  BY Commands
<1>2. \A d : d # c => (InQueue(d) <=> InQueue(d)')
  BY SendQueue
<1>3. refused \subseteq refused'
  BY SendQueue
<1>4. BeforeHang'
  BY <1>1, <1>2 DEF FeedInv, BeforeHang, Apart
<1>5. StopComesFirst'
  <2>1. ASSUME NEW n \in 1..Len(commands'), commands'[n] # c
        PROVE  n \in 1..Len(commands) /\ commands'[n] = commands[n]
    BY <2>1, SendEnds DEF DaemonTypeOK
  <2>2. ASSUME NEW n \in 1..Len(commands'), commands'[n] = Cmd("stop", "feed")
        PROVE  /\ "recovery" \notin active'
               /\ pc'[Daemon] # "recovered"
               /\ ~InQueue(Cmd("delete", "recovery"))'
               /\ \/ pc'[Daemon] = "hang" \/ "recovery" \in refused'
                  \/ InQueue(Cmd("start", "recovery"))'
    BY <1>1, <1>2, <1>3, <2>1, <2>2 DEF FeedInv, StopComesFirst, Apart
  <2>3. ASSUME NEW n \in 1..Len(commands'), commands'[n] = Cmd("stop", "feed"),
               NEW m \in 1..Len(commands'), commands'[m] = Cmd("start", "recovery")
        PROVE  n < m
    BY <1>1, <2>1, <2>3 DEF FeedInv, StopComesFirst
  <2> QED BY <2>2, <2>3 DEF StopComesFirst
<1>6. DeleteComesLast'
  BY <1>1, <1>2, <1>3 DEF FeedInv, DeleteComesLast, Apart
<1>7. FeedsResume'
  <2>1. \A t : Queued(t) <=> InQueue(Cmd("start", t))
    BY DEF Queued, InQueue, Cmd
  <2>2. \A t : Queued(t)' <=> InQueue(Cmd("start", t))'
    BY DEF Queued, InQueue, Cmd
  <2> QED BY <1>1, <1>2, <1>3, <2>1, <2>2 DEF FeedInv, FeedsResume, Apart
<1> QED BY <1>4, <1>5, <1>6, <1>7 DEF FeedInv

LEMMA FeedProcess ==
    ASSUME DaemonTypeOK, FeedInv, Process
    PROVE  FeedInv'
<1> DEFINE c == Head(commands)
<1>1. /\ commands # <<>> /\ commands' = Tail(commands)
      /\ feed_count' = feed_count /\ refused' = refused
      /\ pc[Daemon] = "drain" /\ pc'[Daemon] \notin {"hang", "recovered"}
  BY DEF Process, GoTo, DaemonTypeOK, Daemon, Network, Sensor
<1>2. c \in Command /\ c = commands[1]
  BY <1>1, TakeQueue DEF DaemonTypeOK
<1>3. /\ c.op = "start" => active' = active \cup {c.timer}
      /\ c.op \in {"stop", "delete"} => active' = active \ {c.timer}
      /\ c.op = "change" => active' = active
  BY DEF Process
<1>4. /\ \A o, t : c = Cmd(o, t) => c.op = o /\ c.timer = t
      /\ c = Cmd(c.op, c.timer)
      /\ c.op = "stop" => c.timer = "feed"
      /\ c.op = "delete" => c.timer = "recovery"
      /\ c.op \in {"start", "stop", "delete", "change"}
  BY <1>2 DEF Command, Cmd
<1>5. InQueue(c) /\ 1 \in 1..Len(commands)
  BY <1>1, <1>2, TakeQueue DEF InQueue
<1>6. /\ "recovery" \in active' => "recovery" \in active \/ c = Cmd("start", "recovery")
      /\ "feed" \in active /\ c # Cmd("stop", "feed") => "feed" \in active'
      /\ c \notin {Cmd("stop", "feed"), Cmd("delete", "recovery")} => active \subseteq active'
  BY <1>3, <1>4
<1>7. BeforeHang'
  BY <1>1, <1>5, <1>6, TakeQueue DEF FeedInv, BeforeHang
<1>8. StopComesFirst'
  <2> SUFFICES ASSUME NEW n \in 1..Len(commands'), commands'[n] = Cmd("stop", "feed")
               PROVE  /\ "recovery" \notin active'
                      /\ pc'[Daemon] # "recovered"
                      /\ ~InQueue(Cmd("delete", "recovery"))'
                      /\ \A m \in 1..Len(commands') :
                            commands'[m] = Cmd("start", "recovery") => n < m
                      /\ \/ "recovery" \in refused'
                         \/ InQueue(Cmd("start", "recovery"))'
    BY DEF StopComesFirst
  <2>1. n + 1 \in 1..Len(commands) /\ commands[n + 1] = Cmd("stop", "feed")
    BY <1>1, TakeQueue
  <2>2. c # Cmd("start", "recovery")
    BY <1>2, <1>5, <2>1 DEF FeedInv, StopComesFirst
  <2>3. "recovery" \notin active' /\ ~InQueue(Cmd("delete", "recovery"))'
    BY <1>1, <1>6, <2>1, <2>2, TakeQueue DEF FeedInv, StopComesFirst
  <2>4. "recovery" \in refused' \/ InQueue(Cmd("start", "recovery"))'
    BY <1>1, <2>1, <2>2, TakeQueue DEF FeedInv, StopComesFirst
  <2>5. ASSUME NEW m \in 1..Len(commands'), commands'[m] = Cmd("start", "recovery")
        PROVE  n < m
    <3>1. m + 1 \in 1..Len(commands) /\ commands[m + 1] = Cmd("start", "recovery")
      BY <1>1, <2>5, TakeQueue
    <3>2. n + 1 < m + 1
      BY <2>1, <3>1 DEF FeedInv, StopComesFirst
    <3> QED BY <3>2
  <2> QED BY <1>1, <2>3, <2>4, <2>5
<1>9. DeleteComesLast'
  <2> SUFFICES ASSUME InQueue(Cmd("delete", "recovery"))'
               PROVE  "feed" \in active' \cup refused' \/ InQueue(Cmd("start", "feed"))'
    BY <1>1 DEF DeleteComesLast
  <2>1. InQueue(Cmd("delete", "recovery"))
    BY <1>1, TakeQueue
  <2>2. c # Cmd("stop", "feed")
    BY <1>2, <1>5, <2>1 DEF FeedInv, StopComesFirst
  <2>3. CASE "feed" \in active \cup refused
    BY <1>1, <1>6, <2>2, <2>3
  <2>4. CASE InQueue(Cmd("start", "feed"))
    <3>1. c = Cmd("start", "feed") => "feed" \in active'
      BY <1>3, <1>4
    <3> QED BY <1>1, <2>4, <3>1, TakeQueue
  <2> QED BY <2>1, <2>3, <2>4 DEF FeedInv, DeleteComesLast
<1>10. FeedsResume'
  <2>1. /\ Queued("feed") <=> InQueue(Cmd("start", "feed"))
        /\ Queued("recovery") <=> InQueue(Cmd("start", "recovery"))
        /\ Queued("feed")' <=> InQueue(Cmd("start", "feed"))'
        /\ Queued("recovery")' <=> InQueue(Cmd("start", "recovery"))'
    BY DEF Queued, InQueue, Cmd
  <2>2. /\ Queued("feed") => Queued("feed")' \/ "feed" \in active'
        /\ Queued("recovery") => Queued("recovery")' \/ "recovery" \in active'
    <3>1. \A t : Cmd("start", t) = c => t \in active'
      BY <1>3, <1>4
    <3>2. \A d : InQueue(d) => InQueue(d)' \/ d = c
      BY <1>1, TakeQueue
    <3> QED BY <2>1, <3>1, <3>2
  <2>3. CASE c = Cmd("stop", "feed")
    <3>1. "recovery" \in refused \/ InQueue(Cmd("start", "recovery"))
      BY <1>1, <1>2, <1>5, <2>3 DEF FeedInv, StopComesFirst
    <3>2. InQueue(Cmd("start", "recovery")) =>
             Queued("recovery")' \/ "recovery" \in active'
      BY <2>1, <2>2
    <3> QED BY <1>1, <3>1, <3>2 DEF FeedsResume
  <2>4. CASE c = Cmd("delete", "recovery")
    <3>1. "feed" \in active \cup refused \/ InQueue(Cmd("start", "feed"))
      BY <1>5, <2>4 DEF FeedInv, DeleteComesLast
    <3>2. "feed" \in active => "feed" \in active'
      BY <1>6, <2>4, Commands
    <3>3. InQueue(Cmd("start", "feed")) => Queued("feed")' \/ "feed" \in active'
      BY <2>1, <2>2
    <3> QED BY <1>1, <3>1, <3>2, <3>3 DEF FeedsResume
  <2>5. CASE c \notin {Cmd("stop", "feed"), Cmd("delete", "recovery")}
    BY <1>1, <1>6, <2>2, <2>5 DEF FeedInv, FeedsResume
  <2> QED BY <2>3, <2>4, <2>5
<1> QED BY <1>7, <1>8, <1>9, <1>10 DEF FeedInv

LEMMA FeedHangs ==
    ASSUME DaemonTypeOK, WatchTypeOK, FeedInv, FeedCallback
    PROVE  FeedInv'
<1> USE DEF GoTo, DaemonTypeOK, Daemon, Network, Sensor
<1>1. HangAt \in Nat \ {0} /\ feed_count \in 0..(HangAt + 1)
  BY TimerAssumption DEF WatchTypeOK
<1>2. active' = active /\ "feed" \in active /\ pc[Daemon] = "due"
  BY DEF FeedCallback
<1>3. CASE feed_count' = HangAt
  <2>1. Send("stop", "feed") /\ pc'[Daemon] = "hang"
    BY <1>3 DEF FeedCallback
  <2>2. feed_count < HangAt
    BY <1>1, <1>3 DEF FeedCallback, Saturate
  <2>3. /\ "recovery" \notin active
        /\ ~InQueue(Cmd("start", "recovery"))
        /\ ~InQueue(Cmd("delete", "recovery"))
    BY <2>2 DEF FeedInv, BeforeHang
  <2>4. ~InQueue(Cmd("start", "recovery"))' /\ ~InQueue(Cmd("delete", "recovery"))'
    BY <2>1, <2>3, SendQueue, Commands
  <2>5. BeforeHang'
    BY <1>1, <1>3 DEF BeforeHang
  <2>6. StopComesFirst'
    BY <1>2, <2>1, <2>3, <2>4 DEF StopComesFirst, InQueue
  <2>7. DeleteComesLast' /\ FeedsResume'
    BY <1>2, <2>1, <2>4 DEF DeleteComesLast, FeedsResume
  <2> QED BY <2>5, <2>6, <2>7 DEF FeedInv
<1>4. CASE feed_count' # HangAt
  <2>1. UNCHANGED commands /\ UNCHANGED refused /\ pc'[Daemon] = "drain"
    BY <1>4 DEF FeedCallback
  <2>2. feed_count' < HangAt => feed_count < HangAt
    BY <1>1 DEF FeedCallback, Saturate
  <2>3. BeforeHang'
    BY <1>2, <2>1, <2>2 DEF FeedInv, BeforeHang, InQueue
  <2>4. StopComesFirst'
    BY <1>2, <2>1 DEF FeedInv, StopComesFirst, InQueue
  <2>5. DeleteComesLast' /\ FeedsResume'
    BY <1>2, <2>1 DEF DeleteComesLast, FeedsResume
  <2> QED BY <2>3, <2>4, <2>5 DEF FeedInv
<1> QED BY <1>3, <1>4

LEMMA FeedRecovers ==
    ASSUME DaemonTypeOK, WatchTypeOK, FeedInv,
           HangCallback \/ RecoveryCallback \/ RecoveryDelete
    PROVE  FeedInv'
<1> USE DEF GoTo, DaemonTypeOK, Daemon, Network, Sensor
<1>1. HangAt \in Nat \ {0} /\ feed_count \in 0..(HangAt + 1)
  BY TimerAssumption DEF WatchTypeOK
<1>2. feed_count' = feed_count /\ ~(feed_count < HangAt)
  BY DEF HangCallback, RecoveryCallback, RecoveryDelete, FeedInv, BeforeHang
<1>3. BeforeHang'
  BY <1>1, <1>2 DEF BeforeHang
<1>4. CASE HangCallback
  <2>1. /\ Send("start", "recovery") /\ active' = active
        /\ pc[Daemon] = "hang" /\ pc'[Daemon] = "drain"
    BY <1>4 DEF HangCallback
  <2>2. StopComesFirst'
    <3> SUFFICES ASSUME NEW n \in 1..Len(commands'),
                        commands'[n] = Cmd("stop", "feed")
                 PROVE  /\ "recovery" \notin active'
                        /\ ~InQueue(Cmd("delete", "recovery"))'
                        /\ \A m \in 1..Len(commands') :
                              commands'[m] = Cmd("start", "recovery") => n < m
                        /\ \/ "recovery" \in refused'
                           \/ InQueue(Cmd("start", "recovery"))'
      BY <2>1 DEF StopComesFirst
    <3>1. n \in 1..Len(commands) /\ commands[n] = Cmd("stop", "feed")
      BY <2>1, SendEnds, Commands
    <3>2. "recovery" \notin active' /\ ~InQueue(Cmd("delete", "recovery"))'
      BY <2>1, <3>1, SendQueue, Commands DEF FeedInv, StopComesFirst
    <3>3. "recovery" \in refused' \/ InQueue(Cmd("start", "recovery"))'
      BY <2>1, SendQueue
    <3>4. ASSUME NEW m \in 1..Len(commands'),
                 commands'[m] = Cmd("start", "recovery")
          PROVE  n < m
      <4>1. m \in 1..Len(commands) => commands[m] = Cmd("start", "recovery")
        BY <2>1, <3>4, SendEnds
      <4>2. m \in 1..Len(commands) \/ m = Len(commands) + 1
        BY <2>1, SendEnds
      <4> QED BY <3>1, <4>1, <4>2 DEF FeedInv, StopComesFirst
    <3> QED BY <3>2, <3>3, <3>4
  <2>3. DeleteComesLast'
    <3>1. InQueue(Cmd("delete", "recovery"))' => InQueue(Cmd("delete", "recovery"))
      BY <2>1, SendQueue, Commands
    <3>2. /\ InQueue(Cmd("start", "feed")) => InQueue(Cmd("start", "feed"))'
          /\ refused \subseteq refused'
      BY <2>1, SendQueue
    <3> QED BY <2>1, <3>1, <3>2 DEF FeedInv, DeleteComesLast
  <2>4. FeedsResume'
    <3>1. "recovery" \in refused' \/ InQueue(Cmd("start", "recovery"))'
      BY <2>1, SendQueue
    <3> QED BY <3>1 DEF FeedsResume, Queued, InQueue, Cmd
  <2> QED BY <1>3, <2>2, <2>3, <2>4 DEF FeedInv
<1>5. CASE RecoveryCallback
  <2>1. /\ Send("start", "feed") /\ active' = active \ {"recovery"}
        /\ pc[Daemon] = "due" /\ "recovery" \in active
        /\ pc'[Daemon] = "recovered"
    BY <1>5 DEF RecoveryCallback
  <2>2. "feed" \in refused' \/ InQueue(Cmd("start", "feed"))'
    BY <2>1, SendQueue
  <2>3. ~InQueue(Cmd("stop", "feed"))
    BY <2>1 DEF FeedInv, StopComesFirst, InQueue
  <2>4. ~InQueue(Cmd("stop", "feed"))'
    BY <2>1, <2>3, SendQueue, Commands
  <2>5. StopComesFirst'
    BY <2>4 DEF StopComesFirst, InQueue
  <2>6. DeleteComesLast'
    BY <2>2 DEF DeleteComesLast
  <2>7. FeedsResume'
    BY <2>2 DEF FeedsResume, Queued, InQueue, Cmd
  <2> QED BY <1>3, <2>5, <2>6, <2>7 DEF FeedInv
<1>6. CASE RecoveryDelete
  <2>1. /\ Send("delete", "recovery") /\ active' = active
        /\ pc[Daemon] = "recovered" /\ pc'[Daemon] = "drain"
    BY <1>6 DEF RecoveryDelete
  <2>2. "feed" \in active \cup refused \/ InQueue(Cmd("start", "feed"))
    BY <2>1 DEF FeedInv, DeleteComesLast
  <2>3. "feed" \in active' \cup refused' \/ InQueue(Cmd("start", "feed"))'
    BY <2>1, <2>2, SendQueue
  <2>4. ~InQueue(Cmd("stop", "feed"))
    BY <2>1 DEF FeedInv, StopComesFirst, InQueue
  <2>5. ~InQueue(Cmd("stop", "feed"))'
    BY <2>1, <2>4, SendQueue, Commands
  <2>6. StopComesFirst'
    BY <2>5 DEF StopComesFirst, InQueue
  <2>7. DeleteComesLast'
    BY <2>3 DEF DeleteComesLast
  <2>8. FeedsResume'
    BY <2>3 DEF FeedsResume, Queued, InQueue, Cmd
  <2> QED BY <1>3, <2>6, <2>7, <2>8 DEF FeedInv
<1> QED BY <1>4, <1>5, <1>6

LEMMA FeedStep ==
    ASSUME DaemonTypeOK, WatchTypeOK, FeedInv, [Next]_vars
    PROVE  FeedInv'
<1> USE DEF GoTo, DaemonTypeOK, Daemon, Network, Sensor, Changers
<1>1. CASE Process
  BY <1>1, FeedProcess
<1>2. CASE FeedCallback
  BY <1>2, FeedHangs
<1>3. CASE HangCallback \/ RecoveryCallback \/ RecoveryDelete
  BY <1>3, FeedRecovers
<1>4. CASE \/ Drained \/ NothingDue \/ WatchdogBark \/ MonitorCheck
           \/ NetworkStart \/ NetworkReceive \/ Heartbeat \/ LightCallback
           \/ Select \/ TakeHigh \/ TakeLow \/ UNCHANGED vars
  <2>1. Apart /\ UNCHANGED commands /\ UNCHANGED refused
    BY <1>4 DEF Drained, NothingDue, WatchdogBark, MonitorCheck, NetworkStart,
       NetworkReceive, Heartbeat, LightCallback, Select, TakeHigh, TakeLow,
       vars, watchVars, Apart
  <2> QED BY <2>1, ApartQuiet
<1>5. CASE WatchdogRestart \/ NetworkFeed
  <2>1. Apart /\ Send("start", "watchdog")
    BY <1>5 DEF WatchdogRestart, NetworkFeed, Apart
  <2> QED BY <2>1, ApartSend
<1>6. CASE TempCallback \/ PatternCallback \/ Breathe
  <2>1. Apart
    BY <1>6 DEF TempCallback, PatternCallback, Breathe, EndCycle, Apart
  <2>2. CASE Send("change", "other")
    BY <2>1, <2>2, ApartSend
  <2>3. CASE UNCHANGED commands /\ UNCHANGED refused
    BY <2>1, <2>3, ApartQuiet
  <2> QED BY <1>6, <2>2, <2>3 DEF TempCallback, PatternCallback, Breathe, EndCycle
<1>7. CASE \E c \in Changers : ChangePattern(c)
  <2>1. Apart /\ UNCHANGED commands /\ UNCHANGED refused
    BY <1>7 DEF ChangePattern, watchVars, Apart
  <2> QED BY <2>1, ApartQuiet
<1>8. CASE \E c \in Changers : ResetPattern(c)
  <2>1. Apart /\ Send("start", "pattern")
    BY <1>8 DEF ResetPattern, Apart
  <2> QED BY <2>1, ApartSend
<1> QED BY <1>1, <1>2, <1>3, <1>4, <1>5, <1>6, <1>7, <1>8 DEF Next

-----------------------------------------------------------------------------
(* The watchdog                                                            *)

(* The task changes the pattern only when a batch is complete.             *)
BetweenBatches == pc[Sensor] \in {"change", "reset"} => sample_count = 0

(* The temperatures that stand behind commands: the batch of each command  *)
(* in the queue and of the one the task is about to send, what the task    *)
(* has of the next batch, and what waits for it.                           *)
Pending == IF pc[Sensor] \in {"change", "reset"} THEN Batch ELSE sample_count

Load == Batch * Len(commands) + Pending + high

(* No step of the task makes the load more.  The daemon looked for a due   *)
(* timer when its queue was empty, and it sends no sample before it looks  *)
(* at the queue again.                                                     *)
RoomForWatchdog ==
    pc[Daemon] \in {"due", "bark"} /\ ~Queued("watchdog") =>
        Load <= Batch + SensorLen

WatchInv == BetweenBatches /\ RoomForWatchdog /\ WatchdogArmed

LEMMA Products ==
    ASSUME NEW b \in Nat, NEW m \in Nat, NEW n \in Nat
    PROVE  /\ b * m \in Nat /\ b * (m + 1) = b * m + b
           /\ m <= n => b * m <= b * n
<1>1. b * m \in Nat /\ b * n \in Nat /\ b * (m + 1) = b * m + b
  OBVIOUS
<1>2. m <= n => b * m <= b * n
  OBVIOUS
<1> QED BY <1>1, <1>2

Parts ==
    /\ Len(commands) \in Nat /\ Batch \in Nat \ {0} /\ SensorLen \in Nat
    /\ Pending \in Nat /\ Pending <= Batch
    /\ high \in Nat /\ high <= SensorLen
    /\ Batch * Len(commands) \in Nat

LEMMA LoadParts == DaemonTypeOK /\ SensorTypeOK => Parts
<1> SUFFICES ASSUME DaemonTypeOK, SensorTypeOK PROVE Parts
  OBVIOUS
<1>1. /\ Len(commands) \in Nat /\ Batch \in Nat \ {0} /\ SensorLen \in Nat
      /\ sample_count \in Nat /\ sample_count < Batch
      /\ high \in Nat /\ high <= SensorLen
  BY TimerAssumption DEF DaemonTypeOK, SensorTypeOK
<1>2. Batch * Len(commands) \in Nat
  BY <1>1, Products
<1> QED BY <1>1, <1>2 DEF Parts, Pending

LEMMA BatchStep ==
    ASSUME DaemonTypeOK, SensorTypeOK, BetweenBatches, [Next]_vars
    PROVE  BetweenBatches'
<1> USE DEF BetweenBatches, GoTo, DaemonTypeOK, Daemon, Network, Sensor,
    Changers
<1>1. CASE TakeHigh
  BY <1>1 DEF TakeHigh
<1>2. CASE UNCHANGED sample_count /\ (pc'[Sensor] = pc[Sensor] \/ pc'[Sensor] = "take")
  BY <1>2
<1>3. CASE \/ Process \/ Drained \/ NothingDue \/ WatchdogBark
           \/ WatchdogRestart \/ FeedCallback \/ HangCallback
           \/ RecoveryCallback \/ RecoveryDelete \/ MonitorCheck
  BY <1>2, <1>3 DEF Process, Drained, NothingDue, WatchdogBark,
     WatchdogRestart, FeedCallback, HangCallback, RecoveryCallback,
     RecoveryDelete, MonitorCheck, sensorVars
<1>4. CASE \/ NetworkStart \/ NetworkReceive \/ Heartbeat \/ NetworkFeed
           \/ TempCallback \/ LightCallback \/ Select \/ PatternCallback
           \/ Breathe \/ UNCHANGED vars
  BY <1>2, <1>4 DEF NetworkStart, NetworkReceive, Heartbeat, NetworkFeed,
     TempCallback, LightCallback, Select, PatternCallback, Breathe, EndCycle,
     sensorVars, vars
<1>5. CASE TakeLow
  BY <1>5 DEF TakeLow
<1>6. CASE \E c \in Changers : ChangePattern(c) \/ ResetPattern(c)
  BY <1>6 DEF ChangePattern, ResetPattern, sensorVars
<1> QED BY <1>1, <1>3, <1>4, <1>5, <1>6 DEF Next

(* A queue that has a start of the watchdog keeps it, but for the daemon.  *)
LEMMA QueuedStays ==
    ASSUME DaemonTypeOK, NEW op, NEW timer, Send(op, timer)
    PROVE  Queued("watchdog") => Queued("watchdog")'
BY SendQueue DEF Queued, InQueue

(* While the daemon is in its callback, only tasks send.                   *)
LEMMA LoadStep ==
    ASSUME DaemonTypeOK, SensorTypeOK, DaemonTypeOK', SensorTypeOK',
           BetweenBatches, RoomForWatchdog, [Next]_vars
    PROVE  RoomForWatchdog'
<1> SUFFICES ASSUME pc'[Daemon] \in {"due", "bark"}, ~Queued("watchdog")'
             PROVE  Load' <= Batch + SensorLen
  BY DEF RoomForWatchdog
<1>0. Parts /\ Parts'
  BY LoadParts, PTL
<1>1. /\ Len(commands) \in Nat /\ Batch \in Nat \ {0} /\ SensorLen \in Nat
      /\ Pending \in Nat /\ high \in Nat /\ Batch * Len(commands) \in Nat
  BY <1>0 DEF Parts
<1>2. /\ Len(commands') \in Nat /\ Pending' \in Nat /\ Pending' <= Batch
      /\ high' \in Nat /\ high' <= SensorLen /\ Batch * Len(commands') \in Nat
      /\ Load' = Batch * Len(commands') + Pending' + high'
  BY <1>0 DEF Parts, Load
<1> USE DEF GoTo, DaemonTypeOK, Daemon, Network, Sensor, Changers
<1>3. CASE Drained
  <2>1. Len(commands') = 0
    BY <1>3 DEF Drained
  <2>2. Batch * 0 = 0
    BY <1>1
  <2>3. Batch * Len(commands') = 0
    BY <2>1, <2>2
  <2> QED BY <1>1, <1>2, <2>3
<1>4. ASSUME pc[Daemon] \in {"due", "bark"}, ~Queued("watchdog"),
             Batch * Len(commands') + Pending' + high'
                <= Batch * Len(commands) + Pending + high
      PROVE  Load' <= Batch + SensorLen
  <2>1. Batch * Len(commands) + Pending + high <= Batch + SensorLen
    BY <1>4 DEF RoomForWatchdog, Load
  <2> QED BY <1>1, <1>2, <1>4, <2>1
<1>5. ASSUME pc[Daemon] \in {"due", "bark"}, UNCHANGED commands,
             Pending' + high' <= Pending + high
      PROVE  Load' <= Batch + SensorLen
  <2>1. ~Queued("watchdog")
    BY <1>5 DEF Queued
  <2>2. Batch * Len(commands') = Batch * Len(commands)
    BY <1>5
  <2>3. Batch * Len(commands') + Pending' + high'
           <= Batch * Len(commands) + Pending + high
    <3>1. /\ Batch * Len(commands) \in Nat /\ Batch * Len(commands') \in Nat
          /\ Pending \in Nat /\ Pending' \in Nat
          /\ high \in Nat /\ high' \in Nat
      BY <1>1, <1>2
    <3> QED BY <1>5, <2>2, <3>1 DEF Pending
  <2> QED BY <1>4, <1>5, <2>1, <2>3
<1>6. CASE \/ NothingDue \/ WatchdogRestart \/ HangCallback \/ Process
           \/ RecoveryCallback \/ RecoveryDelete \/ FeedCallback
           \/ TempCallback \/ LightCallback \/ PatternCallback \/ Breathe
  BY <1>6 DEF NothingDue, WatchdogRestart, HangCallback, Process,
     RecoveryCallback, RecoveryDelete, FeedCallback, TempCallback,
     LightCallback, PatternCallback, Breathe, EndCycle
<1>7. CASE \/ WatchdogBark \/ MonitorCheck \/ NetworkStart \/ NetworkReceive
           \/ Heartbeat \/ Select \/ ChangePattern(Sensor) \/ UNCHANGED vars
  <2>1. /\ pc[Daemon] \in {"due", "bark"} /\ UNCHANGED commands
        /\ Pending' = Pending /\ high' = high
    BY <1>7 DEF WatchdogBark, MonitorCheck, NetworkStart, NetworkReceive,
       Heartbeat, Select, ChangePattern, vars, sensorVars, Pending
  <2> QED BY <1>1, <1>5, <2>1
<1>8. CASE TakeHigh \/ TakeLow
  <2>1. /\ UNCHANGED commands /\ pc'[Daemon] = pc[Daemon]
        /\ pc[Sensor] = "take" /\ Pending = sample_count
    BY <1>8 DEF TakeHigh, TakeLow, Pending
  <2>2. CASE TakeLow
    BY <1>1, <1>5, <2>1, <2>2 DEF TakeLow, Pending
  <2>3. CASE TakeHigh
    <3>1. high' = high - 1
      BY <2>3 DEF TakeHigh
    <3>2. Pending' <= sample_count + 1
      <4>1. CASE UNCHANGED sample_count /\ GoTo(Sensor, "select")
        BY <1>1, <2>1, <4>1 DEF Pending
      <4>2. CASE sample_count' = sample_count + 1 /\ GoTo(Sensor, "select")
        BY <1>1, <2>1, <4>2 DEF Pending
      <4>3. CASE sample_count + 1 >= Batch
        BY <1>1, <1>2, <2>1, <4>3
      <4> QED BY <2>3, <4>1, <4>2, <4>3 DEF TakeHigh
    <3>3. Pending' + high' <= Pending + high
      <4>1. Pending \in Nat /\ Pending' \in Nat /\ high \in Nat
        BY <1>1, <1>2
      <4>2. Pending' <= Pending + 1
        BY <2>1, <3>2
      <4> QED BY <3>1, <4>1, <4>2 DEF Pending
    <3> QED BY <1>5, <2>1, <3>3
  <2> QED BY <1>8, <2>2, <2>3
<1>9. CASE NetworkFeed
  <2>1. /\ Send("start", "watchdog") /\ high' = high
        /\ pc'[Daemon] = pc[Daemon] /\ Pending' = Pending
    BY <1>9 DEF NetworkFeed, sensorVars, Pending
  <2>2. UNCHANGED commands
    <3>1. ~InQueue(Cmd("start", "watchdog"))'
      BY DEF Queued, InQueue, Cmd
    <3>2. Len(commands') = Len(commands) + 1
             => commands'[Len(commands) + 1] # Cmd("start", "watchdog")
      BY <1>1, <3>1 DEF InQueue
    <3> QED BY <2>1, <3>2, SendEnds
  <2> QED BY <1>1, <1>5, <2>1, <2>2
<1>10. CASE ChangePattern(Daemon) \/ ResetPattern(Daemon)
  BY <1>10 DEF ChangePattern, ResetPattern
<1>11. CASE ResetPattern(Sensor)
  <2>1. /\ Send("start", "pattern") /\ high' = high
        /\ pc'[Daemon] = pc[Daemon] /\ Pending = Batch /\ Pending' = 0
    BY <1>11 DEF ResetPattern, sensorVars, Pending, BetweenBatches
  <2>2. ~Queued("watchdog")
    BY <2>1, QueuedStays
  <2>3. Len(commands') = Len(commands) + 1 \/ Len(commands') = Len(commands)
    BY <2>1, SendEnds
  <2>4. Batch * (Len(commands) + 1) = Batch * Len(commands) + Batch
    BY <1>1, Products
  <2>5. Batch * Len(commands') <= Batch * Len(commands) + Batch
    BY <1>1, <2>3, <2>4
  <2> QED BY <1>1, <1>2, <1>4, <2>1, <2>2, <2>5
<1> QED BY <1>3, <1>6, <1>7, <1>8, <1>9, <1>10, <1>11 DEF Next

(* No command stops the watchdog; its callback ends with its start, and    *)
(* the queue has room for that, unless there is one already.               *)
LEMMA ArmedStep ==
    ASSUME DaemonTypeOK, SensorTypeOK, RoomForWatchdog, WatchdogArmed, [Next]_vars
    PROVE  WatchdogArmed'
<1> USE DEF WatchdogArmed, GoTo, DaemonTypeOK, Daemon, Network, Sensor, Changers
<1>1. CASE Process
  <2> DEFINE c == Head(commands)
  <2>1. commands # <<>> /\ commands' = Tail(commands) /\ pc[Daemon] = "drain"
    BY <1>1 DEF Process
  <2>2. c \in Command
    BY <2>1 DEF DaemonTypeOK
  <2>3. "watchdog" \in active \/ c = Cmd("start", "watchdog") => "watchdog" \in active'
    BY <1>1, <2>2 DEF Process, Command, Cmd
  <2>4. /\ Queued("watchdog") <=> InQueue(Cmd("start", "watchdog"))
        /\ Queued("watchdog")' <=> InQueue(Cmd("start", "watchdog"))'
    BY DEF Queued, InQueue, Cmd
  <2>5. InQueue(Cmd("start", "watchdog")) =>
           InQueue(Cmd("start", "watchdog"))' \/ c = Cmd("start", "watchdog")
    BY <2>1, TakeQueue
  <2> QED BY <2>1, <2>3, <2>4, <2>5
<1>2. CASE WatchdogRestart
  <2>1. Send("start", "watchdog") /\ pc[Daemon] = "bark"
    BY <1>2 DEF WatchdogRestart
  <2>2. CASE Queued("watchdog")
    BY <2>1, <2>2, QueuedStays
  <2>3. CASE ~Queued("watchdog")
    <3>1. Load <= Batch + SensorLen
      BY <2>1, <2>3 DEF RoomForWatchdog
    <3>2. /\ Len(commands) \in Nat /\ Batch \in Nat \ {0} /\ SensorLen \in Nat
          /\ Pending \in Nat /\ high \in Nat /\ Batch * Len(commands) \in Nat
      BY LoadParts DEF Parts
    <3>4. Batch * Len(commands) <= Batch + SensorLen
      BY <3>1, <3>2 DEF Load
    <3>5. CommandLen - 1 \in Nat /\ SensorLen < Batch * (CommandLen - 1)
      BY TimerAssumption
    <3>6. Batch * CommandLen = Batch * (CommandLen - 1) + Batch
          /\ Batch * CommandLen \in Nat
      BY <3>2, <3>5, TimerAssumption, Products
    <3>7. Len(commands) < CommandLen
      <4>1. CASE CommandLen <= Len(commands)
        <5>1. Batch * CommandLen <= Batch * Len(commands)
          BY <3>2, <4>1, TimerAssumption, Products
        <5>2. Batch * (CommandLen - 1) \in Nat
          BY <3>2, <3>5, Products
        <5> QED BY <3>2, <3>4, <3>5, <3>6, <5>1, <5>2
      <4> QED BY <3>2, <4>1, TimerAssumption
    <3>8. commands' = Append(commands, Cmd("start", "watchdog"))
      BY <2>1, <3>7 DEF Send, Cmd
    <3>9. Len(commands') = Len(commands) + 1
          /\ commands'[Len(commands) + 1] = Cmd("start", "watchdog")
      BY <3>8 DEF DaemonTypeOK
    <3> QED BY <3>2, <3>9 DEF Queued, Cmd
  <2> QED BY <2>2, <2>3
<1>3. CASE WatchdogBark
  BY <1>3 DEF WatchdogBark
<1>4. ASSUME "watchdog" \in active => "watchdog" \in active',
             pc[Daemon] # "bark" \/ pc'[Daemon] = "bark",
             Queued("watchdog") => Queued("watchdog")'
      PROVE  WatchdogArmed'
  BY <1>4
<1>5. UNCHANGED commands => (Queued("watchdog") => Queued("watchdog")')
  BY DEF Queued
<1>6. CASE \/ Drained \/ NothingDue \/ MonitorCheck \/ NetworkStart
           \/ NetworkReceive \/ Heartbeat \/ LightCallback \/ Select
           \/ TakeHigh \/ TakeLow \/ UNCHANGED vars
           \/ \E c \in Changers : ChangePattern(c)
  BY <1>4, <1>5, <1>6 DEF Drained, NothingDue, MonitorCheck, NetworkStart,
     NetworkReceive, Heartbeat, LightCallback, Select, TakeHigh, TakeLow,
     ChangePattern, vars, watchVars
<1>7. CASE HangCallback \/ RecoveryCallback \/ RecoveryDelete
  BY <1>4, <1>7, QueuedStays DEF HangCallback, RecoveryCallback, RecoveryDelete
<1>8. CASE NetworkFeed \/ TempCallback \/ \E c \in Changers : ResetPattern(c)
  BY <1>4, <1>8, QueuedStays DEF NetworkFeed, TempCallback, ResetPattern
<1>9. CASE FeedCallback
  BY <1>4, <1>5, <1>9, QueuedStays DEF FeedCallback
<1>10. CASE PatternCallback \/ Breathe
  BY <1>4, <1>5, <1>10, QueuedStays DEF PatternCallback, Breathe, EndCycle
<1> QED BY <1>1, <1>2, <1>3, <1>6, <1>7, <1>8, <1>9, <1>10 DEF Next

-----------------------------------------------------------------------------
(* The theorems                                                            *)

Inv ==
    TypeOK /\ UnhealthyHasReason /\ Announced /\ Fading /\ FeedInv /\ WatchInv

LEMMA Initially == Init => Inv
<1> SUFFICES ASSUME Init PROVE Inv
  OBVIOUS
<1> USE TimerAssumption DEF Init, Daemon, Network, Sensor
<1>1. DaemonTypeOK /\ WatchTypeOK /\ LedTypeOK
  BY DEF DaemonTypeOK, WatchTypeOK, LedTypeOK, Startable, Pattern
<1>2. SensorTypeOK
  BY DEF SensorTypeOK
<1>3. UnhealthyHasReason /\ Announced /\ Fading
  BY DEF UnhealthyHasReason, Announced, Looking, Fading, Reached
<1>4. FeedInv
  BY DEF FeedInv, BeforeHang, StopComesFirst, DeleteComesLast, InQueue, FeedsResume
<1>5. WatchInv
  BY DEF WatchInv, BetweenBatches, RoomForWatchdog, WatchdogArmed
<1> QED BY <1>1, <1>2, <1>3, <1>4, <1>5 DEF Inv, TypeOK

LEMMA Stepwise == Inv /\ [Next]_vars => Inv'
<1> SUFFICES ASSUME Inv, [Next]_vars PROVE Inv'
  OBVIOUS
<1>1. TypeOK' /\ UnhealthyHasReason' /\ Announced' /\ Fading' /\ FeedInv'
  BY DaemonStep, WatchStep, HealthStep, SensorStep, LedStep, FeedStep DEF Inv, TypeOK
<1>2. WatchInv'
  BY <1>1, BatchStep, LoadStep, ArmedStep DEF Inv, TypeOK, WatchInv
<1> QED BY <1>1, <1>2 DEF Inv

LEMMA Invariance == Spec => []Inv
BY Initially, Stepwise, PTL DEF Spec

(* Every variable keeps its type; the commands the daemon receives are the *)
(* ones the program can send.                                              *)
THEOREM TypeCorrect == Spec => []TypeOK
<1>1. Inv => TypeOK
  BY DEF Inv
<1> QED BY <1>1, Invariance, PTL

(* No fade wraps below zero or turns, with any number of callbacks to a    *)
(* pattern that a maximum above their steps allows (483).                  *)
THEOREM FadeIsSafe == Spec => []BreatheNeverWraps
<1>1. Inv => BreatheNeverWraps
  <2> SUFFICES ASSUME Inv PROVE 0 <= faded /\ faded < MAX_BRIGHTNESS /\ direction = 1
    BY DEF Inv, BreatheNeverWraps
  <2>1. LedTypeOK /\ Fading
    BY DEF Inv, TypeOK
  <2>2. /\ Fade * (cycle + 1) \in Nat /\ Fade * Cycles \in Nat
        /\ Fade * (cycle + 1) <= Fade * Cycles /\ Fade * Cycles < MAX_BRIGHTNESS
    BY <2>1, FadeBounds DEF LedTypeOK
  <2>3. MAX_BRIGHTNESS \in Nat
    BY TimerAssumption
  <2> QED BY <2>1, <2>2, <2>3 DEF Fading, LedTypeOK
<1> QED BY <1>1, Invariance, PTL

(* The flag that the watchdog's callback clears (328) is set again before  *)
(* the daemon can report it; only too many timeouts leave it cleared.      *)
THEOREM IllnessHasReason == Spec => []UnhealthyHasReason
<1>1. Inv => UnhealthyHasReason
  BY DEF Inv
<1> QED BY <1>1, Invariance, PTL

(* No temperature waits in its queue without an announcement, although the *)
(* task does not ask which queue was announced (655).                      *)
THEOREM TemperaturesAreAnnounced == Spec => []HighIsAnnounced
<1>1. Inv => HighIsAnnounced
  BY DEF Inv, Announced, Looking, HighIsAnnounced
<1> QED BY <1>1, Invariance, PTL

(* After the simulated hang (361) the feeding resumes, unless a start was  *)
(* refused.                                                                *)
THEOREM FeedingResumes == Spec => []FeedsResume
<1>1. Inv => FeedsResume
  BY DEF Inv, FeedInv
<1> QED BY <1>1, Invariance, PTL

(* The watchdog is never lost: when its callback starts it again (343),    *)
(* there is room for the command, or another start is in the queue.        *)
THEOREM WatchdogIsArmed == Spec => []WatchdogArmed
<1>1. Inv => WatchdogArmed
  BY DEF Inv, WatchInv
<1> QED BY <1>1, Invariance, PTL

(* A light queue that is full with no announcement left stays so (655).    *)
THEOREM DeadLightStaysDead == Spec => LightStaysDead
<1>1. Inv /\ [Next]_vars => [LightIsDead => LightIsDead']_vars
  <2> SUFFICES ASSUME Inv, Next, LightIsDead
               PROVE  LightIsDead'
    BY DEF vars
  <2>1. /\ set \in Seq({"temp", "light"}) /\ SensorLen \in Nat /\ low = SensorLen
        /\ active_queue # "light" /\ \A n \in 1..Len(set) : set[n] # "light"
    BY TimerAssumption DEF Inv, TypeOK, SensorTypeOK, LightIsDead
  <2>2. CASE TempCallback
    <3>1. UNCHANGED <<low, active_queue>> /\ set' \in {set, Append(set, "temp")}
      BY <2>2 DEF TempCallback
    <3> QED BY <2>1, <3>1 DEF LightIsDead
  <2>3. CASE LightCallback
    BY <2>1, <2>3 DEF LightCallback, Saturate, LightIsDead
  <2>4. CASE Select
    <3>1. /\ UNCHANGED low /\ set # <<>>
          /\ active_queue' = Head(set) /\ set' = Tail(set)
      BY <2>4 DEF Select
    <3> QED BY <2>1, <3>1 DEF LightIsDead
  <2>5. CASE TakeHigh \/ TakeLow
    BY <2>1, <2>5 DEF TakeHigh, TakeLow, LightIsDead
  <2>6. CASE UNCHANGED <<low, set, active_queue>>
    BY <2>1, <2>6 DEF LightIsDead
  <2>7. CASE \/ Process \/ Drained \/ NothingDue \/ WatchdogBark
             \/ WatchdogRestart \/ FeedCallback \/ HangCallback
             \/ RecoveryCallback \/ RecoveryDelete \/ MonitorCheck
    BY <2>6, <2>7 DEF Process, Drained, NothingDue, WatchdogBark,
       WatchdogRestart, FeedCallback, HangCallback, RecoveryCallback,
       RecoveryDelete, MonitorCheck, sensorVars
  <2>8. CASE \/ NetworkStart \/ NetworkReceive \/ Heartbeat \/ NetworkFeed
             \/ PatternCallback \/ Breathe
             \/ \E c \in Changers : ChangePattern(c) \/ ResetPattern(c)
    BY <2>6, <2>8 DEF NetworkStart, NetworkReceive, Heartbeat, NetworkFeed,
       PatternCallback, Breathe, ChangePattern, ResetPattern, sensorVars
  <2> QED BY <2>2, <2>3, <2>4, <2>5, <2>7, <2>8 DEF Next
<1> QED BY <1>1, Invariance, PTL DEF Spec, LightStaysDead

=============================================================================
