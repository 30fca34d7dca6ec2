--------------------------- MODULE SmartHome_proofs ---------------------------
(***************************************************************************)
(* What the pattern engine can and cannot detect, and that an emergency is *)
(* handled, for every history, window and sequence of events.              *)
(***************************************************************************)
EXTENDS SmartHome, SequenceTheorems, TLAPS

Record == [seen : [Signals -> Nat], age : Nat]

(* What the argument needs of types: ages are numbers, tried is an index.  *)
Aged ==
    /\ history \in Seq(Record)
    /\ sensor \in [Signals -> Nat]
    /\ events \in Nat
    /\ tried \in DOMAIN Patterns

(* While the engine is past the first pattern, normal entry was not in the *)
(* history, and the history is still the one it looked at.                 *)
EntryFound == Found("normal entry")
EntryFirst == engine = "checking" /\ tried > 1 => ~EntryFound

(* Where stamps come from: a bit that is set is newer than all records, or *)
(* it is the one the newest record has just taken and not yet cleared.     *)
Newer(n) == \A j \in DOMAIN history, t \in Signals : history[j].seen[t] < n
Stamps ==
    /\ \A s \in Signals : sensor[s] <= events
    /\ \A j \in DOMAIN history, s \in Signals : history[j].seen[s] <= events
    /\ engine # "waiting" => 1 \in DOMAIN history
    /\ \A s \in Signals : sensor[s] > 0 =>
          \/ Newer(sensor[s])
          \/ engine # "waiting" /\ sensor[s] = history[1].seen[s]
    /\ engine # "waiting" => \A s \in Signals :
          history[1].seen[s] > 0 => sensor[s] = history[1].seen[s]

HomeInv == Aged /\ EntryFirst /\ ReturningIsShadowed /\ Stamps /\ HistoryInOrder

-----------------------------------------------------------------------------

(* What is within a window is within a longer one.                         *)
LEMMA Longer ==
    ASSUME NEW a \in Nat, NEW b \in Nat, NEW w \in Nat, NEW v \in Nat, w <= v
    PROVE  /\ a <= w => a <= v
           /\ b <= a + w => b <= a + v
  OBVIOUS

(* The two patterns and what they need.                                    *)
LEMMA SameEvents ==
    /\ DOMAIN Patterns = 1..6
    /\ Patterns[1] = "normal entry" /\ Patterns[6] = "returning"
    /\ \A k \in 1..5 : Patterns[k] # "returning"
    /\ {"normal entry", "returning"} \subseteq Names
    /\ Required["returning"] = Required["normal entry"]
    /\ DOMAIN Required["returning"] = 1..3
<1>1. /\ Patterns[1] = "normal entry" /\ Patterns[6] = "returning"
      /\ \A k \in 1..5 : Patterns[k] # "returning"
  <2>1. /\ Patterns[1] = "normal entry" /\ Patterns[2] = "break-in"
        /\ Patterns[3] = "goodnight" /\ Patterns[4] = "wake-up"
        /\ Patterns[5] = "leaving" /\ Patterns[6] = "returning"
    BY DEF Patterns
  <2>2. \A k \in 1..5 : k = 1 \/ k = 2 \/ k = 3 \/ k = 4 \/ k = 5
    OBVIOUS
  <2> QED
    BY <2>1, <2>2
<1>a. DOMAIN Patterns = 1..6
  BY DEF Patterns
<1>2. {"normal entry", "returning"} \subseteq Names
  <2>1. Patterns[1] \in Names /\ Patterns[6] \in Names
    BY <1>a DEF Names
  <2> QED
    BY <2>1, <1>1
<1>3. /\ Required["returning"] = <<"closed", "motion", "opened">>
      /\ Required["normal entry"] = <<"closed", "motion", "opened">>
  BY <1>2 DEF Required
<1>4. DOMAIN Required["returning"] = 1..3
  <2>1. DOMAIN <<"closed", "motion", "opened">> = 1..3
    OBVIOUS
  <2> QED
    BY <2>1, <1>3, Zenon
<1> QED
  BY <1>1, <1>a, <1>2, <1>3, <1>4

(* Six patterns, normal entry the first of them.                           *)
LEMMA SixPatterns ==
    /\ DOMAIN Patterns = 1..6 /\ 1 \in DOMAIN Patterns
    /\ Patterns[1] = "normal entry"
<1>1. DOMAIN Patterns = 1..6 /\ Patterns[1] = "normal entry"
  BY SameEvents, Zenon
<1>2. 1 \in 1..6
  OBVIOUS
<1> QED
  BY <1>1, <1>2, Zenon

(* A history that shows somebody coming home shows a normal entry.         *)
LEMMA ReturningIsEntry ==
    ASSUME Aged, Found("returning")
    PROVE  EntryFound
<1> DEFINE need == Required["returning"]
<1>1. need = Required["normal entry"]
  BY SameEvents
<1>a. DOMAIN need = 1..3
  BY SameEvents
<1>2. PICK at \in [DOMAIN need -> DOMAIN history] :
           /\ IsNewest(at[1], 0, need[1])
           /\ history[at[1]].age <= Window["returning"]
           /\ \A k \in DOMAIN need \ {1} :
                 /\ IsNewest(at[k], at[k-1], need[k])
                 /\ history[at[k]].age <= history[at[1]].age + Window["returning"]
  BY DEF Found
<1>3. /\ Window["returning"] \in Nat /\ Window["normal entry"] \in Nat
      /\ Window["returning"] <= Window["normal entry"]
  BY SameEvents, HomeAssumption DEF HomeAssumption
<1> HIDE DEF need
<1>4. \A k \in DOMAIN need : at[k] \in DOMAIN history
  BY <1>2
<1>5. ASSUME NEW j \in DOMAIN history
      PROVE  history[j].age \in Nat
  <2>1. history[j] \in Record
    BY DEF Aged
  <2> QED
    BY <2>1 DEF Record
<1>6. 1 \in DOMAIN need
  BY <1>a
<1>7. history[at[1]].age <= Window["normal entry"]
  BY <1>2, <1>3, <1>4, <1>5, <1>6, Longer, Zenon
<1>8. ASSUME NEW k \in DOMAIN need \ {1}
      PROVE  history[at[k]].age <= history[at[1]].age + Window["normal entry"]
  <2>1. history[at[k]].age \in Nat /\ history[at[1]].age \in Nat
    BY <1>4, <1>5, <1>6
  <2>2. history[at[k]].age <= history[at[1]].age + Window["returning"]
    BY <1>2
  <2> QED
    BY <2>1, <2>2, <1>3, Longer, Zenon
<1> QED
  BY <1>1, <1>2, <1>7, <1>8 DEF EntryFound, Found

(* What the ring holds after a new record has been added.                  *)
Kept(longer) == SubSeq(longer, 1, IF Len(longer) > HistorySize
                                  THEN HistorySize ELSE Len(longer))
Entered(h2, h, r) ==
    /\ h2 \in Seq(Record)
    /\ Len(h2) >= 1 /\ Len(h2) <= Len(h) + 1 /\ Len(h2) <= HistorySize
    /\ h2[1] = r
    /\ \A i \in 2..Len(h2) : h2[i] = h[i-1]
LEMMA Prepended ==
    \A h \in Seq(Record), r \in Record : Entered(Kept(<<r>> \o h), h, r)
<1> SUFFICES ASSUME NEW h \in Seq(Record), NEW r \in Record,
                    NEW h2, h2 = Kept(<<r>> \o h)
             PROVE  Entered(h2, h, r)
  OBVIOUS
<1> DEFINE longer == <<r>> \o h
<1> DEFINE m == IF Len(longer) > HistorySize THEN HistorySize ELSE Len(longer)
<1>1. <<r>> \in Seq(Record) /\ Len(<<r>>) = 1 /\ <<r>>[1] = r
  OBVIOUS
<1>2. /\ longer \in Seq(Record)
      /\ Len(longer) = 1 + Len(h)
      /\ \A i \in 1..(1 + Len(h)) : longer[i] = IF i <= 1 THEN <<r>>[i] ELSE h[i-1]
  BY <1>1, ConcatProperties
<1>3. Len(h) \in Nat
  OBVIOUS
<1>s. HistorySize \in Nat \ {0}
  BY HomeAssumption DEF HomeAssumption
<1>4. m \in Nat /\ 1 <= m /\ m <= 1 + Len(h) /\ m <= HistorySize
  BY <1>2, <1>3, <1>s
<1>5. \A i \in 1..m : longer[i] \in Record
  <2> SUFFICES ASSUME NEW i \in 1..m PROVE longer[i] \in Record
    OBVIOUS
  <2>1. i \in 1..Len(longer)
    BY <1>2, <1>3, <1>4
  <2> QED
    BY <2>1, <1>2, ElementOfSeq
<1> HIDE DEF m
<1>6. /\ SubSeq(longer, 1, m) \in Seq(Record)
      /\ Len(SubSeq(longer, 1, m)) = IF 1 <= m THEN m - 1 + 1 ELSE 0
      /\ \A i \in 1..(m - 1 + 1) : SubSeq(longer, 1, m)[i] = longer[1 + i - 1]
  BY <1>4, <1>5, SubSeqProperties
<1>7. h2 = SubSeq(longer, 1, m)
  BY DEF m, Kept
<1>8. h2 \in Seq(Record) /\ Len(h2) = m
  <2>1. Len(SubSeq(longer, 1, m)) = m
    BY <1>4, <1>6
  <2> QED
    BY <2>1, <1>6, <1>7, Zenon
<1>9. ASSUME NEW i \in 1..m PROVE h2[i] = IF i <= 1 THEN r ELSE h[i-1]
  <2>1. i \in 1..(m - 1 + 1) /\ 1 + i - 1 = i /\ i \in 1..(1 + Len(h))
    BY <1>3, <1>4
  <2>2. h2[i] = longer[i]
    BY <2>1, <1>6, <1>7
  <2>3. i <= 1 => i = 1
    OBVIOUS
  <2> QED
    BY <2>1, <2>2, <2>3, <1>1, <1>2
<1>a. h2[1] = r
  <2>1. 1 \in 1..m /\ 1 <= 1
    BY <1>4
  <2> QED
    BY <2>1, <1>9, Zenon
<1>b. ASSUME NEW i \in 2..m PROVE h2[i] = h[i-1]
  <2>1. i \in 1..m /\ ~(i <= 1)
    BY <1>4
  <2> QED
    BY <2>1, <1>9, Zenon
<1> QED
  BY <1>3, <1>4, <1>8, <1>a, <1>b DEF Entered

-----------------------------------------------------------------------------
(* The steps                                                               *)

LEMMA Types ==
    ASSUME Aged
    PROVE  /\ \A j \in DOMAIN history : history[j] \in Record
           /\ \A j \in DOMAIN history, s \in Signals : history[j].seen[s] \in Nat
           /\ \A s \in Signals : sensor[s] \in Nat
<1>1. \A j \in DOMAIN history : history[j] \in Record
  BY DEF Aged
<1>2. \A r \in Record : \A s \in Signals : r.seen[s] \in Nat
  BY DEF Record
<1>3. \A s \in Signals : sensor[s] \in Nat
  BY DEF Aged
<1> QED
  BY <1>1, <1>2, <1>3, Zenon

(* With the same history the same patterns are found.                      *)
LEMMA SameHistory ==
    ASSUME history' = history
    PROVE  EntryFound' <=> EntryFound
  BY DEF EntryFound, Found, IsNewest, Older

(* What the engine and the sensors do not do changes nothing.              *)
LEMMA Aside ==
    ASSUME HomeInv, UNCHANGED <<sensor, events, history, engine, tried>>
    PROVE  HomeInv'
<1>1. Aged'
  BY DEF HomeInv, Aged
<1>2. EntryFirst'
  BY SameHistory DEF HomeInv, EntryFirst
<1>3. ReturningIsShadowed'
  BY DEF HomeInv, ReturningIsShadowed
<1>4. Stamps'
  BY DEF HomeInv, Stamps, Newer
<1>5. HistoryInOrder'
  BY DEF HomeInv, HistoryInOrder
<1> QED
  BY <1>1, <1>2, <1>3, <1>4, <1>5 DEF HomeInv

(* A new event gets the highest number.                                    *)
LEMMA SignalStep ==
    ASSUME HomeInv, NEW s \in Signals, Signal(s)
    PROVE  HomeInv'
<1>1. /\ events \in Nat /\ events' = events + 1
      /\ UNCHANGED <<history, engine, tried>>
      /\ sensor' = IF sensor[s] = 0 THEN [sensor EXCEPT ![s] = events + 1] ELSE sensor
      /\ sensor \in [Signals -> Nat]
  BY DEF HomeInv, Aged, Signal, engineVars
<1>2. \A t \in Signals : sensor'[t] = sensor[t]
                         \/ (t = s /\ sensor[s] = 0 /\ sensor'[t] = events + 1)
  BY <1>1
<1>3. Aged'
  <2>1. sensor' \in [Signals -> Nat]
    BY <1>1
  <2> QED
    BY <1>1, <2>1 DEF HomeInv, Aged
<1>4. EntryFirst' /\ ReturningIsShadowed' /\ HistoryInOrder'
  BY <1>1, SameHistory DEF HomeInv, EntryFirst, ReturningIsShadowed, HistoryInOrder
<1>5. Stamps'
  <2>1. /\ \A j \in DOMAIN history, t \in Signals :
              history[j].seen[t] \in Nat /\ history[j].seen[t] <= events
        /\ \A t \in Signals : sensor[t] \in Nat /\ sensor[t] <= events
    BY Types DEF HomeInv, Stamps
  <2>2. Newer(events + 1)
    BY <1>1, <2>1 DEF Newer
  <2>3. \A t \in Signals : sensor'[t] <= events'
    BY <1>1, <1>2, <2>1
  <2>4. \A j \in DOMAIN history', t \in Signals : history'[j].seen[t] <= events'
    BY <1>1, <2>1
  <2>5. engine' # "waiting" => 1 \in DOMAIN history'
    BY <1>1 DEF HomeInv, Stamps
  <2>6. ASSUME NEW t \in Signals, sensor'[t] > 0
        PROVE  \/ Newer(sensor'[t])
               \/ engine # "waiting" /\ sensor'[t] = history[1].seen[t]
    BY <1>2, <2>2, <2>6 DEF HomeInv, Stamps
  <2>7. \A n : Newer(n)' <=> Newer(n)
    BY <1>1 DEF Newer
  <2>8. ASSUME engine # "waiting", NEW t \in Signals, history[1].seen[t] > 0
        PROVE  sensor'[t] = history[1].seen[t]
    <3>1. sensor[t] = history[1].seen[t]
      BY <2>8 DEF HomeInv, Stamps
    <3>2. sensor[t] # 0
      BY <2>8, <3>1
    <3> QED
      BY <1>2, <3>1, <3>2
  <2> QED
    BY <1>1, <2>3, <2>4, <2>5, <2>6, <2>7, <2>8 DEF Stamps, Newer
<1> QED
  BY <1>3, <1>4, <1>5 DEF HomeInv

(* A record that is taken is newer than all others: the engine waited, so  *)
(* every bit that was set was set after the last one was cleared.          *)
LEMMA RecognizeStep ==
    ASSUME HomeInv, Recognize
    PROVE  HomeInv'
<1> DEFINE r == [seen |-> sensor, age |-> 0]
<1>1. /\ engine = "waiting" /\ engine' = "checking" /\ tried' = 1
      /\ sensor' = sensor /\ events' = events
  BY DEF Recognize, sensorVars
<1>2. history \in Seq(Record) /\ r \in Record
  BY DEF HomeInv, Aged, Record
<1>3. /\ history' \in Seq(Record)
      /\ Len(history') >= 1 /\ Len(history') <= Len(history) + 1
      /\ history'[1] = r
      /\ \A i \in 2..Len(history') : history'[i] = history[i-1]
  <2>1. history' = Kept(<<r>> \o history)
    BY DEF Recognize, Kept
  <2> HIDE DEF r
  <2>2. Entered(history', history, r)
    BY <1>2, <2>1, Prepended, Zenon
  <2> QED
    BY <2>2 DEF Entered
<1>4. r.seen = sensor
  OBVIOUS
<1> HIDE DEF r
<1>5. /\ Len(history) \in Nat /\ Len(history') \in Nat
      /\ DOMAIN history = 1..Len(history) /\ DOMAIN history' = 1..Len(history')
  BY <1>2, <1>3
<1>6. ASSUME NEW i \in DOMAIN history', i # 1
      PROVE  i - 1 \in DOMAIN history /\ history'[i] = history[i-1]
  BY <1>3, <1>5, <1>6
<1>7. 1 \in DOMAIN history'
  BY <1>3, <1>5
<1>8. /\ \A s \in Signals : sensor[s] \in Nat /\ sensor[s] <= events
      /\ \A j \in DOMAIN history, s \in Signals :
            history[j].seen[s] \in Nat /\ history[j].seen[s] <= events
  BY Types DEF HomeInv, Stamps
<1>9. \A s \in Signals : sensor[s] > 0 => Newer(sensor[s])
  BY <1>1 DEF HomeInv, Stamps
<1>10. Aged'
  <2>1. 1 \in DOMAIN Patterns
    BY SixPatterns
  <2> QED
    BY <1>1, <1>3, <2>1 DEF HomeInv, Aged
<1>11. EntryFirst' /\ ReturningIsShadowed'
  BY <1>1 DEF EntryFirst, ReturningIsShadowed
<1>12. Stamps'
  <2>1. \A j \in DOMAIN history', s \in Signals : history'[j].seen[s] <= events'
    BY <1>1, <1>3, <1>4, <1>6, <1>8
  <2>2. \A s \in Signals : sensor'[s] = history'[1].seen[s]
    BY <1>1, <1>3, <1>4
  <2> QED
    BY <1>1, <1>7, <1>8, <2>1, <2>2 DEF Stamps
<1>13. HistoryInOrder'
  <2> SUFFICES ASSUME NEW i \in DOMAIN history', NEW j \in DOMAIN history', i < j,
                      NEW s \in Signals, NEW t \in Signals,
                      history'[i].seen[s] > 0
               PROVE  history'[j].seen[t] < history'[i].seen[s]
    BY DEF HistoryInOrder
  <2>1. j # 1 /\ j - 1 \in DOMAIN history /\ history'[j] = history[j-1]
    BY <1>5, <1>6
  <2>2. CASE i = 1
    <3>1. sensor[s] > 0 /\ history'[i].seen[s] = sensor[s]
      BY <1>3, <1>4, <2>2
    <3>2. Newer(sensor[s])
      BY <1>9, <3>1
    <3>3. history[j-1].seen[t] < sensor[s]
      BY <2>1, <3>2, Zenon DEF Newer
    <3> QED
      BY <2>1, <3>1, <3>3, Zenon
  <2>3. CASE i # 1
    <3>1. i - 1 \in DOMAIN history /\ history'[i] = history[i-1] /\ i - 1 < j - 1
      BY <1>5, <1>6, <2>3
    <3> QED
      BY <2>1, <3>1 DEF HomeInv, HistoryInOrder
  <2> QED
    BY <2>2, <2>3
<1> QED
  BY <1>10, <1>11, <1>12, <1>13 DEF HomeInv

(* The search: normal entry comes first, so a history that shows somebody  *)
(* coming home ends the search before the other pattern is looked at.      *)
LEMMA CheckStep ==
    ASSUME HomeInv, Check
    PROVE  HomeInv'
<1>1. /\ engine = "checking"
      /\ UNCHANGED <<sensor, events, history>>
  BY DEF Check, sensorVars
<1>2. DOMAIN Patterns = 1..6 /\ Len(Patterns) = 6
  <2>1. Len(Patterns) = 6
    BY DEF Patterns
  <2> QED
    BY <2>1, SameEvents
<1>3. tried \in 1..6
  BY <1>2 DEF HomeInv, Aged
<1>4. Stamps' /\ HistoryInOrder'
  <2>1. engine' # "waiting"
    BY DEF Check
  <2> QED
    BY <1>1, <2>1 DEF HomeInv, Stamps, HistoryInOrder, Newer
<1>5. history' \in Seq(Record) /\ sensor' \in [Signals -> Nat] /\ events' \in Nat
  BY <1>1 DEF HomeInv, Aged
<1>6. CASE engine' = "unmatched" /\ UNCHANGED tried
  BY <1>4, <1>5, <1>6 DEF HomeInv, Aged, EntryFirst, ReturningIsShadowed
<1>7. ASSUME NEW k \in Candidates, \A l \in Candidates : k <= l,
             IF Applicable(Patterns[k])
             THEN engine' = "matched" /\ tried' = k
             ELSE /\ engine' = IF k = Len(Patterns) THEN "unmatched" ELSE engine
                  /\ tried' = IF k = Len(Patterns) THEN k ELSE k + 1
      PROVE  HomeInv'
  <2>1. k \in 1..6 /\ Found(Patterns[k])
    BY <1>2, <1>7 DEF Candidates
  <2>2. tried = 1 /\ EntryFound => k = 1
    <3> SUFFICES ASSUME tried = 1, EntryFound PROVE k = 1
      OBVIOUS
    <3>0. 1 >= tried
      OBVIOUS
    <3>1. Found(Patterns[1])
      BY SixPatterns, Zenon DEF EntryFound
    <3>2. 1 \in DOMAIN Patterns /\ 1 >= tried
      BY SixPatterns, Zenon, <3>0
    <3>3. 1 \in Candidates
      BY <3>1, <3>2, Zenon DEF Candidates
    <3>4. k <= 1
      BY <1>7, <3>3, Zenon
    <3> QED
      BY <2>1, <3>4
  <2>3. Applicable("normal entry")
    BY DEF Applicable
  <2>4. EntryFound => tried = 1
    <3>1. tried > 1 => ~EntryFound
      BY <1>1, Zenon DEF HomeInv, EntryFirst
    <3> QED
      BY <1>3, <3>1
  <2>5. CASE Applicable(Patterns[k])
    <3>1. engine' = "matched" /\ tried' = k
      BY <1>7, <2>5
    <3>2. Patterns[k] # "returning"
      <4> SUFFICES ASSUME Patterns[k] = "returning" PROVE FALSE
        OBVIOUS
      <4>1. k # 1
        BY SameEvents
      <4>2. EntryFound
        BY <2>1, ReturningIsEntry DEF HomeInv
      <4> QED
        BY <2>2, <2>4, <4>1, <4>2
    <3> QED
      BY <1>2, <1>4, <1>5, <2>1, <3>1, <3>2
      DEF HomeInv, Aged, EntryFirst, ReturningIsShadowed
  <2>6. CASE ~Applicable(Patterns[k])
    <3>1. k # 1
      BY <2>3, <2>6, SameEvents
    <3>2. ~EntryFound
      BY <2>2, <2>4, <3>1
    <3>3. ~EntryFound'
      BY <1>1, <3>2, SameHistory
    <3>4. tried' \in 1..6 /\ engine' \in {"unmatched", "checking"}
      BY <1>1, <1>2, <1>7, <2>1, <2>6
    <3> QED
      BY <1>2, <1>4, <1>5, <3>3, <3>4
      DEF HomeInv, Aged, EntryFirst, ReturningIsShadowed
  <2> QED
    BY <2>5, <2>6
<1> QED
  BY <1>6, <1>7 DEF Check

(* Acting on a pattern neither reads nor writes sensors and history.       *)
LEMMA ActStep ==
    ASSUME HomeInv, ActOnStatus \/ Tell
    PROVE  HomeInv'
<1>1. /\ UNCHANGED <<sensor, events, history, tried>>
      /\ \/ engine = "matched" /\ engine' = "telling"
         \/ engine = "telling" /\ engine' = "settling"
  BY DEF ActOnStatus, Tell, sensorVars
<1>2. Aged' /\ EntryFirst' /\ ReturningIsShadowed'
  BY <1>1 DEF HomeInv, Aged, EntryFirst, ReturningIsShadowed
<1>3. Stamps' /\ HistoryInOrder'
  BY <1>1 DEF HomeInv, Stamps, Newer, HistoryInOrder
<1> QED
  BY <1>2, <1>3 DEF HomeInv

(* Bits that were recorded are cleared before the engine waits again.      *)
LEMMA ClearStep ==
    ASSUME HomeInv, ClearAll \/ ClearSeen
    PROVE  HomeInv'
<1>1. /\ engine # "waiting" /\ engine' = "waiting" /\ tried' = 1
      /\ UNCHANGED <<events, history>>
  BY DEF ClearAll, ClearSeen
<1>2. history \in Seq(Record) /\ 1 \in DOMAIN history
  BY <1>1 DEF HomeInv, Aged, Stamps
<1>3. Head(history) = history[1]
  BY <1>2
<1>4. ASSUME NEW s \in Signals
      PROVE  \/ sensor'[s] = 0
             \/ sensor'[s] = sensor[s] /\ history[1].seen[s] = 0
  <2>1. CASE ClearAll
    BY <2>1 DEF ClearAll
  <2>2. CASE ClearSeen
    <3>1. sensor'[s] = IF history[1].seen[s] > 0 THEN 0 ELSE sensor[s]
      BY <1>3, <2>2 DEF ClearSeen
    <3>2. history[1].seen[s] \in Nat
      BY <1>2, Types DEF HomeInv
    <3> QED
      BY <3>1, <3>2
  <2> QED
    BY <2>1, <2>2
<1>5. Aged'
  <2>1. sensor' \in [Signals -> Nat]
    <3>1. \A s \in Signals : sensor'[s] \in Nat
      BY <1>4, Types DEF HomeInv
    <3>2. sensor' = [s \in Signals |-> sensor'[s]]
      BY DEF ClearAll, ClearSeen
    <3> QED
      BY <3>1, <3>2
  <2>2. 1 \in DOMAIN Patterns
    BY SixPatterns
  <2> QED
    BY <1>1, <2>1, <2>2 DEF HomeInv, Aged
<1>6. EntryFirst' /\ ReturningIsShadowed' /\ HistoryInOrder'
  BY <1>1 DEF HomeInv, EntryFirst, ReturningIsShadowed, HistoryInOrder
<1>7. Stamps'
  <2>1. events \in Nat
    BY DEF HomeInv, Aged
  <2>2. ASSUME NEW s \in Signals, sensor'[s] > 0
        PROVE  Newer(sensor'[s])
    BY <1>4, <2>2 DEF HomeInv, Stamps
  <2>3. \A s \in Signals : sensor'[s] <= events
    BY <1>4, <2>1 DEF HomeInv, Stamps
  <2> QED
    BY <1>1, <2>2, <2>3 DEF HomeInv, Stamps, Newer
<1> QED
  BY <1>5, <1>6, <1>7 DEF HomeInv

(* Time makes records older and changes nothing else in them.              *)
LEMMA TickStep ==
    ASSUME HomeInv, Tick
    PROVE  HomeInv'
<1>1. /\ engine = "waiting" /\ UNCHANGED <<sensor, events, engine, tried>>
      /\ history' = [k \in DOMAIN history |->
                       [history[k] EXCEPT !.age = IF @ < Oldest THEN @ + 1 ELSE @]]
  BY DEF Tick, sensorVars
<1>2. history \in Seq(Record) /\ Len(history) \in Nat
  BY DEF HomeInv, Aged
<1>3. DOMAIN history = 1..Len(history)
  BY <1>2
<1>4. ASSUME NEW k \in DOMAIN history
      PROVE  history'[k] \in Record /\ history'[k].seen = history[k].seen
  <2>1. history[k] \in Record
    BY Types DEF HomeInv
  <2>2. history'[k] = [history[k] EXCEPT !.age = IF @ < Oldest THEN @ + 1 ELSE @]
    BY <1>1
  <2> QED
    BY <2>1, <2>2 DEF Record
<1>5. DOMAIN history' = DOMAIN history
  BY <1>1
<1>6. history' \in Seq(Record)
  <2>1. history' = [k \in 1..Len(history) |-> history'[k]]
    BY <1>1, <1>3
  <2>2. \A k \in 1..Len(history) : history'[k] \in Record
    BY <1>3, <1>4
  <2> QED
    BY <1>2, <2>1, <2>2, IsASeq
<1>7. Aged' /\ EntryFirst' /\ ReturningIsShadowed'
  BY <1>1, <1>6 DEF HomeInv, Aged, EntryFirst, ReturningIsShadowed
<1>8. Stamps'
  BY <1>1, <1>4, <1>5 DEF HomeInv, Stamps, Newer
<1>9. HistoryInOrder'
  BY <1>4, <1>5 DEF HomeInv, HistoryInOrder
<1> QED
  BY <1>7, <1>8, <1>9 DEF HomeInv

-----------------------------------------------------------------------------

(* Whatever happens in the house and however tasks interleave, the         *)
(* invariant holds in every state.                                         *)
THEOREM Invariance == Spec => []HomeInv
<1>1. Init => HomeInv
  <2> SUFFICES ASSUME Init PROVE HomeInv
    OBVIOUS
  <2>1. /\ history = <<>> /\ sensor = [s \in Signals |-> 0] /\ events = 0
        /\ engine = "waiting" /\ tried = 1
    BY DEF Init
  <2>2. history \in Seq(Record) /\ DOMAIN history = {}
    BY <2>1
  <2>3. 1 \in DOMAIN Patterns
    BY SixPatterns
  <2>4. Aged
    BY <2>1, <2>2, <2>3 DEF Aged
  <2>5. EntryFirst /\ ReturningIsShadowed
    BY <2>1 DEF EntryFirst, ReturningIsShadowed
  <2>6. Stamps /\ HistoryInOrder
    BY <2>1, <2>2 DEF Stamps, HistoryInOrder
  <2> QED
    BY <2>4, <2>5, <2>6 DEF HomeInv
<1>2. HomeInv /\ [Next]_vars => HomeInv'
  <2> SUFFICES ASSUME HomeInv, [Next]_vars PROVE HomeInv'
    OBVIOUS
  <2>1. CASE \/ motion_sensor_task \/ door_sensor_task \/ light_control_task
            \/ environmental_sensor_task
    <3>1. \A s : Signal(s) => s \in Signals
      BY HomeAssumption DEF HomeAssumption, Signal
    <3>2. \E s : Signal(s)
      BY <2>1 DEF motion_sensor_task, door_sensor_task, light_control_task,
                  environmental_sensor_task
    <3> QED
      BY <3>1, <3>2, SignalStep
  <2>2. CASE pattern_recognition_task
    BY <2>2, RecognizeStep, CheckStep, ActStep, ClearStep
    DEF pattern_recognition_task
  <2>3. CASE state_machine_task
    <3>1. UNCHANGED <<sensor, events, history, engine, tried>>
      BY <2>3 DEF state_machine_task, Take, Obey, Transit, AllClear, sensorVars,
                  engineVars
    <3> QED
      BY <3>1, Aside
  <2>4. CASE mqtt_event_handler
    <3>1. UNCHANGED <<sensor, events, history, engine, tried>>
      BY <2>4 DEF mqtt_event_handler, Command, TakeBack, sensorVars, engineVars
    <3> QED
      BY <3>1, Aside
  <2>5. CASE Tick
    BY <2>5, TickStep
  <2>6. CASE UNCHANGED vars
    BY <2>6, Aside DEF vars, sensorVars, engineVars
  <2> QED
    BY <2>1, <2>2, <2>3, <2>4, <2>5, <2>6 DEF Next
<1> QED
  BY <1>1, <1>2, PTL DEF Spec

(* returning_action is never called: normal entry needs the same events in *)
(* a window no shorter and is looked for before it, in every state.        *)
THEOREM Shadowed == Spec => []ReturningIsShadowed
<1>1. HomeInv => ReturningIsShadowed
  BY DEF HomeInv
<1> QED
  BY <1>1, Invariance, PTL

(* The history never shows events in another order than they happened, and *)
(* no event twice.                                                         *)
THEOREM InOrder == Spec => []HistoryInOrder
<1>1. HomeInv => HistoryInOrder
  BY DEF HomeInv
<1> QED
  BY <1>1, Invariance, PTL

-----------------------------------------------------------------------------
(* Emergencies                                                             *)

Bits == {"home", "away", "sleep", "armed", "emergency"}

(* The types that Aged and Stamps leave open.                              *)
Ranges ==
    /\ door_open \in BOOLEAN
    /\ events <= MaxEvents
    /\ Len(history) <= HistorySize
    /\ \A j \in DOMAIN history : history[j].age <= Oldest
    /\ engine \in {"waiting", "checking", "matched", "telling", "settling",
                   "unmatched"}
    /\ system \subseteq Bits /\ obeyed \subseteq Bits
    /\ security \in BOOLEAN /\ emergency \in BOOLEAN
    /\ current \in {"idle", "occupied", "away", "sleep", "armed", "emergency"}
    /\ machine \in {"waiting", "obeying", "free", "alarmed"}
    /\ mqtt \in {"idle", "clearing"}
    /\ commands \in 0..MaxCommands

(* The emergency is the last bit obeyed; the state machine then alarms and *)
(* obeys nothing else before it is over.                                   *)
Alarms ==
    /\ machine # "obeying" => obeyed = {}
    /\ current = "emergency" => machine \in {"free", "alarmed"}

(* A flag that is up has its bit on the way, or the engine is about to set *)
(* it: not any engine that is telling, one that has found a break-in.      *)
Handled ==
    emergency => \/ current = "emergency"
                 \/ "emergency" \in system \cup obeyed
                 \/ engine = "telling" /\ Patterns[tried] = "break-in"

LEMMA FiveBits ==
    /\ DOMAIN Order = 1..5
    /\ {Order[k] : k \in DOMAIN Order} = Bits
    /\ Order[5] = "emergency"
<1>1. /\ Order[1] = "home" /\ Order[2] = "away" /\ Order[3] = "sleep"
      /\ Order[4] = "armed" /\ Order[5] = "emergency"
  BY DEF Order
<1>2. DOMAIN Order = 1..5
  BY DEF Order
<1>3. \A k \in 1..5 : k = 1 \/ k = 2 \/ k = 3 \/ k = 4 \/ k = 5
  OBVIOUS
<1>4. \A k \in 1..5 : Order[k] \in Bits
  BY <1>1, <1>3 DEF Bits
<1>5. \A b \in Bits : \E k \in 1..5 : Order[k] = b
  <2>1. 1 \in 1..5 /\ 2 \in 1..5 /\ 3 \in 1..5 /\ 4 \in 1..5 /\ 5 \in 1..5
    OBVIOUS
  <2> QED BY <1>1, <2>1, Zenon DEF Bits
<1> QED BY <1>1, <1>2, <1>4, <1>5

(* There is a longest window, so ages have a bound.                        *)
LEMMA OldestIsNat == Oldest \in Nat
<1> DEFINE W(n) == \A p \in Names : Window[p] <= n
<1>1. \A p \in Names : Window[p] \in Nat
  BY HomeAssumption
<1>2. \A p \in Names : p \in {Patterns[1], Patterns[2], Patterns[3], Patterns[4],
                            Patterns[5], Patterns[6]}
  <2>1. \A k \in 1..6 : k = 1 \/ k = 2 \/ k = 3 \/ k = 4 \/ k = 5 \/ k = 6
    OBVIOUS
  <2> QED BY <2>1, SixPatterns DEF Names
<1>3. {Patterns[1], Patterns[2], Patterns[3], Patterns[4], Patterns[5], Patterns[6]}
          \subseteq Names
  <2>1. \A k \in 1..6 : Patterns[k] \in Names
    BY SixPatterns DEF Names
  <2>2. 1 \in 1..6 /\ 2 \in 1..6 /\ 3 \in 1..6 /\ 4 \in 1..6 /\ 5 \in 1..6 /\ 6 \in 1..6
    OBVIOUS
  <2> QED BY <2>1, <2>2, Zenon
<1>4. \E p \in Names : W(Window[p])
  <2>1. ASSUME NEW a \in Nat, NEW b \in Nat, NEW c \in Nat, NEW d \in Nat,
               NEW e \in Nat, NEW f \in Nat
        PROVE  \E n \in {a, b, c, d, e, f} : /\ a <= n /\ b <= n /\ c <= n
                                             /\ d <= n /\ e <= n /\ f <= n
    OBVIOUS
  <2> DEFINE w(k) == Window[Patterns[k]]
  <2>2. \A k \in 1..6 : w(k) \in Nat
    BY <1>1, SixPatterns DEF Names
  <2>3. w(1) \in Nat /\ w(2) \in Nat /\ w(3) \in Nat /\ w(4) \in Nat
        /\ w(5) \in Nat /\ w(6) \in Nat
    BY <2>2
  <2> HIDE DEF w
  <2>4. \E n \in {w(1), w(2), w(3), w(4), w(5), w(6)} :
           /\ w(1) <= n /\ w(2) <= n /\ w(3) <= n /\ w(4) <= n /\ w(5) <= n /\ w(6) <= n
    BY <2>1, <2>3
  <2>5. PICK n \in {w(1), w(2), w(3), w(4), w(5), w(6)} :
           /\ w(1) <= n /\ w(2) <= n /\ w(3) <= n /\ w(4) <= n /\ w(5) <= n /\ w(6) <= n
    BY <2>4
  <2>6. \A p \in Names : Window[p] <= n
    BY <1>2, <2>5 DEF w
  <2>7. \E p \in Names : n = Window[p]
    BY <1>3, <2>5 DEF w
  <2> QED BY <2>6, <2>7
<1>5. \E n \in {Window[p] : p \in Names} : \A p \in Names : Window[p] <= n
  BY <1>4
<1>6. (CHOOSE n \in {Window[p] : p \in Names} : \A p \in Names : Window[p] <= n) \in Nat
  BY <1>1, <1>5
<1> QED BY <1>6 DEF Oldest

LEMMA RangesStep ==
    ASSUME HomeInv, Ranges, [Next]_vars
    PROVE  Ranges'
<1> USE DEF sensorVars, engineVars, machineVars, mqttVars
<1>0. /\ MaxEvents \in Nat /\ MaxCommands \in Nat /\ HistorySize \in Nat
      /\ events \in Nat /\ Oldest \in Nat
      /\ history \in Seq(Record)
  BY HomeAssumption, OldestIsNat DEF HomeInv, Aged
<1>1. CASE \/ motion_sensor_task \/ door_sensor_task \/ light_control_task
          \/ environmental_sensor_task
  <2>1. PICK s : Signal(s)
    BY <1>1 DEF motion_sensor_task, door_sensor_task, light_control_task,
                environmental_sensor_task
  <2>2. door_open' \in BOOLEAN
    BY <1>1 DEF motion_sensor_task, door_sensor_task, light_control_task,
                environmental_sensor_task, Ranges
  <2>3. events' <= MaxEvents
    BY <1>0, <2>1 DEF Signal
  <2> QED BY <2>1, <2>2, <2>3 DEF Signal, Ranges
<1>2. CASE Recognize
  <2> DEFINE r == [seen |-> sensor, age |-> 0]
  <2>1. r \in Record
    BY DEF HomeInv, Aged, Record
  <2>2. history' = Kept(<<r>> \o history)
    BY <1>2 DEF Recognize, Kept
  <2>3. r.age = 0
    OBVIOUS
  <2> HIDE DEF r
  <2>4. Entered(history', history, r)
    BY <1>0, <2>1, <2>2, Prepended, Zenon
  <2>5. Len(history') \in Nat /\ DOMAIN history' = 1..Len(history')
        /\ Len(history) \in Nat /\ DOMAIN history = 1..Len(history)
    BY <1>0, <2>4 DEF Entered
  <2>6. ASSUME NEW j \in DOMAIN history'
        PROVE  history'[j].age <= Oldest
    <3>1. CASE j = 1
      BY <1>0, <2>3, <2>4, <3>1 DEF Entered
    <3>2. CASE j # 1
      <4>1. j - 1 \in DOMAIN history /\ history'[j] = history[j-1]
        BY <2>4, <2>5, <3>2 DEF Entered
      <4> QED BY <4>1 DEF Ranges
    <3> QED BY <3>1, <3>2
  <2>7. Len(history') <= HistorySize
    BY <2>4 DEF Entered
  <2> QED BY <1>2, <2>6, <2>7 DEF Recognize, Ranges
<1>3. CASE Check
  <2>1. engine' \in {"unmatched", "matched", "checking"}
    BY <1>3 DEF Check
  <2>2. UNCHANGED <<sensorVars, history, system, security, emergency,
                   machineVars, mqttVars>>
    BY <1>3 DEF Check
  <2> QED BY <2>1, <2>2 DEF Ranges
<1>4. CASE ActOnStatus
  BY <1>4 DEF ActOnStatus, Ranges
<1>5. CASE Tell
  <2>1. Patterns[tried] # "returning" /\ tried \in 1..6
    BY <1>5, SixPatterns DEF Tell, HomeInv, ReturningIsShadowed, Aged
  <2>2. system' \subseteq Bits
    <3>1. /\ Patterns[1] = "normal entry" /\ Patterns[2] = "break-in"
          /\ Patterns[3] = "goodnight" /\ Patterns[4] = "wake-up"
          /\ Patterns[5] = "leaving" /\ Patterns[6] = "returning"
      BY DEF Patterns
    <3>2. tried = 1 \/ tried = 2 \/ tried = 3 \/ tried = 4 \/ tried = 5 \/ tried = 6
      BY <2>1
    <3>3. Patterns[tried] \in {"normal entry", "break-in", "goodnight", "wake-up",
                              "leaving", "returning"}
      BY <3>1, <3>2
    <3>4. ASSUME NEW q \in {"normal entry", "break-in", "goodnight", "wake-up",
                           "leaving", "returning"}
          PROVE  Told(q) \subseteq Bits
      BY DEF Told, Ranges, Bits
    <3> QED BY <1>5, <3>3, <3>4 DEF Tell
  <2> QED BY <1>5, <2>2 DEF Tell, Ranges
<1>6. CASE ClearAll \/ ClearSeen
  BY <1>6 DEF ClearAll, ClearSeen, Ranges
<1>7. CASE Take
  BY <1>7 DEF Take, Ranges
<1>8. CASE Obey
  <2>1. PICK b \in obeyed : /\ current' = Obeying(b)
                            /\ obeyed' = obeyed \ {b}
                            /\ machine' = IF obeyed = {b} THEN "free" ELSE machine
    BY <1>8 DEF Obey
  <2>2. Obeying(b) \in {"idle", "occupied", "away", "sleep", "armed", "emergency"}
    BY DEF Obeying, Ranges, Bits
  <2>3. UNCHANGED <<sensorVars, engineVars, system, security, emergency, mqttVars>>
    BY <1>8 DEF Obey
  <2> QED BY <2>1, <2>2, <2>3 DEF Ranges
<1>9. CASE Transit \/ AllClear
  BY <1>9 DEF Transit, AllClear, Ranges
<1>10. CASE mqtt_event_handler
  <2>1. ASSUME NEW c, NEW bits, bits \subseteq Bits, Command(c, bits)
        PROVE  Ranges'
    BY <1>0, <2>1 DEF Command, Ranges
  <2>2. CASE TakeBack
    BY <2>2 DEF TakeBack, Ranges
  <2> QED BY <1>10, <2>1, <2>2 DEF mqtt_event_handler, Bits
<1>11. CASE Tick
  <2>1. /\ DOMAIN history' = DOMAIN history
        /\ \A k \in DOMAIN history :
              history'[k] = [history[k] EXCEPT !.age = IF @ < Oldest THEN @ + 1 ELSE @]
    BY <1>11 DEF Tick
  <2>2. ASSUME NEW k \in DOMAIN history
        PROVE  history'[k].age <= Oldest
    <3>1. history[k] \in Record /\ history[k].age <= Oldest
      BY <1>0 DEF Ranges
    <3>2. history[k].age \in Nat
          /\ history'[k].age = IF history[k].age < Oldest THEN history[k].age + 1
                                                          ELSE history[k].age
      BY <2>1, <3>1 DEF Record
    <3> QED BY <1>0, <3>1, <3>2
  <2>3. Len(history') = Len(history)
    BY <1>0, <1>11 DEF Tick
  <2> QED BY <1>11, <2>1, <2>2, <2>3 DEF Tick, Ranges
<1>12. CASE UNCHANGED vars
  BY <1>12 DEF vars, Ranges
<1> QED
  BY <1>1, <1>2, <1>3, <1>4, <1>5, <1>6, <1>7, <1>8, <1>9, <1>10, <1>11, <1>12
     DEF Next, pattern_recognition_task, state_machine_task
LEMMA EmergencyStep ==
    ASSUME HomeInv, Ranges, Alarms, Handled, [Next]_vars
    PROVE  Alarms' /\ Handled'
<1> USE DEF sensorVars, engineVars, machineVars, mqttVars
<1>1. CASE UNCHANGED <<engine, tried, system, emergency, current, machine, obeyed>>
  BY <1>1 DEF Alarms, Handled
<1>2. CASE \/ motion_sensor_task \/ door_sensor_task \/ light_control_task
          \/ environmental_sensor_task \/ Tick \/ UNCHANGED vars
  BY <1>1, <1>2 DEF motion_sensor_task, door_sensor_task, light_control_task,
                    environmental_sensor_task, Signal, Tick, vars
<1>3. CASE Recognize \/ Check \/ ClearAll \/ ClearSeen
  <2>1. /\ engine # "telling"
        /\ UNCHANGED <<system, emergency, current, machine, obeyed>>
    BY <1>3 DEF Recognize, Check, ClearAll, ClearSeen
  <2> QED BY <2>1 DEF Alarms, Handled
<1>4. CASE ActOnStatus
  <2>1. /\ engine = "matched" /\ engine' = "telling"
        /\ emergency' = IF Patterns[tried] = "break-in" THEN TRUE ELSE emergency
        /\ UNCHANGED <<tried, system, current, machine, obeyed>>
    BY <1>4 DEF ActOnStatus
  <2> QED BY <2>1 DEF Alarms, Handled
<1>5. CASE Tell
  <2>1. /\ engine = "telling" /\ system' = Told(Patterns[tried])
        /\ UNCHANGED <<tried, emergency, current, machine, obeyed>>
    BY <1>5 DEF Tell
  <2>2. Patterns[tried] = "break-in" => "emergency" \in system'
    BY <2>1 DEF Told
  <2>3. "emergency" \in system => "emergency" \in system'
    <3>1. Patterns[tried] \in Names
      BY DEF HomeInv, Aged, Names
    <3>2. \A q \in Names : q \in {"normal entry", "break-in", "goodnight", "wake-up",
                                 "leaving", "returning"}
      <4>1. \A k \in 1..6 : k = 1 \/ k = 2 \/ k = 3 \/ k = 4 \/ k = 5 \/ k = 6
        OBVIOUS
      <4>2. /\ Patterns[1] = "normal entry" /\ Patterns[2] = "break-in"
            /\ Patterns[3] = "goodnight" /\ Patterns[4] = "wake-up"
            /\ Patterns[5] = "leaving" /\ Patterns[6] = "returning"
        BY DEF Patterns
      <4> QED BY <4>1, <4>2, SixPatterns DEF Names
    <3>3. ASSUME NEW q \in {"normal entry", "break-in", "goodnight", "wake-up",
                           "leaving", "returning"},
                 "emergency" \in system
          PROVE  "emergency" \in Told(q)
      BY <3>3 DEF Told
    <3> QED BY <2>1, <3>1, <3>2, <3>3
  <2> QED BY <2>1, <2>2, <2>3 DEF Alarms, Handled
<1>6. CASE Take
  BY <1>6 DEF Take, Alarms, Handled
<1>7. CASE Obey
  <2>1. PICK b \in obeyed : /\ IsFirst(b)
                            /\ current' = Obeying(b)
                            /\ obeyed' = obeyed \ {b}
                            /\ machine' = IF obeyed = {b} THEN "free" ELSE machine
    BY <1>7 DEF Obey
  <2>2. machine = "obeying" /\ current # "emergency"
        /\ UNCHANGED <<engine, tried, system, emergency>>
    BY <1>7 DEF Obey, Alarms
  <2>3. CASE b = "emergency"
    <3>1. obeyed = {b}
      <4>1. ASSUME NEW c \in obeyed
            PROVE  c = b
        <5>1. PICK l \in 1..5 : Order[l] = c
          BY FiveBits DEF Ranges
        <5>2. 5 <= l
          BY <2>1, <2>3, <5>1, FiveBits DEF IsFirst
        <5> QED BY <2>3, <5>1, <5>2, FiveBits
      <4> QED BY <4>1
    <3>2. current' = "emergency" /\ machine' = "free" /\ obeyed' = {}
      BY <2>1, <2>3, <3>1 DEF Obeying
    <3> QED BY <3>2 DEF Alarms, Handled
  <2>4. CASE b # "emergency"
    <3>1. current' # "emergency"
      BY <2>1, <2>2, <2>4 DEF Obeying, Ranges, Bits
    <3>2. machine' # "obeying" => obeyed' = {}
      BY <2>1, <2>2
    <3> QED BY <2>1, <2>2, <2>4, <3>1, <3>2 DEF Alarms, Handled
  <2> QED BY <2>3, <2>4
<1>8. CASE Transit
  <2>1. /\ machine \in {"free", "waiting"}
        /\ machine' = IF current = "emergency" THEN "alarmed" ELSE "waiting"
        /\ current' = current \/ (current = "idle" /\ current' = "occupied")
        /\ UNCHANGED <<engine, tried, system, emergency, obeyed>>
    BY <1>8 DEF Transit
  <2> QED BY <2>1 DEF Alarms, Handled
<1>9. CASE AllClear
  BY <1>9 DEF AllClear, Alarms, Handled
<1>10. CASE mqtt_event_handler
  <2>1. /\ "emergency" \in system => "emergency" \in system'
        /\ UNCHANGED <<engine, tried, emergency, current, machine, obeyed>>
    BY <1>10 DEF mqtt_event_handler, Command, TakeBack
  <2> QED BY <2>1 DEF Alarms, Handled
<1> QED
  BY <1>2, <1>3, <1>4, <1>5, <1>6, <1>7, <1>8, <1>9, <1>10
     DEF Next, pattern_recognition_task, state_machine_task

(* An emergency that is shown is being handled, whatever commands and      *)
(* patterns come with it; and every value has its type.                    *)
THEOREM EmergenciesAreHandled == Spec => []EmergencyIsHandled
<1>1. Init => Ranges /\ Alarms /\ Handled
  <2> SUFFICES ASSUME Init PROVE Ranges /\ Alarms /\ Handled
    OBVIOUS
  <2>1. history = <<>> /\ Len(<<>>) = 0 /\ DOMAIN <<>> = {}
    BY DEF Init
  <2>2. /\ 0 <= HistorySize /\ 0 <= MaxEvents /\ 0 \in 0..MaxCommands
    <3>1. HistorySize \in Nat /\ MaxEvents \in Nat /\ MaxCommands \in Nat
      BY HomeAssumption
    <3> QED BY <3>1
  <2>3. Len(history) <= HistorySize /\ \A j \in DOMAIN history : history[j].age <= Oldest
    BY <2>1, <2>2
  <2>4. Ranges
    <3>1. /\ events <= MaxEvents /\ commands \in 0..MaxCommands
          /\ engine = "waiting" /\ current = "idle" /\ machine = "waiting"
          /\ mqtt = "idle"
      BY <2>2 DEF Init
    <3>2. /\ door_open = FALSE /\ security = FALSE /\ emergency = FALSE
          /\ system = {} /\ obeyed = {}
      BY DEF Init
    <3> QED BY <2>3, <3>1, <3>2 DEF Ranges
  <2> QED BY <2>4 DEF Init, Alarms, Handled
<1>2. HomeInv /\ Ranges /\ Alarms /\ Handled /\ [Next]_vars
         => Ranges' /\ Alarms' /\ Handled'
  BY RangesStep, EmergencyStep
<1>3. HomeInv /\ Ranges /\ Handled => EmergencyIsHandled
  <2> SUFFICES ASSUME HomeInv, Ranges, Handled PROVE EmergencyIsHandled
    OBVIOUS
  <2>1. /\ events \in Nat /\ MaxEvents \in Nat /\ events <= MaxEvents /\ Oldest \in Nat
    BY HomeAssumption, OldestIsNat DEF HomeInv, Aged, Ranges
  <2>2. sensor \in [Signals -> 0..MaxEvents]
    <3>1. sensor \in [Signals -> Nat]
      BY DEF HomeInv, Aged
    <3>2. ASSUME NEW t \in Signals
          PROVE  sensor[t] \in 0..MaxEvents
      BY <2>1, <3>1 DEF HomeInv, Stamps
    <3> QED BY <3>1, <3>2
  <2>3. history \in Seq([seen : [Signals -> 0..MaxEvents], age : 0..Oldest])
    <3>1. history \in Seq(Record) /\ Len(history) \in Nat
          /\ DOMAIN history = 1..Len(history)
      BY DEF HomeInv, Aged
    <3>2. ASSUME NEW j \in DOMAIN history
          PROVE  history[j] \in [seen : [Signals -> 0..MaxEvents], age : 0..Oldest]
      <4>1. history[j] \in Record
        BY <3>1
      <4>2. history[j].seen \in [Signals -> Nat] /\ history[j].age \in Nat
            /\ history[j] = [seen |-> history[j].seen, age |-> history[j].age]
        BY <4>1 DEF Record
      <4>3. \A t \in Signals : history[j].seen[t] \in 0..MaxEvents
        BY <2>1, <4>2 DEF HomeInv, Stamps
      <4>4. history[j].seen \in [Signals -> 0..MaxEvents]
        BY <4>2, <4>3
      <4>5. history[j].age \in 0..Oldest
        BY <2>1, <4>2 DEF Ranges
      <4> QED BY <4>2, <4>4, <4>5
    <3>3. history = [j \in 1..Len(history) |-> history[j]]
      BY <3>1
    <3> DEFINE S == [seen : [Signals -> 0..MaxEvents], age : 0..Oldest]
    <3>4. \A j \in 1..Len(history) : history[j] \in S
      BY <3>1, <3>2
    <3> HIDE DEF S
    <3>5. history \in Seq(S)
      BY <3>1, <3>3, <3>4, IsASeq
    <3> QED BY <3>5 DEF S
  <2>4. {system, obeyed} \subseteq SUBSET {Order[k] : k \in DOMAIN Order}
    BY FiveBits DEF Ranges
  <2>5. TypeOK
    BY <2>1, <2>2, <2>3, <2>4 DEF TypeOK, Ranges, HomeInv, Aged
  <2> QED BY <2>5 DEF EmergencyIsHandled, Handled
<1> QED
  BY <1>1, <1>2, <1>3, Invariance, PTL DEF Spec
=============================================================================
