--------------------------- MODULE BarrierRounds ---------------------------
(***************************************************************************)
(* What the event-group barrier of lab06/event_synchronization really      *)
(* promises: arrivals are collected, and when the collection is complete a *)
(* round ends, consuming one arrival of every worker and releasing a       *)
(* non-empty team that never is the whole crew.  The module abstracts from *)
(* how workers sleep, time out and keep their statistics; EventBarrier     *)
(* implements it.                                                          *)
(***************************************************************************)
EXTENDS Naturals

CONSTANT Workers

VARIABLES arrived,   \* workers whose arrival no round has consumed yet
          passes     \* passes[w]: how many rounds have released w

vars == <<arrived, passes>>

Init == /\ arrived = {}
        /\ passes = [w \in Workers |-> 0]

(* A worker arrives and the crew stays incomplete, or complete but with    *)
(* nobody asleep who could leave.                                          *)
Arrive(w) == /\ arrived' = arrived \cup {w}
             /\ UNCHANGED passes

(* A round ends: the arrivals are consumed and the team goes through.      *)
Round(crew, team) ==
    /\ crew = Workers
    /\ team # {}
    /\ team # Workers
    /\ arrived' = {}
    /\ passes' = [w \in Workers |-> IF w \in team THEN passes[w] + 1
                                                  ELSE passes[w]]

(* The round ends on the arrivals collected so far, or together with the   *)
(* arrival that completes them.                                            *)
Release == \E team \in SUBSET Workers : Round(arrived, team)

ArriveAndRelease(w) ==
    \E team \in SUBSET Workers : w \notin team /\ Round(arrived \cup {w}, team)

Next == \/ \E w \in Workers : Arrive(w) \/ ArriveAndRelease(w)
        \/ Release

Spec == Init /\ [][Next]_vars
=============================================================================
