----------------------------- MODULE MCSmartHome -----------------------------
(* A tick is more than five seconds, so the windows of the code (5 to 30   *)
(* seconds) are no tick or one: what tells them apart is that one is       *)
(* longer than another.                                                    *)
EXTENDS SmartHome

MCWindow == [p \in Names |->
                IF p \in {"break-in", "wake-up"} THEN 0 ELSE 1]

=============================================================================
