-------------------------- MODULE MCSystemReadiness --------------------------
(* The times of the code in seconds; the network takes 12 seconds as it is *)
(* written, 4 in the version of the lab sheet.                             *)
EXTENDS SystemReadiness

MCBoot == [s \in Subsystems |->
              CASE s = "network" -> {4, 12}
                [] s = "storage" -> {4}
                [] OTHER -> {2}]

=============================================================================
