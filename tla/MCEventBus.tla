----------------------------- MODULE MCEventBus -----------------------------
(* One source of each kind: a filtered one, an urgent one, the timer and   *)
(* the one added later; the network differs from the user in its length.   *)
EXTENDS EventBus

MCSources == {"sensor", "user", "timer", "special"}
MCQueueLen == [s \in MCSources |-> 1]

=============================================================================
