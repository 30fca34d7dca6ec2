--------------------------- MODULE EventPipeline ---------------------------
(***************************************************************************)
(* The pipeline of lab06/event_synchronization.  All stages and the        *)
(* generator share one queue; each hand-over is a send to that queue       *)
(* followed, in a second call, by setting an event bit for the next stage. *)
(* A stage woken by its bit takes whatever item is at the head, so an item *)
(* may be finished without having been through every stage.  An item is    *)
(* its pipeline_id: what the stages compute is left out.                   *)
(*                                                                         *)
(* PIPELINE_RESET_BIT is never set by any task, so the drain at the end of *)
(* the stage loop never runs and is left out.                              *)
(***************************************************************************)
EXTENDS Naturals, Sequences, FiniteSets

CONSTANTS Last,       \* number of the last stage: the stages are 0..Last
          QueueLen,   \* length of pipeline_queue (5 in app_main)
          MaxItems    \* bound: items the generator makes

ASSUME PipelineAssumption ==
    /\ Last \in Nat
    /\ QueueLen \in Nat \ {0}
    /\ MaxItems \in Nat

Stage == 0..Last
Generator == Last + 1
Task == 0..Generator

VARIABLES
    queue,          \* pipeline_queue
    bits,           \* pipeline_events: bit s is STAGEs_COMPLETE, the bit of
                    \* the generator is DATA_AVAILABLE
    pc,             \* where each task is in its loop
    item,           \* the pipeline_data a stage holds
    pipeline_id,    \* the generator's local counter
    completed,      \* history: the items the last stage has finished
    runs            \* history: how often each task has got to its send

vars == <<queue, bits, pc, item, pipeline_id, completed, runs>>

NoItem == 0

Init ==
    /\ queue = <<>>
    /\ bits = {}
    /\ pc = [t \in Task |-> IF t = Generator THEN "making" ELSE "waiting"]
    /\ item = [s \in Stage |-> NoItem]
    /\ pipeline_id = 0
    /\ completed = {}
    /\ runs = [t \in Task |-> 0]

-----------------------------------------------------------------------------

(* The task whose bit stage s waits for.                                   *)
Prev(s) == IF s = 0 THEN Generator ELSE s - 1

(* Variant: the result of the send is ignored.                             *)
SendUnchecked(t, x, full) ==
    /\ queue' = IF Len(queue) < QueueLen THEN Append(queue, x) ELSE queue
    /\ pc' = [pc EXCEPT ![t] = "signalling"]

(* xQueueSend with a timeout: the signal comes next or, when the queue     *)
(* stayed full, phase full.                                                *)
Send(t, x, full) ==
    IF Len(queue) < QueueLen
    THEN /\ queue' = Append(queue, x)
         /\ pc' = [pc EXCEPT ![t] = "signalling"]
    ELSE /\ pc' = [pc EXCEPT ![t] = full]
         /\ UNCHANGED queue

(* The generator makes an item and sends it.                               *)
Generate ==
    /\ pc[Generator] = "making"
    /\ pipeline_id < MaxItems
    /\ pipeline_id' = pipeline_id + 1
    /\ Send(Generator, pipeline_id + 1, "making")
    /\ runs' = [runs EXCEPT ![Generator] = @ + 1]
    /\ UNCHANGED <<bits, item, completed>>

(* Variant: the wait is made without clear-on-exit.                        *)
WakeKeepsBit(s) ==
    /\ pc[s] = "waiting"
    /\ Prev(s) \in bits
    /\ pc' = [pc EXCEPT ![s] = "receiving"]
    /\ UNCHANGED <<queue, bits, item, pipeline_id, completed, runs>>

(* The stage's bit is set: WaitBits clears it and returns.                 *)
Wake(s) ==
    /\ pc[s] = "waiting"
    /\ Prev(s) \in bits
    /\ bits' = bits \ {Prev(s)}
    /\ pc' = [pc EXCEPT ![s] = "receiving"]
    /\ UNCHANGED <<queue, item, pipeline_id, completed, runs>>

(* Variant: the item is only looked at (xQueuePeek).                       *)
ReceivePeek(s) ==
    /\ pc[s] = "receiving"
    /\ queue # <<>>
    /\ item' = [item EXCEPT ![s] = Head(queue)]
    /\ completed' = completed \cup (IF s = Last THEN {Head(queue)} ELSE {})
    /\ pc' = [pc EXCEPT ![s] = "processing"]
    /\ UNCHANGED <<queue, bits, pipeline_id, runs>>

(* Take the head of the queue and process it; the last stage counts it.    *)
(* An empty queue ends the 100 ms wait without an item.                    *)
Receive(s) ==
    /\ pc[s] = "receiving"
    /\ IF queue = <<>>
       THEN /\ pc' = [pc EXCEPT ![s] = "waiting"]
            /\ UNCHANGED <<queue, item, completed>>
       ELSE /\ queue' = Tail(queue)
            /\ item' = [item EXCEPT ![s] = Head(queue)]
            /\ completed' = completed \cup (IF s = Last THEN {Head(queue)} ELSE {})
            /\ pc' = [pc EXCEPT ![s] = "processing"]
    /\ UNCHANGED <<bits, pipeline_id, runs>>

(* Pass the item on; it is lost when the queue stays full for 100 ms.  The *)
(* last stage has nobody to pass it to.                                    *)
PassOn(s) ==
    /\ pc[s] = "processing"
    /\ IF s = Last
       THEN /\ pc' = [pc EXCEPT ![s] = "waiting"]
            /\ UNCHANGED queue
       ELSE Send(s, item[s], "waiting")
    /\ item' = [item EXCEPT ![s] = NoItem]
    /\ runs' = [runs EXCEPT ![s] = @ + 1]
    /\ UNCHANGED <<bits, pipeline_id, completed>>

(* The item is in the queue: set the bit the next stage waits for.  A bit  *)
(* that is still set from an earlier item absorbs this one.                *)
Signal(t) ==
    /\ pc[t] = "signalling"
    /\ bits' = bits \cup {t}
    /\ pc' = [pc EXCEPT ![t] = IF t = Generator THEN "making" ELSE "waiting"]
    /\ UNCHANGED <<queue, item, pipeline_id, completed, runs>>

(* The generator has made MaxItems items and the stages have nothing to    *)
(* react to: the bound on the generator ends the behaviour.                *)
Idle ==
    /\ pipeline_id = MaxItems
    /\ \A t \in Task : pc[t] \in {"making", "waiting"}
    /\ bits = {}
    /\ UNCHANGED vars

Next == \/ Generate
        \/ \E s \in Stage : Wake(s) \/ Receive(s) \/ PassOn(s)
        \/ \E t \in Task : Signal(t)
        \/ Idle

Spec == Init /\ [][Next]_vars

(* Every task goes on when it can: all waits and sends have a timeout but  *)
(* the one for a bit, which stays set until its stage takes it.            *)
Fairness ==
    /\ \A s \in Stage : WF_vars(Wake(s)) /\ WF_vars(Receive(s)) /\ WF_vars(PassOn(s))
    /\ \A t \in Task : WF_vars(Signal(t))

FairSpec == Spec /\ Fairness

-----------------------------------------------------------------------------

Item == 1..MaxItems

TypeOK ==
    /\ queue \in Seq(Item) /\ Len(queue) <= QueueLen
    /\ bits \subseteq Task
    /\ pc \in [Task -> {"making", "waiting", "receiving", "processing",
                        "signalling"}]
    /\ item \in [Stage -> Item \cup {NoItem}]
    /\ pipeline_id \in 0..MaxItems
    /\ completed \subseteq Item
    /\ runs \in [Task -> Nat]

In(phase) == {t \in Task : pc[t] = phase}

(* Every wake-up is backed by an item: there are at least as many items in *)
(* the queue as bits set, woken stages and signals still to be given.  So  *)
(* the "no data" branch of the 100 ms receive is never taken.              *)
WakeUpsHaveItems ==
    Cardinality(bits) + Cardinality(In("receiving"))
        + Cardinality(In("signalling")) <= Len(queue)

(* Nothing is duplicated, although the shared queue lets a stage take back *)
(* what another one just sent: an id is in the queue, in a stage's hands   *)
(* or completed, at most once, and every value has its type.               *)
NothingDuplicated ==
    /\ TypeOK
    /\ \A i, j \in 1..Len(queue) : queue[i] = queue[j] => i = j
    /\ \A s \in Stage : item[s] # NoItem =>
          /\ \A i \in 1..Len(queue) : queue[i] # item[s]
          /\ \A r \in Stage : item[r] = item[s] => r = s
          /\ s # Last => item[s] \notin completed
    /\ \A i \in 1..Len(queue) : queue[i] \notin completed

(* A signal is served: its stage gets an item in the end, whatever the     *)
(* other stages take from the queue meanwhile.                             *)
SignalsAreServed == \A s \in Stage : Prev(s) \in bits ~> pc[s] = "processing"

(* Wake-ups travel down the pipeline: however items are swapped, no stage  *)
(* has run more often than the one before it.                              *)
StagesRunInOrder == \A s \in Stage : runs[s] <= runs[Prev(s)]
=============================================================================
