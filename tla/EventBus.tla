------------------------------ MODULE EventBus ------------------------------
(***************************************************************************)
(* The event bus of lab03/queue_sets: sources send to queues of their own, *)
(* all members of one queue set; a dispatcher takes one event after the    *)
(* other and hands it to one of two worker queues; workers look at the     *)
(* high queue without waiting and then wait at the low one.                *)
(*                                                                         *)
(* An event is one bit: at most one event of a behaviour is tracked, and   *)
(* its fate recorded.  No task looks at the bit, so what holds of the      *)
(* tracked event holds of every event.  The type of an event is the queue  *)
(* it came from; after the dispatcher it is only printed.  Left out:       *)
(* readings, messages and times, LEDs, and the statistics, which are only  *)
(* printed, with the mutex that guards them.                               *)
(***************************************************************************)
EXTENDS Naturals, Sequences, FiniteSets

CONSTANTS Sources,    \* the sources that run: some of AllSources
          QueueLen,   \* QueueLen[s]: length of the source's queue
          SetLen,     \* length of the queue set
          WorkerLen,  \* length of each worker queue
          Workers     \* the worker tasks

(* The sources; the timer's queue is a binary semaphore, the special one   *)
(* is made and added to the set while the system runs.                     *)
AllSources == {"sensor", "user", "network", "timer", "special"}

(* Sources whose events go to the high-priority queue.                     *)
Urgent == {"user", "network", "special"}

(* What the source queues can hold; app_main makes the set as long as that.*)
Slots == UNION {{s} \X (1..QueueLen[s]) : s \in Sources}

ASSUME BusAssumption ==
    /\ Sources \subseteq AllSources
    /\ QueueLen \in [Sources -> Nat \ {0}]
    /\ "timer" \in Sources => QueueLen["timer"] = 1
    /\ SetLen \in Nat /\ Cardinality(Slots) <= SetLen
    /\ WorkerLen \in Nat \ {0}
    /\ Workers # {}

VARIABLES
    queue,        \* the source queues
    set,          \* the queue set: one entry for each event in a member
    members,      \* the queues that have been added to the set
    set_mutex,    \* holder of xQueueSetMutex, or "none"
    special,      \* where special_event_task is
    dispatcher,   \* where event_dispatcher_task is
    member,       \* xActivatedMember, until its event is dispatched
    event,        \* event_to_dispatch
    calibrated,   \* a sensor reading has been dispatched (last_temp is set)
    high, low,    \* the worker queues
    pc,           \* where each worker is
    job,          \* received_event of each worker
    fate          \* history: what has become of the tracked event

busVars == <<queue, set, members, set_mutex>>
dispatchVars == <<dispatcher, member, event, calibrated>>
workVars == <<high, low, pc, job>>
vars == <<busVars, special, dispatchVars, workVars, fate>>

Init ==
    /\ queue = [s \in Sources |-> <<>>]
    /\ set = <<>>
    /\ members = Sources \ {"special"}
    /\ set_mutex = "none"
    /\ special = IF "special" \in Sources THEN "starting" ELSE "deleted"
    /\ dispatcher = "locking"
    /\ member = "nobody"
    /\ event = FALSE
    /\ calibrated = FALSE
    /\ high = <<>> /\ low = <<>>
    /\ pc = [w \in Workers |-> "polling"]
    /\ job = [w \in Workers |-> FALSE]
    /\ fate = "unsent"

-----------------------------------------------------------------------------
(* The sources                                                             *)

(* xQueueSend, or xSemaphoreGive for the timer: the event and the set's    *)
(* notice of it enter in one critical section of the kernel.               *)
Send(s, x) ==
    /\ Len(queue[s]) < QueueLen[s]
    /\ queue' = [queue EXCEPT ![s] = Append(@, x)]
    /\ set' = IF s \in members THEN Append(set, s) ELSE set

(* A source makes an event, tracked or not.  What cannot be sent within    *)
(* 100 ms is forgotten, and changes nothing.                               *)
Emit(s) ==
    /\ s \in Sources
    /\ \E tracked \in BOOLEAN :
          /\ tracked => fate = "unsent"
          /\ Send(s, tracked)
          /\ fate' = IF ~tracked THEN fate
                     ELSE IF s \in Urgent THEN "urgent" ELSE "accepted"
    /\ UNCHANGED <<members, set_mutex, dispatchVars, workVars>>

(* sensor_task, user_input_task and network_task: the bus cannot tell one  *)
(* from the other but by their queues.                                     *)
source_task ==
    /\ \E s \in {"sensor", "user", "network"} : Emit(s)
    /\ UNCHANGED special

timer_task == Emit("timer") /\ UNCHANGED special

(* special_event_task makes its queue, waits for the mutex of the set ...  *)
SpecialLock ==
    /\ special = "starting"
    /\ set_mutex = "none"
    /\ set_mutex' = "special"
    /\ special' = "adding"
    /\ UNCHANGED <<queue, set, members, dispatchVars, workVars, fate>>

(* ... adds the queue to the set ...                                       *)
SpecialAdd ==
    /\ special = "adding"
    /\ members' = members \cup {"special"}
    /\ set_mutex' = "none"
    /\ special' = "sending"
    /\ UNCHANGED <<queue, set, dispatchVars, workVars, fate>>

(* ... sends one event and deletes itself.                                 *)
SpecialSend ==
    /\ special = "sending"
    /\ Emit("special")
    /\ special' = "deleted"

-----------------------------------------------------------------------------
(* event_dispatcher_task                                                   *)

Lock ==
    /\ dispatcher = "locking"
    /\ set_mutex = "none"
    /\ set_mutex' = "dispatcher"
    /\ dispatcher' = "selecting"
    /\ UNCHANGED <<queue, set, members, special, member, event, calibrated,
                   workVars, fate>>

(* Variant: the mutex is not given back.                                   *)
SelectKeepsMutex ==
    /\ dispatcher = "selecting"
    /\ set # <<>>
    /\ member' = Head(set)
    /\ set' = Tail(set)
    /\ dispatcher' = "receiving"
    /\ UNCHANGED <<queue, members, set_mutex, special, event, calibrated,
                   workVars, fate>>

(* Wait for an event with the mutex held, then give it back.               *)
Select ==
    /\ dispatcher = "selecting"
    /\ set # <<>>
    /\ member' = Head(set)
    /\ set' = Tail(set)
    /\ set_mutex' = "none"
    /\ dispatcher' = "receiving"
    /\ UNCHANGED <<queue, members, special, event, calibrated, workVars, fate>>

(* The event is settled, or was not there: back to the top of the loop.    *)
StartOver ==
    /\ dispatcher' = "locking"
    /\ member' = "nobody"
    /\ event' = FALSE

(* Variant: the event is looked at (peeked), not taken.                    *)
ReceivePeeks ==
    /\ dispatcher = "receiving"
    /\ queue[member] # <<>>
    /\ event' = Head(queue[member])
    /\ dispatcher' = IF member = "sensor" THEN "filtering" ELSE "dispatching"
    /\ UNCHANGED <<busVars, special, member, calibrated, workVars, fate>>

(* Take the event the set announced; no waiting.                           *)
Receive ==
    /\ dispatcher = "receiving"
    /\ IF queue[member] = <<>>
       THEN StartOver /\ UNCHANGED queue
       ELSE /\ queue' = [queue EXCEPT ![member] = Tail(@)]
            /\ event' = Head(queue[member])
            /\ dispatcher' = IF member = "sensor" THEN "filtering"
                                                  ELSE "dispatching"
            /\ UNCHANGED member
    /\ UNCHANGED <<set, members, set_mutex, special, calibrated, workVars, fate>>

(* A sensor reading close to the last one dispatched is dropped here; the  *)
(* first one never is.                                                     *)
Filter ==
    /\ dispatcher = "filtering"
    /\ \/ /\ calibrated
          /\ fate' = IF event THEN "filtered" ELSE fate
          /\ StartOver
          /\ UNCHANGED calibrated
       \/ /\ calibrated' = TRUE
          /\ dispatcher' = "dispatching"
          /\ UNCHANGED <<member, event, fate>>
    /\ UNCHANGED <<busVars, special, workVars>>

(* Variant: the else is missing, urgent events go to both queues.          *)
DispatchBoth ==
    /\ dispatcher = "dispatching"
    /\ Len(high) < WorkerLen /\ Len(low) < WorkerLen
    /\ high' = IF member \in Urgent THEN Append(high, event) ELSE high
    /\ low' = Append(low, event)
    /\ StartOver
    /\ UNCHANGED <<busVars, special, calibrated, pc, job, fate>>

(* Send the event to the worker queue of its priority; with that queue     *)
(* full the event is dropped.                                              *)
Dispatch ==
    LET full == Len(IF member \in Urgent THEN high ELSE low) = WorkerLen
    IN  /\ dispatcher = "dispatching"
        /\ \/ full /\ UNCHANGED <<high, low>>
           \/ ~full /\ member \in Urgent
                    /\ high' = Append(high, event) /\ UNCHANGED low
           \/ ~full /\ member \notin Urgent
                    /\ low' = Append(low, event) /\ UNCHANGED high
        /\ fate' = IF full /\ event THEN "dropped" ELSE fate
        /\ StartOver
        /\ UNCHANGED <<busVars, special, calibrated, pc, job>>

event_dispatcher_task == Lock \/ Select \/ Receive \/ Filter \/ Dispatch

-----------------------------------------------------------------------------
(* worker_task and process_event                                           *)

(* Take an urgent job, or go and wait for another one.                     *)
PollHigh(w) ==
    /\ pc[w] = "polling"
    /\ IF high = <<>>
       THEN pc' = [pc EXCEPT ![w] = "waiting"] /\ UNCHANGED <<high, job>>
       ELSE /\ job' = [job EXCEPT ![w] = Head(high)]
            /\ high' = Tail(high)
            /\ pc' = [pc EXCEPT ![w] = "processing"]
    /\ UNCHANGED <<busVars, special, dispatchVars, low, fate>>

(* Wait, without limit, for a job that is not urgent.                      *)
WaitLow(w) ==
    /\ pc[w] = "waiting"
    /\ low # <<>>
    /\ job' = [job EXCEPT ![w] = Head(low)]
    /\ low' = Tail(low)
    /\ pc' = [pc EXCEPT ![w] = "processing"]
    /\ UNCHANGED <<busVars, special, dispatchVars, high, fate>>

(* Process the event; it is counted as well, unless the monitor keeps the  *)
(* mutex of the statistics for more than 50 ms.                            *)
process_event(w) ==
    /\ pc[w] = "processing"
    /\ fate' = IF job[w] THEN "processed" ELSE fate
    /\ job' = [job EXCEPT ![w] = FALSE]
    /\ pc' = [pc EXCEPT ![w] = "polling"]
    /\ UNCHANGED <<busVars, special, dispatchVars, high, low>>

worker_task(w) == PollHigh(w) \/ WaitLow(w) \/ process_event(w)

-----------------------------------------------------------------------------

Next ==
    \/ source_task \/ timer_task
    \/ SpecialLock \/ SpecialAdd \/ SpecialSend
    \/ event_dispatcher_task
    \/ \E w \in Workers : worker_task(w)

Spec == Init /\ [][Next]_vars

(* The dispatcher and the workers always get to run: their priorities are  *)
(* above all tasks that do not block, the sources sleep for seconds.  The  *)
(* timer fires every ten seconds.  Nothing is assumed of the other sources *)
(* nor that the special task ever gets the mutex, only that it gives it    *)
(* back.                                                                   *)
Fairness ==
    /\ WF_vars(event_dispatcher_task)
    /\ \A w \in Workers : WF_vars(worker_task(w))
    /\ WF_vars(timer_task)
    /\ WF_vars(SpecialAdd)

FairSpec == Spec /\ Fairness

-----------------------------------------------------------------------------

TypeOK ==
    /\ queue \in [Sources -> Seq(BOOLEAN)]
    /\ \A s \in Sources : Len(queue[s]) <= QueueLen[s]
    /\ set \in Seq(Sources) /\ Len(set) <= SetLen
    /\ members \subseteq Sources
    /\ set_mutex \in {"none", "dispatcher", "special"}
    /\ special \in {"starting", "adding", "sending", "deleted"}
    /\ dispatcher \in {"locking", "selecting", "receiving", "filtering",
                       "dispatching"}
    /\ member \in Sources \cup {"nobody"}
    /\ event \in BOOLEAN
    /\ calibrated \in BOOLEAN
    /\ \A q \in {high, low} : q \in Seq(BOOLEAN) /\ Len(q) <= WorkerLen
    /\ pc \in [Workers -> {"polling", "waiting", "processing"}]
    /\ job \in [Workers -> BOOLEAN]
    /\ fate \in {"unsent", "accepted", "urgent", "filtered", "dropped",
                 "processed"}

(* The set mirrors its members, also the one added at run time: it has one *)
(* entry for each event in a queue, the entry the dispatcher has taken     *)
(* included.  So the dispatcher's receive without waiting always finds the *)
(* event, and no event is left behind without an entry; nor is a queue or  *)
(* the set ever longer than it was made (TypeOK).                          *)
Entries(s) == Cardinality({k \in DOMAIN set : set[k] = s})
                  + (IF dispatcher = "receiving" /\ member = s THEN 1 ELSE 0)
SetMirrorsQueues == TypeOK /\ \A s \in Sources : Entries(s) = Len(queue[s])

(* An accepted event is in exactly one place until it is settled, and in   *)
(* none afterwards: no worker gets what another one has, and what was      *)
(* dropped or filtered does not come back.                                 *)
Tracked(q) == {k \in DOMAIN q : q[k]}
Places ==
    (UNION {{<<s, k>> : k \in Tracked(queue[s])} : s \in Sources})
        \cup {<<"high", k>> : k \in Tracked(high)}
        \cup {<<"low", k>> : k \in Tracked(low)}
        \cup {<<"job", w>> : w \in {v \in Workers : job[v]}}
        \cup (IF event THEN {<<"dispatcher", 0>>} ELSE {})
OnePlaceAtATime ==
    Cardinality(Places) = IF fate \in {"accepted", "urgent"} THEN 1 ELSE 0

(* Every urgent event is settled in the end.  It may find all workers      *)
(* waiting at the low queue: what saves it is the next timer event.        *)
UrgentIsSettled == fate = "urgent" ~> fate # "urgent"
=============================================================================
