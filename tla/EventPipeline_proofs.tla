------------------------ MODULE EventPipeline_proofs ------------------------
(***************************************************************************)
(* Proofs about EventPipeline for every number of stages and items and     *)
(* every length of the queue.                                              *)
(***************************************************************************)
EXTENDS EventPipeline, FiniteSetTheorems, TLAPS

(* Of the tasks only stages take items, and those hold one that process.   *)
PhaseOK ==
    /\ pc[Generator] \in {"making", "signalling"}
    /\ \A s \in Stage : pc[s] = "processing" => item[s] # NoItem

(* Ids in use are no larger than the generator's counter.                  *)
IdsMade ==
    /\ \A i \in 1..Len(queue) : queue[i] <= pipeline_id
    /\ \A s \in Stage : item[s] <= pipeline_id
    /\ completed \subseteq 1..pipeline_id

One(b) == IF b THEN 1 ELSE 0

(* A run of the stage before is used at most once: for a run of the stage, *)
(* one that it has begun, a bit or a signal.                               *)
RunsBacked ==
    \A s \in Stage :
        runs[s] + One(pc[s] \in {"receiving", "processing"})
                + One(Prev(s) \in bits) + One(pc[Prev(s)] = "signalling")
            <= runs[Prev(s)]

LEMMA Tasks ==
    /\ Last \in Nat /\ Generator \in Nat /\ Generator \in Task
    /\ Generator \notin Stage /\ Task = Stage \cup {Generator}
    /\ \A s \in Stage : Prev(s) \in Task /\ Prev(s) # s
    /\ \A s, r \in Stage : Prev(s) = Prev(r) => s = r
BY PipelineAssumption DEF Generator, Task, Stage, Prev

(* What a send does.                                                       *)
LEMMA Sends ==
    ASSUME TypeOK, NEW t \in Task, NEW x \in Item, NEW full, Send(t, x, full)
    PROVE  \/ /\ queue' \in Seq(Item) /\ Len(queue') = Len(queue) + 1
              /\ Len(queue) < QueueLen
              /\ queue'[Len(queue) + 1] = x
              /\ \A i \in 1..Len(queue) : queue'[i] = queue[i]
              /\ pc' = [pc EXCEPT ![t] = "signalling"]
           \/ queue' = queue /\ pc' = [pc EXCEPT ![t] = full]
<1>1. queue \in Seq(Item)
  BY DEF TypeOK
<1>2. CASE queue' = Append(queue, x)
           /\ Len(queue) < QueueLen /\ pc' = [pc EXCEPT ![t] = "signalling"]
  BY <1>1, <1>2
<1>3. CASE UNCHANGED queue /\ pc' = [pc EXCEPT ![t] = full]
  BY <1>3
<1> QED BY <1>2, <1>3 DEF Send

LEMMA Receives ==
    ASSUME TypeOK, queue # <<>>, queue' = Tail(queue)
    PROVE  /\ Head(queue) \in Item /\ Head(queue) = queue[1]
           /\ Len(queue) \in Nat \ {0} /\ Len(queue') = Len(queue) - 1
           /\ queue' \in Seq(Item)
           /\ \A i \in 1..Len(queue') : queue'[i] = queue[i + 1]
BY DEF TypeOK

LEMMA TypeStep ==
    ASSUME TypeOK, PhaseOK, [Next]_vars
    PROVE  TypeOK' /\ PhaseOK'
<1> USE Tasks, PipelineAssumption
<1>0. NoItem \notin Item
  BY DEF NoItem, Item
<1>1. CASE Generate
  <2>1. pipeline_id + 1 \in Item /\ pipeline_id' \in 0..MaxItems
    BY <1>1 DEF Generate, TypeOK, Item
  <2>2. Send(Generator, pipeline_id + 1, "making")
    BY <1>1 DEF Generate
  <2>3. queue' \in Seq(Item) /\ Len(queue') <= QueueLen
    BY <2>1, <2>2, Sends DEF TypeOK
  <2>4. \/ pc' = [pc EXCEPT ![Generator] = "signalling"]
        \/ pc' = [pc EXCEPT ![Generator] = "making"]
    BY <2>1, <2>2, Sends
  <2>5. runs' \in [Task -> Nat]
    BY <1>1 DEF Generate, TypeOK
  <2> QED BY <1>1, <2>1, <2>3, <2>4, <2>5 DEF Generate, TypeOK, PhaseOK
<1>2. ASSUME NEW s \in Stage, Wake(s)
      PROVE  TypeOK' /\ PhaseOK'
  BY <1>2 DEF Wake, TypeOK, PhaseOK
<1>3. ASSUME NEW s \in Stage, Receive(s)
      PROVE  TypeOK' /\ PhaseOK'
  <2>1. CASE queue = <<>>
    BY <1>3, <2>1 DEF Receive, TypeOK, PhaseOK
  <2>2. CASE queue # <<>>
    <3>1. /\ queue' = Tail(queue) /\ item' = [item EXCEPT ![s] = Head(queue)]
          /\ completed' \subseteq completed \cup {Head(queue)}
          /\ pc' = [pc EXCEPT ![s] = "processing"]
          /\ UNCHANGED <<bits, pipeline_id, runs>>
      BY <1>3, <2>2 DEF Receive
    <3>2. /\ Head(queue) \in Item /\ queue' \in Seq(Item)
          /\ Len(queue') <= QueueLen
      BY <2>2, <3>1, Receives DEF TypeOK
    <3> QED BY <1>0, <3>1, <3>2 DEF TypeOK, PhaseOK
  <2> QED BY <2>1, <2>2
<1>4. ASSUME NEW s \in Stage, PassOn(s)
      PROVE  TypeOK' /\ PhaseOK'
  <2>1. item[s] \in Item /\ s \in Task
    BY <1>4 DEF PassOn, TypeOK, PhaseOK
  <2>2. queue' \in Seq(Item) /\ Len(queue') <= QueueLen
    BY <1>4, <2>1, Sends DEF PassOn, TypeOK
  <2>3. \/ pc' = [pc EXCEPT ![s] = "signalling"]
        \/ pc' = [pc EXCEPT ![s] = "waiting"]
    BY <1>4, <2>1, Sends DEF PassOn
  <2>4. item' = [item EXCEPT ![s] = NoItem] /\ UNCHANGED <<bits, pipeline_id, completed>>
        /\ runs' = [runs EXCEPT ![s] = @ + 1]
    BY <1>4 DEF PassOn
  <2> QED BY <2>1, <2>2, <2>3, <2>4 DEF TypeOK, PhaseOK
<1>5. ASSUME NEW t \in Task, Signal(t)
      PROVE  TypeOK' /\ PhaseOK'
  BY <1>5 DEF Signal, TypeOK, PhaseOK
<1>6. CASE UNCHANGED vars
  BY <1>6 DEF vars, TypeOK, PhaseOK
<1> QED BY <1>1, <1>2, <1>3, <1>4, <1>5, <1>6 DEF Next, Idle

-----------------------------------------------------------------------------
(* Items                                                                   *)

(* The new item is at the end of the queue; the rest is where it was.      *)
LEMMA NewAtEnd ==
    ASSUME TypeOK, NothingDuplicated, NEW x \in Item,
           queue' \in Seq(Item), Len(queue') = Len(queue) + 1,
           queue'[Len(queue) + 1] = x,
           \A i \in 1..Len(queue) : queue'[i] = queue[i],
           \A i \in 1..Len(queue) : queue[i] # x
    PROVE  /\ \A i, j \in 1..Len(queue') : queue'[i] = queue'[j] => i = j
           /\ \A i \in 1..Len(queue') :
                 queue'[i] = x \/ \E j \in 1..Len(queue) : queue'[i] = queue[j]
<1>1. Len(queue) \in Nat
  BY DEF TypeOK
<1>2. \A i \in 1..Len(queue') : i \in 1..Len(queue) \/ i = Len(queue) + 1
  BY <1>1
<1> QED BY <1>1, <1>2 DEF NothingDuplicated

LEMMA ItemStep ==
    ASSUME TypeOK, PhaseOK, IdsMade, NothingDuplicated, [Next]_vars
    PROVE  IdsMade' /\ NothingDuplicated'
<1> USE Tasks, PipelineAssumption
<1>0. TypeOK' /\ NoItem \notin Item /\ NoItem = 0 /\ Len(queue) \in Nat
      /\ pipeline_id \in Nat /\ Item \subseteq Nat
  BY TypeStep DEF NoItem, Item, TypeOK
<1>1. CASE Generate
  <2> DEFINE x == pipeline_id + 1
  <2>1. /\ x \in Item /\ pipeline_id' = x /\ Send(Generator, x, "making")
        /\ item' = item /\ completed' = completed
    BY <1>1 DEF Generate, TypeOK, Item
  <2>2. /\ \A i \in 1..Len(queue) : queue[i] # x /\ queue[i] \in Nat
        /\ \A s \in Stage : item[s] # x /\ item[s] \in Nat
        /\ x \notin completed
    <3>1. /\ \A i \in 1..Len(queue) : queue[i] \in Nat
          /\ \A s \in Stage : item[s] \in Nat
      <4>1. queue \in Seq(Item) /\ item \in [Stage -> Item \cup {NoItem}]
        BY DEF TypeOK
      <4>2. \A i \in 1..Len(queue) : queue[i] \in Item
        BY <1>0, <4>1
      <4>3. \A s \in Stage : item[s] \in Item \cup {NoItem}
        BY <4>1
      <4>4. Item \subseteq Nat /\ NoItem \in Nat
        BY DEF Item, NoItem
      <4> QED BY <4>2, <4>3, <4>4
    <3>2. x \notin 1..pipeline_id /\ \A n \in Nat : n <= pipeline_id => n # x
      BY <1>0
    <3> QED BY <3>1, <3>2 DEF IdsMade
  <2>3. CASE queue' = queue
    <3>1. /\ \A n \in Nat : n <= pipeline_id => n <= pipeline_id'
          /\ 1..pipeline_id \subseteq 1..pipeline_id'
          /\ item' = item /\ completed' = completed
      BY <1>0, <2>1
    <3>2. IdsMade'
      BY <2>2, <2>3, <3>1 DEF IdsMade
    <3>3. NothingDuplicated'
      BY <1>0, <2>3, <3>1 DEF NothingDuplicated
    <3> QED BY <3>2, <3>3
  <2>4. CASE queue' # queue
    <3>1. /\ queue' \in Seq(Item) /\ Len(queue') = Len(queue) + 1
          /\ queue'[Len(queue) + 1] = x
          /\ \A i \in 1..Len(queue) : queue'[i] = queue[i]
      BY <2>1, <2>4, Sends
    <3>2. /\ \A i, j \in 1..Len(queue') : queue'[i] = queue'[j] => i = j
          /\ \A i \in 1..Len(queue') :
                queue'[i] = x \/ \E j \in 1..Len(queue) : queue'[i] = queue[j]
      BY <2>1, <2>2, <3>1, NewAtEnd
    <3>3. IdsMade'
      <4>1. /\ \A n \in Nat : n <= pipeline_id => n <= pipeline_id'
            /\ 1..pipeline_id \subseteq 1..pipeline_id'
            /\ item' = item /\ completed' = completed
            /\ x <= pipeline_id'
        BY <1>0, <2>1
      <4>2. \A i \in 1..Len(queue') : queue'[i] <= pipeline_id'
        BY <2>2, <3>2, <4>1 DEF IdsMade
      <4> QED BY <2>2, <4>1, <4>2 DEF IdsMade
    <3>4. \A s \in Stage : item'[s] # NoItem =>
             /\ \A i \in 1..Len(queue') : queue'[i] # item'[s]
             /\ \A r \in Stage : item'[r] = item'[s] => r = s
             /\ s # Last => item'[s] \notin completed'
      BY <2>1, <2>2, <3>2 DEF NothingDuplicated
    <3>5. \A i \in 1..Len(queue') : queue'[i] \notin completed'
      BY <2>1, <2>2, <3>2 DEF NothingDuplicated
    <3> QED BY <1>0, <3>2, <3>3, <3>4, <3>5 DEF NothingDuplicated
  <2> QED BY <2>3, <2>4
<1>2. ASSUME NEW s \in Stage, Receive(s), queue # <<>>
      PROVE  IdsMade' /\ NothingDuplicated'
  <2> DEFINE x == queue[1]
  <2>1. /\ queue' = Tail(queue) /\ item' = [item EXCEPT ![s] = x]
        /\ completed' = completed \cup (IF s = Last THEN {x} ELSE {})
        /\ pipeline_id' = pipeline_id
    BY <1>2, Receives DEF Receive
  <2>2. /\ x \in Item /\ 1 \in 1..Len(queue) /\ Len(queue') = Len(queue) - 1
        /\ \A i \in 1..Len(queue') : i + 1 \in 1..Len(queue) /\ queue'[i] = queue[i + 1]
    BY <1>0, <1>2, <2>1, Receives
  <2>3. \A i \in 1..Len(queue') : queue'[i] # x
    BY <1>0, <2>2 DEF NothingDuplicated
  <2>4. \A r \in Stage : item[r] # x
    BY <1>0, <2>2 DEF NothingDuplicated
  <2>5. x \notin completed /\ x <= pipeline_id
    BY <2>2 DEF NothingDuplicated, IdsMade
  <2>6. \A r \in Stage : item'[r] = IF r = s THEN x ELSE item[r]
    BY <2>1 DEF TypeOK
  <2>7. IdsMade'
    <3>1. x \in 1..pipeline_id
      BY <1>0, <2>2, <2>5 DEF Item
    <3>2. completed' \subseteq 1..pipeline_id'
      BY <2>1, <3>1 DEF IdsMade
    <3>3. \A i \in 1..Len(queue') : queue'[i] <= pipeline_id'
      BY <2>1, <2>2 DEF IdsMade
    <3>4. \A r \in Stage : item'[r] <= pipeline_id'
      BY <2>1, <2>5, <2>6 DEF IdsMade
    <3> QED BY <3>2, <3>3, <3>4 DEF IdsMade
  <2>8. \A i, j \in 1..Len(queue') : queue'[i] = queue'[j] => i = j
    BY <1>0, <2>2 DEF NothingDuplicated
  <2>9. \A r \in Stage : item'[r] # NoItem =>
           /\ \A i \in 1..Len(queue') : queue'[i] # item'[r]
           /\ \A q \in Stage : item'[q] = item'[r] => q = r
           /\ r # Last => item'[r] \notin completed'
    BY <2>1, <2>2, <2>3, <2>4, <2>5, <2>6 DEF NothingDuplicated
  <2>10. \A i \in 1..Len(queue') : queue'[i] \notin completed'
    BY <2>1, <2>2, <2>3 DEF NothingDuplicated
  <2> QED BY <1>0, <2>7, <2>8, <2>9, <2>10 DEF NothingDuplicated
<1>3. ASSUME NEW s \in Stage, PassOn(s)
      PROVE  IdsMade' /\ NothingDuplicated'
  <2> DEFINE x == item[s]
  <2>1. /\ x \in Item /\ x # NoItem /\ s \in Task
        /\ item' = [item EXCEPT ![s] = NoItem]
        /\ completed' = completed /\ pipeline_id' = pipeline_id
    BY <1>0, <1>3 DEF PassOn, TypeOK, PhaseOK
  <2>2. /\ \A i \in 1..Len(queue) : queue[i] # x
        /\ \A r \in Stage : item[r] = x => r = s
        /\ s # Last => x \notin completed
        /\ x <= pipeline_id
    BY <2>1 DEF NothingDuplicated, IdsMade
  <2>3. \A r \in Stage : item'[r] = IF r = s THEN NoItem ELSE item[r]
    BY <2>1 DEF TypeOK
  <2>4. CASE queue' = queue
    BY <1>0, <2>1, <2>3, <2>4 DEF IdsMade, NothingDuplicated
  <2>5. CASE queue' # queue
    <3>1. s # Last /\ Send(s, x, "waiting")
      BY <1>3, <2>5 DEF PassOn
    <3>2. /\ queue' \in Seq(Item) /\ Len(queue') = Len(queue) + 1
          /\ queue'[Len(queue) + 1] = x
          /\ \A i \in 1..Len(queue) : queue'[i] = queue[i]
      BY <2>1, <2>5, <3>1, Sends
    <3>3. /\ \A i, j \in 1..Len(queue') : queue'[i] = queue'[j] => i = j
          /\ \A i \in 1..Len(queue') :
                queue'[i] = x \/ \E j \in 1..Len(queue) : queue'[i] = queue[j]
      BY <2>1, <2>2, <3>2, NewAtEnd
    <3>4. IdsMade'
      BY <1>0, <2>1, <2>2, <2>3, <3>3 DEF IdsMade
    <3>5. \A r \in Stage : item'[r] # NoItem =>
             /\ \A i \in 1..Len(queue') : queue'[i] # item'[r]
             /\ \A q \in Stage : item'[q] = item'[r] => q = r
             /\ r # Last => item'[r] \notin completed'
      BY <2>1, <2>2, <2>3, <3>3 DEF NothingDuplicated
    <3>6. \A i \in 1..Len(queue') : queue'[i] \notin completed'
      BY <2>1, <2>2, <3>1, <3>3 DEF NothingDuplicated
    <3> QED BY <1>0, <3>3, <3>4, <3>5, <3>6 DEF NothingDuplicated
  <2> QED BY <2>4, <2>5
<1>4. CASE UNCHANGED <<queue, item, completed, pipeline_id>>
  BY <1>0, <1>4 DEF IdsMade, NothingDuplicated
<1>5. ASSUME NEW s \in Stage, Wake(s) \/ (Receive(s) /\ queue = <<>>)
      PROVE  IdsMade' /\ NothingDuplicated'
  BY <1>4, <1>5 DEF Wake, Receive
<1>6. CASE \E t \in Task : Signal(t)
  BY <1>4, <1>6 DEF Signal
<1>7. CASE Idle \/ UNCHANGED vars
  BY <1>4, <1>7 DEF Idle, vars
<1> QED BY <1>1, <1>2, <1>3, <1>5, <1>6, <1>7 DEF Next

-----------------------------------------------------------------------------
(* Runs                                                                    *)

LEMMA RunStep ==
    ASSUME TypeOK, PhaseOK, RunsBacked, [Next]_vars
    PROVE  RunsBacked'
<1> USE Tasks DEF One
<1>0. \A t \in Task : runs[t] \in Nat
  BY DEF TypeOK
<1>1. ASSUME NEW t \in Task, NEW label,
             runs' = [runs EXCEPT ![t] = @ + 1], UNCHANGED bits,
             pc' = [pc EXCEPT ![t] = label],
             label \in {"signalling", "waiting", "making"},
             t \in Stage => pc[t] = "processing",
             pc[t] # "signalling"
      PROVE  RunsBacked'
  <2> SUFFICES ASSUME NEW s \in Stage
               PROVE  runs'[s] + One(pc'[s] \in {"receiving", "processing"})
                        + One(Prev(s) \in bits) + One(pc'[Prev(s)] = "signalling")
                        <= runs'[Prev(s)]
    BY <1>1 DEF RunsBacked
  <2>1. runs[s] + One(pc[s] \in {"receiving", "processing"})
          + One(Prev(s) \in bits) + One(pc[Prev(s)] = "signalling")
          <= runs[Prev(s)]
    BY DEF RunsBacked
  <2>2. \A u \in Task : /\ runs'[u] = IF u = t THEN runs[u] + 1 ELSE runs[u]
                        /\ pc'[u] = IF u = t THEN label ELSE pc[u]
    BY <1>1 DEF TypeOK
  <2>3. CASE s = t
    BY <1>0, <1>1, <2>1, <2>2, <2>3
  <2>4. CASE s # t
    BY <1>0, <1>1, <2>1, <2>2, <2>4
  <2> QED BY <2>3, <2>4
<1>2. CASE Generate
  <2>1. pc[Generator] = "making" /\ UNCHANGED bits
        /\ runs' = [runs EXCEPT ![Generator] = @ + 1]
        /\ \E label \in {"signalling", "making"} : pc' = [pc EXCEPT ![Generator] = label]
    BY <1>2 DEF Generate, Send
  <2> QED BY <1>1, <2>1
<1>3. ASSUME NEW s \in Stage, PassOn(s)
      PROVE  RunsBacked'
  <2>1. pc[s] = "processing" /\ UNCHANGED bits /\ s \in Task
        /\ runs' = [runs EXCEPT ![s] = @ + 1]
        /\ \E label \in {"signalling", "waiting"} : pc' = [pc EXCEPT ![s] = label]
    BY <1>3 DEF PassOn, Send
  <2> QED BY <1>1, <2>1
<1>4. ASSUME NEW t \in Stage, Wake(t)
      PROVE  RunsBacked'
  <2> SUFFICES ASSUME NEW s \in Stage
               PROVE  runs'[s] + One(pc'[s] \in {"receiving", "processing"})
                        + One(Prev(s) \in bits') + One(pc'[Prev(s)] = "signalling")
                        <= runs'[Prev(s)]
    BY DEF RunsBacked
  <2>1. /\ pc[t] = "waiting" /\ Prev(t) \in bits /\ runs' = runs
        /\ bits' = bits \ {Prev(t)}
        /\ \A u \in Task : pc'[u] = IF u = t THEN "receiving" ELSE pc[u]
    BY <1>4 DEF Wake, TypeOK
  <2>2. runs[s] + One(pc[s] \in {"receiving", "processing"})
          + One(Prev(s) \in bits) + One(pc[Prev(s)] = "signalling")
          <= runs[Prev(s)]
    BY DEF RunsBacked
  <2>3. Prev(s) \in Task /\ Prev(s) # s /\ s \in Task
    OBVIOUS
  <2>4. CASE s = t
    <3>1. /\ One(pc[s] \in {"receiving", "processing"}) = 0
          /\ One(pc'[s] \in {"receiving", "processing"}) = 1
          /\ One(Prev(s) \in bits) = 1 /\ One(Prev(s) \in bits') = 0
      BY <2>1, <2>3, <2>4
    <3>2. pc'[Prev(s)] = pc[Prev(s)] /\ runs'[s] = runs[s] /\ runs'[Prev(s)] = runs[Prev(s)]
      BY <2>1, <2>3, <2>4
    <3> HIDE DEF One
    <3>3. One(pc[Prev(s)] = "signalling") \in {0, 1}
      BY DEF One
    <3> QED BY <1>0, <2>2, <2>3, <3>1, <3>2, <3>3
  <2>5. CASE s # t /\ Prev(s) # t
    BY <1>0, <2>1, <2>2, <2>3, <2>5
  <2>6. CASE s # t /\ Prev(s) = t
    BY <1>0, <2>1, <2>2, <2>3, <2>6
  <2> QED BY <2>4, <2>5, <2>6
<1>5. ASSUME NEW t \in Stage, Receive(t)
      PROVE  RunsBacked'
  <2> SUFFICES ASSUME NEW s \in Stage
               PROVE  runs'[s] + One(pc'[s] \in {"receiving", "processing"})
                        + One(Prev(s) \in bits') + One(pc'[Prev(s)] = "signalling")
                        <= runs'[Prev(s)]
    BY DEF RunsBacked
  <2>1. /\ pc[t] = "receiving" /\ bits' = bits /\ runs' = runs
        /\ \E label \in {"waiting", "processing"} :
              \A u \in Task : pc'[u] = IF u = t THEN label ELSE pc[u]
    BY <1>5 DEF Receive, TypeOK
  <2>2. runs[s] + One(pc[s] \in {"receiving", "processing"})
          + One(Prev(s) \in bits) + One(pc[Prev(s)] = "signalling")
          <= runs[Prev(s)]
    BY DEF RunsBacked
  <2>3. Prev(s) \in Task /\ Prev(s) # s /\ s \in Task
    OBVIOUS
  <2>4. CASE s = t
    <3> DEFINE busy == One(pc[s] \in {"receiving", "processing"})
               set == One(Prev(s) \in bits)
               given == One(pc[Prev(s)] = "signalling")
               busyNext == One(pc'[s] \in {"receiving", "processing"})
    <3>1. /\ busy = 1 /\ busyNext \in Nat /\ busyNext <= 1
          /\ set \in Nat /\ given \in Nat
          /\ runs[s] + busy + set + given <= runs[Prev(s)]
      BY <2>1, <2>2, <2>3, <2>4
    <3>2. /\ One(pc'[Prev(s)] = "signalling") = given /\ One(Prev(s) \in bits') = set
          /\ runs'[s] = runs[s] /\ runs'[Prev(s)] = runs[Prev(s)]
      BY <2>1, <2>3, <2>4
    <3> HIDE DEF busy, set, given, busyNext
    <3>3. runs[s] \in Nat /\ runs[Prev(s)] \in Nat
      BY <1>0, <2>3
    <3>4. runs[s] + busyNext + set + given <= runs[Prev(s)]
      BY <3>1, <3>3
    <3> QED BY <3>2, <3>4 DEF busyNext
  <2>5. CASE s # t /\ Prev(s) # t
    BY <1>0, <2>1, <2>2, <2>3, <2>5
  <2>6. CASE s # t /\ Prev(s) = t
    BY <1>0, <2>1, <2>2, <2>3, <2>6
  <2> QED BY <2>4, <2>5, <2>6
<1>6. ASSUME NEW t \in Task, Signal(t)
      PROVE  RunsBacked'
  <2> SUFFICES ASSUME NEW s \in Stage
               PROVE  runs'[s] + One(pc'[s] \in {"receiving", "processing"})
                        + One(Prev(s) \in bits') + One(pc'[Prev(s)] = "signalling")
                        <= runs'[Prev(s)]
    BY DEF RunsBacked
  <2>1. /\ pc[t] = "signalling" /\ bits' = bits \cup {t} /\ runs' = runs
        /\ \E label \in {"waiting", "making"} :
              \A u \in Task : pc'[u] = IF u = t THEN label ELSE pc[u]
    BY <1>6 DEF Signal, TypeOK
  <2>2. runs[s] + One(pc[s] \in {"receiving", "processing"})
          + One(Prev(s) \in bits) + One(pc[Prev(s)] = "signalling")
          <= runs[Prev(s)]
    BY DEF RunsBacked
  <2>3. Prev(s) \in Task /\ Prev(s) # s /\ s \in Task
    OBVIOUS
  <2>4. CASE s = t
    BY <1>0, <2>1, <2>2, <2>3, <2>4
  <2>5. CASE s # t /\ Prev(s) # t
    BY <1>0, <2>1, <2>2, <2>3, <2>5
  <2>6. CASE s # t /\ Prev(s) = t
    BY <1>0, <2>1, <2>2, <2>3, <2>6
  <2> QED BY <2>4, <2>5, <2>6
<1>7. CASE Idle \/ UNCHANGED vars
  BY <1>7 DEF Idle, vars, RunsBacked
<1> QED BY <1>2, <1>3, <1>4, <1>5, <1>6, <1>7 DEF Next

-----------------------------------------------------------------------------
(* Wake-ups                                                                *)

(* One task changes its phase.                                             *)
LEMMA PhaseMoves ==
    ASSUME TypeOK, NEW t \in Task, NEW label, pc' = [pc EXCEPT ![t] = label]
    PROVE  /\ label = "receiving" => In("receiving")' = In("receiving") \cup {t}
           /\ label # "receiving" => In("receiving")' = In("receiving") \ {t}
           /\ label # "receiving" /\ t \notin In("receiving") =>
                 In("receiving")' = In("receiving")
           /\ label = "signalling" => In("signalling")' = In("signalling") \cup {t}
           /\ label # "signalling" => In("signalling")' = In("signalling") \ {t}
           /\ label # "signalling" /\ t \notin In("signalling") =>
                 In("signalling")' = In("signalling")
<1>1. \A u \in Task : pc'[u] = IF u = t THEN label ELSE pc[u]
  BY DEF TypeOK
<1> QED BY <1>1 DEF In

LEMMA Counting ==
    ASSUME NEW S, IsFiniteSet(S), NEW e
    PROVE  /\ IsFiniteSet(S \cup {e}) /\ IsFiniteSet(S \ {e})
           /\ Cardinality(S) \in Nat
           /\ Cardinality(S \cup {e}) <= Cardinality(S) + 1
           /\ e \in S => /\ Cardinality(S \ {e}) = Cardinality(S) - 1
                         /\ Cardinality(S) > 0
           /\ e \notin S => S \ {e} = S
<1>1. Cardinality(S) \in Nat
  BY FS_CardinalityType
<1>2. /\ IsFiniteSet(S \cup {e})
      /\ Cardinality(S \cup {e}) = IF e \in S THEN Cardinality(S) ELSE Cardinality(S) + 1
  BY FS_AddElement
<1>3. /\ IsFiniteSet(S \ {e})
      /\ Cardinality(S \ {e}) = IF e \in S THEN Cardinality(S) - 1 ELSE Cardinality(S)
  BY FS_RemoveElement
<1>4. Cardinality(S \ {e}) \in Nat
  BY <1>3, FS_CardinalityType
<1> QED BY <1>1, <1>2, <1>3, <1>4

LEMMA FinitePhases ==
    ASSUME TypeOK
    PROVE  /\ IsFiniteSet(bits)
           /\ \A phase : IsFiniteSet(In(phase))
<1>1. IsFiniteSet(Task)
  BY Tasks, FS_Interval DEF Task
<1>2. bits \subseteq Task /\ \A phase : In(phase) \subseteq Task
  BY DEF TypeOK, In
<1> QED BY <1>1, <1>2, FS_Subset

LEMMA WakeUpStep ==
    ASSUME TypeOK, PhaseOK, WakeUpsHaveItems, [Next]_vars
    PROVE  WakeUpsHaveItems'
<1> DEFINE b == Cardinality(bits)
           r == Cardinality(In("receiving"))
           g == Cardinality(In("signalling"))
<1>0. /\ b \in Nat /\ r \in Nat /\ g \in Nat /\ Len(queue) \in Nat
      /\ b + r + g <= Len(queue)
  BY FinitePhases, FS_CardinalityType DEF WakeUpsHaveItems, TypeOK
<1>1. ASSUME NEW t \in Task, NEW x \in Item, NEW full, Send(t, x, full),
             full \notin {"receiving", "signalling"}, bits' = bits,
             pc[t] \notin {"receiving", "signalling"}
      PROVE  WakeUpsHaveItems'
  <2>1. t \notin In("receiving") /\ t \notin In("signalling")
    BY <1>1 DEF In
  <2>2. CASE /\ Len(queue') = Len(queue) + 1
             /\ pc' = [pc EXCEPT ![t] = "signalling"]
    <3>1. In("signalling")' = In("signalling") \cup {t} /\ In("receiving")' = In("receiving")
      BY <2>1, <2>2, PhaseMoves
    <3>2. Cardinality(In("signalling")') <= g + 1 /\ Cardinality(In("signalling")') \in Nat
      BY <3>1, FinitePhases, Counting, FS_CardinalityType
    <3> QED BY <1>0, <1>1, <2>2, <3>1, <3>2 DEF WakeUpsHaveItems
  <2>3. CASE queue' = queue /\ pc' = [pc EXCEPT ![t] = full]
    <3>1. In("signalling")' = In("signalling") /\ In("receiving")' = In("receiving")
      BY <1>1, <2>1, <2>3, PhaseMoves
    <3> QED BY <1>0, <1>1, <2>3, <3>1 DEF WakeUpsHaveItems
  <2> QED BY <1>1, <2>2, <2>3, Sends
<1>2. CASE Generate
  <2>1. pipeline_id + 1 \in Item
    BY <1>2, PipelineAssumption DEF Generate, TypeOK, Item
  <2> QED BY <1>1, <1>2, <2>1, Tasks DEF Generate
<1>3. ASSUME NEW s \in Stage, PassOn(s), s # Last
      PROVE  WakeUpsHaveItems'
  <2>1. item[s] \in Item /\ s \in Task
    BY <1>3, Tasks DEF PassOn, TypeOK, PhaseOK
  <2> QED BY <1>1, <1>3, <2>1 DEF PassOn
<1>4. ASSUME PassOn(Last)
      PROVE  WakeUpsHaveItems'
  <2>1. Last \in Task /\ pc[Last] = "processing" /\ bits' = bits /\ queue' = queue
        /\ pc' = [pc EXCEPT ![Last] = "waiting"]
    BY <1>4, Tasks DEF PassOn, Task, Stage
  <2>2. In("signalling")' = In("signalling") /\ In("receiving")' = In("receiving")
    <3>1. Last \notin In("signalling") /\ Last \notin In("receiving")
      BY <2>1 DEF In
    <3>2. In("signalling")' = In("signalling") \ {Last}
      BY <2>1 DEF In, TypeOK
    <3>3. In("receiving")' = In("receiving") \ {Last}
      BY <2>1 DEF In, TypeOK
    <3> QED BY <3>1, <3>2, <3>3
  <2> QED BY <2>1, <2>2 DEF WakeUpsHaveItems
<1>5. ASSUME NEW s \in Stage, Wake(s)
      PROVE  WakeUpsHaveItems'
  <2>1. /\ s \in Task /\ pc[s] = "waiting" /\ Prev(s) \in bits
        /\ bits' = bits \ {Prev(s)} /\ queue' = queue
        /\ pc' = [pc EXCEPT ![s] = "receiving"]
    BY <1>5, Tasks DEF Wake
  <2>2. In("receiving")' = In("receiving") \cup {s} /\ In("signalling")' = In("signalling")
    <3>1. s \notin In("signalling")
      BY <2>1 DEF In
    <3> QED BY <2>1, <3>1, PhaseMoves
  <2>3. Cardinality(In("receiving")') <= r + 1 /\ Cardinality(In("receiving")') \in Nat
    BY <2>2, FinitePhases, Counting, FS_CardinalityType
  <2>4. Cardinality(bits') = b - 1
    BY <2>1, FinitePhases, Counting
  <2> QED BY <1>0, <2>1, <2>2, <2>3, <2>4 DEF WakeUpsHaveItems
<1>6. ASSUME NEW s \in Stage, Receive(s)
      PROVE  WakeUpsHaveItems'
  <2>1. s \in Task /\ pc[s] = "receiving" /\ s \in In("receiving") /\ bits' = bits
    BY <1>6, Tasks DEF Receive, In
  <2>2. r > 0 /\ Cardinality(In("receiving") \ {s}) = r - 1
    BY <2>1, FinitePhases, Counting
  <2>3. queue # <<>>
    BY <1>0, <2>2
  <2>4. queue' = Tail(queue) /\ pc' = [pc EXCEPT ![s] = "processing"]
    BY <1>6, <2>3 DEF Receive
  <2>5. Len(queue') = Len(queue) - 1
    BY <2>3, <2>4, Receives
  <2>6. In("receiving")' = In("receiving") \ {s} /\ In("signalling")' = In("signalling")
    <3>1. s \notin In("signalling")
      BY <2>1 DEF In
    <3>2. In("receiving")' = In("receiving") \ {s}
      BY <2>1, <2>4, PhaseMoves
    <3>3. In("signalling")' = In("signalling") \ {s}
      BY <2>1, <2>4 DEF In, TypeOK
    <3> QED BY <3>1, <3>2, <3>3
  <2>7. Cardinality(In("receiving")') = r - 1
    BY <2>2, <2>6
  <2> QED BY <1>0, <2>1, <2>5, <2>6, <2>7 DEF WakeUpsHaveItems
<1>7. ASSUME NEW t \in Task, Signal(t)
      PROVE  WakeUpsHaveItems'
  <2>1. /\ pc[t] = "signalling" /\ t \in In("signalling") /\ t \notin In("receiving")
        /\ bits' = bits \cup {t} /\ queue' = queue
    BY <1>7 DEF Signal, In
  <2>2. PICK label \in {"making", "waiting"} : pc' = [pc EXCEPT ![t] = label]
    BY <1>7 DEF Signal
  <2>3. In("receiving")' = In("receiving") /\ In("signalling")' = In("signalling") \ {t}
    BY <2>1, <2>2, PhaseMoves
  <2>4. Cardinality(bits') <= b + 1 /\ Cardinality(bits') \in Nat
    BY <2>1, FinitePhases, Counting, FS_CardinalityType
  <2>5. Cardinality(In("signalling")') = g - 1
    BY <2>1, <2>3, FinitePhases, Counting
  <2> QED BY <1>0, <2>1, <2>3, <2>4, <2>5 DEF WakeUpsHaveItems
<1>8. CASE Idle \/ UNCHANGED vars
  BY <1>8 DEF Idle, vars, WakeUpsHaveItems, In
<1> QED BY <1>2, <1>3, <1>4, <1>5, <1>6, <1>7, <1>8 DEF Next

-----------------------------------------------------------------------------
(* The theorems                                                            *)

Inv ==
    /\ TypeOK /\ PhaseOK /\ IdsMade
    /\ NothingDuplicated /\ RunsBacked /\ WakeUpsHaveItems

LEMMA Initially == Init => Inv
<1> SUFFICES ASSUME Init PROVE Inv
  OBVIOUS
<1> USE Tasks, PipelineAssumption DEF Init, NoItem
<1>1. TypeOK /\ PhaseOK
  BY DEF TypeOK, PhaseOK, Item
<1>2. IdsMade /\ NothingDuplicated
  BY <1>1 DEF IdsMade, NothingDuplicated
<1>3. RunsBacked
  <2>1. \A s \in Stage : pc[s] = "waiting" /\ pc[Prev(s)] \in {"making", "waiting"}
    OBVIOUS
  <2> QED BY <2>1 DEF RunsBacked, One
<1>4. WakeUpsHaveItems
  <2>1. In("receiving") = {} /\ In("signalling") = {}
    BY DEF In
  <2>2. Cardinality({}) = 0
    BY FS_EmptySet
  <2>3. /\ Cardinality(bits) = 0 /\ Cardinality(In("receiving")) = 0
        /\ Cardinality(In("signalling")) = 0 /\ Len(queue) = 0
    BY <2>1, <2>2
  <2> HIDE DEF Init
  <2> QED BY <2>3 DEF WakeUpsHaveItems
<1> QED BY <1>1, <1>2, <1>3, <1>4 DEF Inv

LEMMA Stepwise == Inv /\ [Next]_vars => Inv'
BY TypeStep, ItemStep, RunStep, WakeUpStep DEF Inv

LEMMA Invariance == Spec => []Inv
BY Initially, Stepwise, PTL DEF Spec

(* However many stages share however short a queue, and whatever sends     *)
(* fail: a stage that was woken finds an item (event_synchronization.c:    *)
(* 231), so the branch for no data is dead.                                *)
THEOREM WokenStagesFindItems == Spec => []WakeUpsHaveItems
<1>1. Inv => WakeUpsHaveItems
  BY DEF Inv
<1> QED BY <1>1, Invariance, PTL

(* No item is in two places, and none is completed twice, though stages    *)
(* take from the queue they send to.                                       *)
THEOREM ItemsStayUnique == Spec => []NothingDuplicated
<1>1. Inv => NothingDuplicated
  BY DEF Inv
<1> QED BY <1>1, Invariance, PTL

(* No stage runs more often than the one before it.                        *)
THEOREM OrderOfRuns == Spec => []StagesRunInOrder
<1>1. Inv => StagesRunInOrder
  <2> SUFFICES ASSUME Inv, NEW s \in Stage PROVE runs[s] <= runs[Prev(s)]
    BY DEF StagesRunInOrder
  <2>1. runs[s] \in Nat /\ runs[Prev(s)] \in Nat
    BY Tasks DEF Inv, TypeOK
  <2>2. /\ One(pc[s] \in {"receiving", "processing"}) \in {0, 1}
        /\ One(Prev(s) \in bits) \in {0, 1}
        /\ One(pc[Prev(s)] = "signalling") \in {0, 1}
    BY DEF One
  <2>3. runs[s] + One(pc[s] \in {"receiving", "processing"})
          + One(Prev(s) \in bits) + One(pc[Prev(s)] = "signalling")
          <= runs[Prev(s)]
    BY DEF Inv, RunsBacked
  <2> QED BY <2>1, <2>2, <2>3
<1> QED BY <1>1, Invariance, PTL

=============================================================================
