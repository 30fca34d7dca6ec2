--------------------------- MODULE EventBus_proofs ---------------------------
(***************************************************************************)
(* The queue set mirrors its member queues, and a tracked event is in one  *)
(* place until it is settled, for any choice of sources, any lengths of    *)
(* the queues with a set as long as all of them together, and any number   *)
(* of workers.                                                             *)
(*                                                                         *)
(* The entries of the set are counted with the positions At(set, s); a     *)
(* send adds one and a select takes the first.  That the set never grows   *)
(* longer than it was made follows from the mirror alone: its entries, by  *)
(* source and rank, are different slots of the source queues.              *)
(***************************************************************************)
EXTENDS EventBus, FiniteSetTheorems, TLAPS

-----------------------------------------------------------------------------
(* Positions of a value in a sequence                                      *)

At(q, x) == {k \in DOMAIN q : q[k] = x}

LEMMA PositionsAreFinite ==
    ASSUME NEW S, NEW q \in Seq(S), NEW x
    PROVE  IsFiniteSet(At(q, x)) /\ Cardinality(At(q, x)) \in Nat
<1>1. Len(q) \in Nat /\ DOMAIN q = 1..Len(q)
  OBVIOUS
<1>2. IsFiniteSet(1..Len(q)) /\ At(q, x) \subseteq 1..Len(q)
  BY <1>1, FS_Interval DEF At
<1> QED BY <1>2, FS_Subset, FS_CardinalityType

LEMMA AppendedIsCounted ==
    ASSUME NEW S, NEW q \in Seq(S), NEW e \in S, NEW x
    PROVE  Cardinality(At(Append(q, e), x))
               = Cardinality(At(q, x)) + (IF e = x THEN 1 ELSE 0)
<1>1. /\ Append(q, e) \in Seq(S) /\ Len(q) \in Nat
      /\ DOMAIN q = 1..Len(q) /\ DOMAIN Append(q, e) = 1..(Len(q) + 1)
      /\ Append(q, e)[Len(q) + 1] = e
      /\ \A k \in 1..Len(q) : Append(q, e)[k] = q[k]
  OBVIOUS
<1>2. Len(q) + 1 \notin At(q, x)
  BY <1>1 DEF At
<1>3. CASE e = x
  <2>1. At(Append(q, e), x) = At(q, x) \cup {Len(q) + 1}
    BY <1>1, <1>3 DEF At
  <2> QED BY <1>2, <1>3, <2>1, PositionsAreFinite, FS_AddElement
<1>4. CASE e # x
  <2>1. At(Append(q, e), x) = At(q, x)
    BY <1>1, <1>4 DEF At
  <2> QED BY <1>4, <2>1, PositionsAreFinite
<1> QED BY <1>3, <1>4

LEMMA TakenIsCounted ==
    ASSUME NEW S, NEW q \in Seq(S), q # <<>>, NEW x
    PROVE  Cardinality(At(Tail(q), x)) + (IF Head(q) = x THEN 1 ELSE 0)
               = Cardinality(At(q, x))
<1> DEFINE later == At(q, x) \ {1}
           next == [k \in At(Tail(q), x) |-> k + 1]
<1>1. /\ Tail(q) \in Seq(S) /\ Len(q) \in Nat \ {0} /\ Len(Tail(q)) = Len(q) - 1
      /\ DOMAIN q = 1..Len(q) /\ DOMAIN Tail(q) = 1..(Len(q) - 1)
      /\ Head(q) = q[1]
      /\ \A k \in 1..(Len(q) - 1) : Tail(q)[k] = q[k + 1]
  OBVIOUS
<1>2. next \in Bijection(At(Tail(q), x), later)
  <2>1. \A k \in At(Tail(q), x) : k \in Nat /\ k + 1 \in later
    BY <1>1 DEF At
  <2>2. \A k \in later : k - 1 \in At(Tail(q), x) /\ k \in Nat
    BY <1>1 DEF At
  <2>3. next \in Injection(At(Tail(q), x), later)
    BY <2>1 DEF Injection, IsInjective
  <2>4. \A k \in later : next[k - 1] = k
    BY <2>2
  <2>5. next \in Surjection(At(Tail(q), x), later)
    BY <2>1, <2>2, <2>4 DEF Surjection
  <2> QED BY <2>3, <2>5 DEF Bijection
<1>3. IsFiniteSet(At(q, x)) /\ IsFiniteSet(At(Tail(q), x)) /\ Cardinality(At(q, x)) \in Nat
  BY <1>1, PositionsAreFinite
<1>4. Cardinality(At(Tail(q), x)) = Cardinality(later)
  <2> HIDE DEF next, later
  <2>1. ExistsBijection(At(Tail(q), x), later)
    BY <1>2 DEF ExistsBijection
  <2> QED BY <1>3, <2>1, FS_Bijection
<1>5. CASE Head(q) = x
  <2>1. 1 \in At(q, x)
    BY <1>1, <1>5 DEF At
  <2>2. Cardinality(later) = Cardinality(At(q, x)) - 1
    BY <1>3, <2>1, FS_RemoveElement
  <2> HIDE DEF later
  <2> QED BY <1>3, <1>4, <1>5, <2>2
<1>6. CASE Head(q) # x
  <2>1. later = At(q, x)
    BY <1>1, <1>6 DEF At
  <2> HIDE DEF later
  <2> QED BY <1>3, <1>4, <1>6, <2>1
<1> QED BY <1>5, <1>6

-----------------------------------------------------------------------------
(* The inductive invariant                                                 *)

(* EventBus!TypeOK but for the length of the set.                          *)
Types ==
    /\ queue \in [Sources -> Seq(BOOLEAN)]
    /\ \A s \in Sources : Len(queue[s]) <= QueueLen[s]
    /\ set \in Seq(Sources)
    /\ members \subseteq Sources
    /\ set_mutex \in {"none", "dispatcher", "special"}
    /\ special \in {"starting", "adding", "sending", "deleted"}
    /\ dispatcher \in {"locking", "selecting", "receiving", "filtering",
                       "dispatching"}
    /\ member \in Sources \cup {"nobody"}
    /\ event \in BOOLEAN
    /\ calibrated \in BOOLEAN
    /\ high \in Seq(BOOLEAN) /\ Len(high) <= WorkerLen
    /\ low \in Seq(BOOLEAN) /\ Len(low) <= WorkerLen
    /\ pc \in [Workers -> {"polling", "waiting", "processing"}]
    /\ job \in [Workers -> BOOLEAN]
    /\ fate \in {"unsent", "accepted", "urgent", "filtered", "dropped",
                 "processed"}

(* The special source sends only after its queue is in the set.            *)
SpecialIsLate ==
    /\ special # "deleted" => "special" \in Sources
    /\ special \in {"starting", "adding"} =>
          /\ members = Sources \ {"special"}
          /\ queue["special"] = <<>>
    /\ special \in {"sending", "deleted"} => members = Sources

(* What the dispatcher and the workers have in hand, and when.             *)
InHand ==
    /\ dispatcher \in {"receiving", "filtering", "dispatching"} => member \in Sources
    /\ event => dispatcher \in {"filtering", "dispatching"}
    /\ \A w \in Workers : job[w] => pc[w] = "processing"

Mirrored == \A s \in Sources : Entries(s) = Len(queue[s])

Lone(P) == \A x, y \in P : x = y

(* The tracked event is nowhere or in one place, as its fate says.         *)
Placed == Lone(Places) /\ (Places # {} <=> fate \in {"accepted", "urgent"})

Inv == Types /\ SpecialIsLate /\ InHand /\ Mirrored /\ Placed

-----------------------------------------------------------------------------
(* The length of the set                                                   *)

LEMMA EntriesAre ==
    ASSUME NEW s
    PROVE  Entries(s) = Cardinality(At(set, s))
                            + (IF dispatcher = "receiving" /\ member = s THEN 1 ELSE 0)
  BY DEF Entries, At

(* Entry k of the set is the Rank(k)-th of its source.                     *)
Rank(k) == Cardinality({j \in 1..k : set[j] = set[k]})

LEMMA RanksAreSlots ==
    ASSUME Types, Mirrored, NEW k \in DOMAIN set
    PROVE  Rank(k) \in 1..QueueLen[set[k]]
<1> DEFINE upto == {j \in 1..k : set[j] = set[k]}
<1>1. /\ set \in Seq(Sources) /\ DOMAIN set = 1..Len(set) /\ Len(set) \in Nat
      /\ set[k] \in Sources /\ k \in Nat /\ k >= 1
  BY DEF Types
<1>2. upto \subseteq At(set, set[k]) /\ k \in upto
  BY <1>1 DEF At
<1>3. IsFiniteSet(At(set, set[k])) /\ Cardinality(At(set, set[k])) \in Nat
  BY <1>1, PositionsAreFinite
<1>4. Rank(k) = Cardinality(upto)
  BY DEF Rank
<1> HIDE DEF upto
<1>5. IsFiniteSet(upto) /\ Cardinality(upto) \in Nat
      /\ Cardinality(upto) <= Cardinality(At(set, set[k]))
  BY <1>2, <1>3, FS_Subset, FS_CardinalityType
<1>6. Cardinality(upto) # 0
  BY <1>2, <1>5, FS_EmptySet
<1>7. Cardinality(At(set, set[k])) <= QueueLen[set[k]] /\ QueueLen[set[k]] \in Nat
  <2>1. Entries(set[k]) = Len(queue[set[k]]) /\ Len(queue[set[k]]) <= QueueLen[set[k]]
    BY <1>1 DEF Mirrored, Types
  <2>2. Len(queue[set[k]]) \in Nat /\ QueueLen[set[k]] \in Nat
    BY <1>1, BusAssumption DEF Types
  <2>3. Cardinality(At(set, set[k])) <= Entries(set[k])
    BY <1>3, EntriesAre
  <2>4. Entries(set[k]) \in Nat
    BY <2>1, <2>2
  <2> QED BY <1>3, <2>1, <2>2, <2>3, <2>4
<1> QED BY <1>3, <1>4, <1>5, <1>6, <1>7

LEMMA RanksDiffer ==
    ASSUME Types, NEW k \in DOMAIN set, NEW l \in DOMAIN set, k < l, set[k] = set[l]
    PROVE  Rank(k) < Rank(l)
<1> DEFINE R(m) == {j \in 1..m : set[j] = set[m]}
<1>1. set \in Seq(Sources) /\ DOMAIN set = 1..Len(set) /\ k \in Nat /\ l \in Nat /\ l >= 1
  BY DEF Types
<1>2. R(k) \subseteq R(l) /\ l \in R(l) /\ l \notin R(k)
  BY <1>1
<1>3. IsFiniteSet(R(l))
  <2>1. IsFiniteSet(1..l) /\ R(l) \subseteq 1..l
    BY <1>1, FS_Interval
  <2> HIDE DEF R
  <2> QED BY <2>1, FS_Subset
<1> HIDE DEF R
<1>4. R(k) \subseteq R(l) \ {l} /\ IsFiniteSet(R(l) \ {l})
      /\ Cardinality(R(l) \ {l}) = Cardinality(R(l)) - 1
  BY <1>2, <1>3, FS_RemoveElement
<1>5. Cardinality(R(k)) <= Cardinality(R(l) \ {l}) /\ IsFiniteSet(R(k))
  BY <1>4, FS_Subset
<1>6. Cardinality(R(k)) \in Nat /\ Cardinality(R(l)) \in Nat
  BY <1>3, <1>5, FS_CardinalityType
<1>7. Cardinality(R(k)) < Cardinality(R(l))
  BY <1>4, <1>5, <1>6
<1> QED BY <1>7 DEF Rank, R

(* A mirrored set is no longer than the source queues together.            *)
LEMMA SetFits ==
    ASSUME Types, Mirrored
    PROVE  Len(set) <= SetLen
<1> DEFINE slot == [k \in DOMAIN set |-> <<set[k], Rank(k)>>]
<1>1. set \in Seq(Sources) /\ DOMAIN set = 1..Len(set) /\ Len(set) \in Nat
  BY DEF Types
<1>2. slot \in Injection(DOMAIN set, Slots)
  <2>1. ASSUME NEW k \in DOMAIN set
        PROVE  slot[k] \in Slots
    <3>1. <<set[k], Rank(k)>> \in {set[k]} \X (1..QueueLen[set[k]])
      BY RanksAreSlots
    <3> QED BY <1>1, <3>1 DEF Slots
  <2>2. ASSUME NEW k \in DOMAIN set, NEW l \in DOMAIN set, slot[k] = slot[l]
        PROVE  k = l
    <3>1. set[k] = set[l] /\ Rank(k) = Rank(l)
      BY <2>2
    <3>2. Rank(k) \in Int /\ k \in Int /\ l \in Int
      BY <1>1, RanksAreSlots
    <3>3. ~(k < l) /\ ~(l < k)
      BY <3>1, <3>2, RanksDiffer
    <3> QED BY <3>2, <3>3
  <2>3. slot \in [DOMAIN set -> Slots]
    BY <2>1
  <2> QED BY <2>2, <2>3 DEF Injection, IsInjective
<1>3. IsFiniteSet(Slots)
  <2>1. IsFiniteSet(Sources)
    <3>1. \A T : IsFiniteSet(T) => \A x : IsFiniteSet(T \cup {x})
      BY FS_AddElement
    <3>2. AllSources = (((({} \cup {"sensor"}) \cup {"user"}) \cup {"network"})
                           \cup {"timer"}) \cup {"special"}
      BY DEF AllSources
    <3>3. IsFiniteSet({})
      BY FS_EmptySet
    <3>4. IsFiniteSet(AllSources)
      BY <3>1, <3>2, <3>3
    <3> QED BY <3>4, BusAssumption, FS_Subset
  <2> DEFINE row == [s \in Sources |-> {s} \X (1..QueueLen[s])]
             rows == {row[s] : s \in Sources}
  <2>2. ASSUME NEW s \in Sources
        PROVE  IsFiniteSet(row[s])
    <3>1. QueueLen[s] \in Nat
      BY BusAssumption
    <3>2. IsFiniteSet(1..QueueLen[s]) /\ IsFiniteSet({s})
      BY <3>1, FS_Interval, FS_Singleton, 1 \in Int, QueueLen[s] \in Int
    <3> QED BY <3>2, FS_Product
  <2>3. IsFiniteSet(rows)
    <3>1. row \in Surjection(Sources, rows)
      BY DEF Surjection
    <3> HIDE DEF row, rows
    <3> QED BY <2>1, <3>1, FS_Surjection
  <2>4. Slots = UNION rows
    <3>1. rows = {{s} \X (1..QueueLen[s]) : s \in Sources}
      OBVIOUS
    <3> HIDE DEF rows
    <3> QED BY <3>1 DEF Slots
  <2> HIDE DEF row
  <2>5. \A r \in rows : IsFiniteSet(r)
    BY <2>2
  <2> HIDE DEF rows
  <2> QED BY <2>3, <2>4, <2>5, FS_UNION
<1>4. Cardinality(DOMAIN set) <= Cardinality(Slots) /\ Cardinality(DOMAIN set) = Len(set)
  <2>1. Cardinality(1..Len(set)) = Len(set)
    BY <1>1, FS_Interval
  <2> HIDE DEF slot
  <2> QED BY <1>1, <1>2, <1>3, <2>1, FS_Injection
<1>5. Cardinality(Slots) \in Nat /\ Cardinality(Slots) <= SetLen /\ SetLen \in Nat
  BY <1>3, BusAssumption, FS_CardinalityType
<1> QED BY <1>1, <1>4, <1>5

-----------------------------------------------------------------------------
(* Types, the late source and what is in hand                              *)

(* What a send of any source does: the queue has room, and gets longer.    *)
LEMMA EmitTypes ==
    ASSUME Inv, NEW s, Emit(s)
    PROVE  /\ s \in Sources
           /\ queue' \in [Sources -> Seq(BOOLEAN)]
           /\ \A r \in Sources : Len(queue'[r]) <= QueueLen[r]
           /\ \A r \in Sources : r # s => queue'[r] = queue[r]
           /\ set' \in Seq(Sources)
           /\ fate' \in {"unsent", "accepted", "urgent", "filtered", "dropped",
                         "processed"}
           /\ UNCHANGED <<members, set_mutex, dispatchVars, workVars>>
<1>1. /\ s \in Sources /\ Types
      /\ UNCHANGED <<members, set_mutex, dispatchVars, workVars>>
  BY DEF Emit, Inv
<1>2. PICK x \in BOOLEAN :
         /\ Send(s, x)
         /\ fate' = IF ~x THEN fate
                    ELSE IF s \in Urgent THEN "urgent" ELSE "accepted"
  BY DEF Emit
<1>3. PICK q \in Seq(BOOLEAN) : q = queue[s]
  BY <1>1 DEF Types
<1>4. /\ Append(q, x) \in Seq(BOOLEAN) /\ Len(Append(q, x)) = Len(q) + 1
      /\ Len(q) < QueueLen[s] /\ Len(q) \in Nat /\ QueueLen[s] \in Nat
      /\ queue' = [queue EXCEPT ![s] = Append(q, x)]
  BY <1>1, <1>2, <1>3, BusAssumption DEF Send
<1>5. /\ queue' \in [Sources -> Seq(BOOLEAN)]
      /\ \A r \in Sources : Len(queue'[r]) <= QueueLen[r]
      /\ \A r \in Sources : r # s => queue'[r] = queue[r]
  BY <1>1, <1>4 DEF Types
<1>6. set' \in Seq(Sources)
  BY <1>1, <1>2 DEF Send, Types
<1>7. fate' \in {"unsent", "accepted", "urgent", "filtered", "dropped", "processed"}
  BY <1>1, <1>2 DEF Types
<1> QED BY <1>1, <1>5, <1>6, <1>7

LEMMA TypesStep ==
    ASSUME Inv, [Next]_vars
    PROVE  Types' /\ SpecialIsLate' /\ InHand'
<1> USE DEF busVars, dispatchVars, workVars
<1>0. Types /\ SpecialIsLate /\ InHand
  BY DEF Inv
<1>1. ASSUME NEW s, Emit(s), s # "special", UNCHANGED special
      PROVE  Types' /\ SpecialIsLate' /\ InHand'
  <2>1. Types'
    BY <1>0, <1>1, EmitTypes DEF Types
  <2>2. SpecialIsLate'
    BY <1>0, <1>1, EmitTypes DEF SpecialIsLate
  <2>3. InHand'
    BY <1>0, <1>1, EmitTypes DEF InHand
  <2> QED BY <2>1, <2>2, <2>3
<1>2. CASE SpecialSend
  <2>1. Emit("special") /\ special = "sending" /\ special' = "deleted"
    BY <1>2 DEF SpecialSend
  <2>2. Types'
    BY <1>0, <2>1, EmitTypes DEF Types
  <2>3. SpecialIsLate'
    BY <1>0, <2>1, EmitTypes DEF SpecialIsLate
  <2>4. InHand'
    BY <1>0, <2>1, EmitTypes DEF InHand
  <2> QED BY <2>2, <2>3, <2>4
<1>3. CASE SpecialLock
  BY <1>0, <1>3 DEF SpecialLock, Types, SpecialIsLate, InHand
<1>4. CASE SpecialAdd
  BY <1>0, <1>4 DEF SpecialAdd, Types, SpecialIsLate, InHand
<1>5. CASE Lock
  BY <1>0, <1>5 DEF Lock, Types, SpecialIsLate, InHand
<1>6. CASE Select
  <2>1. Head(set) \in Sources /\ Tail(set) \in Seq(Sources)
    BY <1>0, <1>6 DEF Select, Types
  <2> QED BY <1>0, <1>6, <2>1 DEF Select, Types, SpecialIsLate, InHand
<1>7. CASE Receive
  <2>1. dispatcher = "receiving" /\ member \in Sources
    BY <1>0, <1>7 DEF Receive, InHand
  <2>2. PICK q \in Seq(BOOLEAN) : q = queue[member]
    BY <1>0, <2>1 DEF Types
  <2>3. CASE q = <<>>
    <3>1. /\ dispatcher' = "locking" /\ member' = "nobody" /\ event' = FALSE
          /\ UNCHANGED <<busVars, special, calibrated, workVars, fate>>
      BY <1>7, <2>2, <2>3 DEF Receive, StartOver
    <3> QED BY <1>0, <3>1 DEF Types, SpecialIsLate, InHand
  <2>4. CASE q # <<>>
    <3>1. /\ Tail(q) \in Seq(BOOLEAN) /\ Head(q) \in BOOLEAN
          /\ Len(Tail(q)) <= Len(q) /\ Len(Tail(q)) \in Nat /\ Len(q) \in Nat
      BY <2>4
    <3>2. /\ queue' = [queue EXCEPT ![member] = Tail(q)]
          /\ event' = Head(q)
          /\ dispatcher' \in {"filtering", "dispatching"}
          /\ UNCHANGED <<set, members, set_mutex, special, member, calibrated,
                         workVars, fate>>
      BY <1>7, <2>2, <2>4 DEF Receive
    <3>3. \A r \in Sources : QueueLen[r] \in Nat
      BY BusAssumption
    <3>4. /\ queue' \in [Sources -> Seq(BOOLEAN)]
          /\ \A r \in Sources : Len(queue'[r]) <= QueueLen[r]
      BY <1>0, <2>1, <2>2, <3>1, <3>2, <3>3 DEF Types
    <3>5. Types'
      BY <1>0, <2>1, <3>1, <3>2, <3>4 DEF Types
    <3>6. InHand'
      BY <1>0, <2>1, <3>2 DEF InHand
    <3>7. SpecialIsLate'
      BY <1>0, <2>1, <2>2, <2>4, <3>2 DEF SpecialIsLate, Types
    <3> QED BY <3>5, <3>6, <3>7
  <2> QED BY <2>3, <2>4
<1>8. CASE Filter
  <2>1. /\ dispatcher' \in {"locking", "dispatching"}
        /\ \/ dispatcher' = "locking" /\ member' = "nobody" /\ event' = FALSE
           \/ dispatcher' = "dispatching" /\ UNCHANGED <<member, event>>
        /\ calibrated' \in BOOLEAN
        /\ fate' \in {fate, "filtered"}
        /\ dispatcher = "filtering"
        /\ UNCHANGED <<busVars, special, workVars>>
    BY <1>0, <1>8 DEF Filter, StartOver, Types
  <2> QED BY <1>0, <2>1 DEF Types, SpecialIsLate, InHand
<1>9. CASE Dispatch
  <2>1. /\ dispatcher' = "locking" /\ member' = "nobody" /\ event' = FALSE
        /\ fate' \in {fate, "dropped"}
        /\ UNCHANGED <<busVars, special, calibrated, pc, job>>
    BY <1>9 DEF Dispatch, StartOver
  <2>2. ASSUME NEW q \in Seq(BOOLEAN), Len(q) <= WorkerLen, Len(q) # WorkerLen
        PROVE  Append(q, event) \in Seq(BOOLEAN) /\ Len(Append(q, event)) <= WorkerLen
    BY <1>0, <2>2, BusAssumption DEF Types
  <2>3. high' \in Seq(BOOLEAN) /\ Len(high') <= WorkerLen
    BY <1>0, <1>9, <2>2 DEF Dispatch, Types
  <2>4. low' \in Seq(BOOLEAN) /\ Len(low') <= WorkerLen
    BY <1>0, <1>9, <2>2 DEF Dispatch, Types
  <2> QED BY <1>0, <2>1, <2>3, <2>4 DEF Types, SpecialIsLate, InHand
<1>10. ASSUME NEW w \in Workers, worker_task(w)
       PROVE  Types' /\ SpecialIsLate' /\ InHand'
  <2>0. UNCHANGED <<busVars, special, dispatchVars>>
    BY <1>10 DEF worker_task, PollHigh, WaitLow, process_event
  <2>1. ASSUME NEW q \in Seq(BOOLEAN), q # <<>>, Len(q) <= WorkerLen
        PROVE  /\ Head(q) \in BOOLEAN /\ Tail(q) \in Seq(BOOLEAN)
               /\ Len(Tail(q)) <= WorkerLen
    BY <2>1, BusAssumption
  <2>2. CASE PollHigh(w)
    <3>1. high' \in Seq(BOOLEAN) /\ Len(high') <= WorkerLen /\ job' \in [Workers -> BOOLEAN]
      BY <1>0, <2>1, <2>2 DEF PollHigh, Types
    <3>2. \A v \in Workers : job'[v] => pc'[v] = "processing"
      BY <1>0, <2>2 DEF PollHigh, Types, InHand
    <3>3. pc' \in [Workers -> {"polling", "waiting", "processing"}]
      BY <1>0, <2>2 DEF PollHigh, Types
    <3>4. UNCHANGED <<low, fate>>
      BY <2>2 DEF PollHigh
    <3> QED BY <1>0, <2>0, <3>1, <3>2, <3>3, <3>4 DEF Types, SpecialIsLate, InHand
  <2>3. CASE WaitLow(w)
    <3>1. low' \in Seq(BOOLEAN) /\ Len(low') <= WorkerLen /\ job' \in [Workers -> BOOLEAN]
      BY <1>0, <2>1, <2>3 DEF WaitLow, Types
    <3>2. \A v \in Workers : job'[v] => pc'[v] = "processing"
      BY <1>0, <2>3 DEF WaitLow, Types, InHand
    <3>3. pc' \in [Workers -> {"polling", "waiting", "processing"}]
      BY <1>0, <2>3 DEF WaitLow, Types
    <3>4. UNCHANGED <<high, fate>>
      BY <2>3 DEF WaitLow
    <3> QED BY <1>0, <2>0, <3>1, <3>2, <3>3, <3>4 DEF Types, SpecialIsLate, InHand
  <2>4. CASE process_event(w)
    <3>1. /\ job' \in [Workers -> BOOLEAN]
          /\ pc' \in [Workers -> {"polling", "waiting", "processing"}]
          /\ \A v \in Workers : job'[v] => pc'[v] = "processing"
      BY <1>0, <2>4 DEF process_event, Types, InHand
    <3>2. UNCHANGED <<high, low>> /\ fate' \in {fate, "processed"}
      BY <2>4 DEF process_event
    <3> QED BY <1>0, <2>0, <3>1, <3>2 DEF Types, SpecialIsLate, InHand
  <2> QED BY <1>10, <2>2, <2>3, <2>4 DEF worker_task
<1>11. CASE UNCHANGED vars
  BY <1>0, <1>11 DEF vars, Types, SpecialIsLate, InHand
<1>12. CASE source_task \/ timer_task
  BY <1>1, <1>12 DEF source_task, timer_task
<1> QED
  BY <1>2, <1>3, <1>4, <1>5, <1>6, <1>7, <1>8, <1>9, <1>10, <1>11, <1>12
     DEF Next, event_dispatcher_task

-----------------------------------------------------------------------------
(* The mirror                                                              *)

(* A send to a member adds an event and an entry.                          *)
LEMMA SendIsMirrored ==
    ASSUME Inv, NEW s, Emit(s), s \in members
    PROVE  Mirrored'
<1>1. /\ s \in Sources /\ Types /\ Mirrored /\ UNCHANGED <<dispatcher, member>>
  BY DEF Emit, Inv, dispatchVars
<1>2. PICK x \in BOOLEAN : Send(s, x)
  BY DEF Emit
<1>3. set \in Seq(Sources) /\ set' = Append(set, s)
  BY <1>1, <1>2 DEF Send, Types
<1>4. ASSUME NEW r \in Sources
      PROVE  Entries(r)' = Len(queue[r])'
  <2>1. PICK q \in Seq(BOOLEAN) : q = queue[r]
    BY <1>1 DEF Types
  <2>2. Len(queue'[r]) = Len(q) + (IF s = r THEN 1 ELSE 0)
    BY <1>1, <1>2, <2>1 DEF Send, Types
  <2>3. Cardinality(At(set', r)) = Cardinality(At(set, r)) + (IF s = r THEN 1 ELSE 0)
    BY <1>1, <1>3, AppendedIsCounted
  <2>4. Cardinality(At(set, r)) \in Nat /\ Len(q) \in Nat
    BY <1>3, <2>1, PositionsAreFinite
  <2>5. Cardinality(At(set, r))
            + (IF dispatcher = "receiving" /\ member = r THEN 1 ELSE 0) = Len(q)
    BY <1>1, <2>1, EntriesAre DEF Mirrored
  <2>6. Entries(r)' = Cardinality(At(set', r))
            + (IF dispatcher = "receiving" /\ member = r THEN 1 ELSE 0)
    BY <1>1 DEF Entries, At
  <2> QED BY <2>2, <2>3, <2>4, <2>5, <2>6
<1> QED BY <1>4 DEF Mirrored

LEMMA MirrorStep ==
    ASSUME Inv, [Next]_vars
    PROVE  Mirrored'
<1> USE DEF busVars, dispatchVars, workVars
<1>0. Types /\ Mirrored /\ SpecialIsLate /\ InHand
  BY DEF Inv
<1>1. CASE source_task \/ timer_task
  <2>1. PICK s \in Sources : Emit(s) /\ s # "special"
    BY <1>1, EmitTypes DEF source_task, timer_task
  <2>2. s \in members
    BY <1>0, <2>1 DEF SpecialIsLate, Types
  <2> QED BY <2>1, <2>2, SendIsMirrored
<1>2. CASE SpecialSend
  <2>1. Emit("special") /\ "special" \in members
    BY <1>0, <1>2 DEF SpecialSend, SpecialIsLate
  <2> QED BY <2>1, SendIsMirrored
<1>3. ASSUME UNCHANGED <<queue, set>>,
             \/ dispatcher # "receiving" /\ dispatcher' # "receiving"
             \/ UNCHANGED <<dispatcher, member>>
      PROVE  Mirrored'
  <2> SUFFICES ASSUME NEW r \in Sources
               PROVE  Entries(r)' = Len(queue[r])'
    BY DEF Mirrored
  <2>1. Entries(r) = Len(queue[r])
    BY <1>0 DEF Mirrored
  <2>2. Entries(r)' = Entries(r)
    BY <1>3 DEF Entries
  <2> QED BY <1>3, <2>1, <2>2
<1>4. CASE SpecialLock \/ SpecialAdd
  BY <1>3, <1>4 DEF SpecialLock, SpecialAdd
<1>5. CASE Lock \/ Filter \/ Dispatch
  BY <1>3, <1>5 DEF Lock, Filter, Dispatch, StartOver
<1>6. CASE Select
  <2>1. /\ set \in Seq(Sources) /\ set # <<>> /\ dispatcher = "selecting"
        /\ set' = Tail(set) /\ member' = Head(set) /\ dispatcher' = "receiving"
        /\ UNCHANGED queue
    BY <1>0, <1>6 DEF Select, Types
  <2> SUFFICES ASSUME NEW r \in Sources
               PROVE  Entries(r)' = Len(queue[r])'
    BY DEF Mirrored
  <2>2. Entries(r) = Len(queue[r]) /\ Entries(r) = Cardinality(At(set, r)) + 0
    BY <1>0, <2>1, EntriesAre DEF Mirrored
  <2>3. Entries(r)' = Cardinality(At(Tail(set), r)) + (IF Head(set) = r THEN 1 ELSE 0)
    BY <2>1 DEF Entries, At
  <2>4. Cardinality(At(Tail(set), r)) + (IF Head(set) = r THEN 1 ELSE 0)
            = Cardinality(At(set, r))
    BY <2>1, TakenIsCounted
  <2>5. Cardinality(At(set, r)) \in Nat
    BY <2>1, PositionsAreFinite
  <2> QED BY <2>1, <2>2, <2>3, <2>4, <2>5
<1>7. CASE Receive
  <2>1. dispatcher = "receiving" /\ member \in Sources /\ set \in Seq(Sources)
    BY <1>0, <1>7 DEF Receive, InHand, Types
  <2>2. PICK q \in Seq(BOOLEAN) : q = queue[member]
    BY <1>0, <2>1 DEF Types
  <2>3. Cardinality(At(set, member)) + 1 = Len(q)
        /\ Cardinality(At(set, member)) \in Nat
    BY <1>0, <2>1, <2>2, EntriesAre, PositionsAreFinite DEF Mirrored
  <2>4. q # <<>> /\ Len(Tail(q)) = Cardinality(At(set, member))
    BY <2>3
  <2>5. /\ queue' = [queue EXCEPT ![member] = Tail(q)] /\ UNCHANGED set
        /\ dispatcher' # "receiving"
    BY <1>7, <2>2, <2>4 DEF Receive
  <2> SUFFICES ASSUME NEW r \in Sources
               PROVE  Entries(r)' = Len(queue[r])'
    BY DEF Mirrored
  <2>6. Entries(r)' = Cardinality(At(set, r)) + 0
    BY <2>5 DEF Entries, At
  <2>7. CASE r = member
    BY <1>0, <2>1, <2>3, <2>4, <2>5, <2>6, <2>7 DEF Types
  <2>8. CASE r # member
    <3>1. Cardinality(At(set, r)) + 0 = Len(queue[r])
      BY <1>0, <2>8, EntriesAre DEF Mirrored
    <3> QED BY <1>0, <2>1, <2>5, <2>6, <2>8, <3>1 DEF Types
  <2> QED BY <2>7, <2>8
<1>8. CASE \E w \in Workers : worker_task(w)
  BY <1>3, <1>8 DEF worker_task, PollHigh, WaitLow, process_event
<1>9. CASE UNCHANGED vars
  BY <1>3, <1>9 DEF vars
<1> QED
  BY <1>1, <1>2, <1>4, <1>5, <1>6, <1>7, <1>8, <1>9 DEF Next, event_dispatcher_task

-----------------------------------------------------------------------------
(* The tracked event                                                       *)

(* The places in a queue named n, and those outside the source queues.     *)
In(n, q) == {<<n, k>> : k \in Tracked(q)}
InSources == UNION {{<<s, k>> : k \in Tracked(queue[s])} : s \in Sources}
Jobs == {<<"job", w>> : w \in {v \in Workers : job[v]}}
Hand == IF event THEN {<<"dispatcher", 0>>} ELSE {}

LEMMA PlacesAre ==
    Places = InSources \cup In("high", high) \cup In("low", low) \cup Jobs \cup Hand
<1>1. /\ {<<"high", k>> : k \in Tracked(high)} = In("high", high)
      /\ {<<"low", k>> : k \in Tracked(low)} = In("low", low)
  BY DEF In
<1>2. Places = InSources \cup {<<"high", k>> : k \in Tracked(high)}
                   \cup {<<"low", k>> : k \in Tracked(low)} \cup Jobs \cup Hand
  BY Zenon DEF Places, InSources, Jobs, Hand
<1> QED BY <1>1, <1>2, Zenon

LEMMA PlacesWillBe ==
    Places' = InSources' \cup In("high", high') \cup In("low", low') \cup Jobs' \cup Hand'
<1>1. (Places = InSources \cup In("high", high) \cup In("low", low) \cup Jobs \cup Hand)'
  BY PlacesAre, PTL
<1> QED BY <1>1

LEMMA SourcesHold ==
    ASSUME NEW x
    PROVE  x \in InSources <=> \E s \in Sources : x \in In(s, queue[s])
  BY DEF InSources, In

LEMMA InQueue ==
    ASSUME NEW n, NEW q, NEW x
    PROVE  x \in In(n, q) <=> \E k \in DOMAIN q : q[k] /\ x = <<n, k>>
  BY DEF In, Tracked

(* Without its head a queue has the same places, one further on.           *)
LEMMA TailPlaces ==
    ASSUME NEW n, NEW q \in Seq(BOOLEAN), q # <<>>
    PROVE  /\ Head(q) \in BOOLEAN
           /\ Head(q) <=> <<n, 1>> \in In(n, q)
           /\ \A x \in In(n, Tail(q)) :
                 \E k \in Nat \ {0} : x = <<n, k>> /\ <<n, k + 1>> \in In(n, q)
           /\ \A x \in In(n, q) :
                 x # <<n, 1>> => \E k \in Nat : <<n, k>> \in In(n, Tail(q))
<1>1. /\ Len(q) \in Nat \ {0} /\ DOMAIN q = 1..Len(q)
      /\ DOMAIN Tail(q) = 1..(Len(q) - 1) /\ Head(q) = q[1] /\ q[1] \in BOOLEAN
      /\ \A k \in 1..(Len(q) - 1) : Tail(q)[k] = q[k + 1]
  OBVIOUS
<1>2. Head(q) <=> <<n, 1>> \in In(n, q)
  <2>1. <<n, 1>> \in In(n, q) <=> \E k \in DOMAIN q : q[k] /\ <<n, 1>> = <<n, k>>
    BY InQueue
  <2>2. \A k : <<n, 1>> = <<n, k>> <=> k = 1
    OBVIOUS
  <2>3. 1 \in DOMAIN q
    BY <1>1
  <2>4. <<n, 1>> \in In(n, q) <=> q[1]
    BY <2>1, <2>2, <2>3, Zenon
  <2> QED BY <1>1, <2>4
<1>3. ASSUME NEW x \in In(n, Tail(q))
      PROVE  \E k \in Nat \ {0} : x = <<n, k>> /\ <<n, k + 1>> \in In(n, q)
  <2> DEFINE t == Tail(q)
  <2>0. x \in In(n, t)
    BY <1>3
  <2> HIDE DEF t
  <2>1. PICK k \in DOMAIN t : t[k] /\ x = <<n, k>>
    BY <2>0, InQueue
  <2> USE DEF t
  <2>2. k \in Nat \ {0} /\ k + 1 \in DOMAIN q /\ q[k + 1]
    BY <1>1, <2>1
  <2>3. <<n, k + 1>> \in In(n, q)
    BY <2>2, InQueue
  <2> QED BY <2>1, <2>2, <2>3
<1>4. ASSUME NEW x \in In(n, q), x # <<n, 1>>
      PROVE  \E k \in Nat : <<n, k>> \in In(n, Tail(q))
  <2>1. PICK k \in DOMAIN q : q[k] /\ x = <<n, k>>
    BY <1>4, InQueue
  <2>2. k # 1
    BY <1>4, <2>1
  <2>3. k - 1 \in DOMAIN Tail(q) /\ Tail(q)[k - 1] /\ k - 1 \in Nat
    <3>1. k \in 1..Len(q) /\ k - 1 \in 1..(Len(q) - 1) /\ (k - 1) + 1 = k
      BY <1>1, <2>1, <2>2
    <3> QED BY <1>1, <2>1, <3>1
  <2>4. <<n, k - 1>> \in In(n, Tail(q))
    BY <2>3, InQueue
  <2> QED BY <2>3, <2>4
<1> QED BY <1>1, <1>2, <1>3, <1>4

(* With an element appended it has one place more, if that is tracked.     *)
LEMMA AppendedPlaces ==
    ASSUME NEW n, NEW q \in Seq(BOOLEAN), NEW e \in BOOLEAN
    PROVE  In(n, Append(q, e))
               = In(n, q) \cup (IF e THEN {<<n, Len(q) + 1>>} ELSE {})
<1>1. /\ Len(q) \in Nat /\ DOMAIN q = 1..Len(q)
      /\ DOMAIN Append(q, e) = 1..(Len(q) + 1) /\ Append(q, e)[Len(q) + 1] = e
      /\ \A k \in 1..Len(q) : Append(q, e)[k] = q[k]
  OBVIOUS
<1>2. Tracked(Append(q, e)) = Tracked(q) \cup (IF e THEN {Len(q) + 1} ELSE {})
  BY <1>1 DEF Tracked
<1> QED BY <1>2 DEF In

(* An event leaves the head of a queue for place p, or nothing leaves.     *)
LEMMA TakenFromQueue ==
    ASSUME NEW n, NEW q \in Seq(BOOLEAN), q # <<>>,
           NEW A, NEW p, Lone(A \cup In(n, q)), A \cap In(n, q) = {}
    PROVE  LET P == A \cup In(n, Tail(q)) \cup (IF Head(q) THEN {p} ELSE {})
           IN  Lone(P) /\ (P = {} <=> A \cup In(n, q) = {})
<1> DEFINE I == In(n, q)
           T == In(n, Tail(q))
           h == Head(q)
<1>0. Lone(A \cup I) /\ A \cap I = {}
  OBVIOUS
<1>1. /\ h \in BOOLEAN
      /\ h <=> <<n, 1>> \in I
      /\ \A x \in T : \E k \in Nat \ {0} : x = <<n, k>> /\ <<n, k + 1>> \in I
      /\ \A x \in I : x # <<n, 1>> => \E k \in Nat : <<n, k>> \in T
  BY TailPlaces
<1> HIDE DEF I, T, h
<1>2. /\ \A x, y \in A : x = y
      /\ \A x, y \in I : x = y
      /\ \A x \in A, y \in I : FALSE
  BY <1>0 DEF Lone
<1>3. \A x, y \in T : x = y
  <2> TAKE x, y \in T
  <2>1. PICK k \in Nat \ {0} : x = <<n, k>> /\ <<n, k + 1>> \in I
    BY <1>1
  <2>2. PICK l \in Nat \ {0} : y = <<n, l>> /\ <<n, l + 1>> \in I
    BY <1>1
  <2>3. <<n, k + 1>> = <<n, l + 1>>
    BY <1>2, <2>1, <2>2
  <2> QED BY <2>1, <2>2, <2>3
<1>4. h => T = {}
  <2> SUFFICES ASSUME h, NEW x \in T
               PROVE  FALSE
    OBVIOUS
  <2>1. PICK k \in Nat \ {0} : x = <<n, k>> /\ <<n, k + 1>> \in I
    BY <1>1
  <2>2. <<n, k + 1>> = <<n, 1>>
    BY <1>1, <1>2, <2>1
  <2> QED BY <2>2
<1>5. (T # {} \/ h) <=> I # {}
  BY <1>1
<1>6. A # {} => I = {}
  BY <1>2
<1>7. LET P == A \cup T \cup (IF h THEN {p} ELSE {})
      IN  Lone(P) /\ (P = {} <=> A \cup I = {})
  <2>1. CASE h
    BY <1>1, <1>2, <1>4, <1>5, <1>6, <2>1 DEF Lone
  <2>2. CASE ~h
    BY <1>1, <1>2, <1>3, <1>5, <1>6, <2>2 DEF Lone
  <2> QED BY <1>1, <2>1, <2>2
<1> QED BY <1>7 DEF I, T, h

(* The kinds of places differ in their first component.                    *)
LEMMA KindsOfPlaces ==
    /\ \A n, q : \A x \in In(n, q) : x[1] = n
    /\ \A x \in InSources : x[1] \in AllSources
    /\ \A x \in Jobs : x[1] = "job"
    /\ \A x \in Hand : x[1] = "dispatcher"
    /\ \A n \in {"high", "low", "job", "dispatcher"} : n \notin AllSources
<1>1. \A n, q : \A x \in In(n, q) : x[1] = n
  <2> TAKE n, q
  <2> TAKE x \in In(n, q)
  <2>1. PICK k \in DOMAIN q : x = <<n, k>>
    BY InQueue
  <2> QED BY <2>1
<1>2. \A x \in InSources : x[1] \in AllSources
  BY <1>1, SourcesHold, BusAssumption
<1> QED BY <1>1, <1>2 DEF Jobs, Hand, AllSources

(* An event accepted is in one place more, and that is the only one.       *)
LEMMA SendIsPlaced ==
    ASSUME Inv, NEW s, Emit(s)
    PROVE  Placed'
<1>1. /\ s \in Sources /\ Types /\ Placed
      /\ UNCHANGED <<high, low, job, event>>
  BY DEF Emit, Inv, dispatchVars, workVars
<1>2. PICK x \in BOOLEAN :
         /\ x => fate = "unsent"
         /\ Send(s, x)
         /\ fate' = IF ~x THEN fate
                    ELSE IF s \in Urgent THEN "urgent" ELSE "accepted"
  BY DEF Emit
<1>3. PICK q \in Seq(BOOLEAN) : q = queue[s]
  BY <1>1 DEF Types
<1> DEFINE new == IF x THEN {<<s, Len(q) + 1>>} ELSE {}
<1>4. In(s, queue'[s]) = In(s, q) \cup new
  <2>1. queue'[s] = Append(q, x)
    BY <1>1, <1>2, <1>3 DEF Send, Types
  <2> QED BY <2>1, AppendedPlaces
<1>5. \A r \in Sources : r # s => In(r, queue'[r]) = In(r, queue[r])
  <2>1. \A r \in Sources : r # s => queue'[r] = queue[r]
    BY <1>1, <1>2 DEF Send, Types
  <2> QED BY <2>1
<1> HIDE DEF new
<1>6. InSources' = InSources \cup new
  <2>1. \A y : y \in InSources' <=> \E r \in Sources : y \in In(r, queue'[r])
    BY DEF InSources, In
  <2>2. ASSUME NEW y
        PROVE  y \in InSources' <=> y \in InSources \/ y \in new
    BY <1>1, <1>3, <1>4, <1>5, <2>1, SourcesHold
  <2> QED BY <2>2
<1>7. Places' = Places \cup new
  <2>1. Jobs' = Jobs /\ Hand' = Hand
    BY <1>1 DEF Jobs, Hand
  <2> QED BY <1>1, <1>6, <2>1, PlacesAre, PlacesWillBe
<1>8. CASE x
  <2>1. Places = {} /\ Places' = {<<s, Len(q) + 1>>}
    BY <1>1, <1>2, <1>7, <1>8 DEF Placed, new
  <2> QED BY <1>2, <1>8, <2>1 DEF Placed, Lone
<1>9. CASE ~x
  <2>1. Places' = Places /\ fate' = fate
    BY <1>2, <1>7, <1>9 DEF new
  <2> QED BY <1>1, <2>1 DEF Placed
<1> QED BY <1>8, <1>9

(* The tracked event, if in hand, is nowhere else.                         *)
LEMMA HandIsApart ==
    ASSUME Placed, event
    PROVE  InSources \cup In("high", high) \cup In("low", low) \cup Jobs = {}
<1>1. <<"dispatcher", 0>> \in Hand /\ <<"dispatcher", 0>>[1] = "dispatcher"
  BY DEF Hand
<1>2. \A x \in Places : x = <<"dispatcher", 0>>
  BY <1>1, PlacesAre DEF Placed, Lone
<1>3. "dispatcher" # "high" /\ "dispatcher" # "low" /\ "dispatcher" # "job"
  OBVIOUS
<1>4. \A x \in InSources \cup In("high", high) \cup In("low", low) \cup Jobs :
         x[1] # "dispatcher"
  BY <1>3, KindsOfPlaces
<1> QED BY <1>1, <1>2, <1>4, PlacesAre

(* Filtered or dropped, the event in hand is gone.                         *)
LEMMA SettledInHand ==
    ASSUME Placed, event \in BOOLEAN, UNCHANGED <<queue, high, low, job>>, ~event',
           event => fate' \notin {"accepted", "urgent"}, ~event => fate' = fate
    PROVE  Placed'
<1>1. InSources' = InSources /\ Jobs' = Jobs /\ Hand' = {}
  BY DEF InSources, Jobs, Hand
<1>2. Places' = InSources \cup In("high", high) \cup In("low", low) \cup Jobs
  BY <1>1, PlacesWillBe
<1>3. CASE event
  BY <1>2, <1>3, HandIsApart DEF Placed, Lone
<1>4. CASE ~event
  <2>1. Places' = Places
    BY <1>2, <1>4, PlacesAre DEF Hand
  <2> QED BY <1>4, <2>1 DEF Placed
<1> QED BY <1>3, <1>4

LEMMA ReceiveIsPlaced ==
    ASSUME Inv, Receive
    PROVE  Placed'
<1>1. /\ Types /\ Placed /\ dispatcher = "receiving" /\ member \in Sources
      /\ event = FALSE /\ UNCHANGED <<high, low, job, fate>>
  BY DEF Receive, Inv, InHand, Types, workVars
<1>2. PICK q \in Seq(BOOLEAN) : q = queue[member]
  BY <1>1 DEF Types
<1>3. CASE q = <<>>
  <2>1. UNCHANGED <<queue, high, low, job, fate>> /\ ~event'
    BY <1>1, <1>2, <1>3 DEF Receive, StartOver
  <2> QED BY <1>1, <2>1, SettledInHand
<1>4. CASE q # <<>>
  <2> DEFINE others == InSources \ In(member, q)
             A == others \cup In("high", high) \cup In("low", low) \cup Jobs
  <2>1. queue' = [queue EXCEPT ![member] = Tail(q)] /\ event' = Head(q)
    BY <1>2, <1>4 DEF Receive
  <2>2. In(member, q) \subseteq InSources
    BY <1>1, <1>2, SourcesHold
  <2>3. A \cap In(member, q) = {}
    <3>1. \A x \in In("high", high) \cup In("low", low) \cup Jobs : x[1] # member
      BY <1>1, KindsOfPlaces, BusAssumption
    <3>2. \A x \in In(member, q) : x[1] = member
      BY KindsOfPlaces
    <3> QED BY <3>1, <3>2
  <2>4. Places = A \cup In(member, q)
    BY <1>1, <2>2, PlacesAre DEF Hand
  <2>5. InSources' = others \cup In(member, Tail(q))
    <3>1. \A y : y \in InSources' <=> \E r \in Sources : y \in In(r, queue'[r])
      BY DEF InSources, In
    <3>2. \A r \in Sources : queue'[r] = IF r = member THEN Tail(q) ELSE queue[r]
      BY <1>1, <2>1 DEF Types
    <3>3. ASSUME NEW r \in Sources, r # member, NEW y \in In(r, queue[r])
          PROVE  y \notin In(member, q)
      BY <3>3, KindsOfPlaces
    <3>4. ASSUME NEW y
          PROVE  y \in InSources' <=> y \in others \/ y \in In(member, Tail(q))
      BY <1>1, <1>2, <3>1, <3>2, <3>3, SourcesHold
    <3> QED BY <3>4
  <2>6. Jobs' = Jobs /\ Hand' = IF Head(q) THEN {<<"dispatcher", 0>>} ELSE {}
    BY <1>1, <2>1 DEF Jobs, Hand
  <2>7. Places' = A \cup In(member, Tail(q))
                      \cup (IF Head(q) THEN {<<"dispatcher", 0>>} ELSE {})
    BY <1>1, <2>5, <2>6, PlacesWillBe
  <2> HIDE DEF A
  <2>8. Lone(Places') /\ (Places' = {} <=> Places = {})
    <3>1. Lone(A \cup In(member, q))
      BY <1>1, <2>4 DEF Placed
    <3>2. LET P == A \cup In(member, Tail(q))
                     \cup (IF Head(q) THEN {<<"dispatcher", 0>>} ELSE {})
          IN  Lone(P) /\ (P = {} <=> A \cup In(member, q) = {})
      BY <1>4, <2>3, <3>1, TakenFromQueue, Zenon
    <3> QED BY <2>4, <2>7, <3>2, Zenon
  <2> QED BY <1>1, <2>8 DEF Placed
<1> QED BY <1>3, <1>4

(* From the dispatcher's hand to a worker queue, or dropped.               *)
LEMMA DispatchIsPlaced ==
    ASSUME Inv, Dispatch
    PROVE  Placed'
<1>1. /\ Types /\ Placed /\ event \in BOOLEAN /\ event' = FALSE
      /\ high \in Seq(BOOLEAN) /\ low \in Seq(BOOLEAN)
      /\ UNCHANGED <<queue, job>>
  BY DEF Dispatch, StartOver, Inv, Types, busVars
<1> PICK e \in BOOLEAN : e = event
  BY <1>1
<1>2. InSources' = InSources /\ Jobs' = Jobs /\ Hand' = {}
      /\ Hand = IF e THEN {<<"dispatcher", 0>>} ELSE {}
  BY <1>1 DEF InSources, Jobs, Hand
<1>3. CASE /\ UNCHANGED <<high, low>>
           /\ fate' = IF event THEN "dropped" ELSE fate
  BY <1>1, <1>3, SettledInHand
<1>4. CASE high' = Append(high, event) /\ UNCHANGED <<low, fate>>
  <2> DEFINE A == InSources \cup In("low", low) \cup Jobs
  <2>1. Places = A \cup In("high", high) \cup Hand
    BY PlacesAre
  <2>2. Places' = A \cup In("high", Append(high, e))
    BY <1>2, <1>4, PlacesWillBe
  <2>3. In("high", Append(high, e))
            = In("high", high) \cup (IF e THEN {<<"high", Len(high) + 1>>} ELSE {})
    BY <1>1, AppendedPlaces
  <2>4. CASE e
    <3>1. A \cup In("high", high) = {}
      BY <1>1, <2>4, HandIsApart
    <3>2. Places' = {<<"high", Len(high) + 1>>}
      BY <2>2, <2>3, <2>4, <3>1
    <3>3. Places # {}
      BY <1>2, <2>1, <2>4
    <3> QED BY <1>1, <1>4, <3>2, <3>3 DEF Placed, Lone
  <2>5. CASE ~e
    <3>1. Places' = Places
      BY <1>2, <2>1, <2>2, <2>3, <2>5
    <3> QED BY <1>1, <1>4, <3>1 DEF Placed
  <2> QED BY <2>4, <2>5
<1>5. CASE low' = Append(low, event) /\ UNCHANGED <<high, fate>>
  <2> DEFINE A == InSources \cup In("high", high) \cup Jobs
  <2>1. Places = A \cup In("low", low) \cup Hand
    BY PlacesAre
  <2>2. Places' = A \cup In("low", Append(low, e))
    BY <1>2, <1>5, PlacesWillBe
  <2>3. In("low", Append(low, e))
            = In("low", low) \cup (IF e THEN {<<"low", Len(low) + 1>>} ELSE {})
    BY <1>1, AppendedPlaces
  <2>4. CASE e
    <3>1. A \cup In("low", low) = {}
      BY <1>1, <2>4, HandIsApart
    <3>2. Places' = {<<"low", Len(low) + 1>>}
      BY <2>2, <2>3, <2>4, <3>1
    <3>3. Places # {}
      BY <1>2, <2>1, <2>4
    <3> QED BY <1>1, <1>5, <3>2, <3>3 DEF Placed, Lone
  <2>5. CASE ~e
    <3>1. Places' = Places
      BY <1>2, <2>1, <2>2, <2>3, <2>5
    <3> QED BY <1>1, <1>5, <3>1 DEF Placed
  <2> QED BY <2>4, <2>5
<1> QED BY <1>1, <1>3, <1>4, <1>5 DEF Dispatch

(* From a worker queue to the worker: its job, which was none before.      *)
LEMMA JobTaken ==
    ASSUME Inv, NEW w \in Workers, ~job[w], NEW x \in BOOLEAN,
           job' = [job EXCEPT ![w] = x]
    PROVE  Jobs' = Jobs \cup (IF x THEN {<<"job", w>>} ELSE {})
<1>1. \A v \in Workers : job'[v] = IF v = w THEN x ELSE job[v]
  BY DEF Inv, Types
<1> QED BY <1>1 DEF Jobs

LEMMA PollHighIsPlaced ==
    ASSUME Inv, NEW w \in Workers, PollHigh(w)
    PROVE  Placed'
<1>1. /\ Types /\ Placed /\ high \in Seq(BOOLEAN) /\ ~job[w]
      /\ UNCHANGED <<queue, low, event, fate>>
  BY DEF PollHigh, Inv, InHand, Types, busVars, dispatchVars
<1>2. InSources' = InSources /\ Hand' = Hand
  BY <1>1 DEF InSources, Hand
<1>3. CASE high = <<>>
  <2>1. UNCHANGED <<high, job>>
    BY <1>3 DEF PollHigh
  <2>2. Jobs' = Jobs
    BY <2>1 DEF Jobs
  <2>3. Places' = Places
    BY <1>1, <1>2, <2>1, <2>2, PlacesAre, PlacesWillBe
  <2> QED BY <1>1, <2>3 DEF Placed
<1>4. CASE high # <<>>
  <2> DEFINE A == InSources \cup In("low", low) \cup Jobs \cup Hand
  <2>1. high' = Tail(high) /\ Head(high) \in BOOLEAN
        /\ Jobs' = Jobs \cup (IF Head(high) THEN {<<"job", w>>} ELSE {})
    <3>1. high' = Tail(high) /\ job' = [job EXCEPT ![w] = Head(high)]
      BY <1>4 DEF PollHigh
    <3>2. Head(high) \in BOOLEAN
      BY <1>1, <1>4
    <3> QED BY <1>1, <3>1, <3>2, JobTaken
  <2>2. Places = A \cup In("high", high)
    BY PlacesAre
  <2>3. Places' = A \cup In("high", Tail(high))
                    \cup (IF Head(high) THEN {<<"job", w>>} ELSE {})
    BY <1>1, <1>2, <2>1, PlacesWillBe
  <2>4. A \cap In("high", high) = {}
    <3>1. \A x \in A : x[1] # "high"
      BY KindsOfPlaces, "low" # "high", "job" # "high", "dispatcher" # "high"
    <3>2. \A x \in In("high", high) : x[1] = "high"
      BY KindsOfPlaces
    <3> QED BY <3>1, <3>2
  <2> HIDE DEF A
  <2>5. Lone(A \cup In("high", high))
    BY <1>1, <2>2 DEF Placed
  <2>6. LET P == A \cup In("high", Tail(high))
                   \cup (IF Head(high) THEN {<<"job", w>>} ELSE {})
        IN  Lone(P) /\ (P = {} <=> A \cup In("high", high) = {})
    BY <1>1, <1>4, <2>4, <2>5, TakenFromQueue
  <2> QED BY <1>1, <2>2, <2>3, <2>6 DEF Placed
<1> QED BY <1>3, <1>4

LEMMA WaitLowIsPlaced ==
    ASSUME Inv, NEW w \in Workers, WaitLow(w)
    PROVE  Placed'
<1>1. /\ Types /\ Placed /\ low \in Seq(BOOLEAN) /\ ~job[w] /\ low # <<>>
      /\ UNCHANGED <<queue, high, event, fate>>
  BY DEF WaitLow, Inv, InHand, Types, busVars, dispatchVars
<1>2. InSources' = InSources /\ Hand' = Hand
  BY <1>1 DEF InSources, Hand
<1> DEFINE A == InSources \cup In("high", high) \cup Jobs \cup Hand
<1>3. low' = Tail(low) /\ Head(low) \in BOOLEAN
      /\ Jobs' = Jobs \cup (IF Head(low) THEN {<<"job", w>>} ELSE {})
  <2>1. low' = Tail(low) /\ job' = [job EXCEPT ![w] = Head(low)]
    BY DEF WaitLow
  <2>2. Head(low) \in BOOLEAN
    BY <1>1
  <2> QED BY <1>1, <2>1, <2>2, JobTaken
<1>4. Places = A \cup In("low", low)
  BY PlacesAre
<1>5. Places' = A \cup In("low", Tail(low))
                  \cup (IF Head(low) THEN {<<"job", w>>} ELSE {})
  BY <1>1, <1>2, <1>3, PlacesWillBe
<1>6. A \cap In("low", low) = {}
  <2>1. \A x \in A : x[1] # "low"
    BY KindsOfPlaces, "low" # "high", "job" # "low", "dispatcher" # "low"
  <2>2. \A x \in In("low", low) : x[1] = "low"
    BY KindsOfPlaces
  <2> QED BY <2>1, <2>2
<1> HIDE DEF A
<1>7. Lone(A \cup In("low", low))
  BY <1>1, <1>4 DEF Placed
<1>8. LET P == A \cup In("low", Tail(low))
                 \cup (IF Head(low) THEN {<<"job", w>>} ELSE {})
      IN  Lone(P) /\ (P = {} <=> A \cup In("low", low) = {})
  BY <1>1, <1>6, <1>7, TakenFromQueue
<1> QED BY <1>1, <1>4, <1>5, <1>8 DEF Placed

LEMMA ProcessIsPlaced ==
    ASSUME Inv, NEW w \in Workers, process_event(w)
    PROVE  Placed'
<1>1. /\ Types /\ Placed /\ job[w] \in BOOLEAN /\ job' = [job EXCEPT ![w] = FALSE]
      /\ fate' = IF job[w] THEN "processed" ELSE fate
      /\ UNCHANGED <<queue, high, low, event>>
  BY DEF process_event, Inv, Types, busVars, dispatchVars
<1>2. InSources' = InSources /\ Hand' = Hand /\ Jobs' = Jobs \ {<<"job", w>>}
  <2>1. \A v \in Workers : job'[v] = IF v = w THEN FALSE ELSE job[v]
    BY <1>1 DEF Types
  <2>2. ASSUME NEW x
        PROVE  x \in Jobs' <=> x \in Jobs \ {<<"job", w>>}
    <3>1. x \in Jobs' <=> \E v \in Workers : job'[v] /\ x = <<"job", v>>
      BY DEF Jobs
    <3>2. x \in Jobs <=> \E v \in Workers : job[v] /\ x = <<"job", v>>
      BY DEF Jobs
    <3>3. \A v : <<"job", v>> = <<"job", w>> <=> v = w
      OBVIOUS
    <3> QED BY <2>1, <3>1, <3>2, <3>3
  <2> QED BY <1>1, <2>2 DEF InSources, Hand
<1>3. CASE job[w]
  <2>1. <<"job", w>> \in Jobs
    BY <1>3 DEF Jobs
  <2>2. \A x \in Places : x = <<"job", w>>
    BY <1>1, <2>1, PlacesAre DEF Placed, Lone
  <2>3. \A x \in InSources \cup In("high", high) \cup In("low", low) \cup Hand :
           x # <<"job", w>>
    <3>1. \A x \in InSources \cup In("high", high) \cup In("low", low) \cup Hand :
             x[1] # "job"
      BY KindsOfPlaces, "job" # "high", "job" # "low", "job" # "dispatcher"
    <3> QED BY <3>1
  <2>4. Places' = {}
    BY <1>1, <1>2, <2>2, <2>3, PlacesAre, PlacesWillBe
  <2> QED BY <1>1, <1>3, <2>4 DEF Placed, Lone
<1>4. CASE ~job[w]
  <2>1. <<"job", w>> \notin Jobs
    BY <1>4 DEF Jobs
  <2>2. Places' = Places
    BY <1>1, <1>2, <2>1, PlacesAre, PlacesWillBe
  <2> QED BY <1>1, <1>4, <2>2 DEF Placed
<1> QED BY <1>3, <1>4

LEMMA PlacedStep ==
    ASSUME Inv, [Next]_vars
    PROVE  Placed'
<1> USE DEF busVars, dispatchVars, workVars
<1>0. Types /\ Placed /\ InHand
  BY DEF Inv
<1>1. CASE source_task \/ timer_task \/ SpecialSend
  BY <1>1, SendIsPlaced DEF source_task, timer_task, SpecialSend
<1>2. ASSUME UNCHANGED <<queue, high, low, job, event, fate>>
      PROVE  Placed'
  <2>1. Places' = Places
    BY <1>2 DEF Places
  <2> QED BY <1>0, <1>2, <2>1 DEF Placed
<1>3. CASE SpecialLock \/ SpecialAdd \/ Lock \/ Select \/ UNCHANGED vars
  BY <1>2, <1>3 DEF SpecialLock, SpecialAdd, Lock, Select, vars
<1>4. CASE Filter
  <2>1. CASE event' = FALSE /\ fate' = IF event THEN "filtered" ELSE fate
    <3>1. UNCHANGED <<queue, high, low, job>>
      BY <1>4 DEF Filter
    <3>2. event \in BOOLEAN
      BY <1>0 DEF Types
    <3> QED BY <1>0, <2>1, <3>1, <3>2, SettledInHand
  <2>2. CASE UNCHANGED <<event, fate>>
    BY <1>2, <1>4, <2>2 DEF Filter
  <2> QED BY <1>4, <2>1, <2>2 DEF Filter, StartOver
<1>5. CASE Receive
  BY <1>5, ReceiveIsPlaced
<1>6. CASE Dispatch
  BY <1>6, DispatchIsPlaced
<1>7. CASE \E w \in Workers : worker_task(w)
  BY <1>7, PollHighIsPlaced, WaitLowIsPlaced, ProcessIsPlaced DEF worker_task
<1> QED
  BY <1>1, <1>3, <1>4, <1>5, <1>6, <1>7 DEF Next, event_dispatcher_task

-----------------------------------------------------------------------------
(* The theorems                                                            *)

LEMMA InitInv == Init => Inv
<1> SUFFICES ASSUME Init
             PROVE  Inv
  OBVIOUS
<1> USE DEF Init
<1>0. /\ <<>> \in Seq(BOOLEAN) /\ <<>> \in Seq(Sources) /\ Len(<<>>) = 0
      /\ DOMAIN <<>> = {}
  OBVIOUS
<1>1. Types
  <2>1. \A s \in Sources : QueueLen[s] \in Nat
    BY BusAssumption
  <2>2. queue \in [Sources -> Seq(BOOLEAN)] /\ \A s \in Sources : Len(queue[s]) = 0
    BY <1>0
  <2>3. \A s \in Sources : Len(queue[s]) <= QueueLen[s]
    BY <2>1, <2>2
  <2>4. /\ pc \in [Workers -> {"polling", "waiting", "processing"}]
        /\ job \in [Workers -> BOOLEAN]
    OBVIOUS
  <2>5. /\ special \in {"starting", "adding", "sending", "deleted"}
        /\ members \subseteq Sources /\ set \in Seq(Sources)
        /\ member \in Sources \cup {"nobody"}
    BY <1>0
  <2>6. /\ high \in Seq(BOOLEAN) /\ Len(high) <= WorkerLen
        /\ low \in Seq(BOOLEAN) /\ Len(low) <= WorkerLen
    BY <1>0, BusAssumption
  <2> QED BY <2>2, <2>3, <2>4, <2>5, <2>6 DEF Types
<1>2. SpecialIsLate
  BY DEF SpecialIsLate
<1>3. InHand
  BY DEF InHand
<1>4. Mirrored
  <2> SUFFICES ASSUME NEW s \in Sources
               PROVE  Entries(s) = Len(queue[s])
    BY DEF Mirrored
  <2>1. At(set, s) = {}
    BY <1>0 DEF At
  <2>2. Cardinality(At(set, s)) = 0
    BY <2>1, FS_EmptySet
  <2>3. Len(queue[s]) = 0
    BY <1>0
  <2> QED BY <2>2, <2>3, EntriesAre
<1>5. Placed
  <2>1. \A n : In(n, <<>>) = {}
    BY <1>0 DEF In, Tracked
  <2>2. InSources = {}
    BY <2>1, SourcesHold
  <2>3. Places = {}
    BY <2>1, <2>2, PlacesAre DEF Jobs, Hand
  <2> QED BY <2>3 DEF Placed, Lone
<1> QED BY <1>1, <1>2, <1>3, <1>4, <1>5 DEF Inv

LEMMA Invariance == Spec => []Inv
<1>1. Inv /\ [Next]_vars => Inv'
  BY TypesStep, MirrorStep, PlacedStep DEF Inv
<1> QED BY <1>1, InitInv, PTL DEF Spec

(* The set has an entry for each event in a member queue, the one the      *)
(* dispatcher has selected included: a receive without waiting finds its   *)
(* event, none is left without an entry, and neither the set nor a queue   *)
(* is ever longer than it was made.                                        *)
THEOREM SetMirrors == Spec => []SetMirrorsQueues
<1>1. Inv => SetMirrorsQueues
  <2> SUFFICES ASSUME Inv
               PROVE  SetMirrorsQueues
    OBVIOUS
  <2>1. Types /\ Mirrored
    BY DEF Inv
  <2>2. Len(set) <= SetLen
    BY <2>1, SetFits
  <2>3. TypeOK
    BY <2>1, <2>2 DEF Types, TypeOK
  <2> QED BY <2>1, <2>3 DEF SetMirrorsQueues, Mirrored
<1> QED BY <1>1, Invariance, PTL

(* No event is in two places and none is lost before it is settled,        *)
(* however the sources, the dispatcher and the workers interleave.         *)
THEOREM EventsAreInOnePlace == Spec => []OnePlaceAtATime
<1>1. Inv => OnePlaceAtATime
  <2> SUFFICES ASSUME Inv
               PROVE  OnePlaceAtATime
    OBVIOUS
  <2>1. Lone(Places) /\ (Places # {} <=> fate \in {"accepted", "urgent"})
    BY DEF Inv, Placed
  <2>2. CASE Places = {}
    <3>1. Cardinality(Places) = 0
      BY <2>2, FS_EmptySet
    <3> QED BY <2>1, <2>2, <3>1 DEF OnePlaceAtATime
  <2>3. CASE Places # {}
    <3>1. PICK x : x \in Places
      BY <2>3
    <3>2. Places = {x}
      BY <2>1, <3>1 DEF Lone
    <3>3. Cardinality(Places) = 1
      BY <3>2, FS_Singleton
    <3> QED BY <2>1, <2>3, <3>3 DEF OnePlaceAtATime
  <2> QED BY <2>2, <2>3
<1> QED BY <1>1, Invariance, PTL

=============================================================================
