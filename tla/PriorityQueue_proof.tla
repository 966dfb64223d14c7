------------------------ MODULE PriorityQueue_proof -------------------------
(***************************************************************************)
(* Proofs about PriorityQueue, for every set of positions, tabs and        *)
(* workers and every value of the bounds.                                  *)
(***************************************************************************)
EXTENDS PriorityQueue, SequenceTheorems, FiniteSetTheorems, TLAPS

-----------------------------------------------------------------------------
(* The queue as the set of its entries: what Append and Tail do to it. *)

LEMMA AppendEntry ==
  ASSUME NEW S, NEW q \in Seq(S), NEW e \in S
  PROVE  /\ Append(q, e) \in Seq(S)
         /\ \A i \in DOMAIN q : i \in DOMAIN Append(q, e) /\ Append(q, e)[i] = q[i]
         /\ Len(q) + 1 \in DOMAIN Append(q, e)
         /\ Append(q, e)[Len(q) + 1] = e
         /\ \A i \in DOMAIN Append(q, e) : i \in DOMAIN q \/ Append(q, e)[i] = e
<1>1. /\ Append(q, e) \in Seq(S)
      /\ Len(Append(q, e)) = Len(q) + 1
      /\ \A i \in 1..Len(q) : Append(q, e)[i] = q[i]
      /\ Append(q, e)[Len(q) + 1] = e
  BY AppendProperties
<1>2. DOMAIN q = 1..Len(q) /\ Len(q) \in Nat
  BY LenProperties
<1>3. DOMAIN Append(q, e) = 1..(Len(q) + 1)
  BY <1>1, LenProperties
<1> QED
  BY <1>1, <1>2, <1>3

LEMMA TailEntries ==
  ASSUME NEW S, NEW q \in Seq(S), q # <<>>
  PROVE  /\ Head(q) \in S
         /\ Tail(q) \in Seq(S)
         /\ \A i \in DOMAIN q : q[i] = Head(q) \/ \E j \in DOMAIN Tail(q) : Tail(q)[j] = q[i]
         /\ \A j \in DOMAIN Tail(q) : j + 1 \in DOMAIN q /\ Tail(q)[j] = q[j + 1]
<1>1. /\ Head(q) \in S
      /\ Tail(q) \in Seq(S)
      /\ Len(Tail(q)) = Len(q) - 1
      /\ \A i \in 1..Len(Tail(q)) : Tail(q)[i] = q[i + 1]
  BY HeadTailProperties
<1>2. DOMAIN q = 1..Len(q) /\ Len(q) \in Nat \ {0}
  BY LenProperties, EmptySeq
<1>3. DOMAIN Tail(q) = 1..(Len(q) - 1)
  BY <1>1, LenProperties
<1>4. Head(q) = q[1]
  OBVIOUS
<1>5. ASSUME NEW i \in DOMAIN q, i # 1
      PROVE  i - 1 \in DOMAIN Tail(q) /\ Tail(q)[i - 1] = q[i]
  BY <1>1, <1>2, <1>3, <1>5
<1>6. ASSUME NEW i \in DOMAIN q
      PROVE  q[i] = Head(q) \/ \E j \in DOMAIN Tail(q) : Tail(q)[j] = q[i]
  <2>1. CASE i = 1
    BY <2>1, <1>4
  <2>2. CASE i # 1
    BY <2>2, <1>5
  <2> QED
    BY <2>1, <2>2
<1>7. ASSUME NEW j \in DOMAIN Tail(q)
      PROVE  j + 1 \in DOMAIN q /\ Tail(q)[j] = q[j + 1]
  BY <1>1, <1>2, <1>3
<1> QED
  BY <1>1, <1>6, <1>7

-----------------------------------------------------------------------------
(* Type correctness, faults included. *)

LEMMA TypeInit == Init => TypeOK
  BY DEF Init, TypeOK, Entry, Closed

LEMMA TypeStep == TypeOK /\ [Next]_vars => TypeOK'
<1> SUFFICES ASSUME TypeOK, [Next]_vars PROVE TypeOK'
  OBVIOUS
<1> USE DEF TypeOK
<1>1. ASSUME NEW c \in Clients, Connect(c) PROVE TypeOK'
  <2>1. /\ lastConnID' = lastConnID + 1 /\ sessions' = sessions + 1
        /\ connID' = [connID EXCEPT ![c] = lastConnID + 1]
        /\ session' = [session EXCEPT ![c] = <<restarts, sessions + 1>>]
        /\ UNCHANGED <<redisVars, handlerVars, workerVars, wants, faultVars>>
    BY <1>1 DEF Connect, NextConnID
  <2>2. <<restarts, sessions + 1>> \in Nat \X Nat
    OBVIOUS
  <2>3. session' \in [Clients -> Nat \X Nat]
    BY <2>1, <2>2
  <2>4. /\ lastConnID' \in Nat /\ sessions' \in Nat /\ connID' \in [Clients -> Nat]
        /\ connID'[c] = lastConnID + 1 /\ \A d \in Clients : d # c => connID'[d] = connID[d]
    BY <2>1
  <2>5. \A d \in Clients : connID'[d] <= lastConnID'
    BY <2>1, <2>4
  <2>6. \A d, e \in Clients : d # e /\ connID'[d] # 0 => connID'[d] # connID'[e]
    BY <2>1, <2>4
  <2>7. asking' = asking /\ enqueuing' = enqueuing
    BY <2>1 DEF handlerVars
  <2>8. \A d \in Clients : asking'[d] \cup enqueuing'[d] # {} => connID'[d] # 0
    <3>1. connID'[c] # 0
      BY <2>4
    <3> QED
      BY <2>4, <2>7, <3>1
  <2> QED
    BY <2>1, <2>3, <2>4, <2>5, <2>6, <2>7, <2>8 DEF redisVars, workerVars, faultVars
<1>2. ASSUME NEW c \in Clients, Disconnect(c) PROVE TypeOK'
  BY <1>2 DEF Disconnect, Closed, redisVars, handlerVars, workerVars
<1>3. ASSUME NEW c \in Clients, NEW missing \in SUBSET Positions, Move(c, missing) PROVE TypeOK'
  BY <1>3 DEF Move, redisVars, connVars, handlerVars, workerVars, faultVars
<1>4. ASSUME NEW c \in Clients, Poll(c) \/ GiveUp(c) \/ CheckPending(c) PROVE TypeOK'
  <2>1. CASE Poll(c)
    BY <2>1 DEF Poll, redisVars, connVars, workerVars, faultVars
  <2>2. CASE GiveUp(c)
    BY <2>2 DEF GiveUp, redisVars, connVars, handlerVars, workerVars, faultVars
  <2>3. CASE CheckPending(c)
    BY <2>3 DEF CheckPending, redisVars, connVars, workerVars, faultVars
  <2> QED
    BY <1>4, <2>1, <2>2, <2>3
<1>5. ASSUME NEW c \in Clients, Push(c) PROVE TypeOK'
  <2>1. PICK p \in enqueuing[c] :
          /\ pending' = pending \cup {p}
          /\ queue' = Append(queue, [pos |-> p, conn |-> connID[c], session |-> session[c]])
    BY <1>5 DEF Push
  <2>2. p \in Positions /\ connID[c] # 0
    BY <2>1
  <2>3. [pos |-> p, conn |-> connID[c], session |-> session[c]] \in Entry
    BY <2>2 DEF Entry
  <2>4. queue' \in Seq(Entry)
    BY <2>1, <2>3, AppendEntry
  <2> QED
    BY <1>5, <2>1, <2>2, <2>4 DEF Push, connVars, workerVars, faultVars
<1>6. ASSUME NEW w \in Workers, Pop(w) PROVE TypeOK'
  <2>1. Head(queue) \in Entry /\ Tail(queue) \in Seq(Entry)
    BY <1>6, TailEntries DEF Pop
  <2> QED
    BY <1>6, <2>1 DEF Pop, connVars, handlerVars, faultVars
<1>7. ASSUME NEW w \in Workers, Remove(w) PROVE TypeOK'
  BY <1>7 DEF Remove, PendingAfter, connVars, handlerVars, faultVars
<1>8. ASSUME NEW w \in Workers, Cancel(w) \/ RemoveFails(w) PROVE TypeOK'
  <2>1. CASE Cancel(w)
    BY <2>1 DEF Cancel, redisVars, connVars, handlerVars
  <2>2. CASE RemoveFails(w)
    BY <2>2 DEF RemoveFails, redisVars, connVars, handlerVars
  <2> QED
    BY <1>8, <2>1, <2>2
<1>9. ASSUME NEW w \in Workers, Accept(w) PROVE TypeOK'
  BY <1>9 DEF Accept, redisVars, connVars, handlerVars, faultVars
<1>10. ASSUME NEW w \in Workers, Discard(w) PROVE TypeOK'
  BY <1>10 DEF Discard, redisVars, connVars, handlerVars, faultVars
<1>11. ASSUME NEW w \in Workers, Answer(w) PROVE TypeOK'
  BY <1>11 DEF Answer, redisVars, connVars, handlerVars, faultVars
<1>12. ASSUME NEW w \in Workers, SearchFails(w) PROVE TypeOK'
  BY <1>12 DEF SearchFails, redisVars, connVars, handlerVars
<1>13. CASE Restart
  BY <1>13 DEF Restart, Closed, redisVars
<1>14. CASE UNCHANGED vars
  BY <1>14 DEF vars, redisVars, connVars, handlerVars, workerVars, faultVars
<1> QED
  BY <1>1, <1>2, <1>3, <1>4, <1>5, <1>6, <1>7, <1>8, <1>9, <1>10, <1>11, <1>12, <1>13, <1>14
     DEF Next, Page, Enqueue, Dequeue

(* The state of the queue and its handlers is well formed, whatever faults *)
(* occur: in particular open connections have distinct IDs.                *)
THEOREM TypeCorrect == Spec => []TypeOK
  BY TypeInit, TypeStep, PTL DEF Spec

-----------------------------------------------------------------------------
(* A pending position with somebody to unmark it keeps one: a push makes a *)
(* queue entry, a pop hands the entry to a dequeuer, the removal unmarks.  *)
(* A fault loses only what dequeuers have in their hands.                  *)

Kept(p) == Queued(p) \/ BeingRemoved(p)

LEMMA KeptStep ==
  ASSUME TypeOK, [Next]_vars, restarts' = restarts, cancels' = cancels,
         NEW p \in pending', p \in pending => Kept(p)
  PROVE  Kept(p)'
<1> USE DEF Kept
<1>0. restarts \in Nat /\ cancels \in Nat
  BY DEF TypeOK
<1>1. ASSUME NEW c \in Clients, Push(c) PROVE Kept(p)'
  <2>1. PICK q \in enqueuing[c] :
          /\ pending' = pending \cup {q}
          /\ queue' = Append(queue, [pos |-> q, conn |-> connID[c], session |-> session[c]])
    BY <1>1 DEF Push
  <2> DEFINE e == [pos |-> q, conn |-> connID[c], session |-> session[c]]
  <2>2. e \in Entry
    BY <2>1 DEF TypeOK, Entry
  <2>3. queue \in Seq(Entry) /\ queue' = Append(queue, e)
    BY <2>1 DEF TypeOK
  <2>4. pc' = pc /\ entry' = entry
    BY <1>1 DEF Push, workerVars
  <2>5. CASE p = q
    <3>1. Len(queue) + 1 \in DOMAIN queue' /\ queue'[Len(queue) + 1] = e
      BY <2>2, <2>3, AppendEntry
    <3> QED
      BY <2>5, <3>1 DEF Queued
  <2>6. CASE p \in pending
    <3>1. CASE Queued(p)
      <4>1. PICK i \in DOMAIN queue : queue[i].pos = p
        BY <3>1 DEF Queued
      <4>2. i \in DOMAIN queue' /\ queue'[i] = queue[i]
        BY <2>2, <2>3, AppendEntry
      <4> QED
        BY <4>1, <4>2 DEF Queued
    <3>2. CASE BeingRemoved(p)
      BY <3>2, <2>4 DEF BeingRemoved
    <3> QED
      BY <2>6, <3>1, <3>2
  <2> QED
    BY <2>1, <2>5, <2>6
<1>2. ASSUME NEW w \in Workers, Pop(w) PROVE Kept(p)'
  <2>1. /\ queue # <<>> /\ queue \in Seq(Entry) /\ queue' = Tail(queue) /\ pending' = pending
        /\ pc[w] = "idle" /\ pc' = [pc EXCEPT ![w] = "popped"]
        /\ entry' = [entry EXCEPT ![w] = Head(queue)]
        /\ pc \in [Workers -> {"idle", "popped", "removed", "accepted"}]
        /\ entry \in [Workers -> Entry \cup {NoEntry}]
    BY <1>2 DEF Pop, TypeOK
  <2>2. CASE Queued(p)
    <3>1. PICK i \in DOMAIN queue : queue[i].pos = p
      BY <2>2 DEF Queued
    <3>2. queue[i] = Head(queue) \/ \E j \in DOMAIN queue' : queue'[j] = queue[i]
      BY <2>1, TailEntries
    <3>3. CASE queue[i] = Head(queue)
      <4>1. pc'[w] = "popped" /\ entry'[w] = Head(queue)
        BY <2>1
      <4> QED
        BY <3>1, <3>3, <4>1 DEF BeingRemoved
    <3> QED
      BY <3>1, <3>2, <3>3 DEF Queued
  <2>3. CASE BeingRemoved(p)
    <3>1. PICK v \in Workers : pc[v] = "popped" /\ entry[v].pos = p
      BY <2>3 DEF BeingRemoved
    <3>2. v # w /\ pc'[v] = pc[v] /\ entry'[v] = entry[v]
      BY <2>1, <3>1
    <3> QED
      BY <3>1, <3>2 DEF BeingRemoved
  <2> QED
    BY <2>1, <2>2, <2>3
<1>3. ASSUME NEW w \in Workers, Remove(w) PROVE Kept(p)'
  <2>1. p \in pending /\ p # entry[w].pos /\ queue' = queue /\ entry' = entry
    BY <1>3 DEF Remove, PendingAfter
  <2>2. \A v \in Workers : v # w => pc'[v] = pc[v]
    BY <1>3 DEF Remove, TypeOK
  <2> QED
    BY <2>1, <2>2 DEF Queued, BeingRemoved
<1>4. ASSUME pending' = pending, queue' = queue, entry' = entry, pc' = pc
      PROVE  Kept(p)'
  BY <1>4 DEF Queued, BeingRemoved
<1>5. ASSUME pending' = pending, queue' = queue,
             NEW w \in Workers, pc[w] # "popped",
             \A v \in Workers : v # w => pc'[v] = pc[v] /\ entry'[v] = entry[v]
      PROVE  Kept(p)'
  BY <1>5 DEF Queued, BeingRemoved
<1>6. ASSUME NEW w \in Workers, Accept(w) \/ Discard(w) \/ Answer(w) \/ SearchFails(w)
      PROVE  Kept(p)'
  <2>1. pending' = pending /\ queue' = queue /\ pc[w] # "popped"
    BY <1>6 DEF Accept, Discard, Answer, SearchFails, redisVars
  <2>2. \A v \in Workers : v # w => pc'[v] = pc[v] /\ entry'[v] = entry[v]
    BY <1>6 DEF Accept, Discard, Answer, SearchFails, TypeOK
  <2> QED
    BY <1>5, <2>1, <2>2
<1>7. ASSUME NEW c \in Clients,
             \/ Connect(c) \/ Disconnect(c) \/ Poll(c) \/ GiveUp(c) \/ CheckPending(c)
             \/ \E missing \in SUBSET Positions : Move(c, missing)
      PROVE  Kept(p)'
  BY <1>4, <1>7 DEF Connect, Disconnect, Poll, GiveUp, Move, CheckPending, redisVars, workerVars
<1>8. ASSUME NEW w \in Workers, Cancel(w) \/ RemoveFails(w) PROVE FALSE
  BY <1>0, <1>8 DEF Cancel, RemoveFails
<1>9. ~ Restart
  BY <1>0 DEF Restart
<1>10. CASE UNCHANGED vars
  BY <1>4, <1>10 DEF vars, redisVars, workerVars
<1> QED
  BY <1>1, <1>2, <1>3, <1>6, <1>7, <1>8, <1>9, <1>10 DEF Next, Page, Enqueue, Dequeue

(* How many positions a step can leave without anybody to unmark them.     *)
LEMMA CancelLoses ==
  ASSUME NEW w \in Workers, Cancel(w) \/ RemoveFails(w), TypeOK
  PROVE  Stuck' \subseteq Stuck \cup {entry[w].pos}
<1>1. pending' = pending /\ queue' = queue
  BY DEF Cancel, RemoveFails, redisVars
<1>2. \A v \in Workers : v # w => pc'[v] = pc[v] /\ entry'[v] = entry[v]
  BY DEF Cancel, RemoveFails, TypeOK
<1>3. ASSUME NEW p \in Stuck' PROVE p \in Stuck \cup {entry[w].pos}
  BY <1>1, <1>2, <1>3 DEF Stuck, Queued, BeingRemoved
<1> QED
  BY <1>3

InHand == {entry[w].pos : w \in Workers}

LEMMA RestartLoses ==
  ASSUME Restart, TypeOK
  PROVE  Stuck' \subseteq Stuck \cup InHand
<1>1. pending' = pending /\ queue' = queue
  BY DEF Restart, redisVars
<1> QED
  BY <1>1 DEF Stuck, Queued, BeingRemoved, InHand

LEMMA InHandBounded == IsFiniteSet(InHand) /\ Cardinality(InHand) <= Cardinality(Workers)
<1> DEFINE f == [w \in Workers |-> entry[w].pos]
<1>1. f \in Surjection(Workers, InHand)
  BY DEF Surjection, InHand
<1> QED
  BY <1>1, FS_Surjection, QueueAssumption

LEMMA OtherStepsLoseNone ==
  ASSUME TypeOK, [Next]_vars, restarts' = restarts, cancels' = cancels
  PROVE  Stuck' \subseteq Stuck
<1>1. ASSUME NEW p \in Stuck', p \notin Stuck PROVE FALSE
  <2>1. p \in pending' /\ ~Kept(p)'
    BY <1>1 DEF Stuck, Kept
  <2>2. p \in pending => Kept(p)
    BY <1>1 DEF Stuck, Kept
  <2> QED
    BY <2>1, <2>2, KeptStep
<1> QED
  BY <1>1

(* The inductive invariant: what is stuck can be counted, and was lost. *)
StuckBounded == IsFiniteSet(Stuck) /\ StuckOnlyByFaults

(* A set that grew by at most n elements. *)
LEMMA GrownBy ==
  ASSUME NEW S, NEW T, NEW U, IsFiniteSet(S), IsFiniteSet(T), U \subseteq S \cup T
  PROVE  IsFiniteSet(U) /\ Cardinality(U) <= Cardinality(S) + Cardinality(T)
<1>1. IsFiniteSet(S \cup T) /\ Cardinality(S \cup T) = Cardinality(S) + Cardinality(T) - Cardinality(S \cap T)
  BY FS_Union
<1>2. IsFiniteSet(S \cap T)
  BY FS_Intersection
<1>3. IsFiniteSet(U) /\ Cardinality(U) <= Cardinality(S \cup T)
  BY <1>1, FS_Subset
<1>4. Cardinality(S) \in Nat /\ Cardinality(T) \in Nat /\ Cardinality(S \cap T) \in Nat /\ Cardinality(U) \in Nat
  BY <1>2, <1>3, FS_CardinalityType
<1> QED
  BY <1>1, <1>3, <1>4

LEMMA StuckStep == TypeOK /\ StuckBounded /\ [Next]_vars => StuckBounded'
<1> SUFFICES ASSUME TypeOK, StuckBounded, [Next]_vars PROVE StuckBounded'
  OBVIOUS
<1> DEFINE n == Cardinality(Workers)
<1>1. /\ n \in Nat /\ Cardinality(Stuck) \in Nat /\ restarts \in Nat /\ cancels \in Nat
      /\ Cardinality(Stuck) <= cancels + restarts * n
  BY QueueAssumption, FS_CardinalityType DEF StuckBounded, StuckOnlyByFaults, TypeOK
<1>2. ASSUME NEW w \in Workers, Cancel(w) \/ RemoveFails(w) PROVE StuckBounded'
  <2>1. restarts' = restarts /\ cancels' = cancels + 1
    BY <1>2 DEF Cancel, RemoveFails
  <2>2. Stuck' \subseteq Stuck \cup {entry[w].pos}
    BY <1>2, CancelLoses
  <2> DEFINE lost == {entry[w].pos}
  <2>3. IsFiniteSet(lost) /\ Cardinality(lost) = 1
    BY FS_Singleton
  <2>4. IsFiniteSet(Stuck') /\ Cardinality(Stuck') <= Cardinality(Stuck) + Cardinality(lost)
    BY <2>2, <2>3, GrownBy DEF StuckBounded
  <2>5. IsFiniteSet(Stuck') /\ Cardinality(Stuck') <= Cardinality(Stuck) + 1
    BY <2>3, <2>4
  <2>6. Cardinality(Stuck') \in Nat /\ restarts * n \in Nat
    BY <1>1, <2>5, FS_CardinalityType
  <2>7. Cardinality(Stuck') <= cancels' + restarts' * n
    BY <1>1, <2>1, <2>5, <2>6
  <2> QED
    BY <2>5, <2>7 DEF StuckBounded, StuckOnlyByFaults
<1>3. CASE Restart
  <2>1. restarts' = restarts + 1 /\ cancels' = cancels
    BY <1>3 DEF Restart
  <2>2. Stuck' \subseteq Stuck \cup InHand
    BY <1>3, RestartLoses
  <2>3. IsFiniteSet(Stuck') /\ Cardinality(Stuck') <= Cardinality(Stuck) + Cardinality(InHand)
    BY <2>2, GrownBy, InHandBounded DEF StuckBounded
  <2>4. Cardinality(Stuck') \in Nat /\ Cardinality(InHand) \in Nat
    BY <2>3, InHandBounded, FS_CardinalityType
  <2>5. (restarts + 1) * n = restarts * n + n /\ restarts * n \in Nat
    BY <1>1
  <2>6. Cardinality(Stuck') <= cancels' + restarts' * n
    BY <1>1, <2>1, <2>3, <2>4, <2>5, InHandBounded
  <2> QED
    BY <2>3, <2>6 DEF StuckBounded, StuckOnlyByFaults
<1>4. ASSUME restarts' = restarts, cancels' = cancels PROVE StuckBounded'
  <2>1. Stuck' \subseteq Stuck
    BY <1>4, OtherStepsLoseNone
  <2>2. IsFiniteSet(Stuck') /\ Cardinality(Stuck') <= Cardinality(Stuck)
    BY <2>1, FS_Subset DEF StuckBounded
  <2>3. Cardinality(Stuck') \in Nat /\ restarts * n \in Nat
    BY <1>1, <2>2, FS_CardinalityType
  <2> QED
    BY <1>1, <1>4, <2>2, <2>3 DEF StuckBounded, StuckOnlyByFaults
<1>5. (restarts' = restarts /\ cancels' = cancels) \/ Restart \/ \E w \in Workers : Cancel(w) \/ RemoveFails(w)
  BY DEF Next, Page, Enqueue, Dequeue, Connect, Disconnect, Move, Poll, GiveUp, CheckPending, Push,
         Pop, Remove, Accept, Discard, Answer, SearchFails, vars, faultVars
<1> QED
  BY <1>2, <1>3, <1>4, <1>5

(* No position is marked in priority_pending with nobody to unmark it but  *)
(* those that failed SREMs left, and that canceled requests and crashes of  *)
(* the server took from a dequeuer: without faults, enqueuePriority can always queue a position   *)
(* again in the end.                                                       *)
THEOREM StuckPositionsWereLost == Spec => []StuckOnlyByFaults
<1>1. Init => StuckBounded
  <2> SUFFICES ASSUME Init PROVE StuckBounded
    OBVIOUS
  <2>1. Stuck = {}
    BY DEF Init, Stuck
  <2>2. Cardinality(Workers) \in Nat
    BY QueueAssumption, FS_CardinalityType
  <2> QED
    BY <2>1, <2>2, FS_EmptySet DEF Init, StuckBounded, StuckOnlyByFaults
<1>2. StuckBounded => StuckOnlyByFaults
  BY DEF StuckBounded
<1> QED
  BY <1>1, <1>2, TypeInit, TypeStep, StuckStep, PTL DEF Spec

-----------------------------------------------------------------------------
(* What an entry's connection ID says about its connection: as long as the *)
(* counter is not reset, whoever has the ID now is who asked.              *)

TrueID(e) ==
  /\ e.conn <= lastConnID
  /\ \A c \in Clients : connID[c] = e.conn => session[c] = e.session

IDsTrue ==
  restarts = 0 =>
    /\ \A i \in DOMAIN queue : TrueID(queue[i])
    /\ \A w \in Workers : pc[w] # "idle" => TrueID(entry[w])
    /\ \A w \in Workers : ~late[w]

LEMMA IDsTrueStep == TypeOK /\ IDsTrue /\ [Next]_vars => IDsTrue'
<1> SUFFICES ASSUME TypeOK, IDsTrue, [Next]_vars, restarts' = 0 PROVE IDsTrue'
  BY DEF IDsTrue
<1>1. restarts = 0 /\ ~Restart /\ queue \in Seq(Entry)
  <2>1. restarts \in Nat /\ queue \in Seq(Entry)
    BY DEF TypeOK
  <2>2. ~Restart
    BY <2>1 DEF Restart
  <2>3. restarts' = restarts
    BY <2>2 DEF Next, Page, Enqueue, Dequeue, Connect, Disconnect, Move, Poll, GiveUp, CheckPending, Push,
                Pop, Remove, Cancel, RemoveFails, Accept, Discard, Answer, SearchFails, vars, faultVars
  <2> QED
    BY <2>1, <2>2, <2>3
<1>2. ASSUME NEW c \in Clients, Connect(c) PROVE IDsTrue'
  <2>1. /\ lastConnID' = lastConnID + 1 /\ session' = [session EXCEPT ![c] = <<restarts, sessions + 1>>]
        /\ connID' = [connID EXCEPT ![c] = lastConnID + 1]
        /\ queue' = queue /\ entry' = entry /\ pc' = pc /\ late' = late
    BY <1>2 DEF Connect, NextConnID, redisVars, workerVars
  <2>2. ASSUME NEW e \in Entry, TrueID(e) PROVE TrueID(e)'
    BY <2>1, <2>2 DEF TrueID, TypeOK, Entry
  <2>3. \A i \in DOMAIN queue : queue[i] \in Entry
    BY <1>1
  <2> QED
    BY <1>1, <2>1, <2>2, <2>3 DEF IDsTrue, TypeOK
<1>3. ASSUME NEW c \in Clients, Disconnect(c) PROVE IDsTrue'
  <2>1. /\ lastConnID' = lastConnID /\ session' = [session EXCEPT ![c] = Closed]
        /\ connID' = [connID EXCEPT ![c] = 0]
        /\ queue' = queue /\ entry' = entry /\ pc' = pc /\ late' = late
    BY <1>3 DEF Disconnect, redisVars, workerVars
  <2>2. ASSUME NEW e \in Entry, TrueID(e) PROVE TrueID(e)'
    BY <2>1, <2>2 DEF TrueID, TypeOK, Entry
  <2>3. \A i \in DOMAIN queue : queue[i] \in Entry
    BY <1>1
  <2> QED
    BY <1>1, <2>1, <2>2, <2>3 DEF IDsTrue, TypeOK
<1>4. ASSUME lastConnID' = lastConnID, connID' = connID, session' = session, NEW e, TrueID(e)
      PROVE  TrueID(e)'
  BY <1>4 DEF TrueID
<1>5. ASSUME NEW c \in Clients, Push(c) PROVE IDsTrue'
  <2>1. PICK q \in enqueuing[c] :
          queue' = Append(queue, [pos |-> q, conn |-> connID[c], session |-> session[c]])
    BY <1>5 DEF Push
  <2> DEFINE e == [pos |-> q, conn |-> connID[c], session |-> session[c]]
  <2>2. connID[c] # 0 /\ e \in Entry
    BY <2>1 DEF TypeOK, Entry
  <2>3. UNCHANGED <<connVars, workerVars>>
    BY <1>5 DEF Push
  <2>4. TrueID(e)
    BY <2>2 DEF TrueID, TypeOK
  <2>5. \A i \in DOMAIN queue' : (i \in DOMAIN queue /\ queue'[i] = queue[i]) \/ queue'[i] = e
    BY <1>1, <2>1, <2>2, AppendEntry
  <2> QED
    BY <1>1, <1>4, <2>3, <2>4, <2>5 DEF IDsTrue, connVars, workerVars
<1>6. ASSUME NEW w \in Workers, Pop(w) PROVE IDsTrue'
  <2>1. /\ queue # <<>> /\ queue' = Tail(queue) /\ late' = late
        /\ entry' = [entry EXCEPT ![w] = Head(queue)] /\ pc' = [pc EXCEPT ![w] = "popped"]
        /\ UNCHANGED connVars
    BY <1>6 DEF Pop
  <2>2. \A j \in DOMAIN queue' : j + 1 \in DOMAIN queue /\ queue'[j] = queue[j + 1]
    BY <1>1, <2>1, TailEntries
  <2>3. Head(queue) = queue[1] /\ 1 \in DOMAIN queue
    BY <1>1, <2>1
  <2>4. \A v \in Workers : v # w => pc'[v] = pc[v] /\ entry'[v] = entry[v]
    BY <2>1 DEF TypeOK
  <2>5. entry'[w] = queue[1]
    BY <2>1, <2>3 DEF TypeOK
  <2> QED
    BY <1>1, <1>4, <2>1, <2>2, <2>3, <2>4, <2>5 DEF IDsTrue, connVars
<1>7. ASSUME NEW w \in Workers, Accept(w) PROVE IDsTrue'
  <2>1. PICK c \in Clients : connID[c] # 0 /\ connID[c] = entry[w].conn
    BY <1>7 DEF Accept, ConnLive, LiveConns
  <2>2. entry[w].session \in OpenSessions
    BY <1>1, <1>7, <2>1 DEF Accept, IDsTrue, TrueID, OpenSessions
  <2>3. /\ queue' = queue /\ entry' = entry /\ UNCHANGED connVars
        /\ late' = [late EXCEPT ![w] = FALSE]
        /\ \A v \in Workers : pc'[v] # "idle" => pc[v] # "idle"
    BY <1>7, <2>2 DEF Accept, redisVars, TypeOK
  <2>4. \A v \in Workers : ~late'[v]
    BY <1>1, <2>3 DEF IDsTrue, TypeOK
  <2> QED
    BY <1>1, <1>4, <2>3, <2>4 DEF IDsTrue, connVars
<1>8. ASSUME NEW w \in Workers,
             Remove(w) \/ Cancel(w) \/ RemoveFails(w) \/ Discard(w) \/ Answer(w) \/ SearchFails(w)
      PROVE  IDsTrue'
  <2>1. queue' = queue /\ UNCHANGED connVars
    BY <1>8 DEF Remove, Cancel, RemoveFails, Discard, Answer, SearchFails, redisVars
  <2>2. \A v \in Workers : pc'[v] # "idle" => pc[v] # "idle" /\ entry'[v] = entry[v]
    BY <1>8 DEF Remove, Cancel, RemoveFails, Discard, Answer, SearchFails, TypeOK
  <2>3. \A v \in Workers : ~late'[v]
    BY <1>1, <1>8 DEF Remove, Cancel, RemoveFails, Discard, Answer, SearchFails, IDsTrue, TypeOK
  <2> QED
    BY <1>1, <1>4, <2>1, <2>2, <2>3 DEF IDsTrue, connVars
<1>9. ASSUME NEW c \in Clients,
             Poll(c) \/ GiveUp(c) \/ CheckPending(c) \/ \E missing \in SUBSET Positions : Move(c, missing)
      PROVE  IDsTrue'
  BY <1>1, <1>9 DEF Poll, GiveUp, CheckPending, Move, IDsTrue, TrueID, redisVars, connVars, workerVars
<1>10. CASE UNCHANGED vars
  BY <1>1, <1>10 DEF vars, IDsTrue, TrueID, redisVars, connVars, workerVars
<1> QED
  BY <1>1, <1>2, <1>3, <1>5, <1>6, <1>7, <1>8, <1>9, <1>10 DEF Next, Page, Enqueue, Dequeue

(* Until the server restarts, no worker is handed an entry of a closed     *)
(* connection, although connLive knows the entry's connection by its ID    *)
(* alone and tabs come and go.                                             *)
THEOREM DeadEntriesDiscarded == Spec => []ClosedConnectionsDiscarded
<1>1. Init => IDsTrue
  BY DEF Init, IDsTrue
<1>2. IDsTrue => ClosedConnectionsDiscarded
  BY DEF IDsTrue, ClosedConnectionsDiscarded
<1> QED
  BY <1>1, <1>2, TypeInit, TypeStep, IDsTrueStep, PTL DEF Spec
=============================================================================
